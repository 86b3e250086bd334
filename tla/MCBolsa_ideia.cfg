SPECIFICATION Spec
CONSTANTS
  ana = ana
  rui = rui
  eva = eva
  root = root
  Utilizadores = {ana, rui, root}
  Root = root
  Total = 4
  SaldoInicial = 8
  Moeda = 4
  Tecto = 8
  Precos = {2, 8}
  Investimentos = {6}
  Percentagens = {0, 1, 3, 4}
  Concorrente = FALSE
  Carregados <- Guardadas
  MaxPedidos = 3
  MaxIdeias = 3
INVARIANT CompraDaIdeiaPedida
CHECK_DEADLOCK FALSE
