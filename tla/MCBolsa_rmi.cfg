SPECIFICATION FairSpec
CONSTANTS
  ana = ana
  rui = rui
  eva = eva
  root = root
  Utilizadores = {ana, rui, root}
  Root = root
  Total = 4
  SaldoInicial = 8
  Moeda = 4
  Tecto = 8
  Precos = {2}
  Investimentos = {6}
  Percentagens = {1, 3}
  Concorrente = TRUE
  Carregados <- GuardadasRMI
  MaxPedidos = 3
  MaxIdeias = 3
PROPERTY MonitorLibertado
CHECK_DEADLOCK FALSE
