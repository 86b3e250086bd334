SPECIFICATION Spec
CONSTANTS
  ana = ana
  rui = rui
  tema1 = tema1
  f1 = f1
  f2 = f2
  Fios = {f1, f2}
  Nomes = {ana, rui}
  Temas = {tema1}
  Operacoes <- Todas
  SaldoInicial = 3
  Valores = {1}
  MaxChamadas = 6
SYMMETRY Simetria
INVARIANTS
  NomesUnicos
  IdNaPosicao
  IdeiasPorOrdem
  DinheiroExacto
  SaldoChega
CHECK_DEADLOCK FALSE
