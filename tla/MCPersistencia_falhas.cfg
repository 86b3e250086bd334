SPECIFICATION Spec
CONSTANTS
  ana = ana
  rui = rui
  root = root
  Nomes = {ana, rui}
  Root = root
  SaldoInicial = 2
  Precos = {1, 2}
  MaxOperacoes = 5
  MaxParagens = 2
  MaxTopicos = 2
PROPERTIES
  RecuperaConfirmado
  IdentificadoresValem
CHECK_DEADLOCK FALSE
