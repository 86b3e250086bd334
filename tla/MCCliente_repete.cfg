SPECIFICATION Spec
CONSTANTS
  MAXIMO_BUFFER = 1
  Tipos <- Todos
  MaxPedidos = 2
  MaxLigacoes = 2
  MaxQuedas = 2
INVARIANTS
  TypeOK
  NadaSePerde
  RepeticoesContadas
PROPERTIES
  VoltaALigar
CHECK_DEADLOCK FALSE
