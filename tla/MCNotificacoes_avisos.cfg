SPECIFICATION Spec
CONSTANTS
  ana = ana
  rui = rui
  ninguem = ninguem
  p1 = p1
  Utilizadores = {ana, rui}
  Ninguem = ninguem
  Processos = {p1}
  MaxSessoes = 2
  MaxNotas = 2
INVARIANTS
  TypeOK
  RespondidaEntaoAvisados
  CompraRespondida
  AvisosPorLigacao
PROPERTIES
  AcabaSempre
CHECK_DEADLOCK FALSE
