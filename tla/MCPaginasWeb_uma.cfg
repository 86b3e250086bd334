SPECIFICATION Spec
CONSTANTS
  ana = ana
  rui = rui
  ninguem = ninguem
  Utilizadores = {ana, rui}
  Ninguem = ninguem
  Saldo = 2
  MaxIdeias = 3
  MaxApagadas = 2
SYMMETRY Simetria
INVARIANTS
  TypeOK
  ApagaAPedida
  MostraAPedida
  PublicacaoFica
  PublicacaoTemIdeia
CHECK_DEADLOCK FALSE
