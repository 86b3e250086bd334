SPECIFICATION SpecAnexos
CONSTANTS
  a = a
  b = b
  nenhum = nenhum
  Clientes = {a, b}
  Nenhum = nenhum
  MaxBlocos = 2
INVARIANTS
  TypeOKAnexos
  InteiroNoFim
  FicheiroDoPedido
PROPERTIES
  AnexoChega
CHECK_DEADLOCK FALSE
