SPECIFICATION SpecVista
CONSTANTS
  p1 = p1
  p2 = p2
  i1 = i1
  i2 = i2
  Paginas = {p1, p2}
  Ideias = {i1, i2}
  MaxCompras = 2
  MaxTotal = 3
INVARIANTS
  TypeOKVista
  VistaActual
PROPERTIES
  VistaActualiza
CHECK_DEADLOCK FALSE
