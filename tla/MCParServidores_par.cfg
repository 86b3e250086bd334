SPECIFICATION Spec
CONSTANTS
  s1 = s1
  s2 = s2
  A = s1
  B = s2
  MaxQuedas = 4
  MaxFalhas = 2
INVARIANTS
  UmPrimario
  TomaPosse
PROPERTIES
  ImplementaPrimario
CHECK_DEADLOCK FALSE
