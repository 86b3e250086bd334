SPECIFICATION Spec
CONSTANTS
  n1 = n1
  n2 = n2
  n3 = n3
  ana = ana
  rui = rui
  ninguem = ninguem
  Navegadores = {n1, n2, n3}
  Utilizadores = {ana, rui}
  Ninguem = ninguem
INVARIANTS
  SessaoDeQuemEntrou
  AcessoDoProprio
