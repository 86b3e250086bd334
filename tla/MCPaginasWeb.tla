--------------------------- MODULE MCPaginasWeb ---------------------------
(* The users of the runs of PaginasWeb, as model values. *)
EXTENDS PaginasWeb, TLC
CONSTANTS ana, rui, ninguem
Simetria == Permutations(Utilizadores)
=============================================================================
