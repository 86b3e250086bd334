--------------------------- MODULE MCVistaPrecos ---------------------------
(* The pages and ideas of the run of VistaPrecos, as model values. *)
EXTENDS VistaPrecos
CONSTANTS p1, p2, i1, i2
=============================================================================
