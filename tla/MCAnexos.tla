------------------------------ MODULE MCAnexos ------------------------------
(* The clients of the run of Anexos, as model values. *)
EXTENDS Anexos
CONSTANTS a, b, nenhum
=============================================================================
