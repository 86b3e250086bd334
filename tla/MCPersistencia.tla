-------------------------- MODULE MCPersistencia --------------------------
(* The users of the runs of Persistencia, as model values. *)
EXTENDS Persistencia
CONSTANTS ana, rui, root
=============================================================================
