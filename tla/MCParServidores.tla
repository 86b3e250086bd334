-------------------------- MODULE MCParServidores --------------------------
(* The two servers, as model values. *)
EXTENDS ParServidores
CONSTANTS s1, s2
=============================================================================
