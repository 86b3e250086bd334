---------------------------- MODULE MCSessaoWeb ----------------------------
(* The browsers and users of the runs of SessaoWeb, as model values. *)
EXTENDS SessaoWeb
CONSTANTS n1, n2, n3, ana, rui, ninguem
=============================================================================
