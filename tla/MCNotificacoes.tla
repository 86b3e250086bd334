--------------------------- MODULE MCNotificacoes ---------------------------
(* The users and the server of the runs of Notificacoes, as model values. *)
EXTENDS Notificacoes
CONSTANTS ana, rui, ninguem, p1
=============================================================================
