----------------------------- MODULE MCCliente -----------------------------
(* The kinds of requests of the runs of Cliente. *)
EXTENDS Cliente
Todos == {"topico", "ideia"}
=============================================================================
