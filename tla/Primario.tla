----------------------------- MODULE Primario -----------------------------
(***************************************************************************)
(* What the pair of TCP servers promises to clients, without messages or   *)
(* time: a server starts as a secondary ("S"), only a primary ("P")        *)
(* accepts connections, and when there is none a server that runs becomes  *)
(* it.  There is one at most as long as the environment keeps its side:    *)
(* once it did not ("ordem" is FALSE for ever), a second may be promoted.  *)
(***************************************************************************)
CONSTANT Servidores

VARIABLES
  papel,  \* of each server: "morto", "S" or "P"
  ordem   \* whether the environment kept its side so far

estado == <<papel, ordem>>

SemPrimario == \A s \in Servidores : papel[s] # "P"
Perturbar == ordem' \in {ordem, FALSE}

Arrancar(s) ==
  papel[s] = "morto" /\ papel' = [papel EXCEPT ![s] = "S"] /\ Perturbar

\* Whoever becomes the primary is the only one, or there is no order to keep.
Promover(s) ==
  /\ papel[s] = "S" /\ Perturbar /\ (ordem' => SemPrimario)
  /\ papel' = [papel EXCEPT ![s] = "P"]
PromoverUnico(s) == SemPrimario /\ Promover(s)

Cair(s) ==
  papel[s] # "morto" /\ papel' = [papel EXCEPT ![s] = "morto"] /\ ordem' = ordem

Init == papel = [s \in Servidores |-> "morto"] /\ ordem = TRUE
Next ==
  \/ \E s \in Servidores : Arrancar(s) \/ Promover(s) \/ Cair(s)
  \/ Perturbar /\ UNCHANGED papel

Spec ==
  /\ Init /\ [][Next]_estado
  /\ WF_estado(\E s \in Servidores : PromoverUnico(s))
=============================================================================
