------------------------------ MODULE Duravel ------------------------------
(***************************************************************************)
(* What the files promise: an operation that was answered is found again   *)
(* after a restart, and one that was under way is found whole or not at    *)
(* all.  The promise holds as long as nothing escapes the files ("intacto" *)
(* is TRUE): an operation that does not save, a write that fails, or a     *)
(* stop in the middle of one ends it, and then anything may be found.      *)
(***************************************************************************)
EXTENDS Naturals

VARIABLES
  estado,  \* what the server knows, or knew when it stopped
  seguro,  \* what it knew when it last answered an operation
  ligado,  \* whether it runs
  intacto  \* whether the promise still holds

Init == estado = seguro /\ ligado = TRUE /\ intacto = TRUE

\* An operation is carried out, and answered at once or later.
Operar ==
  /\ ligado /\ estado = seguro
  /\ seguro' \in {seguro, estado'}
  /\ UNCHANGED ligado
Responder ==
  /\ ligado
  /\ seguro' = estado
  /\ UNCHANGED <<estado, ligado>>

Parar == ligado /\ ligado' = FALSE /\ UNCHANGED <<estado, seguro>>

\* After a restart the operation that was under way is finished or gone.
Reiniciar ==
  /\ ~ligado /\ ligado' = TRUE
  /\ estado' \in {estado, seguro} /\ seguro' = estado'

Next ==
  intacto' => intacto /\ (Operar \/ Responder \/ Parar \/ Reiniciar)

Spec == Init /\ [][Next]_<<estado, seguro, ligado, intacto>>
=============================================================================
