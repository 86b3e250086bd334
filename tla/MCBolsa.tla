------------------------------ MODULE MCBolsa ------------------------------
(***************************************************************************)
(* The values of the constants of Bolsa for the model checker.             *)
(***************************************************************************)
EXTENDS BolsaRefina

CONSTANTS ana, rui, eva, root

L(d, n, p) == [dono |-> d, perc |-> n, preco |-> p]

\* Nothing, where the server runs for the first time, or a list an earlier run
\* may have saved: an idea shared by three holders at different prices per
\* share and one held by a single user, one in the hall of fame, and what is
\* left after the first idea was deleted.
Partilhada == [id |-> 1, accoes |-> <<L(ana, 1, 4), L(rui, 2, 4), L(root, 1, 1)>>]
Inteira == [id |-> 2, accoes |-> <<L(rui, 4, 8)>>]
Fama == [id |-> 1, accoes |-> <<L(root, 4, -4)>>]
Guardadas == {<<>>, <<Partilhada, Inteira>>, <<Fama>>, <<Inteira>>}

\* Two ideas, one of them shared, in either order, for the interleavings of
\* the concurrent server: a deletion moves the second one to position 1.
GuardadasRMI ==
  {<<Partilhada, Inteira>>,
   <<[Inteira EXCEPT !.id = 1], [Partilhada EXCEPT !.id = 2]>>}
=============================================================================
