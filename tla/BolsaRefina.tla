---------------------------- MODULE BolsaRefina ----------------------------
(***************************************************************************)
(* Bolsa, one operation at a time, implements Mercado.  The abstract       *)
(* market is the one last seen at rest (visto): a purchase or a takeover   *)
(* takes effect when it ends, and one that fails has no effect.            *)
(***************************************************************************)
EXTENDS Bolsa

\* The list of holdings of an idea as a function from users.
PosseDe(A) == [d \in Donos |->
  IF \E i \in DOMAIN A : A[i].dono = d
    THEN LET i == CHOOSE i \in DOMAIN A : A[i].dono = d
         IN  [perc |-> A[i].perc, preco |-> A[i].preco]
    ELSE [perc |-> 0, preco |-> 0]]

\* The list of ideas as a function from identifiers.
PosseDeLista(lista) ==
  [id \in {lista[k].id : k \in DOMAIN lista} |->
     PosseDe(lista[CHOOSE k \in DOMAIN lista : lista[k].id = id].accoes)]

M == INSTANCE Mercado WITH
  saldo <- visto.saldo,
  posse <- PosseDeLista(visto.ideias),
  Ids <- 1..MaxIdeias,
  Inicial <- {<<[u \in Utilizadores |-> SaldoInicial], PosseDeLista(lista)>> :
                lista \in Carregados}

\* Bolsa implements Mercado: greedy selection over the list, settlement lot by
\* lot and the cleaning up of empty holdings amount to one purchase, at the
\* least cost; deletions, takeovers and edits by position to theirs.
ImplementaMercado == M!Spec
=============================================================================
