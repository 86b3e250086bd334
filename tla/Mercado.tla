------------------------------ MODULE Mercado ------------------------------
(***************************************************************************)
(* What the stock market promises its users: every operation happens at    *)
(* once or not at all.  A purchase takes the percentage asked for from the *)
(* other holders, cheapest first, pays each of them, costs no more than    *)
(* the investment, and money and shares only change hands.                 *)
(*                                                                         *)
(* There are no lists, positions or loops here: an idea is a function from *)
(* users to what they hold of it.  Bolsa is shown to implement this.       *)
(***************************************************************************)
EXTENDS Integers, FiniteSets, FiniteSetsExt

CONSTANTS Utilizadores, Root, Total, Moeda, Tecto,
          Precos, Investimentos, Percentagens, Inicial, Ids

VARIABLES saldo,   \* the balance of every user
          posse    \* for each idea, the share and asking price of everyone

mercado == <<saldo, posse>>

Donos == Utilizadores \cup {Root}
Nada == [perc |-> 0, preco |-> 0]

Soma(f) == MapThenSumSet(LAMBDA d : f[d], DOMAIN f)

\* Percentages are between 1 and Total here, so prices per share compare by
\* cross-multiplication.
MaisCaro(a, b) == a.preco * b.perc > b.preco * a.perc
AVenda(a) == a.perc > 0 /\ a.preco < Tecto * a.perc

\* What q shares of a holding cost, and what is left of it.
Parte(q, a) == IF q = a.perc THEN a.preco ELSE (q * a.preco) \div a.perc
Resto(q, a) == IF q = a.perc THEN Nada
               ELSE [perc |-> a.perc - q, preco |-> a.preco - Parte(q, a)]

\* q is a cheapest way of buying n shares from the holders h: nobody sells
\* while a cheaper share is left, and at most one holding is split.
MaisEmConta(h, q, n) ==
  /\ Soma(q) = n
  /\ \A d \in DOMAIN q : q[d] > 0 => AVenda(h[d]) /\ q[d] <= h[d].perc
  /\ \A d, e \in DOMAIN q :
       q[d] > 0 /\ AVenda(h[e]) /\ q[e] < h[e].perc => ~MaisCaro(h[d], h[e])
  /\ \A d, e \in DOMAIN q :
       q[d] \in 1..(h[d].perc - 1) /\ q[e] \in 1..(h[e].perc - 1) => d = e

\* q[d] > 0 shares are bought from d; revenda is the buyer's price if the
\* buyer had no share yet.
Comprar(u, id, q, revenda, investimento) ==
  LET h == posse[id]
      paga == [d \in Donos \ {u} |-> IF q[d] = 0 THEN 0 ELSE Parte(q[d], h[d])]
  IN  /\ \A d \in Donos \ {u} : q[d] > 0 => d \in Utilizadores
      /\ Soma(paga) <= investimento
      /\ saldo' = [v \in Utilizadores |->
           IF v = u THEN saldo[v] - Soma(paga) ELSE saldo[v] + paga[v]]
      /\ posse' = [posse EXCEPT ![id] = [d \in Donos |->
           IF d # u THEN (IF q[d] = 0 THEN h[d] ELSE Resto(q[d], h[d]))
           ELSE [perc |-> h[u].perc + Soma(q),
                 preco |-> IF h[u].perc = 0 THEN revenda ELSE h[u].preco]]]

Criar(u, id, investimento) ==
  /\ id \notin DOMAIN posse /\ saldo[u] >= investimento
  /\ saldo' = [saldo EXCEPT ![u] = @ - investimento]
  /\ posse' = [i \in DOMAIN posse \cup {id} |->
       IF i # id THEN posse[i] ELSE [d \in Donos |->
         IF d = u THEN [perc |-> Total, preco |-> investimento] ELSE Nada]]

Editar(u, id, preco) ==
  /\ posse[id][u].perc > 0
  /\ posse' = [posse EXCEPT ![id][u].preco = preco]
  /\ UNCHANGED saldo

Apagar(u, id) ==
  /\ 2 * posse[id][u].perc > Total
  /\ posse' = [i \in DOMAIN posse \ {id} |-> posse[i]]
  /\ UNCHANGED saldo

\* Every holder gets the price asked, and the idea goes to the root user.
Tomar(id) ==
  /\ \A d \in Donos : posse[id][d].perc > 0 => d \in Utilizadores
  /\ saldo' = [v \in Utilizadores |-> saldo[v] + posse[id][v].preco]
  /\ posse' = [posse EXCEPT ![id] = [d \in Donos |->
       IF d = Root THEN [perc |-> Total, preco |-> -Moeda] ELSE Nada]]

Init == <<saldo, posse>> \in Inicial

Next ==
  \/ \E u \in Utilizadores, id \in DOMAIN posse, n \in Percentagens \cap 1..Total :
       \E q \in [Donos \ {u} -> 0..n] :
         /\ MaisEmConta(posse[id], q, n)
         /\ \E r \in Precos, i \in Investimentos : Comprar(u, id, q, r, i)
  \/ \E u \in Utilizadores, id \in DOMAIN posse :
       Apagar(u, id) \/ \E p \in Precos : Editar(u, id, p)
  \/ \E u \in Utilizadores, id \in Ids, i \in Investimentos : Criar(u, id, i)
  \/ \E id \in DOMAIN posse : Tomar(id)

Spec == Init /\ [][Next]_mercado
=============================================================================
