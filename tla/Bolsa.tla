------------------------------- MODULE Bolsa -------------------------------
(***************************************************************************)
(* The stock market of IdeiaImpl.java: the ideas of one topic, the shares  *)
(* (Accao) each idea is divided into, the balance of every user, and the   *)
(* remote operations that change them: criarideia, EditarAccao,            *)
(* ApagarIdeia / apagarideia, takeover and efectuarcompra.                 *)
(*                                                                         *)
(* efectuarcompra is a loop in several phases under the server's monitor,  *)
(* takeover a loop without it; both are modelled one iteration per step.   *)
(* The other operations are one step each.  With Concorrente the server is *)
(* as it is: only efectuarcompra and EditarAccao are synchronized, and the *)
(* others may run between their steps.  Without it calls reach the server  *)
(* one at a time, although a client may decide on a purchase long before   *)
(* the server gets to it.                                                  *)
(*                                                                         *)
(* Positions and idea identifiers start at 1 (0 in the code).  Amounts of  *)
(* money are integers: a fraction of a lot costs q * preco \div perc, and  *)
(* as in the code the same amount leaves the buyer, reaches the seller and *)
(* is taken off the seller's asking price.                                 *)
(***************************************************************************)
EXTENDS Integers, Sequences, FiniteSets, SequencesExt

CONSTANTS
  Utilizadores, \* the registered users
  Root,         \* the name "root", registered or not
  Total,        \* the shares of an idea, in percent (100 in the code)
  SaldoInicial, \* the balance of a new user (1000000 in the code)
  Moeda,        \* model units of money in one unit of the code's currency
  Tecto,        \* no lot is picked at this unit price or above (999999999)
  Precos,       \* what a user may type as the price of a holding
  Investimentos,\* what a user may type as an amount to invest
  Percentagens, \* what a user may type as the percentage to buy
  Concorrente,  \* whether operations overlap in the server
  Carregados,   \* the lists of ideas that loaddados may find on disk
  MaxPedidos,   \* bound: operations requested in a behaviour
  MaxIdeias     \* bound: identifiers given to ideas

Donos == Utilizadores \cup {Root}

Accao == [dono : Donos, perc : Int, preco : Int]

Ideia == [id : Nat, accoes : Seq(Accao)]

ASSUME UtilizadoresAssumption == IsFiniteSet(Utilizadores)
ASSUME TotalAssumption == Total \in Nat \ {0}
ASSUME NumerosAssumption ==
  /\ SaldoInicial \in Int /\ Moeda \in Nat /\ Tecto \in Nat
  /\ Precos \subseteq Int /\ Investimentos \subseteq Int
  /\ Percentagens \subseteq Int
  /\ Concorrente \in BOOLEAN
  /\ MaxPedidos \in Nat /\ MaxIdeias \in Nat

\* Sums: of a list of numbers, of the shares of an idea, of everybody's money.
Soma(s) ==
  LET ate[n \in 0..Len(s)] == IF n = 0 THEN 0 ELSE ate[n - 1] + s[n]
  IN  ate[Len(s)]
SomaPerc(A) == Soma([i \in 1..Len(A) |-> A[i].perc])
Todos == SetToSeq(Utilizadores)
SomaSaldo(s) == Soma([i \in 1..Len(Todos) |-> s[Todos[i]]])

\* A list of ideas as a server that shut down between operations saved it: only
\* a takeover leaves an idea to somebody who may not be registered, and whole.
ListaValida(lista) ==
  /\ lista \in Seq(Ideia)
  /\ \A k \in DOMAIN lista :
       LET A == lista[k].accoes
       IN  /\ SomaPerc(A) = Total
           /\ \A i \in DOMAIN A : A[i].perc > 0
           /\ \A i, j \in DOMAIN A : A[i].dono = A[j].dono => i = j
           /\ Len(A) > 1 => \A i \in DOMAIN A : A[i].dono \in Utilizadores
  /\ \A k, l \in DOMAIN lista : lista[k].id = lista[l].id => k = l

ASSUME CarregadosAssumption == \A lista \in Carregados : ListaValida(lista)

VARIABLES
  saldo,    \* Utilizador.dinheiro of every user
  ideias,   \* Topico.ideia, the ideas in the order of the list
  pedido,   \* the purchase each user's client has asked for
  fase,     \* where efectuarcompra is; "livre" when nobody holds the monitor
  compra,   \* the local variables of the running efectuarcompra
  tomada,   \* the running takeover: the idea and the next holder to pay
  visto,    \* history: the market when no operation was last under way
  pedidos   \* the operations requested so far

vars == <<saldo, ideias, pedido, fase, compra, tomada, visto, pedidos>>
mercado == <<saldo, ideias>>

Fases == {"livre", "selecionar", "pagar", "transferir", "eliminar", "terminar"}

Pedido == [activo : BOOLEAN, alvo : Nat, pos : Nat, perc : Int,
           revenda : Int, investimento : Int]
SemPedido == [activo |-> FALSE, alvo |-> 0, pos |-> 0, perc |-> 0,
              revenda |-> 0, investimento |-> 0]

Compra == [quem : Donos, naccoes : Nat, transacoes : Seq(Nat), actual : Int,
           apagar : Int, feitas : Nat, meu : Nat, quantidade : Int,
           valor : Int, inteiro : BOOLEAN]
SemCompra == [quem |-> Root, naccoes |-> 0, transacoes |-> <<>>, actual |-> 0,
              apagar |-> 0, feitas |-> 0, meu |-> 0, quantidade |-> 0,
              valor |-> 0, inteiro |-> FALSE]

SemTomada == [pos |-> 0, titular |-> 0]

\* No operation of several steps is under way.
Sossego == fase = "livre" /\ tomada = SemTomada

TypeOK ==
  /\ saldo \in [Utilizadores -> Int]
  /\ ideias \in Seq(Ideia)
  /\ pedido \in [Utilizadores -> Pedido]
  /\ fase \in Fases
  /\ compra \in Compra
  /\ fase = "livre" => compra = SemCompra
  /\ fase # "livre" => compra.quem \in Utilizadores
  /\ tomada \in [pos : Nat, titular : Nat]
  /\ visto \in [saldo : [Utilizadores -> Int], ideias : Seq(Ideia)]
  /\ pedidos \in 0..MaxPedidos

Init ==
  /\ saldo = [u \in Utilizadores |-> SaldoInicial]
  /\ ideias \in Carregados
  /\ pedido = [u \in Utilizadores |-> SemPedido]
  /\ fase = "livre"
  /\ compra = SemCompra
  /\ tomada = SemTomada
  /\ visto = [saldo |-> saldo, ideias |-> ideias]
  /\ pedidos = 0

\* An operation may start.
Vez == Concorrente \/ Sossego

\* History: the market is looked at when no operation is under way.
Olhar ==
  visto' = IF fase' = "livre" /\ tomada' = SemTomada
             THEN [saldo |-> saldo', ideias |-> ideias'] ELSE visto

\* What Accao's methods do to holding i of the list A, and the list of ideas
\* with the holdings of the idea at position k replaced.
retiraraccao(A, i, q) == [A EXCEPT ![i].perc = @ - q]
AdicionarSubstitui(A, i, q) == [A EXCEPT ![i].perc = q]  \* mutant: sets, not adds
adicionaraccao(A, i, q) == [A EXCEPT ![i].perc = @ + q]
setprecoaccao(A, i, p) == [A EXCEPT ![i].preco = p]
ComAccoes(k, A) == [ideias EXCEPT ![k].accoes = A]

\* retirarsaldo and adicionarsaldo of the two users of a transaction.
RetirarSemAdicionar(quem, dono, v) == [saldo EXCEPT ![quem] = @ - v]  \* mutant
MudarSaldos(quem, dono, v) == [saldo EXCEPT ![quem] = @ - v, ![dono] = @ + v]

\* Whether a name is found in the list of users.
encontraruser(nome) == nome \in Utilizadores

(***************************************************************************)
(* Asking for a purchase.  The TCP server looks the idea up in a copy of   *)
(* the topics and sends its position (bolsa); the web bean checks that the *)
(* identifier exists and then sends the identifier itself as the position. *)
(* The call then waits for the monitor of the RMI server.                  *)
(***************************************************************************)
IdeiaComId(id) == \E k \in DOMAIN ideias : ideias[k].id = id

PosicaoTCP(id, pos) ==
  \/ pos \in DOMAIN ideias /\ ideias[pos].id = id
     /\ \A k \in DOMAIN ideias : k > pos => ideias[k].id # id
  \/ pos = 0 /\ ~IdeiaComId(id)

PosicaoWeb(id, pos) == IdeiaComId(id) /\ pos = id

Contar == pedidos < MaxPedidos /\ pedidos' = pedidos + 1

PedirCompra(u, id, pos, perc, revenda, investimento) ==
  /\ Contar
  /\ ~pedido[u].activo
  /\ PosicaoTCP(id, pos) \/ PosicaoWeb(id, pos)
  /\ pedido' = [pedido EXCEPT ![u] =
       [activo |-> TRUE, alvo |-> id, pos |-> pos, perc |-> perc,
        revenda |-> revenda, investimento |-> investimento]]
  /\ UNCHANGED <<saldo, ideias, fase, compra, tomada>> /\ Olhar

(***************************************************************************)
(* efectuarcompra.                                                         *)
(***************************************************************************)
PedidoActual == pedido[compra.quem]
IdeiaExiste == PedidoActual.pos \in DOMAIN ideias
Lotes == ideias[PedidoActual.pos].accoes

\* The unit price of a lot is Num / Den.  Den = 0 stands for the infinities
\* of the code's double division by a percentage of 0.
Num(a) == IF a.perc < 0 THEN -a.preco ELSE a.preco
Den(a) == IF a.perc < 0 THEN -a.perc ELSE a.perc
MenorPreco(a, b) == a.preco < b.preco  \* mutant: not the price per share
MaisBarato(a, b) == Num(a) * Den(b) < Num(b) * Den(a)
AbaixoDoTecto(a) == Num(a) < Tecto * Den(a)

\* What q percent of the lot cost.
Custo(q, a) == IF Den(a) = 0 THEN Tecto * q * Num(a)
                             ELSE (q * Num(a)) \div Den(a)

\* Leaving the synchronized method, by a return or by an exception.
Sair ==
  /\ fase' = "livre"
  /\ compra' = SemCompra
  /\ pedido' = [pedido EXCEPT ![compra.quem] = SemPedido]
  /\ UNCHANGED <<tomada, pedidos>>

\* Arguments refused: a percentage out of range (return 0), or a position
\* that is not in the list (exception).
RecusarCompra(u) ==
  /\ Vez /\ fase = "livre" /\ pedido[u].activo
  /\ \/ pedido[u].perc \notin 1..Total
     \/ pedido[u].pos \notin DOMAIN ideias
  /\ pedido' = [pedido EXCEPT ![u] = SemPedido]
  /\ UNCHANGED <<saldo, ideias, fase, compra, tomada, pedidos>> /\ Olhar

IniciarCompra(u) ==
  /\ Vez /\ fase = "livre" /\ pedido[u].activo
  /\ pedido[u].perc \in 1..Total
  /\ pedido[u].pos \in DOMAIN ideias
  /\ fase' = "selecionar"
  /\ compra' = [SemCompra EXCEPT !.quem = u,
                  !.naccoes = Len(ideias[pedido[u].pos].accoes)]
  /\ UNCHANGED <<saldo, ideias, pedido, tomada, pedidos>> /\ Olhar

PorEscolherRepetindo == 1..compra.naccoes  \* mutant: transacoes is not looked at
PorEscolher == {i \in 1..compra.naccoes : i \notin ToSet(compra.transacoes)}

Candidatos == {i \in PorEscolher : /\ Lotes[i].dono # compra.quem
                                   /\ AbaixoDoTecto(Lotes[i])}

\* The scan keeps the first of the cheapest lots.
Escolhido(i) ==
  /\ i \in Candidatos
  /\ \A j \in Candidatos \ {i} : /\ ~MaisBarato(Lotes[j], Lotes[i])
                                 /\ j < i => MaisBarato(Lotes[i], Lotes[j])

\* One iteration of the selection loop: the lot whole if it fits in what is
\* still wanted, the part wanted otherwise.
Selecionar(i) ==
  /\ fase = "selecionar" /\ compra.actual < PedidoActual.perc
  /\ IdeiaExiste /\ PorEscolher \subseteq DOMAIN Lotes
  /\ Escolhido(i)
  /\ LET a == Lotes[i]
         cabe == compra.actual + a.perc <= PedidoActual.perc
         q == IF cabe THEN a.perc ELSE PedidoActual.perc - compra.actual
     IN  compra' = [compra EXCEPT
           !.transacoes = Append(@, i),
           !.actual = @ + q,
           !.apagar = @ + (IF cabe THEN a.preco ELSE Custo(q, a))]
  /\ UNCHANGED <<saldo, ideias, pedido, fase, tomada, pedidos>> /\ Olhar

\* The loop finds no lot, or reads one that is gone: IndexOutOfBounds.
SelecionarFalha ==
  /\ fase = "selecionar" /\ compra.actual < PedidoActual.perc
  /\ \/ ~IdeiaExiste
     \/ IdeiaExiste /\ ~(PorEscolher \subseteq DOMAIN Lotes)
     \/ IdeiaExiste /\ PorEscolher \subseteq DOMAIN Lotes /\ Candidatos = {}
  /\ Sair /\ UNCHANGED mercado /\ Olhar

\* "Passo 4": the amount the buyer agreed to invest against the total.
VerificarInvestimento ==
  /\ fase = "selecionar" /\ compra.actual >= PedidoActual.perc
  /\ PedidoActual.investimento >= compra.apagar
  /\ fase' = "pagar"
  /\ compra' = [compra EXCEPT !.actual = 0]
  /\ UNCHANGED <<saldo, ideias, pedido, tomada, pedidos>> /\ Olhar

InvestimentoInsuficiente ==
  /\ fase = "selecionar" /\ compra.actual >= PedidoActual.perc
  /\ PedidoActual.investimento < compra.apagar
  /\ Sair /\ UNCHANGED mercado /\ Olhar

Ultima == compra.feitas + 1 = Len(compra.transacoes)
LoteActual == compra.transacoes[compra.feitas + 1]
LoteInteiro(a) == ~Ultima \/ compra.actual + a.perc = PedidoActual.perc

\* First half of a transaction: find the seller and move the money.
Pagar ==
  /\ fase = "pagar"
  /\ IdeiaExiste /\ LoteActual \in DOMAIN Lotes
  /\ encontraruser(Lotes[LoteActual].dono)
  /\ LET a == Lotes[LoteActual]
         q == IF LoteInteiro(a) THEN a.perc ELSE PedidoActual.perc - compra.actual
         v == IF LoteInteiro(a) THEN a.preco ELSE Custo(q, a)
     IN  /\ saldo' = MudarSaldos(compra.quem, a.dono, v)
         /\ compra' = [compra EXCEPT !.quantidade = q, !.valor = v,
                         !.inteiro = LoteInteiro(a),
                         !.meu = IF Ultima THEN 0 ELSE @]
  /\ fase' = "transferir"
  /\ UNCHANGED <<ideias, pedido, tomada, pedidos>> /\ Olhar

\* The lot is gone (exception) or its owner is not a user (return 0).
PagarFalha ==
  /\ fase = "pagar"
  /\ \/ ~IdeiaExiste
     \/ IdeiaExiste /\ LoteActual \notin DOMAIN Lotes
     \/ IdeiaExiste /\ LoteActual \in DOMAIN Lotes
        /\ ~encontraruser(Lotes[LoteActual].dono)
  /\ Sair /\ UNCHANGED mercado /\ Olhar

\* Mutant of TemAccoes: a holding is added without looking for one.
AcrescentarSempre(m) ==
  \/ compra.meu # 0 /\ m = compra.meu
  \/ compra.meu = 0 /\ m = Len(Lotes) + 1

\* temaccoes: m is where the buyer's holding is, or where it is added.
TemAccoes(m) ==
  \/ compra.meu # 0 /\ m = compra.meu
  \/ /\ compra.meu = 0 /\ m \in DOMAIN Lotes
     /\ Lotes[m].dono = compra.quem
     /\ \A j \in 1..(m - 1) : Lotes[j].dono # compra.quem
  \/ /\ compra.meu = 0 /\ m = Len(Lotes) + 1
     /\ \A j \in DOMAIN Lotes : Lotes[j].dono # compra.quem

ComComprador(m) ==
  IF compra.meu = 0 /\ m = Len(Lotes) + 1
    THEN Append(Lotes, [dono |-> compra.quem, perc |-> 0,
                        preco |-> PedidoActual.revenda])
    ELSE Lotes

\* Second half: the shares move from the lot to the buyer's holding, and a
\* lot sold in part is repriced.
Transferir(m) ==
  /\ fase = "transferir" /\ IdeiaExiste /\ TemAccoes(m)
  /\ LoteActual \in DOMAIN ComComprador(m) /\ m \in DOMAIN ComComprador(m)
  /\ LET i == LoteActual
         retirada == retiraraccao(ComComprador(m), i, compra.quantidade)
         entregue == adicionaraccao(retirada, m, compra.quantidade)
     IN  ideias' = ComAccoes(PedidoActual.pos,
           IF compra.inteiro THEN entregue
           ELSE setprecoaccao(entregue, i, entregue[i].preco - compra.valor))
  /\ compra' = [compra EXCEPT !.feitas = @ + 1, !.meu = m,
                               !.actual = @ + compra.quantidade]
  /\ fase' = IF Ultima THEN "eliminar" ELSE "pagar"
  /\ UNCHANGED <<saldo, pedido, tomada, pedidos>> /\ Olhar

\* The list changed under the purchase: what was done before the exception
\* stays done (a new empty holding, or shares taken and not delivered).
TransferirFalha(m) ==
  /\ fase = "transferir" /\ IdeiaExiste /\ TemAccoes(m)
  /\ ~(LoteActual \in DOMAIN ComComprador(m) /\ m \in DOMAIN ComComprador(m))
  /\ ideias' = ComAccoes(PedidoActual.pos,
       IF LoteActual \in DOMAIN ComComprador(m)
         THEN retiraraccao(ComComprador(m), LoteActual, compra.quantidade)
         ELSE ComComprador(m))
  /\ Sair /\ UNCHANGED saldo /\ Olhar

\* eliminaraccoesinvalidas2: the first holding that is not positive.
PrimeiraInvalida(i) ==
  /\ i \in DOMAIN Lotes /\ Lotes[i].perc <= 0
  /\ \A j \in 1..(i - 1) : Lotes[j].perc > 0

\* Mutant of EliminarAccao: the loop finds the empty holding again and again.
EliminarSemRemover(i) ==
  /\ fase = "eliminar" /\ IdeiaExiste
  /\ PrimeiraInvalida(i) /\ Lotes[i].perc = 0
  /\ UNCHANGED <<saldo, ideias, pedido, fase, compra, tomada, pedidos>> /\ Olhar

EliminarAccao(i) ==
  /\ fase = "eliminar" /\ IdeiaExiste
  /\ PrimeiraInvalida(i) /\ Lotes[i].perc = 0
  /\ ideias' = ComAccoes(PedidoActual.pos, RemoveAt(Lotes, i))
  /\ UNCHANGED <<saldo, pedido, fase, compra, tomada, pedidos>> /\ Olhar

EliminarFim ==
  /\ fase = "eliminar" /\ IdeiaExiste
  /\ \A i \in DOMAIN Lotes : Lotes[i].perc > 0
  /\ fase' = "terminar"
  /\ UNCHANGED <<saldo, ideias, pedido, compra, tomada, pedidos>> /\ Olhar

\* Mutant of EliminarFalha: an empty holding counts as a negative one.
EliminarFalhaEmZero ==
  /\ fase = "eliminar"
  /\ IdeiaExiste /\ \E i \in DOMAIN Lotes : PrimeiraInvalida(i)
  /\ Sair /\ UNCHANGED mercado /\ Olhar

EliminarFalha ==
  /\ fase = "eliminar"
  /\ IdeiaExiste /\ \E i \in DOMAIN Lotes :
                      PrimeiraInvalida(i) /\ Lotes[i].perc < 0
  /\ Sair /\ UNCHANGED mercado /\ Olhar

\* The idea of a purchase past its selection is no longer in the list.
IdeiaPerdida ==
  /\ fase \in {"transferir", "eliminar"} /\ ~IdeiaExiste
  /\ Sair /\ UNCHANGED mercado /\ Olhar

\* terminarcompra: the state is saved, the sellers are told, 1 is returned.
TerminarCompra ==
  /\ fase = "terminar"
  /\ Sair /\ UNCHANGED mercado /\ Olhar

\* Where the buyer's holding or an empty one may be.
Posicoes == IF fase \in {"transferir", "eliminar"} /\ IdeiaExiste
              THEN {compra.meu} \cup 1..(Len(Lotes) + 1) ELSE {}

PassoCompra ==
  \/ \E u \in Utilizadores : RecusarCompra(u) \/ IniciarCompra(u)
  \/ \E i \in 1..compra.naccoes : Selecionar(i)
  \/ SelecionarFalha \/ VerificarInvestimento \/ InvestimentoInsuficiente
  \/ Pagar \/ PagarFalha
  \/ \E m \in Posicoes : Transferir(m)
  \/ \E m \in Posicoes : TransferirFalha(m)
  \/ \E i \in Posicoes : EliminarAccao(i)
  \/ EliminarFim \/ EliminarFalha \/ IdeiaPerdida \/ TerminarCompra

(***************************************************************************)
(* The operations of one step.                                             *)
(***************************************************************************)

\* geraridideia() + 1: one more than the highest identifier in the list.
IdSeguinte(id) ==
  /\ \A k \in DOMAIN ideias : ideias[k].id < id
  /\ id = 1 \/ IdeiaComId(id - 1)

\* verificarSaldo takes the investment, which becomes the price of the idea.
CriarIdeia(u, id, investimento) ==
  /\ Vez /\ Contar
  /\ saldo[u] >= investimento /\ IdSeguinte(id)
  /\ saldo' = [saldo EXCEPT ![u] = @ - investimento]
  /\ ideias' = Append(ideias, [id |-> id, accoes |->
       <<[dono |-> u, perc |-> Total, preco |-> investimento]>>])
  /\ UNCHANGED <<pedido, fase, compra, tomada>> /\ Olhar

\* j is the first holding of u in the idea.
PrimeiraAccaoDe(u, A, j) ==
  /\ j \in DOMAIN A /\ A[j].dono = u
  /\ \A l \in 1..(j - 1) : A[l].dono # u

\* EditarAccao is synchronized: it waits for a purchase to leave the monitor.
EditarAccao(u, k, j, preco) ==
  /\ Vez /\ Contar
  /\ fase = "livre"
  /\ PrimeiraAccaoDe(u, ideias[k].accoes, j)
  /\ ideias' = ComAccoes(k, setprecoaccao(ideias[k].accoes, j, preco))
  /\ UNCHANGED <<saldo, pedido, fase, compra, tomada>> /\ Olhar

\* ApagarIdeia and apagarideia: only the holder of more than half may.
ApagarIdeia(u, k, j) ==
  /\ Vez /\ Contar
  /\ PrimeiraAccaoDe(u, ideias[k].accoes, j)
  /\ 2 * ideias[k].accoes[j].perc > Total
  /\ ideias' = RemoveAt(ideias, k)
  /\ UNCHANGED <<saldo, pedido, fase, compra, tomada>> /\ Olhar

(***************************************************************************)
(* takeover, called for a position by the root user.                       *)
(***************************************************************************)
IniciarTomada(k) ==
  /\ Vez /\ Contar
  /\ tomada = SemTomada
  /\ tomada' = [pos |-> k, titular |-> 1]
  /\ UNCHANGED <<saldo, ideias, pedido, fase, compra>> /\ Olhar

EmTomada == tomada.pos \in DOMAIN ideias
AccoesTomadas == ideias[tomada.pos].accoes

\* One iteration: the holder gets the price asked for the holding.
PagarTitular ==
  /\ EmTomada /\ tomada.titular \in DOMAIN AccoesTomadas
  /\ LET a == AccoesTomadas[tomada.titular]
     IN  /\ encontraruser(a.dono)
         /\ saldo' = [saldo EXCEPT ![a.dono] = @ + a.preco]
  /\ tomada' = [tomada EXCEPT !.titular = @ + 1]
  /\ UNCHANGED <<ideias, pedido, fase, compra, pedidos>> /\ Olhar

ConcluirTomada ==
  /\ EmTomada /\ tomada.titular > Len(AccoesTomadas)
  /\ ideias' = ComAccoes(tomada.pos,
       <<[dono |-> Root, perc |-> Total, preco |-> -Moeda]>>)
  /\ tomada' = SemTomada
  /\ UNCHANGED <<saldo, pedido, fase, compra, pedidos>> /\ Olhar

\* A holder is unknown (return -1), or the idea is gone (exception).
TomadaFalha ==
  /\ tomada # SemTomada
  /\ \/ ~EmTomada
     \/ EmTomada /\ tomada.titular \in DOMAIN AccoesTomadas
        /\ ~encontraruser(AccoesTomadas[tomada.titular].dono)
  /\ tomada' = SemTomada
  /\ UNCHANGED <<saldo, ideias, pedido, fase, compra, pedidos>> /\ Olhar

PassoTomada == PagarTitular \/ ConcluirTomada \/ TomadaFalha

(***************************************************************************)
(* The specification.                                                      *)
(***************************************************************************)
Pedir ==
  \E u \in Utilizadores, id \in 1..MaxIdeias, pos \in 0..MaxIdeias,
     perc \in Percentagens, revenda \in Precos, inv \in Investimentos :
       PedirCompra(u, id, pos, perc, revenda, inv)

Editar ==
  \E u \in Utilizadores, k \in DOMAIN ideias : \E j \in DOMAIN ideias[k].accoes :
     \E preco \in Precos : EditarAccao(u, k, j, preco)

CriarApagar ==
  \/ \E u \in Utilizadores, id \in 1..MaxIdeias, inv \in Investimentos :
       CriarIdeia(u, id, inv)
  \/ \E u \in Utilizadores, k \in DOMAIN ideias :
       \E j \in DOMAIN ideias[k].accoes : ApagarIdeia(u, k, j)

Tomar == \E k \in DOMAIN ideias : IniciarTomada(k)

Next == Pedir \/ PassoCompra \/ Editar \/ CriarApagar \/ Tomar \/ PassoTomada

Spec == Init /\ [][Next]_vars

\* The server thread of a call runs on once it has started.
Fair == WF_vars(PassoCompra)

FairSpec == Spec /\ Fair

(***************************************************************************)
(* Properties.                                                             *)
(***************************************************************************)
\* The percentages of an idea always add up to 100: settling lot by lot,
\* adding the buyer's holding and deleting the empty ones loses no share.
SharesSomamTotal == \A k \in DOMAIN ideias : SomaPerc(ideias[k].accoes) = Total

\* Nobody has two holdings in an idea.  EditarAccao, ApagarIdeia and
\* temaccoes look at the first one they find and rely on it.
UmaAccaoPorDono ==
  \A k \in DOMAIN ideias : \A i, j \in DOMAIN ideias[k].accoes :
    ideias[k].accoes[i].dono = ideias[k].accoes[j].dono => i = j

\* The positions kept in transacoes still name the lots selected, none twice
\* and none of the buyer's, until the last of them is settled.
SelecaoValida ==
  fase \in {"selecionar", "pagar", "transferir"} =>
    LET T == compra.transacoes
    IN  /\ IdeiaExiste
        /\ \A i \in DOMAIN T : /\ T[i] \in DOMAIN Lotes
                               /\ Lotes[T[i]].dono # compra.quem
        /\ \A i, j \in DOMAIN T : T[i] = T[j] => i = j

\* What the buyer pays the sellers receive: between two transactions the
\* money of all the users is what it was when the purchase began.
DinheiroConservado == fase # "livre" => SomaSaldo(saldo) = SomaSaldo(visto.saldo)

\* A purchase that ends without reaching the end of terminarcompra has not
\* settled any transaction ("simular uma transacao", line 702).
FalhaSemEfeito ==
  [][fase \notin {"livre", "terminar"} /\ fase' = "livre"
       => compra.feitas = 0 /\ fase # "transferir"]_vars

\* A purchase that starts leaves the monitor, whatever else runs: the
\* selection loop and eliminaraccoesinvalidas end.
MonitorLibertado == fase # "livre" ~> fase = "livre"

\* idideia is the "Id unico que identifica a ideia" (Ideia.java): the idea a
\* purchase works on is the one its user asked for.
CompraDaIdeiaPedida ==
  fase = "selecionar" => ideias[PedidoActual.pos].id = PedidoActual.alvo
=============================================================================
