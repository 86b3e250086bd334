---------------------------- MODULE VistaPrecos ----------------------------
(***************************************************************************)
(* The page that lists the holdings of an idea (bolsa.jsp): it asks for    *)
(* them with a request when the document is ready, opens a socket when the *)
(* page is loaded, and replaces its rows by those that come on the socket  *)
(* after each purchase.                                                    *)
(*                                                                         *)
(* The holdings of an idea are the number of purchases so far; the rows of *)
(* a table are the pairs <<idea, holdings>> that were appended to it.      *)
(*                                                                         *)
(* The update goes to all pages alike, the answer is appended to what came *)
(* before it, and a notice that fails leaves the purchase without its      *)
(* update: the history estragada has the pages whose rows may be wrong for *)
(* one of these reasons, until an update of their own idea.                *)
(*                                                                         *)
(* InitVista, NextVista, SpecVista and TypeOKVista carry the name of the   *)
(* component: OutrosProofs extends other components too.                   *)
(***************************************************************************)
EXTENDS Naturals, Sequences, Functions

CONSTANTS
  Paginas,    \* pages that users open
  Ideias,     \* ideas
  MaxCompras, \* bound on the purchases of an idea
  MaxTotal    \* bound on all purchases

ASSUME ConstantesVista == MaxCompras \in Nat /\ MaxTotal \in Nat

VARIABLES
  accoes,  \* the holdings of each idea
  avisar,  \* the purchase that has not been sent to the pages yet
  vista,   \* each page: whether it is open and for which idea, its request, the
           \* answer, and its socket
  fila,    \* messages on the way to each page
  tabela,  \* the rows of each page
  estragada \* history: pages that an update came to while they were coming up, that
            \* an update of another idea came to, or that missed one of their own

varsVista == <<accoes, avisar, vista, fila, tabela, estragada>>

Linhas == Ideias \X (0..MaxCompras)
Limpar == <<"clear">>
SemVista == [pedido |-> "fechada", socket |-> FALSE, ideia |-> <<>>, resposta |-> <<>>]

TypeOKVista ==
  /\ accoes \in [Ideias -> 0..MaxCompras]
  /\ avisar \in {<<>>} \cup {<<i>> : i \in Ideias}
  /\ \A p \in Paginas :
       /\ vista[p].pedido \in {"fechada", "pedida", "respondida", "feita"}
       /\ vista[p].socket \in BOOLEAN
       /\ vista[p].pedido # "fechada" => vista[p].ideia \in Ideias
       /\ vista[p].resposta \in {<<>>} \cup Linhas
       /\ fila[p] \in Seq({Limpar} \cup Linhas) /\ tabela[p] \in Seq(Linhas)
       /\ fila[p] # <<>> => vista[p].socket
  /\ estragada \subseteq Paginas

InitVista ==
  /\ accoes = [i \in Ideias |-> 0] /\ avisar = <<>>
  /\ vista = [p \in Paginas |-> SemVista]
  /\ fila = [p \in Paginas |-> <<>>] /\ tabela = [p \in Paginas |-> <<>>]
  /\ estragada = {}
-----------------------------------------------------------------------------
(* The page. *)

\* A page has come up when its request is answered and its socket is open.
Pronta(p) == vista[p].pedido = "feita" /\ vista[p].socket

AbrirVista(p, i) ==
  /\ vista[p].pedido = "fechada"
  /\ vista' = [vista EXCEPT ![p].pedido = "pedida", ![p].ideia = i]
  /\ UNCHANGED <<accoes, avisar, fila, tabela, estragada>>
\* PesquisaBolsa reads the holdings.
Pesquisar(p) ==
  /\ vista[p].pedido = "pedida"
  /\ vista' = [vista EXCEPT ![p].pedido = "respondida",
                            ![p].resposta = <<vista[p].ideia, accoes[vista[p].ideia]>>]
  /\ UNCHANGED <<accoes, avisar, fila, tabela, estragada>>
\* The answer is appended to the table.
Mostrar(p) ==
  /\ vista[p].pedido = "respondida"
  /\ tabela' = [tabela EXCEPT ![p] = Append(@, vista[p].resposta)]
  /\ vista' = [vista EXCEPT ![p].pedido = "feita", ![p].resposta = <<>>]
  /\ UNCHANGED <<accoes, avisar, fila, estragada>>
LigarSocket(p) ==
  /\ vista[p].pedido # "fechada" /\ ~vista[p].socket
  /\ vista' = [vista EXCEPT ![p].socket = TRUE]
  /\ UNCHANGED <<accoes, avisar, fila, tabela, estragada>>

\* mutant: the rows that are there stay.
ComMensagemSemLimpar(t, m) == IF m = Limpar THEN t ELSE Append(t, m)
\* writeToHistory: "clear" deletes all rows (of an empty table: an exception).
ComMensagem(t, m) == IF m = Limpar THEN <<>> ELSE Append(t, m)
Receber(p) ==
  /\ fila[p] # <<>>
  /\ tabela' = [tabela EXCEPT ![p] = ComMensagem(@, Head(fila[p]))]
  /\ fila' = [fila EXCEPT ![p] = Tail(@)]
  /\ UNCHANGED <<accoes, avisar, vista, estragada>>

FecharVista(p) ==
  /\ Pronta(p)
  /\ vista' = [vista EXCEPT ![p] = SemVista]
  /\ fila' = [fila EXCEPT ![p] = <<>>] /\ tabela' = [tabela EXCEPT ![p] = <<>>]
  /\ estragada' = estragada \ {p}
  /\ UNCHANGED <<accoes, avisar>>
-----------------------------------------------------------------------------
(* The server. *)

\* A purchase holds the monitor until its update was sent or failed.
Comprar(i) ==
  /\ avisar = <<>>
  /\ accoes[i] < MaxCompras /\ FoldFunction(+, 0, accoes) < MaxTotal
  /\ accoes' = [accoes EXCEPT ![i] = @ + 1]
  /\ avisar' = <<i>>
  /\ UNCHANGED <<vista, fila, tabela, estragada>>

\* mutant: pages that are not connected are written to.
DestinosTodos == Paginas
\* updateprice: every page that is connected, whatever idea it shows.
Destinos == {p \in Paginas : vista[p].socket}
\* History: what an update of idea i that gets to the pages D does to each page.
Mostra(p, i) == vista[p].pedido # "fechada" /\ vista[p].ideia = i
Estraga(p, i, D) == IF Mostra(p, i) THEN ~(Pronta(p) /\ p \in D) ELSE p \in D
Arranja(p, i, D) == Mostra(p, i) /\ Pronta(p) /\ p \in D
Enviar(i, D) ==
  /\ fila' = [p \in Paginas |-> IF p \in D THEN fila[p] \o <<Limpar, <<i, accoes[i]>>>>
                                ELSE fila[p]]
  /\ avisar' = <<>>
  /\ estragada' = {p \in estragada : ~Arranja(p, i, D)}
                     \cup {p \in Paginas : Estraga(p, i, D)}
  /\ UNCHANGED <<accoes, vista, tabela>>

\* mutant: the update waits for all pages.
ActualizarTodas == avisar # <<>> /\ Destinos = Paginas /\ Enviar(avisar[1], Destinos)
ActualizarPrecos == avisar # <<>> /\ Enviar(avisar[1], Destinos)

\* enviarnotificacoes ends by an exception, of a notice that comes before the update
\* (a stub that is gone, a connection without a name, a seller without a page), or of
\* the update, which some pages have had.
AvisoFalha == avisar # <<>> /\ \E D \in SUBSET Destinos : Enviar(avisar[1], D)

PassoPagina(p) == Pesquisar(p) \/ Mostrar(p) \/ LigarSocket(p)
NextVista ==
  \/ ActualizarPrecos \/ AvisoFalha
  \/ \E p \in Paginas : PassoPagina(p) \/ Receber(p) \/ FecharVista(p)
  \/ \E p \in Paginas, i \in Ideias : AbrirVista(p, i)
  \/ \E i \in Ideias : Comprar(i)

\* The purchase goes on, to its update or to an exception; each page has its requests
\* answered and its messages.
SpecVista ==
  /\ InitVista /\ [][NextVista]_varsVista
  /\ WF_varsVista(ActualizarPrecos)
  /\ \A p \in Paginas : WF_varsVista(PassoPagina(p)) /\ WF_varsVista(Receber(p))
-----------------------------------------------------------------------------
Actual(p) == tabela[p] = <<<<vista[p].ideia, accoes[vista[p].ideia]>>>>

\* A page that is there, and to which nothing is on the way, shows the holdings of
\* its idea as they are, once, though lines 58 and 165 of bolsa.jsp write to one
\* table; unless an update came before its answer, was of another idea, or did not
\* come as a notice failed (lines 1012 to 1015 of IdeiaImpl), and no update of its own
\* idea followed.
VistaActual ==
  \A p \in Paginas :
    Pronta(p) /\ fila[p] = <<>> /\ avisar = <<>> /\ p \notin estragada => Actual(p)

\* A page that stays comes to show the holdings of its idea again, under the same
\* condition.
VistaActualiza ==
  \A p \in Paginas :
    Pronta(p) ~> (vista[p].pedido = "fechada" \/ Actual(p) \/ p \in estragada)
=============================================================================
