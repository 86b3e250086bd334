---------------------------- MODULE Notificacoes ----------------------------
(***************************************************************************)
(* The end of a purchase in IdeiaImpl: the sale is done and saved, and,    *)
(* still in the monitor and before it is answered, the sellers are told,   *)
(* by a call to every TCP server that ever registered a connection and one *)
(* to the web application.                                                 *)
(*                                                                         *)
(* A call to a server is one step: addNotification goes over the list of   *)
(* client threads of that server.  A server that is started again is       *)
(* another process: the stubs of the first stay in the list.  Texts are    *)
(* left out; a notice is its position in the purchase.                     *)
(***************************************************************************)
EXTENDS Integers, Sequences, FiniteSets

CONSTANTS
  Utilizadores, \* users
  Ninguem,      \* the name of a client that has not logged in (null)
  Processos,    \* TCP servers
  MaxSessoes, MaxNotas \* bounds

ASSUME ConstantesAssumption ==
  /\ Ninguem \notin Utilizadores
  /\ MaxSessoes \in Nat /\ MaxNotas \in Nat

VARIABLES
  vivos,    \* the TCP servers that run
  sessoes,  \* their client threads in the order of listaThreads
  ligacoes, \* the stubs that the RMI server calls: one for each connection
  web,      \* WebCliente: no bean, one that answers, or one that is gone
  abertas,  \* users with a page open (connections)
  guardadas, \* users in outBounds, which nothing removes
  presas,   \* users whose open page does not read
  tabelaPresa, \* whether an open page of prices does not read
  compra,   \* the purchase: where it is, its sellers, its two counters, and
            \* the notices written to pages
  devidos,  \* history: who was there when the sale was done, and stayed
  calma     \* history: nothing stopped, no page was opened, and nobody was
            \* connecting or logging in while a sale was ending

vars ==
  <<vivos, sessoes, ligacoes, web, abertas, guardadas, presas, tabelaPresa, compra,
    devidos, calma>>

Sessao == [processo : Processos, nome : Utilizadores \cup {Ninguem},
           aberta : BOOLEAN, presa : BOOLEAN, recebeu : Seq(1..MaxNotas)]

TypeOK ==
  /\ vivos \subseteq Processos
  /\ sessoes \in Seq(Sessao) /\ Len(sessoes) <= MaxSessoes
  /\ ligacoes \in Seq(Processos) /\ Len(ligacoes) <= Len(sessoes)
  /\ web \in {"nenhum", "responde", "morto"}
  /\ abertas \subseteq guardadas /\ guardadas \subseteq Utilizadores
  /\ presas \subseteq abertas /\ tabelaPresa \in BOOLEAN
  /\ compra.fase \in {"livre", "tcp", "web", "preco", "respondida", "erro"}
  /\ compra.notas \in Seq(Utilizadores) /\ Len(compra.notas) <= MaxNotas
  /\ compra.nota \in 0..MaxNotas /\ compra.proximo \in 1..(MaxSessoes + 1)
  /\ compra.tamanho \in 0..MaxSessoes /\ compra.escritas \subseteq 1..MaxNotas
  /\ devidos.tcp \subseteq 1..MaxSessoes /\ devidos.web \subseteq Utilizadores
  /\ calma \in BOOLEAN

Init ==
  /\ vivos = Processos
  /\ sessoes = <<>> /\ ligacoes = <<>>
  /\ web = "nenhum" /\ abertas = {} /\ guardadas = {}
  /\ presas = {} /\ tabelaPresa = FALSE
  /\ compra = [fase |-> "livre", notas |-> <<>>, nota |-> 0, proximo |-> 1,
               tamanho |-> 0, escritas |-> {}]
  /\ devidos = [tcp |-> {}, web |-> {}] /\ calma = TRUE

mercado == <<compra, devidos>>
presos == <<presas, tabelaPresa>>
pagina == <<web, abertas, guardadas, presos>>
CalmaSe(c) == calma' = (calma /\ c)
-----------------------------------------------------------------------------
(* Clients of the TCP servers. *)

\* mutant: every look at the ports registers the server.
AdicionaClienteSempre(p) ==
  /\ p \in vivos
  /\ ligacoes' = Append(ligacoes, p)
  /\ CalmaSe(compra.fase = "livre")
  /\ UNCHANGED <<vivos, sessoes, pagina, mercado>>
\* A connection: the server lists its thread, and only then registers itself
\* once more with the RMI server (the next action).
Ligar(p) ==
  /\ p \in vivos /\ Len(sessoes) < MaxSessoes
  /\ sessoes' = Append(sessoes, [processo |-> p, nome |-> Ninguem, aberta |-> TRUE,
                                 presa |-> FALSE, recebeu |-> <<>>])
  /\ UNCHANGED <<vivos, ligacoes, pagina, mercado>>
  /\ CalmaSe(compra.fase = "livre")

Ligacoes(p) == Cardinality({i \in DOMAIN ligacoes : ligacoes[i] = p})
Sessoes(p) == Cardinality({k \in DOMAIN sessoes : sessoes[k].processo = p})
AdicionaCliente(p) ==
  /\ p \in vivos /\ Ligacoes(p) < Sessoes(p)
  /\ ligacoes' = Append(ligacoes, p)
  /\ CalmaSe(compra.fase = "livre")
  /\ UNCHANGED <<vivos, sessoes, pagina, mercado>>

\* login sets meu_utilizador (announcing a user after a failure does not).
Entrar(k, u) ==
  /\ sessoes[k].aberta /\ sessoes[k].nome = Ninguem /\ sessoes[k].processo \in vivos
  /\ sessoes' = [sessoes EXCEPT ![k].nome = u]
  /\ UNCHANGED <<vivos, ligacoes, pagina, mercado, calma>>

\* mutant: the thread forgets its name.
SairSemNome(k) ==
  /\ sessoes[k].aberta
  /\ sessoes' = [sessoes EXCEPT ![k].aberta = FALSE, ![k].presa = FALSE,
                                ![k].nome = Ninguem]
  /\ devidos' = [devidos EXCEPT !.tcp = @ \ {k}]
  /\ UNCHANGED <<vivos, ligacoes, pagina, compra, calma>>
\* A client ends: its thread ends, and stays in the list.
Sair(k) ==
  /\ sessoes[k].aberta
  /\ sessoes' = [sessoes EXCEPT ![k].aberta = FALSE, ![k].presa = FALSE]
  /\ devidos' = [devidos EXCEPT !.tcp = @ \ {k}]
  /\ UNCHANGED <<vivos, ligacoes, pagina, compra, calma>>

\* Who stopped to read before the sale is to the purchase as one that stops when
\* it begins to tell.  Bound: of clients and pages one at a time does not read.
PodePrender ==
  /\ compra.fase # "livre"
  /\ \A k \in DOMAIN sessoes : ~sessoes[k].presa
  /\ presas = {} /\ ~tabelaPresa
\* A client stops to read, and println to it waits for room.
Prender(k) ==
  /\ PodePrender /\ sessoes[k].aberta
  /\ sessoes' = [sessoes EXCEPT ![k].presa = TRUE]
  /\ UNCHANGED <<vivos, ligacoes, pagina, mercado, calma>>

Cair(p) ==
  /\ p \in vivos
  /\ vivos' = vivos \ {p}
  /\ sessoes' = [k \in DOMAIN sessoes |->
                   IF sessoes[k].processo = p
                   THEN [sessoes[k] EXCEPT !.aberta = FALSE, !.presa = FALSE]
                   ELSE sessoes[k]]
  /\ devidos' = [devidos EXCEPT !.tcp = {k \in @ : sessoes[k].processo # p}]
  /\ calma' = FALSE
  /\ UNCHANGED <<ligacoes, pagina, compra>>
-----------------------------------------------------------------------------
(* The web application. *)

\* Each bean registers itself; the last one is called.
WebCliente ==
  /\ web' = "responde"
  /\ UNCHANGED <<abertas, guardadas, presos, vivos, sessoes, ligacoes, mercado, calma>>
CairWeb ==
  /\ web = "responde" /\ web' = "morto"
  /\ abertas' = {} /\ guardadas' = {} /\ presas' = {} /\ tabelaPresa' = FALSE
  /\ devidos' = [devidos EXCEPT !.web = {}]
  /\ calma' = FALSE
  /\ UNCHANGED <<vivos, sessoes, ligacoes, compra>>

\* onOpen puts the page in both collections; onClose removes it from one.
AbrirPagina(u) ==
  /\ web = "responde"
  /\ abertas' = abertas \cup {u} /\ guardadas' = guardadas \cup {u}
  /\ calma' = FALSE
  /\ UNCHANGED <<web, presos, vivos, sessoes, ligacoes, mercado>>
FecharPagina(u) ==
  /\ u \in abertas
  /\ abertas' = abertas \ {u} /\ presas' = presas \ {u}
  /\ devidos' = [devidos EXCEPT !.web = @ \ {u}]
  /\ UNCHANGED <<web, guardadas, tabelaPresa, vivos, sessoes, ligacoes, compra, calma>>

\* A browser stops to read, and writeTextMessage to it waits for room: on the page
\* of a user, or on one of those that show prices, until that one is closed
\* (LargarTabela).
PrenderPagina(u) ==
  /\ PodePrender /\ u \in abertas
  /\ presas' = {u}
  /\ UNCHANGED <<web, abertas, guardadas, tabelaPresa, vivos, sessoes, ligacoes,
                 mercado, calma>>
PrenderTabela ==
  /\ PodePrender /\ web = "responde"
  /\ tabelaPresa' = TRUE
  /\ UNCHANGED <<web, abertas, guardadas, presas, vivos, sessoes, ligacoes, mercado,
                 calma>>
LargarTabela ==
  /\ tabelaPresa /\ tabelaPresa' = FALSE
  /\ UNCHANGED <<web, abertas, guardadas, presas, vivos, sessoes, ligacoes, mercado,
                 calma>>
-----------------------------------------------------------------------------
(* The end of the purchase. *)

\* Who should be told: logged in on a server the RMI server knows of, or with a
\* page open.
Presentes ==
  [tcp |-> {k \in DOMAIN sessoes : /\ sessoes[k].aberta /\ sessoes[k].nome # Ninguem
                                   /\ Ligacoes(sessoes[k].processo) > 0},
   web |-> abertas]

\* terminarcompra: the sale is saved, and enviarnotificacoes begins, with one
\* notice for every lot that was bought.
Terminar(notas) ==
  /\ compra.fase = "livre"
  /\ CalmaSe(/\ \A k \in DOMAIN sessoes : sessoes[k].nome # Ninguem
             /\ \A p \in Processos : Ligacoes(p) = Sessoes(p))
  /\ compra' = [fase |-> "tcp", notas |-> notas, nota |-> 1, proximo |-> 1,
                tamanho |-> Len(ligacoes), escritas |-> {}]
  /\ devidos' = Presentes
  /\ UNCHANGED <<vivos, sessoes, ligacoes, pagina>>

Vendedor == compra.notas[compra.nota]
Fase(f) == compra' = [compra EXCEPT !.fase = f]
\* The next notice begins a new loop over the stubs; after the last the purchase
\* is answered.
Seguinte ==
  compra' = IF compra.nota = Len(compra.notas)
            THEN [compra EXCEPT !.fase = "respondida"]
            ELSE [compra EXCEPT !.fase = "tcp", !.nota = @ + 1, !.proximo = 1,
                                !.tamanho = Len(ligacoes)]

\* mutant: the loop ends at the first client of another name.
AlcanceCurto(p) ==
  {k \in DOMAIN sessoes :
     /\ sessoes[k].processo = p
     /\ \A j \in 1..k : sessoes[j].processo = p => sessoes[j].nome = Vendedor}
\* The threads of p that addNotification comes to: it goes in the order of the
\* list, and comparing the null name of a client ends it with an exception.
Alcance(p) ==
  {k \in DOMAIN sessoes :
     /\ sessoes[k].processo = p
     /\ \A j \in 1..k : sessoes[j].processo = p => sessoes[j].nome # Ninguem}
Rebenta(p) == \E k \in DOMAIN sessoes : sessoes[k].processo = p /\ sessoes[k].nome = Ninguem
Destinos(p) == {k \in Alcance(p) : sessoes[k].nome = Vendedor}

\* The iterator of ligacoes: it ends when the cursor is at the end, and throws
\* when the vector grew since the loop began.
Servidor == ligacoes[compra.proximo]
NoFim == compra.proximo - 1 = Len(ligacoes)
Cresceu == compra.tamanho # Len(ligacoes)

\* mutant: the same stub is called again.
AvisarServidorOutraVez ==
  /\ compra.fase = "tcp" /\ ~NoFim /\ ~Cresceu /\ Servidor \in vivos
  /\ \A k \in Destinos(Servidor) : ~sessoes[k].presa
  /\ sessoes' = [k \in DOMAIN sessoes |->
                   IF k \in Destinos(Servidor) /\ sessoes[k].aberta
                   THEN [sessoes[k] EXCEPT !.recebeu = Append(@, compra.nota)]
                   ELSE sessoes[k]]
  /\ compra' = [compra EXCEPT !.fase = IF Rebenta(Servidor) THEN "erro" ELSE @]
  /\ UNCHANGED <<vivos, ligacoes, pagina, devidos, calma>>
\* One call of addNotification: println to each thread of that name waits for
\* room, and a closed stream swallows what is written.
AvisarServidor ==
  /\ compra.fase = "tcp" /\ ~NoFim /\ ~Cresceu /\ Servidor \in vivos
  /\ \A k \in Destinos(Servidor) : ~sessoes[k].presa
  /\ sessoes' = [k \in DOMAIN sessoes |->
                   IF k \in Destinos(Servidor) /\ sessoes[k].aberta
                   THEN [sessoes[k] EXCEPT !.recebeu = Append(@, compra.nota)]
                   ELSE sessoes[k]]
  /\ compra' = [compra EXCEPT !.fase = IF Rebenta(Servidor) THEN "erro" ELSE @,
                              !.proximo = @ + 1]
  /\ UNCHANGED <<vivos, ligacoes, pagina, devidos, calma>>

\* The exceptions of the loop leave enviarNotificacao, and the purchase.
AvisarFalha ==
  /\ compra.fase = "tcp" /\ ~NoFim
  /\ Cresceu \/ Servidor \notin vivos
  /\ Fase("erro")
  /\ UNCHANGED <<vivos, sessoes, ligacoes, pagina, devidos, calma>>

AvisarFim ==
  /\ compra.fase = "tcp" /\ NoFim
  /\ Fase("web")
  /\ UNCHANGED <<vivos, sessoes, ligacoes, pagina, devidos, calma>>

\* enviarNotificacaoWeb: addNote looks the user up when any page is open, and
\* throws when that user never had one.  A bean that is gone is only logged.  The
\* write waits for a page that does not read, and fails quietly on a closed one.
SemPagina == abertas # {} /\ Vendedor \notin guardadas
\* mutant: addNote waits for the page.
AvisarWebEspera ==
  /\ compra.fase = "web"
  /\ web = "responde" => ~SemPagina
  /\ Vendedor \notin presas
  /\ compra' = [compra EXCEPT !.fase = "preco",
       !.escritas = IF Vendedor \in abertas THEN @ \cup {compra.nota} ELSE @]
  /\ UNCHANGED <<vivos, sessoes, ligacoes, pagina, devidos, calma>>
AvisarWeb ==
  /\ compra.fase = "web" /\ Vendedor \notin presas
  /\ IF web = "responde" /\ SemPagina THEN Fase("erro")
     ELSE compra' = [compra EXCEPT !.fase = "preco",
            !.escritas = IF Vendedor \in abertas THEN @ \cup {compra.nota} ELSE @]
  /\ UNCHANGED <<vivos, sessoes, ligacoes, pagina, devidos, calma>>

\* updateprice writes to every page of prices; what it throws nothing catches.
ActualizarPrecos ==
  /\ compra.fase = "preco" /\ ~tabelaPresa
  /\ IF web = "morto" THEN Fase("erro") ELSE Seguinte
  /\ UNCHANGED <<vivos, sessoes, ligacoes, pagina, devidos, calma>>

PassoCompra ==
  AvisarServidor \/ AvisarFalha \/ AvisarFim \/ AvisarWeb \/ ActualizarPrecos

Ambiente ==
  \/ \E p \in Processos : Ligar(p) \/ AdicionaCliente(p) \/ Cair(p)
  \/ \E k \in DOMAIN sessoes : Sair(k) \/ Prender(k) \/ \E u \in Utilizadores : Entrar(k, u)
  \/ WebCliente \/ CairWeb \/ PrenderTabela \/ LargarTabela
  \/ \E u \in Utilizadores : AbrirPagina(u) \/ FecharPagina(u) \/ PrenderPagina(u)

\* Bound: one purchase, with which the behaviour ends.
Acabou == compra.fase \in {"respondida", "erro"}
Next ==
  \/ ~Acabou /\ Ambiente
  \/ \E n \in 1..MaxNotas : \E notas \in [1..n -> Utilizadores] : Terminar(notas)
  \/ PassoCompra

\* The thread of the purchase runs; a client or page need not read or leave.
Spec == Init /\ [][Next]_vars /\ WF_vars(PassoCompra)
-----------------------------------------------------------------------------
Vezes(k, n) == Cardinality({i \in DOMAIN sessoes[k].recebeu : sessoes[k].recebeu[i] = n})

\* A purchase that is answered with 1 has told every seller who was there when
\* the sale was done and stayed, on every session and on the page: the loops of
\* enviarnotificacoes and addNotification skip nobody (lines 1010 and 159).
RespondidaEntaoAvisados ==
  compra.fase = "respondida" =>
    \A n \in DOMAIN compra.notas :
      /\ \A k \in devidos.tcp : sessoes[k].nome = compra.notas[n] => Vezes(k, n) > 0
      /\ compra.notas[n] \in devidos.web => n \in compra.escritas

\* The buyer of a sale that was done and saved gets the answer 1, unless a
\* server or the web application stopped, a page was opened, or somebody was
\* connecting or logging in meanwhile (line 1033 sends, line 1034 answers).
CompraRespondida == calma => compra.fase # "erro"

\* A session gets a notice once for each connection its server registered (line
\* 658 calls each stub, line 159 goes over all threads of the server).
AvisosPorLigacao ==
  \A k \in DOMAIN sessoes : \A n \in 1..MaxNotas :
    Vezes(k, n) <= Ligacoes(sessoes[k].processo)

\* A seller's client or page, or a page of prices, that does not read.
AlguemNaoLe ==
  \/ \E k \in DOMAIN sessoes :
       sessoes[k].presa /\ \E n \in DOMAIN compra.notas : compra.notas[n] = sessoes[k].nome
  \/ \E n \in DOMAIN compra.notas : compra.notas[n] \in presas
  \/ tabelaPresa
\* The monitor that efectuarcompra holds meanwhile is released (line 682), unless
\* a client or a page does not read what is sent to it: println of line 235 of the
\* TCP server, writeTextMessage of lines 202, 147 and 154 of the bean, in the
\* callbacks that the purchase waits for.
AcabaSempre == compra.fase = "tcp" ~> Acabou \/ AlguemNaoLe
=============================================================================
