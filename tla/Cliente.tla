------------------------------- MODULE Cliente -------------------------------
(***************************************************************************)
(* IdeaBrokerClientTCP: a client of the two TCP servers, with its three    *)
(* kinds of threads.  main connects, waits for the connection to fail and  *)
(* connects to the other server; MenuPrincipal sends what the user asks    *)
(* for; and a Buffer thread for every connection sends again what could    *)
(* not be sent.  The servers are those of Primario: any that runs lets     *)
(* clients connect, and only the primary takes them from the queue.        *)
(*                                                                         *)
(* Requests are topics (command 11) and ideas (14; replies, 15, are the    *)
(* same to this module).  Their lines are two: the command, and what the   *)
(* user then writes.  Listings, purchases and notifications are left out,  *)
(* and so is a server that stops while the user logs in.                   *)
(***************************************************************************)
EXTENDS Integers, Sequences, FiniteSets

CONSTANTS
  MAXIMO_BUFFER, \* requests the buffer takes
  Tipos,         \* the kinds of requests the user makes
  MaxPedidos, MaxLigacoes, MaxQuedas \* bounds

ASSUME ConstantesAssumption ==
  /\ MAXIMO_BUFFER \in Nat /\ Tipos \subseteq {"topico", "ideia"}
  /\ MaxPedidos \in Nat /\ MaxLigacoes \in Nat /\ MaxQuedas \in Nat

\* Positions of the arrays ServidoresTCP and Portas.
Servidores == {0, 1}
Ids == 1..MaxPedidos

VARIABLES
  papel,     \* what each server is (Primario)
  ligacoes,  \* the connections made; the last one is the client's
  contador, principal, estado, \* main: its counter, where it is, estado_servidor
  menu,      \* MenuPrincipal: where it is, its request and the stream it reads
  buffer,    \* requests to send again (Pacote)
  replicas,  \* where the Buffer thread of each connection is
  feitos,    \* history: the requests the RMI server carried out, in order
  recusados, \* history: the requests the user was told are not accepted
  reiniciado, \* history: a server was started again
  pedidos, quedas \* counts, bounded

vars == <<papel, ligacoes, contador, principal, estado, menu, buffer, replicas,
          feitos, recusados, reiniciado, pedidos, quedas>>
servidor == <<papel, feitos, reiniciado, quedas>>
escuta == <<contador, principal, estado>>
utilizador == <<menu, recusados, pedidos>>

Par == INSTANCE Primario WITH ordem <- TRUE

\* A line on its way to the server.
Linha == [que : {"comando", "dados", "anuncio"}, id : 0..MaxPedidos]
Ligacao == [servidor : Servidores, aberta : BOOLEAN,
            thread : {"fila", "pronta", "rebentou", "baralhada"},
            eu : BOOLEAN, comando : 0..MaxPedidos,
            linhas : Seq(Linha), respostas : Seq(Ids)]
Pacote == [id : Ids, tipo : Tipos, comandos : BOOLEAN]

TypeOK ==
  /\ papel \in [Servidores -> {"morto", "S", "P"}]
  /\ ligacoes \in Seq(Ligacao) /\ Len(ligacoes) <= MaxLigacoes
  /\ contador \in 0..6 /\ estado \in {-1, 0, 1}
  /\ principal \in {"ligar", "iniciar", "ler", "religar", "reiniciar",
                    "anunciar", "dormir", "morto"}
  /\ menu \in [fase : {"login", "livre", "escrever", "espera", "morto"},
               id : 0..MaxPedidos, tipo : Tipos, lig : 0..MaxLigacoes]
  /\ buffer \in Seq(Pacote) /\ Len(buffer) <= MAXIMO_BUFFER
  /\ replicas \in Seq({"nao", "inicio", "espera", "dormir", "fim", "rebentou"})
  /\ Len(replicas) = Len(ligacoes)
  /\ feitos \in Seq(Ids) /\ recusados \subseteq Ids
  /\ reiniciado \in BOOLEAN
  /\ pedidos \in 0..MaxPedidos /\ quedas \in 0..MaxQuedas

Actual == Len(ligacoes)
Aberta(k) == ligacoes[k].aberta
Servida(k) == ligacoes[k].thread # "fila"

Init ==
  /\ papel = [s \in Servidores |-> IF s = 0 THEN "P" ELSE "S"]
  /\ ligacoes = <<>> /\ replicas = <<>>
  /\ contador = 0 /\ principal = "ligar" /\ estado = 0
  /\ \E t \in Tipos : menu = [fase |-> "login", id |-> 0, tipo |-> t, lig |-> 0]
  /\ buffer = <<>> /\ feitos = <<>> /\ recusados = {}
  /\ reiniciado = FALSE /\ pedidos = 0 /\ quedas = 0

-----------------------------------------------------------------------------
(* The connections and the threads of the server (ClienteTCP). *)

\* println of lines; a closed stream swallows them.
Enviar(k, linhas) ==
  ligacoes' = IF Aberta(k) THEN [ligacoes EXCEPT ![k].linhas = @ \o linhas]
                           ELSE ligacoes

\* A connection to a server that runs: it waits in the queue of its port.
NovaLigacao(s) ==
  /\ ligacoes' = Append(ligacoes,
       [servidor |-> s, aberta |-> TRUE, thread |-> "fila", eu |-> FALSE,
        comando |-> 0, linhas |-> <<>>, respostas |-> <<>>])
  /\ replicas' = Append(replicas, "nao")

\* A primary takes the connection from the queue and starts a thread.
Aceitar(k) ==
  /\ Aberta(k) /\ ~Servida(k) /\ papel[ligacoes[k].servidor] = "P"
  /\ ligacoes' = [ligacoes EXCEPT ![k].thread = "pronta"]
  /\ UNCHANGED <<servidor, escuta, utilizador, buffer, replicas>>

\* The thread reads a line.  Data that do not follow their command are taken
\* for something else ("baralhada"), and a request before the user is known
\* ends the thread with a NullPointerException ("rebentou"): in both cases
\* nothing is answered any more, though the connection stays open.
AtenderLinha(k) ==
  LET l == Head(ligacoes[k].linhas)
      resto == [ligacoes[k] EXCEPT !.linhas = Tail(@)]
      depois ==
        CASE l.que = "anuncio" /\ resto.comando = 0 -> [resto EXCEPT !.eu = TRUE]
          [] l.que = "comando" /\ resto.comando = 0 -> [resto EXCEPT !.comando = l.id]
          [] l.que = "dados" /\ resto.comando = l.id /\ resto.eu ->
               [resto EXCEPT !.comando = 0, !.respostas = Append(@, l.id)]
          [] l.que = "dados" /\ resto.comando = l.id /\ ~resto.eu ->
               [resto EXCEPT !.thread = "rebentou"]
          [] OTHER -> [resto EXCEPT !.thread = "baralhada"]
  IN /\ Aberta(k) /\ ligacoes[k].thread = "pronta" /\ ligacoes[k].linhas # <<>>
     /\ ligacoes' = [ligacoes EXCEPT ![k] = depois]
     /\ feitos' = IF Len(depois.respostas) > Len(ligacoes[k].respostas)
                  THEN Append(feitos, l.id) ELSE feitos
     /\ UNCHANGED <<papel, reiniciado, quedas, escuta, utilizador, buffer, replicas>>

\* A server stops.  Answers it sent may still be read, or are lost with it.
CairServidor(s) ==
  /\ quedas < MaxQuedas
  /\ menu.fase = "login" => ligacoes = <<>>
  /\ Par!Cair(s)
  /\ \E guarda \in BOOLEAN :
       ligacoes' = [k \in DOMAIN ligacoes |->
         IF ligacoes[k].servidor # s THEN ligacoes[k]
         ELSE [ligacoes[k] EXCEPT !.aberta = FALSE, !.linhas = <<>>,
                                  !.respostas = IF guarda THEN @ ELSE <<>>]]
  /\ quedas' = quedas + 1
  /\ UNCHANGED <<feitos, reiniciado, escuta, utilizador, buffer, replicas>>

PromoverServidor(s) ==
  /\ Par!Promover(s)
  /\ UNCHANGED <<ligacoes, feitos, reiniciado, quedas, escuta, utilizador, buffer,
                 replicas>>
ArrancarServidor(s) ==
  /\ Par!Arrancar(s)
  /\ reiniciado' = TRUE
  /\ UNCHANGED <<ligacoes, feitos, quedas, escuta, utilizador, buffer, replicas>>
-----------------------------------------------------------------------------
(* The thread main. *)

\* The array ServidoresTCP has two places, each tried three times.
Posicao == contador \div 3

\* The outer loop.  An IOException counts, without returning to 0: the seventh
\* attempt is outside of the arrays and ends the thread.
Ligar ==
  /\ principal = "ligar" /\ Posicao \in Servidores /\ papel[Posicao] # "morto"
  /\ Len(ligacoes) < MaxLigacoes
  /\ NovaLigacao(Posicao)
  /\ estado' = -1 /\ principal' = "iniciar"
  /\ UNCHANGED <<contador, servidor, utilizador, buffer>>
LigarFalha ==
  /\ principal = "ligar" /\ Posicao \in Servidores /\ papel[Posicao] = "morto"
  /\ contador' = contador + 1
  /\ UNCHANGED <<principal, estado, ligacoes, servidor, utilizador, buffer, replicas>>
ForaDasPosicoes ==
  /\ principal = "ligar" /\ Posicao \notin Servidores
  /\ principal' = "morto"
  /\ UNCHANGED <<contador, estado, ligacoes, servidor, utilizador, buffer, replicas>>

\* iniciar returns when the server's thread has greeted, with a Buffer thread;
\* or, without one, when the connection fails.
ComReplica == IF Servida(Actual) /\ Aberta(Actual)
              THEN [replicas EXCEPT ![Actual] = "inicio"] ELSE replicas
Iniciar ==
  /\ principal = "iniciar" /\ (Servida(Actual) \/ ~Aberta(Actual))
  /\ replicas' = ComReplica
  /\ estado' = 1 /\ principal' = "ler"
  /\ UNCHANGED <<contador, ligacoes, servidor, utilizador, buffer>>

\* mutant: it goes back to the first server before it tried the second.
ProximoPrimeiro(c) == IF c + 1 >= 3 THEN 0 ELSE c + 1
\* ++contador, and back to 0.
Proximo(c) == IF c + 1 >= 6 THEN 0 ELSE c + 1

\* next() throws: the connection failed.
Ler ==
  /\ principal = "ler" /\ ~Aberta(Actual)
  /\ contador' = Proximo(contador)
  /\ estado' = 0 /\ principal' = "religar"
  /\ UNCHANGED <<ligacoes, servidor, utilizador, buffer, replicas>>

Religar ==
  /\ principal = "religar" /\ papel[Posicao] # "morto"
  /\ Len(ligacoes) < MaxLigacoes
  /\ NovaLigacao(Posicao)
  /\ principal' = "reiniciar"
  /\ UNCHANGED <<contador, estado, servidor, utilizador, buffer>>
ReligarFalha ==
  /\ principal = "religar" /\ papel[Posicao] = "morto"
  /\ principal' = "dormir"
  /\ UNCHANGED <<contador, estado, ligacoes, servidor, utilizador, buffer, replicas>>
Acordar ==
  /\ principal = "dormir" /\ principal' = "ler"
  /\ UNCHANGED <<contador, estado, ligacoes, servidor, utilizador, buffer, replicas>>

\* iniciar, on the way back: the Buffer thread starts before the user is
\* announced.
Reiniciar ==
  /\ principal = "reiniciar" /\ (Servida(Actual) \/ ~Aberta(Actual))
  /\ replicas' = ComReplica
  /\ principal' = "anunciar"
  /\ UNCHANGED <<contador, estado, ligacoes, servidor, utilizador, buffer>>
\* anunciar_utilizador, and the server is back.
Anunciar ==
  /\ principal = "anunciar"
  /\ Enviar(Actual, <<[que |-> "anuncio", id |-> 0]>>)
  /\ estado' = 1 /\ principal' = "ler"
  /\ UNCHANGED <<contador, servidor, utilizador, buffer, replicas>>

PassoPrincipal ==
  \/ Ligar \/ LigarFalha \/ ForaDasPosicoes \/ Iniciar \/ Ler
  \/ Religar \/ ReligarFalha \/ Acordar \/ Reiniciar \/ Anunciar
-----------------------------------------------------------------------------
(* The user, and the thread MenuPrincipal. *)

Entrar ==
  /\ menu.fase = "login" /\ estado = 1
  /\ menu' = [menu EXCEPT !.fase = "livre"]
  /\ ligacoes' = [ligacoes EXCEPT ![Actual].eu = TRUE]
  /\ UNCHANGED <<recusados, pedidos, servidor, escuta, buffer, replicas>>

\* A request is chosen, while the client believes it is connected: println of
\* the command, before the user writes the rest.
Escolher(t) ==
  /\ menu.fase = "livre" /\ estado # 0 /\ pedidos < MaxPedidos
  /\ pedidos' = pedidos + 1
  /\ menu' = [fase |-> "escrever", id |-> pedidos + 1, tipo |-> t, lig |-> 0]
  /\ Enviar(Actual, <<[que |-> "comando", id |-> pedidos + 1]>>)
  /\ UNCHANGED <<recusados, servidor, escuta, buffer, replicas>>

\* mutant: the limit is off by one.
GuardarMaisUm(comComandos) ==
  IF Len(buffer) <= MAXIMO_BUFFER
  THEN /\ buffer' = Append(buffer, [id |-> menu.id, tipo |-> menu.tipo,
                                    comandos |-> comComandos])
       /\ UNCHANGED recusados
  ELSE recusados' = recusados \cup {menu.id} /\ UNCHANGED buffer
\* The request is kept if there is room; the user is told when there is not.
Guardar(comComandos) ==
  IF Len(buffer) < MAXIMO_BUFFER
  THEN /\ buffer' = Append(buffer, [id |-> menu.id, tipo |-> menu.tipo,
                                    comandos |-> comComandos])
       /\ UNCHANGED recusados
  ELSE recusados' = recusados \cup {menu.id} /\ UNCHANGED buffer

\* The rest was written: it is sent, and its answer awaited; or it is kept.
EnviarDados ==
  /\ menu.fase = "escrever" /\ estado # 0
  /\ Enviar(Actual, <<[que |-> "dados", id |-> menu.id]>>)
  /\ menu' = [menu EXCEPT !.fase = "espera", !.lig = Actual]
  /\ UNCHANGED <<recusados, pedidos, servidor, escuta, buffer, replicas>>
GuardarDados ==
  /\ menu.fase = "escrever" /\ estado = 0
  /\ Guardar(TRUE)
  /\ menu' = [menu EXCEPT !.fase = "livre"]
  /\ UNCHANGED <<pedidos, ligacoes, servidor, escuta, replicas>>

\* nextBoolean: the first answer there is, whoever it is for.
Resposta(k) == ligacoes[k].respostas # <<>>
LerResposta ==
  /\ menu.fase = "espera" /\ Resposta(menu.lig)
  /\ ligacoes' = [ligacoes EXCEPT ![menu.lig].respostas = Tail(@)]
  /\ menu' = [menu EXCEPT !.fase = "livre"]
  /\ UNCHANGED <<recusados, pedidos, servidor, escuta, buffer, replicas>>

SemResposta(k) == ~Resposta(k) /\ ~Aberta(k)
\* mutant: the exception is ignored.
RespostaFalhaIgnorada ==
  /\ menu.fase = "espera" /\ SemResposta(menu.lig)
  /\ menu' = [menu EXCEPT !.fase = "livre"]
  /\ UNCHANGED <<recusados, buffer, pedidos, ligacoes, servidor, escuta, replicas>>
\* nextBoolean throws.  An idea is kept, with the empty list of commands of a
\* request that was sent; criartopico catches nothing, and the thread ends.
RespostaFalha ==
  /\ menu.fase = "espera" /\ SemResposta(menu.lig)
  /\ \/ /\ menu.tipo = "ideia"
        /\ Guardar(FALSE)
        /\ menu' = [menu EXCEPT !.fase = "livre"]
     \/ /\ menu.tipo = "topico"
        /\ menu' = [menu EXCEPT !.fase = "morto"]
        /\ UNCHANGED <<recusados, buffer>>
  /\ UNCHANGED <<pedidos, ligacoes, servidor, escuta, replicas>>
-----------------------------------------------------------------------------
(* The Buffer thread of the connection k. *)

Replica(k, de, para) ==
  replicas[k] = de /\ replicas' = [replicas EXCEPT ![k] = para]

ReplicaFim(k) ==
  /\ buffer = <<>> /\ Replica(k, "inicio", "fim")
  /\ UNCHANGED <<ligacoes, servidor, escuta, utilizador, buffer>>
\* getComandos().get(0) of a request without commands, outside of the try.
ReplicaRebenta(k) ==
  /\ buffer # <<>> /\ ~Head(buffer).comandos
  /\ Replica(k, "inicio", "rebentou")
  /\ UNCHANGED <<ligacoes, servidor, escuta, utilizador, buffer>>
ReplicaEnvia(k) ==
  /\ buffer # <<>> /\ Head(buffer).comandos
  /\ Replica(k, "inicio", "espera")
  /\ Enviar(k, <<[que |-> "comando", id |-> Head(buffer).id],
                 [que |-> "dados", id |-> Head(buffer).id]>>)
  /\ UNCHANGED <<servidor, escuta, utilizador, buffer>>

\* mutant: the request is not removed.
SemRetirar == buffer
\* remove(0); of an empty buffer it throws, and is ignored.
Retirar == IF buffer = <<>> THEN buffer ELSE Tail(buffer)

ReplicaResposta(k) ==
  /\ Resposta(k) /\ Replica(k, "espera", "dormir")
  /\ ligacoes' = [ligacoes EXCEPT ![k].respostas = Tail(@)]
  /\ buffer' = Retirar
  /\ UNCHANGED <<servidor, escuta, utilizador>>
ReplicaFalha(k) ==
  /\ SemResposta(k) /\ Replica(k, "espera", "dormir")
  /\ UNCHANGED <<ligacoes, servidor, escuta, utilizador, buffer>>
ReplicaAcorda(k) ==
  /\ Replica(k, "dormir", "inicio")
  /\ UNCHANGED <<ligacoes, servidor, escuta, utilizador, buffer>>

PassoReplica(k) ==
  \/ ReplicaFim(k) \/ ReplicaRebenta(k) \/ ReplicaEnvia(k)
  \/ ReplicaResposta(k) \/ ReplicaFalha(k) \/ ReplicaAcorda(k)
-----------------------------------------------------------------------------
Next ==
  \/ PassoPrincipal
  \/ Entrar \/ EnviarDados \/ GuardarDados \/ LerResposta \/ RespostaFalha
  \/ \E t \in Tipos : Escolher(t)
  \/ \E k \in DOMAIN ligacoes : PassoReplica(k) \/ Aceitar(k) \/ AtenderLinha(k)
  \/ \E s \in Servidores :
       CairServidor(s) \/ PromoverServidor(s) \/ ArrancarServidor(s)

\* Threads run, and a pair of servers without a primary elects one.  Users need
\* not do anything, and servers need not stop.
Spec ==
  /\ Init /\ [][Next]_vars
  /\ WF_vars(PassoPrincipal)
  /\ WF_vars(LerResposta \/ RespostaFalha)
  /\ \A k \in 1..MaxLigacoes :
       /\ WF_vars(k \in DOMAIN ligacoes /\ PassoReplica(k))
       /\ WF_vars(k \in DOMAIN ligacoes /\ (Aceitar(k) \/ AtenderLinha(k)))
  /\ WF_vars(\E s \in Servidores : PromoverServidor(s))
-----------------------------------------------------------------------------
NoBuffer(id) == \E i \in DOMAIN buffer : buffer[i].id = id
Vezes(id) == Cardinality({i \in DOMAIN feitos : feitos[i] = id})
Ligado ==
  principal = "ler" /\ estado = 1 /\ Aberta(Actual) /\ Servida(Actual)
NaRede(id) ==
  \E k \in DOMAIN ligacoes : \E i \in DOMAIN ligacoes[k].linhas :
    ligacoes[k].linhas[i] = [que |-> "dados", id |-> id]

\* No request disappears when one server stops at most: it was carried out, is
\* kept, is in the hands of the menu (also one that an exception has ended) or of
\* the server, or the user was told that it is not accepted (lines 671 to 694 of
\* IdeaBrokerClientTCP).  With a second stop two Buffer threads may send the same
\* head of the buffer, and the second of them removes the request after it.
NadaSePerde ==
  quedas <= 1 =>
    \A id \in 1..pedidos :
      \/ Vezes(id) > 0 \/ NoBuffer(id) \/ id \in recusados \/ NaRede(id)
      \/ menu.id = id /\ menu.fase \in {"escrever", "espera", "morto"}

\* A request is carried out again only because one more server stopped, though
\* the Buffer threads of all connections send the same head of the buffer
\* (line 1178): at most once for each server that stopped.
RepeticoesContadas ==
  \A id \in 1..pedidos : Vezes(id) > 1 => Vezes(id) <= quedas

\* main finds the primary again, and stays connected (lines 80 to 140), unless a
\* server was started again: a secondary takes connections too, and the client
\* waits for its greeting without a timeout while the other serves.
VoltaALigar ==
  \A s \in Servidores :
    <>[](papel[s] = "P") => <>[]Ligado \/ <>reiniciado
=============================================================================
