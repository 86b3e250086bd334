--------------------------- MODULE ParServidores ---------------------------
(***************************************************************************)
(* ClienteUDP: the thread with which the two TCP servers decide which of   *)
(* them is the primary.  A server starts as a secondary and asks the other *)
(* every 2 seconds; when no answer comes in 3 it becomes the primary, for  *)
(* as long as it runs, and answers the other's datagrams.                  *)
(*                                                                         *)
(* Time passes in seconds (Tick), and only when no thread has anything to  *)
(* do: a datagram that is not lost arrives within a second.  The servers   *)
(* run on two machines (on one, the port 1235 of the second to become the  *)
(* primary is taken, and it answers nobody); their sockets can be opened,  *)
(* and the address of the other resolves.                                  *)
(***************************************************************************)
EXTENDS Integers

CONSTANTS
  A, B,       \* the servers
  MaxQuedas,  \* bound: servers that stop
  MaxFalhas   \* bound: calls to send that fail

ASSUME ServidoresAssumption == A # B
ASSUME LimitesAssumption == MaxQuedas \in Nat /\ MaxFalhas \in Nat

Servidores == {A, B}
Outro(s) == IF s = A THEN B ELSE A

\* setSoTimeout(3000) and sleep(2000).
Espera == 3
Intervalo == 2

VARIABLES
  tipo,       \* IdeaBrokerServerTCP.type of each server
  fase,       \* where its thread is; "mestre" is the second loop
  prazo,      \* seconds until its timeout, or until it wakes up
  rede,       \* the datagrams on their way: [de, para, que]
  semMestre,  \* history: seconds it has run since there was a primary
  ordem,      \* history: no datagram was lost, no send or receive failed beside
              \* a server that runs in a way that promotes (FalhaPromove), and
              \* every server was started beside one that answers or beside none
  quedas, falhas \* counts, bounded

vars == <<tipo, fase, prazo, rede, semMestre, ordem, quedas, falhas>>

Datagramas == [de : Servidores, para : Servidores, que : {"ping", "resposta"}]

TypeOK ==
  /\ tipo \in [Servidores -> {"S", "P"}]
  /\ fase \in [Servidores ->
                 {"morto", "enviar", "esperar", "dormir", "abrir", "mestre"}]
  /\ prazo \in [Servidores -> 0..Espera]
  /\ rede \subseteq Datagramas
  /\ semMestre \in [Servidores -> Nat]
  /\ ordem \in BOOLEAN
  /\ quedas \in 0..MaxQuedas /\ falhas \in 0..MaxFalhas

Init ==
  /\ tipo = [s \in Servidores |-> "S"]
  /\ fase = [s \in Servidores |-> "morto"]
  /\ prazo = [s \in Servidores |-> 0]
  /\ rede = {}
  /\ semMestre = [s \in Servidores |-> 0]
  /\ ordem = TRUE
  /\ quedas = 0 /\ falhas = 0

\* The datagram "que" that s sends to the other server.
De(s, que) == [de |-> s, para |-> Outro(s), que |-> que]
\* A datagram reaches a socket that is open, or is dropped.
Sem(m) == rede \ {m}
Entregar(s, que) == rede \cup {De(s, que)}

Primaria(s) == fase[s] # "morto" /\ tipo[s] = "P"
HaPrimario == \E s \in Servidores : Primaria(s)
-----------------------------------------------------------------------------
\* main starts the thread: the server is a secondary (type = "S").
Arrancar(s) ==
  /\ fase[s] = "morto"
  /\ tipo' = [tipo EXCEPT ![s] = "S"]
  /\ fase' = [fase EXCEPT ![s] = "enviar"]
  /\ prazo' = [prazo EXCEPT ![s] = 0]
  /\ semMestre' = [semMestre EXCEPT ![s] = 0]
  /\ ordem' = (ordem /\ fase[Outro(s)] \in {"morto", "mestre"})
  /\ UNCHANGED <<rede, quedas, falhas>>

\* One turn of the loop: a ping, then up to 3 seconds for the answer.
Enviar(s) ==
  /\ fase[s] = "enviar"
  /\ rede' = Entregar(s, "ping")
  /\ fase' = [fase EXCEPT ![s] = "esperar"]
  /\ prazo' = [prazo EXCEPT ![s] = Espera]
  /\ UNCHANGED <<tipo, semMestre, ordem, quedas, falhas>>

\* A SocketException or UnknownHostException: the server stays a secondary and
\* tries again later.
EnviarFalha(s) ==
  /\ fase[s] = "enviar" /\ falhas < MaxFalhas
  /\ fase' = [fase EXCEPT ![s] = "dormir"]
  /\ prazo' = [prazo EXCEPT ![s] = Intervalo]
  /\ falhas' = falhas + 1
  /\ UNCHANGED <<tipo, rede, semMestre, ordem, quedas>>

\* Any other IOException of send, or of receive before its timeout, is caught
\* where the timeout is: the server is the primary at once.
FalhaPromove(s) ==
  /\ fase[s] \in {"enviar", "esperar"}
  /\ tipo' = [tipo EXCEPT ![s] = "P"]
  /\ fase' = [fase EXCEPT ![s] = "abrir"]
  /\ semMestre' = [o \in Servidores |-> 0]
  /\ ordem' = (ordem /\ fase[Outro(s)] = "morto")
  /\ UNCHANGED <<prazo, rede, quedas, falhas>>

\* mutant: the port is open before the server is the primary.
ReceberPingSempre(s, m) ==
  /\ m.para = s /\ m.que = "ping" /\ fase[s] # "morto"
  /\ rede' = Sem(m) \cup {De(s, "resposta")}
  /\ UNCHANGED <<tipo, fase, prazo, semMestre, ordem, quedas, falhas>>
\* A ping is answered by a primary that opened its port; a closed port drops it.
ReceberPing(s, m) ==
  /\ m.para = s /\ m.que = "ping"
  /\ rede' = IF fase[s] = "mestre" THEN Sem(m) \cup {De(s, "resposta")}
                                   ELSE Sem(m)
  /\ UNCHANGED <<tipo, fase, prazo, semMestre, ordem, quedas, falhas>>

\* Any answer, whatever it says, keeps the server a secondary.
ReceberResposta(s, m) ==
  /\ m.para = s /\ m.que = "resposta"
  /\ rede' = Sem(m)
  /\ fase' = IF fase[s] = "esperar" THEN [fase EXCEPT ![s] = "dormir"] ELSE fase
  /\ prazo' = IF fase[s] = "esperar" THEN [prazo EXCEPT ![s] = Intervalo] ELSE prazo
  /\ UNCHANGED <<tipo, semMestre, ordem, quedas, falhas>>

Acordar(s) ==
  /\ fase[s] = "dormir" /\ prazo[s] = 0
  /\ fase' = [fase EXCEPT ![s] = "enviar"]
  /\ UNCHANGED <<tipo, prazo, rede, semMestre, ordem, quedas, falhas>>

\* mutant: the timeout is zero from the start.
MudarPrimarioLogo(s) ==
  /\ fase[s] = "esperar"
  /\ tipo' = [tipo EXCEPT ![s] = "P"]
  /\ fase' = [fase EXCEPT ![s] = "abrir"]
  /\ UNCHANGED <<prazo, rede, semMestre, ordem, quedas, falhas>>
\* mutant: the second loop begins with type = "S".
MudarSemTipo(s) ==
  /\ fase[s] = "esperar" /\ prazo[s] = 0
  /\ fase' = [fase EXCEPT ![s] = "abrir"]
  /\ UNCHANGED <<tipo, prazo, rede, semMestre, ordem, quedas, falhas>>
\* The timeout: type = "P", so that main accepts clients.
MudarPrimario(s) ==
  /\ fase[s] = "esperar" /\ prazo[s] = 0
  /\ tipo' = [tipo EXCEPT ![s] = "P"]
  /\ fase' = [fase EXCEPT ![s] = "abrir"]
  /\ semMestre' = [o \in Servidores |-> 0]
  /\ UNCHANGED <<prazo, rede, ordem, quedas, falhas>>

\* aSocket = new DatagramSocket(serverPort), and the second loop.
AbrirPorta(s) ==
  /\ fase[s] = "abrir"
  /\ fase' = [fase EXCEPT ![s] = "mestre"]
  /\ UNCHANGED <<tipo, prazo, rede, semMestre, ordem, quedas, falhas>>

Passo(s) ==
  \/ Enviar(s) \/ Acordar(s) \/ MudarPrimario(s) \/ AbrirPorta(s)
  \/ \E m \in rede : ReceberPing(s, m) \/ ReceberResposta(s, m)

Perder(m) ==
  /\ rede' = Sem(m)
  /\ ordem' = FALSE
  /\ UNCHANGED <<tipo, fase, prazo, semMestre, quedas, falhas>>

\* The process ends; what it sent or was sent finds no socket.
Cair(s) ==
  /\ fase[s] # "morto" /\ quedas < MaxQuedas
  /\ fase' = [fase EXCEPT ![s] = "morto"]
  /\ rede' = {m \in rede : s \notin {m.de, m.para}}
  /\ semMestre' = [semMestre EXCEPT ![s] = 0]
  /\ quedas' = quedas + 1
  /\ UNCHANGED <<tipo, prazo, ordem, falhas>>

\* A thread that a timer will wake: receive with its timeout, or sleep.
EmContagem(s) == fase[s] \in {"esperar", "dormir"}
\* A second passes: nothing is on its way and every thread waits.
Parado(s) ==
  /\ fase[s] \notin {"enviar", "abrir"}
  /\ EmContagem(s) => prazo[s] > 0
Tick ==
  /\ rede = {} /\ \A s \in Servidores : Parado(s)
  /\ \E s \in Servidores : EmContagem(s)
  /\ prazo' = [s \in Servidores |->
                 IF EmContagem(s) THEN prazo[s] - 1 ELSE prazo[s]]
  /\ semMestre' = [s \in Servidores |->
                     IF fase[s] = "morto" \/ HaPrimario THEN 0 ELSE semMestre[s] + 1]
  /\ UNCHANGED <<tipo, fase, rede, ordem, quedas, falhas>>

Next ==
  \/ \E s \in Servidores :
       Arrancar(s) \/ EnviarFalha(s) \/ FalhaPromove(s) \/ Passo(s) \/ Cair(s)
  \/ \E m \in rede : Perder(m)
  \/ Tick

\* The threads run and time passes; nobody has to start a server.
Spec ==
  /\ Init /\ [][Next]_vars
  /\ \A s \in Servidores : WF_vars(Passo(s))
  /\ WF_vars(Tick)
-----------------------------------------------------------------------------
\* Two primaries accept clients of their own (line 122 of IdeaBrokerServerTCP)
\* and nothing makes one a secondary again: there is one at most until a
\* datagram is lost, a call fails with an IOException that is caught as if it were
\* the timeout (line 69 of ClienteUDP), or a server is started beside one that
\* does not answer yet.
UmPrimario == ordem => ~(Primaria(A) /\ Primaria(B))

\* A secondary takes over within 5 seconds, whatever is lost: at most 2 asleep
\* after the last answer and 3 waiting for the next (lines 48 and 90 of
\* ClienteUDP), and 2 more for each time that it could not send and slept.
TomaPosse ==
  \A s \in Servidores : semMestre[s] <= Espera + Intervalo * (1 + falhas)

\* What clients are promised, with the role of each server as they see it.
Papel == [s \in Servidores |-> IF fase[s] = "morto" THEN "morto" ELSE tipo[s]]
Abstracto == INSTANCE Primario WITH papel <- Papel
\* The datagrams, the timeouts and the second port elect a primary whenever
\* there is none, and no second one while the order of "ordem" is kept.
ImplementaPrimario == Abstracto!Spec
=============================================================================
