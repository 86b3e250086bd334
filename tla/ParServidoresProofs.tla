------------------------ MODULE ParServidoresProofs ------------------------
(***************************************************************************)
(* That the election takes over in order: for any number of stops, starts  *)
(* and sends that are tried again there is one primary at most, until a    *)
(* datagram is lost, a call fails as if it had timed out beside a server   *)
(* that runs, or a server is started beside one that does not answer.      *)
(*                                                                         *)
(* UmPrimario is not inductive: it does not say why a server that waits    *)
(* for an answer gets it before its timeout.  Regencia does: two servers   *)
(* that run are never both outside the second loop, so whoever waits       *)
(* beside another has a ping or an answer on its way, and time does not    *)
(* pass until it arrives.                                                  *)
(***************************************************************************)
EXTENDS ParServidores, TLAPS

Vivo(s) == fase[s] # "morto"

\* A server is a primary exactly in the last two phases.
TipoDaFase ==
  \A s \in Servidores : Vivo(s) =>
    (tipo[s] = "P" <=> fase[s] \in {"abrir", "mestre"})

\* Of two servers that run, just one is in the second loop.
UmResponde ==
  Vivo(A) /\ Vivo(B) =>
    \/ fase[A] = "mestre" /\ fase[B] \notin {"abrir", "mestre"}
    \/ fase[B] = "mestre" /\ fase[A] \notin {"abrir", "mestre"}

\* Who waits beside the other will be answered: time stands still until then.
SeraAtendido ==
  \A s \in Servidores :
    fase[s] = "esperar" /\ Vivo(Outro(s)) =>
      \/ De(s, "ping") \in rede
      \/ De(Outro(s), "resposta") \in rede
\* A wait with nothing on its way has its whole timeout ahead of it, until the
\* clock moves: 0 seconds are left only of a wait beside a server that stopped.
PrazoCorre ==
  \A s \in Servidores :
    fase[s] = "esperar" /\ Vivo(Outro(s)) => prazo[s] = Espera

\* The order that lasts as long as the environment keeps its side.
Regencia == UmResponde /\ SeraAtendido /\ PrazoCorre
Inv == TypeOK /\ TipoDaFase /\ (ordem => Regencia)
-----------------------------------------------------------------------------
LEMMA Pares ==
  /\ A # B /\ A \in Servidores /\ B \in Servidores
  /\ \A s \in Servidores : s = A \/ s = B
  /\ Outro(A) = B /\ Outro(B) = A
BY ServidoresAssumption DEF Servidores, Outro

LEMMA InvInicial == Init => Inv
<1> SUFFICES ASSUME Init PROVE Inv
  OBVIOUS
<1>1. TypeOK
  BY LimitesAssumption DEF Init, TypeOK, Espera
<1>2. \A s \in Servidores : fase[s] = "morto"
  BY DEF Init
<1>3. TipoDaFase /\ UmResponde /\ SeraAtendido /\ PrazoCorre
  BY <1>2, Pares DEF TipoDaFase, UmResponde, SeraAtendido, PrazoCorre, Vivo
<1> QED BY <1>1, <1>3 DEF Inv, Regencia

LEMMA InvDaUm == Inv => UmPrimario
BY Pares DEF Inv, Regencia, TipoDaFase, UmResponde, UmPrimario, Primaria, Vivo

(* The type invariant, whatever is lost and however servers are started. *)
LEMMA TypeOKPasso == TypeOK /\ [Next]_vars => TypeOK'
<1> SUFFICES ASSUME TypeOK, [Next]_vars PROVE TypeOK'
  OBVIOUS
<1>0. \A s \in Servidores : Outro(s) \in Servidores
  BY DEF Servidores, Outro
<1> USE LimitesAssumption DEF TypeOK, Espera
<1>1. ASSUME NEW s \in Servidores, Arrancar(s) PROVE TypeOK'
  BY <1>1, <1>0 DEF Arrancar
<1>2. ASSUME NEW s \in Servidores, Enviar(s) PROVE TypeOK'
  BY <1>2, <1>0 DEF Enviar, Entregar, De, Datagramas
<1>3. ASSUME NEW s \in Servidores, EnviarFalha(s) PROVE TypeOK'
  BY <1>3, <1>0 DEF EnviarFalha, Intervalo
<1>4. ASSUME NEW s \in Servidores, Acordar(s) PROVE TypeOK'
  BY <1>4, <1>0 DEF Acordar
<1>5. ASSUME NEW s \in Servidores, MudarPrimario(s) PROVE TypeOK'
  BY <1>5, <1>0 DEF MudarPrimario
<1>6. ASSUME NEW s \in Servidores, AbrirPorta(s) PROVE TypeOK'
  BY <1>6, <1>0 DEF AbrirPorta
<1>7. ASSUME NEW s \in Servidores, NEW m \in rede, ReceberPing(s, m) PROVE TypeOK'
  BY <1>7, <1>0 DEF ReceberPing, Sem, De, Datagramas
<1>8. ASSUME NEW s \in Servidores, NEW m \in rede, ReceberResposta(s, m) PROVE TypeOK'
  BY <1>8, <1>0 DEF ReceberResposta, Sem, Intervalo
<1>9. ASSUME NEW s \in Servidores, Cair(s) PROVE TypeOK'
  BY <1>9, <1>0 DEF Cair
<1>10. ASSUME NEW m \in rede, Perder(m) PROVE TypeOK'
  BY <1>10, <1>0 DEF Perder, Sem
<1>11. ASSUME Tick PROVE TypeOK'
  BY <1>11, <1>0 DEF Tick, Parado, EmContagem
<1>12. CASE UNCHANGED vars
  BY <1>12 DEF vars
<1>13. ASSUME NEW s \in Servidores, FalhaPromove(s) PROVE TypeOK'
  BY <1>13, <1>0 DEF FalhaPromove
<1> QED BY <1>1, <1>2, <1>3, <1>4, <1>5, <1>6, <1>7, <1>8, <1>9, <1>10, <1>11, <1>12, <1>13 DEF Next, Passo

(* Every server that runs is in a phase that goes with its type. *)
LEMMA TipoDaFasePasso == TypeOK /\ TipoDaFase /\ [Next]_vars => TipoDaFase'
<1> SUFFICES ASSUME TypeOK, TipoDaFase, [Next]_vars PROVE TipoDaFase'
  OBVIOUS
<1> USE DEF TypeOK, TipoDaFase, Vivo
<1>1. ASSUME NEW s \in Servidores, Arrancar(s) PROVE TipoDaFase'
  BY <1>1 DEF Arrancar
<1>2. ASSUME NEW s \in Servidores, Enviar(s) PROVE TipoDaFase'
  BY <1>2 DEF Enviar
<1>3. ASSUME NEW s \in Servidores, EnviarFalha(s) PROVE TipoDaFase'
  BY <1>3 DEF EnviarFalha
<1>4. ASSUME NEW s \in Servidores, Acordar(s) PROVE TipoDaFase'
  BY <1>4 DEF Acordar
<1>5. ASSUME NEW s \in Servidores, MudarPrimario(s) PROVE TipoDaFase'
  BY <1>5 DEF MudarPrimario
<1>6. ASSUME NEW s \in Servidores, AbrirPorta(s) PROVE TipoDaFase'
  BY <1>6 DEF AbrirPorta
<1>7. ASSUME NEW s \in Servidores, NEW m \in rede, ReceberPing(s, m) PROVE TipoDaFase'
  BY <1>7 DEF ReceberPing
<1>8. ASSUME NEW s \in Servidores, NEW m \in rede, ReceberResposta(s, m) PROVE TipoDaFase'
  BY <1>8 DEF ReceberResposta
<1>9. ASSUME NEW s \in Servidores, Cair(s) PROVE TipoDaFase'
  BY <1>9 DEF Cair
<1>10. ASSUME NEW m \in rede, Perder(m) PROVE TipoDaFase'
  BY <1>10 DEF Perder
<1>11. ASSUME Tick PROVE TipoDaFase'
  BY <1>11 DEF Tick
<1>12. CASE UNCHANGED vars
  BY <1>12 DEF vars
<1>13. ASSUME NEW s \in Servidores, FalhaPromove(s) PROVE TipoDaFase'
  BY <1>13 DEF FalhaPromove
<1> QED BY <1>1, <1>2, <1>3, <1>4, <1>5, <1>6, <1>7, <1>8, <1>9, <1>10, <1>11, <1>12, <1>13 DEF Next, Passo

(* A server is started beside one that answers; a timeout beside another that runs
   cannot come, so nobody joins it in the second loop. *)
LEMMA UmRespondePasso ==
  ASSUME TypeOK, TipoDaFase, Regencia, ordem', [Next]_vars
  PROVE  UmResponde'
<1> USE Pares DEF Regencia, TypeOK, TipoDaFase, UmResponde, PrazoCorre, Vivo
<1>1. ASSUME NEW s \in Servidores, Arrancar(s) PROVE UmResponde'
  <2>1. fase[Outro(s)] \in {"morto", "mestre"}
    BY <1>1 DEF Arrancar
  <2>2. fase' = [fase EXCEPT ![s] = "enviar"]
    BY <1>1 DEF Arrancar
  <2>3. CASE s = A
    BY <2>1, <2>2, <2>3
  <2>4. CASE s = B
    BY <2>1, <2>2, <2>4
  <2> QED BY <2>3, <2>4
<1>2. ASSUME NEW s \in Servidores, Enviar(s) PROVE UmResponde'
  BY <1>2 DEF Enviar, Entregar, De, Datagramas
<1>3. ASSUME NEW s \in Servidores, EnviarFalha(s) PROVE UmResponde'
  BY <1>3 DEF EnviarFalha, Intervalo
<1>4. ASSUME NEW s \in Servidores, Acordar(s) PROVE UmResponde'
  BY <1>4 DEF Acordar
<1>5. ASSUME NEW s \in Servidores, MudarPrimario(s) PROVE UmResponde'
  BY <1>5 DEF MudarPrimario, Espera
<1>6. ASSUME NEW s \in Servidores, AbrirPorta(s) PROVE UmResponde'
  BY <1>6 DEF AbrirPorta
<1>7. ASSUME NEW s \in Servidores, NEW m \in rede, ReceberPing(s, m) PROVE UmResponde'
  BY <1>7 DEF ReceberPing, Sem, De, Datagramas
<1>8. ASSUME NEW s \in Servidores, NEW m \in rede, ReceberResposta(s, m) PROVE UmResponde'
  BY <1>8 DEF ReceberResposta, Sem, Intervalo
<1>9. ASSUME NEW s \in Servidores, Cair(s) PROVE UmResponde'
  BY <1>9 DEF Cair
<1>10. ASSUME NEW m \in rede, Perder(m) PROVE UmResponde'
  BY <1>10 DEF Perder, Sem
<1>11. ASSUME Tick PROVE UmResponde'
  BY <1>11 DEF Tick, Parado, EmContagem
<1>12. CASE UNCHANGED vars
  BY <1>12 DEF vars
<1>13. ASSUME NEW s \in Servidores, FalhaPromove(s) PROVE UmResponde'
  BY <1>13 DEF FalhaPromove
<1> QED BY <1>1, <1>2, <1>3, <1>4, <1>5, <1>6, <1>7, <1>8, <1>9, <1>10, <1>11, <1>12, <1>13 DEF Next, Passo

(* A ping becomes an answer, as the other server is in the second loop; an answer
   ends the wait. *)
LEMMA SeraAtendidoPasso ==
  ASSUME TypeOK, TipoDaFase, Regencia, ordem', [Next]_vars
  PROVE  SeraAtendido'
<1> USE Pares DEF Regencia, TypeOK, SeraAtendido, UmResponde, Vivo
<1>1. ASSUME NEW s \in Servidores, Arrancar(s) PROVE SeraAtendido'
  BY <1>1 DEF Arrancar
<1>2. ASSUME NEW s \in Servidores, Enviar(s) PROVE SeraAtendido'
  BY <1>2 DEF Enviar, Entregar, De, Datagramas
<1>3. ASSUME NEW s \in Servidores, EnviarFalha(s) PROVE SeraAtendido'
  BY <1>3 DEF EnviarFalha, Intervalo
<1>4. ASSUME NEW s \in Servidores, Acordar(s) PROVE SeraAtendido'
  BY <1>4 DEF Acordar
<1>5. ASSUME NEW s \in Servidores, MudarPrimario(s) PROVE SeraAtendido'
  BY <1>5 DEF MudarPrimario
<1>6. ASSUME NEW s \in Servidores, AbrirPorta(s) PROVE SeraAtendido'
  BY <1>6 DEF AbrirPorta
<1>7. ASSUME NEW s \in Servidores, NEW m \in rede, ReceberPing(s, m) PROVE SeraAtendido'
  BY <1>7 DEF ReceberPing, Sem, De, Datagramas
<1>8. ASSUME NEW s \in Servidores, NEW m \in rede, ReceberResposta(s, m) PROVE SeraAtendido'
  <2> SUFFICES ASSUME NEW t \in Servidores, fase'[t] = "esperar", fase'[Outro(t)] # "morto"
               PROVE  De(t, "ping") \in rede' \/ De(Outro(t), "resposta") \in rede'
    OBVIOUS
  <2>1. t # s /\ fase[t] = "esperar" /\ fase[Outro(t)] # "morto"
    BY <1>8 DEF ReceberResposta
  <2>2. m # De(t, "ping") /\ m # De(Outro(t), "resposta")
    BY <1>8, <2>1 DEF ReceberResposta, De
  <2> QED BY <1>8, <2>1, <2>2 DEF ReceberResposta, Sem
<1>9. ASSUME NEW s \in Servidores, Cair(s) PROVE SeraAtendido'
  BY <1>9 DEF Cair
<1>10. ASSUME NEW m \in rede, Perder(m) PROVE SeraAtendido'
  BY <1>10 DEF Perder, Sem
<1>11. ASSUME Tick PROVE SeraAtendido'
  BY <1>11 DEF Tick, Parado, EmContagem
<1>12. CASE UNCHANGED vars
  BY <1>12 DEF vars
<1>13. ASSUME NEW s \in Servidores, FalhaPromove(s) PROVE SeraAtendido'
  BY <1>13 DEF FalhaPromove
<1> QED BY <1>1, <1>2, <1>3, <1>4, <1>5, <1>6, <1>7, <1>8, <1>9, <1>10, <1>11, <1>12, <1>13 DEF Next, Passo

(* The clock stands still while the ping or the answer is on its way. *)
LEMMA PrazoCorrePasso ==
  ASSUME TypeOK, TipoDaFase, Regencia, ordem', [Next]_vars
  PROVE  PrazoCorre'
<1> USE Pares DEF Regencia, TypeOK, PrazoCorre, SeraAtendido, UmResponde, Vivo
<1>1. ASSUME NEW s \in Servidores, Arrancar(s) PROVE PrazoCorre'
  BY <1>1 DEF Arrancar
<1>2. ASSUME NEW s \in Servidores, Enviar(s) PROVE PrazoCorre'
  BY <1>2 DEF Enviar, Entregar, De, Datagramas
<1>3. ASSUME NEW s \in Servidores, EnviarFalha(s) PROVE PrazoCorre'
  BY <1>3 DEF EnviarFalha, Intervalo
<1>4. ASSUME NEW s \in Servidores, Acordar(s) PROVE PrazoCorre'
  BY <1>4 DEF Acordar
<1>5. ASSUME NEW s \in Servidores, MudarPrimario(s) PROVE PrazoCorre'
  BY <1>5 DEF MudarPrimario
<1>6. ASSUME NEW s \in Servidores, AbrirPorta(s) PROVE PrazoCorre'
  BY <1>6 DEF AbrirPorta
<1>7. ASSUME NEW s \in Servidores, NEW m \in rede, ReceberPing(s, m) PROVE PrazoCorre'
  BY <1>7 DEF ReceberPing, Sem, De, Datagramas
<1>8. ASSUME NEW s \in Servidores, NEW m \in rede, ReceberResposta(s, m) PROVE PrazoCorre'
  BY <1>8 DEF ReceberResposta, Sem, Intervalo
<1>9. ASSUME NEW s \in Servidores, Cair(s) PROVE PrazoCorre'
  BY <1>9 DEF Cair
<1>10. ASSUME NEW m \in rede, Perder(m) PROVE PrazoCorre'
  BY <1>10 DEF Perder, Sem
<1>11. ASSUME Tick PROVE PrazoCorre'
  BY <1>11 DEF Tick, Parado, EmContagem
<1>12. CASE UNCHANGED vars
  BY <1>12 DEF vars
<1>13. ASSUME NEW s \in Servidores, FalhaPromove(s) PROVE PrazoCorre'
  BY <1>13 DEF FalhaPromove
<1> QED BY <1>1, <1>2, <1>3, <1>4, <1>5, <1>6, <1>7, <1>8, <1>9, <1>10, <1>11, <1>12, <1>13 DEF Next, Passo

(* What was lost stays lost: nothing restores the order. *)
LEMMA OrdemAntes ==
  ASSUME [Next]_vars, ordem'
  PROVE  ordem
BY DEF Next, vars, Passo, Arrancar, Enviar, EnviarFalha, FalhaPromove, Acordar,
       MudarPrimario, AbrirPorta, ReceberPing, ReceberResposta, Cair, Perder, Tick

LEMMA InvPasso == Inv /\ [Next]_vars => Inv'
<1> SUFFICES ASSUME Inv, [Next]_vars PROVE Inv'
  OBVIOUS
<1>1. TypeOK' /\ TipoDaFase'
  BY TypeOKPasso, TipoDaFasePasso DEF Inv
<1>2. ASSUME ordem' PROVE Regencia'
  <2>1. TypeOK /\ TipoDaFase /\ Regencia
    BY <1>2, OrdemAntes DEF Inv
  <2> QED BY <1>2, <2>1, UmRespondePasso, SeraAtendidoPasso, PrazoCorrePasso DEF Regencia
<1> QED BY <1>1, <1>2 DEF Inv

\* The type invariant, whatever is lost and however servers are started.
THEOREM TypeCorrect == Spec => []TypeOK
<1>1. Init => Inv
  BY InvInicial
<1>2. Inv /\ [Next]_vars => Inv'
  BY InvPasso
<1>3. Inv => TypeOK
  BY DEF Inv
<1> QED BY <1>1, <1>2, <1>3, PTL DEF Spec

\* At most one of the two servers accepts clients (line 122 of
\* IdeaBrokerServerTCP) while datagrams arrive, no other failure is taken for the
\* timeout (line 69 of ClienteUDP) and servers start with care.
THEOREM UmSoPrimario == Spec => []UmPrimario
<1>1. Init => Inv
  BY InvInicial
<1>2. Inv /\ [Next]_vars => Inv'
  BY InvPasso
<1>3. Inv => UmPrimario
  BY InvDaUm
<1> QED BY <1>1, <1>2, <1>3, PTL DEF Spec
-----------------------------------------------------------------------------
(* The election, without its messages and timers, is that of Primario. *)
LEMMA PapelInicial == Init => Abstracto!Init
BY DEF Init, Abstracto!Init, Papel

LEMMA PapelPasso ==
  ASSUME Inv, [Next]_vars
  PROVE  [Abstracto!Next]_Abstracto!estado
<1> USE Pares DEF Inv, TypeOK, Papel
<1>1. ASSUME NEW s \in Servidores, Arrancar(s) PROVE Abstracto!Arrancar(s)
  BY <1>1 DEF Arrancar, Abstracto!Arrancar, Abstracto!Perturbar
<1>2. ASSUME NEW s \in Servidores, Enviar(s) PROVE UNCHANGED <<Papel, ordem>>
  BY <1>2 DEF Enviar
<1>3. ASSUME NEW s \in Servidores, EnviarFalha(s) PROVE UNCHANGED <<Papel, ordem>>
  BY <1>3 DEF EnviarFalha
<1>4. ASSUME NEW s \in Servidores, Acordar(s) PROVE UNCHANGED <<Papel, ordem>>
  BY <1>4 DEF Acordar
<1>5. ASSUME NEW s \in Servidores, MudarPrimario(s) PROVE Abstracto!Promover(s)
  <2>1. fase[s] = "esperar" /\ prazo[s] = 0
    BY <1>5 DEF MudarPrimario
  <2>2. ordem => fase[Outro(s)] = "morto"
    BY <2>1 DEF Regencia, PrazoCorre, Vivo, Espera
  <2>3. Papel[s] = "S"
    BY <2>1 DEF TipoDaFase, Vivo
  <2>4. ordem => \A o \in Servidores : Papel[o] # "P"
    BY <2>2, <2>3
  <2>5. Papel' = [Papel EXCEPT ![s] = "P"] /\ ordem' = ordem
    BY <1>5 DEF MudarPrimario
  <2> QED BY <2>3, <2>4, <2>5
      DEF Abstracto!Promover, Abstracto!SemPrimario, Abstracto!Perturbar
<1>6. ASSUME NEW s \in Servidores, AbrirPorta(s) PROVE UNCHANGED <<Papel, ordem>>
  BY <1>6 DEF AbrirPorta
<1>7. ASSUME NEW s \in Servidores, NEW m \in rede, ReceberPing(s, m) PROVE UNCHANGED <<Papel, ordem>>
  BY <1>7 DEF ReceberPing
<1>8. ASSUME NEW s \in Servidores, NEW m \in rede, ReceberResposta(s, m)
      PROVE UNCHANGED <<Papel, ordem>>
  BY <1>8 DEF ReceberResposta
<1>9. ASSUME NEW s \in Servidores, Cair(s) PROVE Abstracto!Cair(s)
  BY <1>9 DEF Cair, Abstracto!Cair
<1>10. ASSUME NEW m \in rede, Perder(m)
       PROVE Abstracto!Perturbar /\ UNCHANGED Papel
  BY <1>10 DEF Perder, Abstracto!Perturbar
<1>11. ASSUME Tick PROVE UNCHANGED <<Papel, ordem>>
  BY <1>11 DEF Tick
<1>12. ASSUME UNCHANGED vars PROVE UNCHANGED <<Papel, ordem>>
  BY <1>12 DEF vars
<1>13. ASSUME UNCHANGED <<Papel, ordem>> PROVE [Abstracto!Next]_Abstracto!estado
  BY <1>13 DEF Abstracto!estado
<1>16. ASSUME NEW s \in Servidores, FalhaPromove(s) PROVE Abstracto!Promover(s)
  <2>1. fase[s] \in {"enviar", "esperar"}
    BY <1>16 DEF FalhaPromove
  <2>2. Papel[s] = "S"
    BY <2>1 DEF TipoDaFase, Vivo
  <2>3. ordem' = (ordem /\ fase[Outro(s)] = "morto")
    BY <1>16 DEF FalhaPromove
  <2>4. ordem' => \A o \in Servidores : Papel[o] # "P"
    BY <2>2, <2>3
  <2>5. ordem' \in {ordem, FALSE}
    BY <2>3
  <2>6. Papel' = [Papel EXCEPT ![s] = "P"]
    BY <1>16 DEF FalhaPromove
  <2> QED BY <2>2, <2>4, <2>5, <2>6
      DEF Abstracto!Promover, Abstracto!SemPrimario, Abstracto!Perturbar
<1>14. ASSUME NEW s \in Servidores,
              Arrancar(s) \/ EnviarFalha(s) \/ FalhaPromove(s) \/ Passo(s) \/ Cair(s)
       PROVE  [Abstracto!Next]_Abstracto!estado
  BY <1>1, <1>2, <1>3, <1>4, <1>5, <1>6, <1>7, <1>8, <1>9, <1>13, <1>14, <1>16, Zenon
     DEF Passo, Abstracto!Next
<1>15. ASSUME NEW m \in rede, Perder(m) PROVE [Abstracto!Next]_Abstracto!estado
  BY <1>10, <1>15 DEF Abstracto!Next
<1> QED BY <1>11, <1>12, <1>13, <1>14, <1>15 DEF Next

\* Every step of the two threads is one of Primario, or none of its business:
\* the part of ImplementaPrimario that is not about fairness.
THEOREM EleicaoSegura ==
  Spec => Abstracto!Init /\ [][Abstracto!Next]_Abstracto!estado
<1>1. Init => Inv /\ Abstracto!Init
  BY InvInicial, PapelInicial
<1>2. Inv /\ [Next]_vars => Inv'
  BY InvPasso
<1>3. Inv /\ [Next]_vars => [Abstracto!Next]_Abstracto!estado
  BY PapelPasso
<1> QED BY <1>1, <1>2, <1>3, PTL DEF Spec
-----------------------------------------------------------------------------
(***************************************************************************)
(* How long a secondary may run without a primary.  The bound of TomaPosse *)
(* is kept per phase: what has passed and what the timer of the phase      *)
(* still allows; only an answer starts the wait anew, and an answer on its *)
(* way comes from a primary that runs, beside which nothing has passed.    *)
(***************************************************************************)
\* Answers come from the second loop, and a server that stops takes with it
\* those it sent.
RespostaDePrimario ==
  \A m \in rede : m.que = "resposta" => fase[m.de] = "mestre"
\* With a primary running, no server has been without one.
ComPrimario == HaPrimario => \A s \in Servidores : semMestre[s] = 0
\* The longest that a server may be asleep, with "falhas" failures to send.
Sono == Intervalo * (1 + falhas)
\* What has passed, with what the timer still allows.
TempoContado ==
  \A s \in Servidores :
    /\ fase[s] = "enviar" => semMestre[s] <= Sono
    /\ fase[s] = "dormir" => semMestre[s] + prazo[s] <= Sono
    /\ fase[s] = "esperar" => semMestre[s] + prazo[s] <= Espera + Sono
    /\ fase[s] \in {"morto", "abrir", "mestre"} => semMestre[s] = 0

Relogio == RespostaDePrimario /\ ComPrimario /\ TempoContado

LEMMA RelogioInicial == Init => Relogio
<1> SUFFICES ASSUME Init PROVE Relogio
  OBVIOUS
<1>1. RespostaDePrimario /\ ComPrimario
  BY DEF Init, RespostaDePrimario, ComPrimario
<1>2. TempoContado
  BY DEF Init, TempoContado
<1> QED BY <1>1, <1>2 DEF Relogio

(* An answer is sent by the second loop, which only ends with its server. *)
LEMMA RespostaDePrimarioPasso ==
  ASSUME TypeOK, RespostaDePrimario, [Next]_vars
  PROVE  RespostaDePrimario'
<1> USE DEF TypeOK, RespostaDePrimario
<1>1. ASSUME NEW s \in Servidores, Arrancar(s) PROVE RespostaDePrimario'
  BY <1>1 DEF Arrancar, Datagramas
<1>2. ASSUME NEW s \in Servidores, Enviar(s) PROVE RespostaDePrimario'
  BY <1>2 DEF Enviar, Entregar, De, Datagramas
<1>3. ASSUME NEW s \in Servidores, EnviarFalha(s) PROVE RespostaDePrimario'
  BY <1>3 DEF EnviarFalha, Datagramas
<1>4. ASSUME NEW s \in Servidores, Acordar(s) PROVE RespostaDePrimario'
  BY <1>4 DEF Acordar, Datagramas
<1>5. ASSUME NEW s \in Servidores, MudarPrimario(s) PROVE RespostaDePrimario'
  BY <1>5 DEF MudarPrimario, Datagramas
<1>6. ASSUME NEW s \in Servidores, AbrirPorta(s) PROVE RespostaDePrimario'
  BY <1>6 DEF AbrirPorta, Datagramas
<1>7. ASSUME NEW s \in Servidores, NEW m \in rede, ReceberPing(s, m) PROVE RespostaDePrimario'
  BY <1>7 DEF ReceberPing, Sem, De
<1>8. ASSUME NEW s \in Servidores, NEW m \in rede, ReceberResposta(s, m) PROVE RespostaDePrimario'
  BY <1>8 DEF ReceberResposta, Sem, Datagramas
<1>9. ASSUME NEW s \in Servidores, Cair(s) PROVE RespostaDePrimario'
  BY <1>9 DEF Cair, Datagramas
<1>10. ASSUME NEW m \in rede, Perder(m) PROVE RespostaDePrimario'
  BY <1>10 DEF Perder, Sem
<1>11. ASSUME Tick PROVE RespostaDePrimario'
  BY <1>11 DEF Tick
<1>12. CASE UNCHANGED vars
  BY <1>12 DEF vars
<1>13. ASSUME NEW s \in Servidores, FalhaPromove(s) PROVE RespostaDePrimario'
  BY <1>13 DEF FalhaPromove, Datagramas
<1> QED BY <1>1, <1>2, <1>3, <1>4, <1>5, <1>6, <1>7, <1>8, <1>9, <1>10, <1>11, <1>12, <1>13 DEF Next, Passo

(* Who becomes the primary sets every clock back, and time that passes beside it
   is not counted. *)
LEMMA ComPrimarioPasso ==
  ASSUME TypeOK, TipoDaFase, ComPrimario, [Next]_vars
  PROVE  ComPrimario'
<1> USE DEF TypeOK, ComPrimario, HaPrimario, Primaria
<1>1. ASSUME NEW s \in Servidores, Arrancar(s) PROVE ComPrimario'
  BY <1>1 DEF Arrancar
<1>2. ASSUME NEW s \in Servidores, Enviar(s) PROVE ComPrimario'
  BY <1>2 DEF Enviar
<1>3. ASSUME NEW s \in Servidores, EnviarFalha(s) PROVE ComPrimario'
  BY <1>3 DEF EnviarFalha
<1>4. ASSUME NEW s \in Servidores, Acordar(s) PROVE ComPrimario'
  BY <1>4 DEF Acordar
<1>5. ASSUME NEW s \in Servidores, MudarPrimario(s) PROVE ComPrimario'
  BY <1>5 DEF MudarPrimario
<1>6. ASSUME NEW s \in Servidores, AbrirPorta(s) PROVE ComPrimario'
  BY <1>6 DEF AbrirPorta
<1>7. ASSUME NEW s \in Servidores, NEW m \in rede, ReceberPing(s, m) PROVE ComPrimario'
  BY <1>7 DEF ReceberPing
<1>8. ASSUME NEW s \in Servidores, NEW m \in rede, ReceberResposta(s, m) PROVE ComPrimario'
  BY <1>8 DEF ReceberResposta
<1>9. ASSUME NEW s \in Servidores, Cair(s) PROVE ComPrimario'
  BY <1>9 DEF Cair
<1>10. ASSUME NEW m \in rede, Perder(m) PROVE ComPrimario'
  BY <1>10 DEF Perder
<1>11. ASSUME Tick PROVE ComPrimario'
  BY <1>11 DEF Tick
<1>12. CASE UNCHANGED vars
  BY <1>12 DEF vars
<1>13. ASSUME NEW s \in Servidores, FalhaPromove(s) PROVE ComPrimario'
  BY <1>13 DEF FalhaPromove
<1> QED BY <1>1, <1>2, <1>3, <1>4, <1>5, <1>6, <1>7, <1>8, <1>9, <1>10, <1>11, <1>12, <1>13 DEF Next, Passo

(* A second that passes is taken from the timer; a failure to send allows two more,
   and an answer finds the count at 0. *)
LEMMA TempoContadoPasso ==
  ASSUME TypeOK, TipoDaFase, Relogio, [Next]_vars
  PROVE  TempoContado'
<1> USE Pares DEF TypeOK, TempoContado, Sono, Espera, Intervalo
<1>0. RespostaDePrimario /\ ComPrimario /\ TempoContado
  BY DEF Relogio
<1>1. ASSUME NEW s \in Servidores, Arrancar(s) PROVE TempoContado'
  BY <1>0, <1>1 DEF Arrancar
<1>2. ASSUME NEW s \in Servidores, Enviar(s) PROVE TempoContado'
  BY <1>0, <1>2 DEF Enviar
<1>3. ASSUME NEW s \in Servidores, EnviarFalha(s) PROVE TempoContado'
  BY <1>0, <1>3 DEF EnviarFalha
<1>4. ASSUME NEW s \in Servidores, Acordar(s) PROVE TempoContado'
  BY <1>0, <1>4 DEF Acordar
<1>5. ASSUME NEW s \in Servidores, MudarPrimario(s) PROVE TempoContado'
  BY <1>0, <1>5 DEF MudarPrimario
<1>6. ASSUME NEW s \in Servidores, AbrirPorta(s) PROVE TempoContado'
  BY <1>0, <1>6 DEF AbrirPorta
<1>7. ASSUME NEW s \in Servidores, NEW m \in rede, ReceberPing(s, m) PROVE TempoContado'
  BY <1>0, <1>7 DEF ReceberPing
<1>8. ASSUME NEW s \in Servidores, NEW m \in rede, ReceberResposta(s, m) PROVE TempoContado'
  <2>1. m.de \in Servidores /\ fase[m.de] = "mestre"
    BY <1>0, <1>8 DEF ReceberResposta, RespostaDePrimario, Datagramas
  <2>2. \A t \in Servidores : semMestre[t] = 0
    BY <1>0, <2>1 DEF ComPrimario, HaPrimario, Primaria, TipoDaFase, Vivo
  <2> QED BY <1>0, <1>8, <2>2 DEF ReceberResposta
<1>9. ASSUME NEW s \in Servidores, Cair(s) PROVE TempoContado'
  BY <1>0, <1>9 DEF Cair
<1>10. ASSUME NEW m \in rede, Perder(m) PROVE TempoContado'
  BY <1>0, <1>10 DEF Perder
<1>11. ASSUME Tick PROVE TempoContado'
  <2> SUFFICES ASSUME NEW s \in Servidores PROVE TempoContado!(s)'
    BY DEF TempoContado
  <2>1. CASE fase[s] \in {"morto", "abrir", "mestre"}
    BY <1>0, <1>11, <2>1 DEF Tick, HaPrimario, Primaria, TipoDaFase, Vivo
  <2>2. CASE fase[s] \in {"esperar", "dormir"}
    BY <1>0, <1>11, <2>2 DEF Tick, Parado, EmContagem
  <2> QED BY <1>11, <2>1, <2>2 DEF Tick, Parado
<1>12. CASE UNCHANGED vars
  BY <1>0, <1>12 DEF vars
<1>13. ASSUME NEW s \in Servidores, FalhaPromove(s) PROVE TempoContado'
  BY <1>0, <1>13 DEF FalhaPromove
<1> QED BY <1>1, <1>2, <1>3, <1>4, <1>5, <1>6, <1>7, <1>8, <1>9, <1>10, <1>11, <1>12, <1>13 DEF Next, Passo

LEMMA RelogioPasso == Inv /\ Relogio /\ [Next]_vars => Relogio'
BY RespostaDePrimarioPasso, ComPrimarioPasso, TempoContadoPasso DEF Inv, Relogio

LEMMA RelogioDaTomaPosse == TypeOK /\ Relogio => TomaPosse
BY DEF TypeOK, Relogio, TempoContado, Sono, TomaPosse, Espera, Intervalo

\* A secondary takes over in 5 seconds (the sleep of line 48 and the timeout of
\* line 90 of ClienteUDP), and in 2 more for each call to send that failed,
\* however servers stop and start and whatever is lost.
THEOREM TomaPosseATempo == Spec => []TomaPosse
<1>1. Init => Inv /\ Relogio
  BY InvInicial, RelogioInicial
<1>2. Inv /\ Relogio /\ [Next]_vars => Inv' /\ Relogio'
  BY InvPasso, RelogioPasso
<1>3. Inv /\ Relogio => TomaPosse
  BY RelogioDaTomaPosse DEF Inv
<1> QED BY <1>1, <1>2, <1>3, PTL DEF Spec
=============================================================================
