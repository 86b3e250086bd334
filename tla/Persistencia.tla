--------------------------- MODULE Persistencia ---------------------------
(***************************************************************************)
(* savedados and loaddados of IdeiaImpl: the lists of users, topics and    *)
(* notes, the three files they are written to one after the other, and a   *)
(* server that stops and starts again.                                     *)
(*                                                                         *)
(* Writing is modelled one record per step, as ObjectOutputStream hands    *)
(* every object to the file; each file is emptied when it is opened.  The  *)
(* operations that change the lists are one step (Bolsa and Registo take   *)
(* them apart), followed by savedados where the code calls it.  An idea is *)
(* held by one user here; of its replies and of a user's notices the       *)
(* number is kept, of the Facebook token how often it was replaced.        *)
(***************************************************************************)
EXTENDS Integers, Sequences, SequencesExt

CONSTANTS
  Nomes,        \* user names
  Root,         \* who ideas are given to by takeover
  SaldoInicial, \* the balance of a new user
  Precos,       \* prices of ideas
  MaxOperacoes, MaxParagens, MaxTopicos \* bounds

ASSUME ConstantesAssumption ==
  /\ SaldoInicial \in Int /\ Precos \subseteq Int
  /\ MaxOperacoes \in Nat /\ MaxParagens \in Nat /\ MaxTopicos \in Nat

Utilizador == [nome : Nomes, saldo : Int, avisos : Nat, acesso : Nat]
Ideia == [dono : Nomes \cup {Root}, preco : Int, respostas : Nat]
Nota == [para : Nomes, vista : BOOLEAN]
\* The files in the order in which they are written and read.
Ordem == <<"utilizadores", "topicos", "notas">>
Ficheiros == {"utilizadores", "topicos", "notas"}

\* What the lists, and the files, may hold.
Listas(m) ==
  /\ m = [f \in Ficheiros |-> m[f]]
  /\ m["utilizadores"] \in Seq(Utilizador)
  /\ m["topicos"] \in Seq(Seq(Ideia))
  /\ m["notas"] \in Seq(Nota)

VARIABLES
  memoria,    \* the lists in memory; of a stopped server, as it left them
  disco,      \* the records in the files
  ligado,     \* whether the server runs
  ficheiro,   \* savedados: the file it is writing, 0 when it is not running
  aberto,     \* whether that file was opened
  avisar,     \* ApagarIdeia: who gets a notice when savedados returns
  confirmado, \* history: the lists when an operation was last answered
  intacto,    \* history: every operation saved all it did, no write failed, and the
              \* server never stopped while it was writing
  operacoes, paragens \* counts, bounded

vars == <<memoria, disco, ligado, ficheiro, aberto, avisar, confirmado, intacto,
          operacoes, paragens>>

TypeOK ==
  /\ Listas(memoria) /\ Listas(disco) /\ Listas(confirmado)
  /\ ligado \in BOOLEAN /\ aberto \in BOOLEAN /\ intacto \in BOOLEAN
  /\ ficheiro \in 0..3 /\ avisar \subseteq Nomes
  /\ operacoes \in 0..MaxOperacoes /\ paragens \in 0..MaxParagens

Vazio == [f \in Ficheiros |-> <<>>]

Init ==
  /\ memoria = Vazio /\ disco = Vazio /\ confirmado = Vazio
  /\ ligado = TRUE /\ ficheiro = 0 /\ aberto = FALSE /\ avisar = {} /\ intacto = TRUE
  /\ operacoes = 0 /\ paragens = 0

-----------------------------------------------------------------------------
\* Operations.

Chamada ==
  /\ ligado /\ operacoes < MaxOperacoes
  /\ operacoes' = operacoes + 1
  /\ UNCHANGED <<disco, ligado, paragens>>

\* What an operation does at the end: call savedados, or just answer.
GravarEAvisar(quem) ==
  /\ ficheiro = 0 /\ ficheiro' = 1 /\ aberto' = FALSE
  /\ avisar' = quem
  /\ UNCHANGED <<confirmado, intacto>>
Gravar == GravarEAvisar({})
NaoGravar ==
  /\ confirmado' = memoria'
  /\ intacto' = FALSE
  /\ UNCHANGED <<ficheiro, aberto, avisar>>

utilizadores == memoria["utilizadores"]
topicos == memoria["topicos"]
notas == memoria["notas"]
Ficam(U, T, N) == memoria' = [f \in Ficheiros |->
  IF f = "utilizadores" THEN U ELSE IF f = "topicos" THEN T ELSE N]

\* Those named get v more money and a more notices.
Com(quem, v, a) == [i \in DOMAIN utilizadores |->
  IF utilizadores[i].nome \in quem
  THEN [utilizadores[i] EXCEPT !.saldo = @ + v, !.avisos = @ + a]
  ELSE utilizadores[i]]
\* One topic, and one idea of it, replaced.
ComTopico(k, s) == [topicos EXCEPT ![k] = s]
ComIdeia(k, j, d, p, r) == ComTopico(k, [topicos[k] EXCEPT ![j] =
  [dono |-> d, preco |-> p, respostas |-> r]])

Registar(n) ==
  /\ Chamada
  /\ \A i \in DOMAIN utilizadores : utilizadores[i].nome # n
  /\ Ficam(Append(utilizadores, [nome |-> n, saldo |-> SaldoInicial, avisos |-> 0,
                                 acesso |-> 0]), topicos, notas)
  /\ Gravar

AdicionarTopico ==
  /\ Chamada /\ Len(topicos) < MaxTopicos
  /\ Ficam(utilizadores, Append(topicos, <<>>), notas)
  /\ Gravar

CriarIdeia(i, k, p) ==
  /\ Chamada /\ utilizadores[i].saldo >= p
  /\ Ficam(Com({utilizadores[i].nome}, -p, 1),
           ComTopico(k, Append(topicos[k], [dono |-> utilizadores[i].nome,
                                            preco |-> p, respostas |-> 0])),
           notas)
  /\ Gravar

\* A purchase of the whole idea at the price asked; Bolsa has the others.
EfectuarCompra(i, k, j) ==
  /\ Chamada
  /\ \E v \in DOMAIN utilizadores :
       LET a == topicos[k][j]
           paga == Com({utilizadores[i].nome}, -a.preco, 1)
       IN  /\ utilizadores[v].nome = a.dono /\ v # i
           /\ Ficam([paga EXCEPT ![v].saldo = @ + a.preco],
               ComIdeia(k, j, utilizadores[i].nome, a.preco, a.respostas), notas)
  /\ Gravar

\* Who holds more than half of an idea, here its owner, deletes it.  The notice
\* of it is put in the user's list when savedados has returned.
ApagarIdeia(i, k, j) ==
  /\ Chamada
  /\ topicos[k][j].dono = utilizadores[i].nome
  /\ Ficam(utilizadores, ComTopico(k, RemoveAt(topicos[k], j)), notas)
  /\ GravarEAvisar({utilizadores[i].nome})

\* EditarAccao, takeover, replies, tokens and the notes change the lists and do
\* not save.
EditarAccao(k, j, p) ==
  /\ Chamada
  /\ Ficam(utilizadores,
           ComIdeia(k, j, topicos[k][j].dono, p, topicos[k][j].respostas), notas)
  /\ NaoGravar

Takeover(k, j) ==
  /\ Chamada
  /\ topicos[k][j].dono # Root
  /\ Ficam(Com({topicos[k][j].dono}, topicos[k][j].preco, 0),
           ComIdeia(k, j, Root, -1, topicos[k][j].respostas), notas)
  /\ NaoGravar

ResponderIdeia(k, j) ==
  /\ Chamada
  /\ LET a == topicos[k][j]
     IN  Ficam(utilizadores, ComIdeia(k, j, a.dono, a.preco, a.respostas + 1), notas)
  /\ NaoGravar

AdicionaToken(i) ==
  /\ Chamada
  /\ Ficam([utilizadores EXCEPT ![i].acesso = @ + 1], topicos, notas)
  /\ NaoGravar

AdicionarNota(n) ==
  /\ Chamada
  /\ Ficam(utilizadores, topicos, Append(notas, [para |-> n, vista |-> FALSE]))
  /\ NaoGravar

NotificacaoVista(i) ==
  /\ Chamada /\ ~notas[i].vista
  /\ Ficam(utilizadores, topicos, [j \in DOMAIN notas |->
       IF j = i THEN [para |-> notas[j].para, vista |-> TRUE] ELSE notas[j]])
  /\ NaoGravar

\* The operations of IdeiaMethods that change the lists.  removerNotasAgendadas does
\* not: it removes a note equal to a new one, and notes have no equals.
Operacao ==
  \/ \E n \in Nomes : Registar(n) \/ AdicionarNota(n)
  \/ AdicionarTopico
  \/ \E i \in DOMAIN utilizadores, k \in DOMAIN topicos :
       \/ \E p \in Precos : CriarIdeia(i, k, p)
       \/ \E j \in DOMAIN topicos[k] : EfectuarCompra(i, k, j) \/ ApagarIdeia(i, k, j)
  \/ \E k \in DOMAIN topicos : \E j \in DOMAIN topicos[k] :
       \/ Takeover(k, j) \/ ResponderIdeia(k, j)
       \/ \E p \in Precos : EditarAccao(k, j, p)
  \/ \E i \in DOMAIN utilizadores : AdicionaToken(i)
  \/ \E i \in DOMAIN notas : NotificacaoVista(i)

-----------------------------------------------------------------------------
\* savedados.

actual == Ordem[ficheiro]

\* Opening a FileOutputStream empties the file.
Abrir ==
  /\ ligado /\ ficheiro # 0 /\ ~aberto
  /\ aberto' = TRUE
  /\ disco' = [disco EXCEPT ![actual] = <<>>]
  /\ UNCHANGED <<memoria, ligado, ficheiro, avisar, confirmado, intacto, operacoes,
                 paragens>>

Escrever ==
  /\ ligado /\ ficheiro # 0 /\ aberto
  /\ Len(disco[actual]) < Len(memoria[actual])
  /\ disco' = [disco EXCEPT ![actual] =
                 Append(@, memoria[actual][Len(@) + 1])]
  /\ UNCHANGED <<memoria, ligado, ficheiro, aberto, avisar, confirmado, intacto,
                 operacoes, paragens>>

\* To the next file.  After the last one savedados returns; the operation adds its
\* notice, which no file has, and is answered.
Seguinte ==
  /\ aberto' = FALSE
  /\ \/ /\ ficheiro # 3 /\ ficheiro' = ficheiro + 1
        /\ UNCHANGED <<memoria, avisar, confirmado>>
     \/ /\ ficheiro = 3 /\ ficheiro' = 0
        /\ Ficam(Com(avisar, 0, 1), topicos, notas) /\ avisar' = {}
        /\ confirmado' = memoria'
  /\ UNCHANGED <<disco, ligado, operacoes, paragens>>

FecharCedo ==  \* mutant: the last record is left out
  /\ ligado /\ ficheiro # 0 /\ aberto
  /\ Len(disco[actual]) + 1 >= Len(memoria[actual])
  /\ Seguinte /\ intacto' = (intacto /\ (ficheiro = 3 => avisar = {}))
Fechar ==
  /\ ligado /\ ficheiro # 0 /\ aberto
  /\ Len(disco[actual]) >= Len(memoria[actual])
  /\ Seguinte /\ intacto' = (intacto /\ (ficheiro = 3 => avisar = {}))

\* An exception while opening or writing: caught, and nothing is said.
EscreverFalha ==
  /\ ligado /\ ficheiro # 0
  /\ Seguinte /\ intacto' = FALSE

-----------------------------------------------------------------------------
\* The server stops, and starts again with what loaddados reads.

\* Some file was emptied, and not all are complete.
Meio == ficheiro > 1 \/ aberto

Parar ==
  /\ ligado /\ paragens < MaxParagens
  /\ intacto' = (intacto /\ ~Meio)
  /\ ligado' = FALSE /\ ficheiro' = 0 /\ aberto' = FALSE /\ avisar' = {}
  /\ paragens' = paragens + 1
  /\ UNCHANGED <<memoria, disco, confirmado, operacoes>>

LidoSemPrimeiro(f) == SubSeq(disco[f], 2, Len(disco[f]))  \* mutant: skips one
Lido(f) == disco[f]

Reiniciar ==
  /\ ~ligado
  /\ ligado' = TRUE
  /\ memoria' = [f \in Ficheiros |-> Lido(f)]
  /\ confirmado' = memoria'
  /\ UNCHANGED <<disco, ficheiro, aberto, avisar, intacto, operacoes, paragens>>

Next == Operacao \/ Abrir \/ Escrever \/ Fechar \/ EscreverFalha \/ Parar \/ Reiniciar

Spec == Init /\ [][Next]_vars

-----------------------------------------------------------------------------
\* Properties.

D == INSTANCE Duravel WITH estado <- memoria, seguro <- confirmado

\* The files keep what was answered, until something escapes them: a restart
\* finds the lists as they were at the last answer, or with the operation then
\* under way done (IdeiaImpl.java:547, 1176).
RecuperaConfirmado == D!Spec

\* However the server stops or writing fails, the users found are the first ones
\* there were, in their order, and no topic is made up: identifiers, which are
\* positions, still mean what they did (IdeiaImpl.java:1188).
NomesDe(U) == [i \in DOMAIN U |-> U[i].nome]
Reencontra ==
  ~ligado /\ ligado' =>
    /\ IsPrefix(NomesDe(memoria'["utilizadores"]), NomesDe(utilizadores))
    /\ Len(memoria'["topicos"]) <= Len(topicos)
IdentificadoresValem == [][Reencontra]_vars
=============================================================================
