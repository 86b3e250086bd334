--------------------------- MODULE ClienteProofs ---------------------------
(***************************************************************************)
(* Proofs about Cliente.  The invariant follows a request through the      *)
(* connections: which of them carried it (Copias), whom the answers of the *)
(* first are for (Primeira), and, until a second server stops, why nobody  *)
(* takes an answer on the second before the own request is done or safely  *)
(* on its way (Segunda).                                                   *)
(***************************************************************************)
EXTENDS Cliente, SequenceTheorems, FiniteSetTheorems, TLAPS

Comando(id) == [que |-> "comando", id |-> id]
Dados(id) == [que |-> "dados", id |-> id]
Mortas == {"rebentou", "baralhada"}

\* Lines: the data of a request are among them; no data are there twice; and the
\* command of a request comes before its data.
Tem(L, l) == \E i \in DOMAIN L : L[i] = l
Distintos(L) == \A i, j \in DOMAIN L : L[i].que = "dados" /\ L[i] = L[j] => i = j
Precede(L, id) ==
  \A i \in DOMAIN L :
    L[i] = Dados(id) => \E j \in DOMAIN L : j < i /\ L[j] = Comando(id)

\* A request whose data wait for the thread of the connection k; one that was
\* carried out.
NaLinha(k, id) == Tem(ligacoes[k].linhas, Dados(id))
Feito(id) == \E i \in DOMAIN feitos : feitos[i] = id

\* A request that is to be sent again.
ComComandos == \E j \in DOMAIN buffer : buffer[j].comandos

\* The connections: only the last one may be open, one is made for each server
\* that stopped, and main is where its connections say.
Ligacoes ==
  /\ \A k \in DOMAIN ligacoes : k # Actual => ~Aberta(k)
  /\ \A k \in DOMAIN ligacoes :
       /\ ~Aberta(k) => ligacoes[k].linhas = <<>>
       /\ ligacoes[k].respostas # <<>> => ligacoes[k].eu
       /\ \A i \in DOMAIN ligacoes[k].linhas :
            ligacoes[k].linhas[i].que = "dados" => ligacoes[k].linhas[i].id \in Ids
  /\ Actual <= quedas + 1
  /\ Actual > 0 /\ ~Aberta(Actual) => Actual <= quedas
Principal ==
  /\ principal \in {"ligar", "morto"} => ligacoes = <<>> /\ estado = 0
  /\ principal \notin {"ligar", "morto"} => ligacoes # <<>> /\ contador <= 5
  /\ principal = "iniciar" => estado = -1
  /\ principal \in {"iniciar", "reiniciar"} => replicas[Actual] = "nao"
  /\ principal = "religar" => ~Aberta(Actual)
  /\ principal \in {"reiniciar", "anunciar"} => Actual >= 2
  /\ estado = 0 /\ ligacoes # <<>> => ~Aberta(1)
Menu ==
  /\ menu.fase # "login" => ligacoes # <<>>
  /\ menu.fase \in {"escrever", "espera"} => menu.id \in 1..pedidos
  /\ menu.fase = "espera" => menu.lig \in DOMAIN ligacoes

Base == TypeOK /\ Ligacoes /\ Principal /\ Menu

-----------------------------------------------------------------------------
\* What each connection carried: f says which one carried each request that was
\* carried out.
Levou(f, k, id) ==
  \/ NaLinha(k, id)
  \/ \E i \in DOMAIN feitos : f[i] = k /\ feitos[i] = id

\* Once per connection.
UmaVez(f) ==
  /\ \A i, j \in DOMAIN feitos : feitos[i] = feitos[j] /\ f[i] = f[j] => i = j
  /\ \A i \in DOMAIN feitos : ~NaLinha(f[i], feitos[i])
  /\ \A k \in DOMAIN ligacoes : Distintos(ligacoes[k].linhas)

\* A request that is new was carried by none; one that the menu sent by one.
Novo(id) == id > pedidos \/ (id = menu.id /\ menu.fase = "escrever")
Novos(f) ==
  /\ \A id \in Ids : Novo(id) =>
       ~NoBuffer(id) /\ \A k \in DOMAIN ligacoes : ~Levou(f, k, id)
  /\ menu.fase = "espera" =>
       /\ ~NoBuffer(menu.id)
       /\ \A k \in DOMAIN ligacoes : Levou(f, k, menu.id) => k = menu.lig

\* One that a Buffer thread may send: not by the first, and by the open one only
\* for a thread that still waits for its answer.
NoBufferUmaVez(f) ==
  /\ \A i, j \in DOMAIN buffer : buffer[i].id = buffer[j].id => i = j
  /\ \A j \in DOMAIN buffer : \A k \in DOMAIN ligacoes :
       buffer[j].comandos /\ Levou(f, k, buffer[j].id) =>
         k # 1 /\ (Aberta(k) => j = 1 /\ replicas[k] = "espera")
  /\ ComComandos => ligacoes # <<>> /\ ~Aberta(1)

\* By one connection, or by none of the first.
UmaOuDepois(f) ==
  \A id \in Ids :
    \/ \A k, l \in DOMAIN ligacoes : Levou(f, k, id) /\ Levou(f, l, id) => k = l
    \/ \A k \in DOMAIN ligacoes : Levou(f, k, id) => k # 1

CopiasCom(f) ==
  /\ f \in [DOMAIN feitos -> DOMAIN ligacoes]
  /\ UmaVez(f) /\ Novos(f) /\ NoBufferUmaVez(f) /\ UmaOuDepois(f)
Copias == \E f \in [DOMAIN feitos -> DOMAIN ligacoes] : CopiasCom(f)

-----------------------------------------------------------------------------
\* The first connection is the menu's alone: Buffer threads send once it is closed.
NaPrimeira == menu.fase = "espera" /\ menu.lig = 1
Primeira ==
  /\ ligacoes # <<>> =>
       /\ ligacoes[1].respostas # <<>> => NaPrimeira
       /\ Len(ligacoes[1].respostas) <= 1
       /\ \A id \in Ids : NaLinha(1, id) =>
            NaPrimeira /\ menu.id = id /\ ligacoes[1].respostas = <<>>
  /\ ComComandos \/ (ligacoes # <<>> /\ replicas[1] = "espera") =>
       ~NaPrimeira /\ (estado = 0 \/ Actual >= 2)

-----------------------------------------------------------------------------
\* A connection on which no more answers come, and none is left.
Calada(k) ==
  /\ ligacoes[k].respostas = <<>>
  /\ ~Aberta(k) \/ ligacoes[k].thread \in Mortas

\* The menu and the Buffer thread wait for a request that is done or still to
\* come, or for ever.
MenuEspera ==
  menu.fase = "espera" =>
    Feito(menu.id) \/ NaLinha(menu.lig, menu.id) \/ Calada(menu.lig)
ReplicaEspera ==
  replicas[2] = "espera" =>
    /\ buffer # <<>>
    /\ Feito(Head(buffer).id) \/ NaLinha(2, Head(buffer).id) \/ Calada(2)

\* The data of the menu whose command went to the first connection; nobody else
\* uses the second then.
Orfao(id) ==
  /\ menu.fase = "espera" /\ menu.id = id /\ ~ComComandos
  /\ ligacoes[2].respostas = <<>>
  /\ \A y \in Ids : NaLinha(2, y) => y = id

\* The thread read the command of a request, or will not get to its data.
Lido(id) == ligacoes[2].comando = id \/ ligacoes[2].thread \in Mortas
ComandosAntes ==
  \A id \in Ids :
    NaLinha(2, id) => Precede(ligacoes[2].linhas, id) \/ Lido(id) \/ Orfao(id)
Escrita ==
  menu.fase = "escrever" =>
    \/ Tem(ligacoes[2].linhas, Comando(menu.id)) \/ Lido(menu.id)
    \/ ~ComComandos /\ ligacoes[2].respostas = <<>> /\ \A y \in Ids : ~NaLinha(2, y)

\* Nobody forgets a request that may still be refused.
Donos ==
  \A id \in Ids : NaLinha(2, id) =>
    NoBuffer(id) \/ (menu.fase = "espera" /\ menu.id = id) \/ ligacoes[2].eu

NaSegunda == ReplicaEspera /\ ComandosAntes /\ Escrita /\ Donos

\* Before the second connection nothing is sent again while the user writes; and
\* each request is somewhere.
SemComandos == menu.fase = "escrever" /\ Actual = 1 => ~ComComandos
NaLista(id) ==
  \/ Feito(id) \/ NoBuffer(id) \/ id \in recusados
  \/ \E k \in DOMAIN ligacoes : NaLinha(k, id)
  \/ menu.id = id /\ menu.fase \in {"escrever", "espera", "morto"}

Segunda ==
  quedas <= 1 =>
    /\ SemComandos /\ MenuEspera
    /\ Actual = 2 => NaSegunda
    /\ \A id \in 1..pedidos : NaLista(id)

IInv == Base /\ Copias /\ Primeira /\ Segunda

-----------------------------------------------------------------------------
\* Lists of lines.

\* The lines of a request are lines.
LEMMA LinhaTipo == \A id \in Ids : Dados(id) \in Linha /\ Comando(id) \in Linha
BY ConstantesAssumption DEF Ids, Linha, Dados, Comando

\* What is in a list without its first line.
LEMMA TemResto ==
  ASSUME NEW L \in Seq(Linha), L # <<>>
  PROVE  /\ Tail(L) \in Seq(Linha) /\ Head(L) \in Linha
         /\ Tem(L, Head(L))
         /\ \A l : Tem(Tail(L), l) => Tem(L, l)
         /\ \A l : Tem(L, l) => l = Head(L) \/ Tem(Tail(L), l)
         /\ Distintos(L) =>
              Distintos(Tail(L)) /\ (Head(L).que = "dados" => ~Tem(Tail(L), Head(L)))
<1>1. /\ Tail(L) \in Seq(Linha) /\ Head(L) \in Linha /\ Head(L) = L[1]
      /\ Len(Tail(L)) = Len(L) - 1 /\ Len(L) \in Nat /\ Len(L) > 0
      /\ \A i \in 1..Len(Tail(L)) : Tail(L)[i] = L[i + 1]
  BY HeadTailProperties, LenProperties, EmptySeq
<1>2. DOMAIN L = 1..Len(L) /\ DOMAIN Tail(L) = 1..(Len(L) - 1)
  BY <1>1, LenProperties
<1>. DEFINE T == Tail(L)
            h == Head(L)
<1>3. /\ h = L[1] /\ Len(L) \in Nat /\ Len(L) > 0 /\ DOMAIN T = 1..(Len(L) - 1)
      /\ \A i \in 1..(Len(L) - 1) : T[i] = L[i + 1]
  BY <1>1, <1>2
<1>. HIDE DEF T, h
<1>4. Tem(L, h) /\ \A l : Tem(T, l) => Tem(L, l)
  BY <1>2, <1>3 DEF Tem
<1>5. ASSUME NEW l, Tem(L, l), l # h PROVE Tem(T, l)
  <2>1. PICK i \in 1..Len(L) : L[i] = l
    BY <1>2, <1>5 DEF Tem
  <2>2. i # 1 /\ i - 1 \in 1..(Len(L) - 1) /\ T[i - 1] = l
    BY <1>3, <1>5, <2>1
  <2>. QED BY <1>3, <2>2 DEF Tem
<1>6. ASSUME Distintos(L) PROVE Distintos(T) /\ (h.que = "dados" => ~Tem(T, h))
  <2>1. ASSUME NEW i \in DOMAIN T, NEW j \in DOMAIN T, T[i].que = "dados", T[i] = T[j]
        PROVE  i = j
    BY <1>2, <1>3, <1>6, <2>1 DEF Distintos
  <2>2. ASSUME h.que = "dados", NEW i \in DOMAIN T, T[i] = h PROVE FALSE
    BY <1>2, <1>3, <1>6, <2>2 DEF Distintos
  <2>. QED BY <2>1, <2>2 DEF Distintos, Tem
<1>. QED BY <1>1, <1>4, <1>5, <1>6 DEF T, h

\* What is in a list with one more line.
LEMMA TemMais ==
  ASSUME NEW L \in Seq(Linha), NEW x \in Linha
  PROVE  /\ L \o <<x>> \in Seq(Linha)
         /\ \A l : Tem(L \o <<x>>, l) <=> Tem(L, l) \/ l = x
         /\ Distintos(L) /\ (x.que = "dados" => ~Tem(L, x)) => Distintos(L \o <<x>>)
<1>. DEFINE M == L \o <<x>>
<1>1. <<x>> \in Seq(Linha) /\ Len(<<x>>) = 1 /\ <<x>>[1] = x
  OBVIOUS
<1>2. /\ M \in Seq(Linha) /\ Len(L) \in Nat
      /\ DOMAIN M = 1..(Len(L) + 1) /\ DOMAIN L = 1..Len(L)
      /\ \A i \in 1..Len(L) : M[i] = L[i]
      /\ M[Len(L) + 1] = x
  BY <1>1, ConcatProperties, LenProperties
<1>. HIDE DEF M
<1>3. \A l : Tem(M, l) <=> Tem(L, l) \/ l = x
  BY <1>2 DEF Tem
<1>4. Distintos(L) /\ (x.que = "dados" => ~Tem(L, x)) => Distintos(M)
  BY <1>2 DEF Distintos, Tem
<1>. QED BY <1>2, <1>3, <1>4 DEF M

\* A command that is before its data stays there.
LEMMA PrecedeResto ==
  ASSUME NEW L \in Seq(Linha), L # <<>>, NEW id \in Ids, Precede(L, id)
  PROVE  /\ Head(L) # Dados(id)
         /\ Head(L) # Comando(id) => Precede(Tail(L), id)
<1>1. /\ Head(L) = L[1] /\ Len(Tail(L)) = Len(L) - 1 /\ Len(L) \in Nat /\ Len(L) > 0
      /\ \A i \in 1..Len(Tail(L)) : Tail(L)[i] = L[i + 1]
      /\ Tail(L) \in Seq(Linha)
  BY HeadTailProperties, LenProperties, EmptySeq
<1>2. DOMAIN L = 1..Len(L) /\ DOMAIN Tail(L) = 1..(Len(L) - 1)
  BY <1>1, LenProperties
<1>. DEFINE T == Tail(L)
<1>3. DOMAIN T = 1..(Len(L) - 1) /\ \A i \in 1..(Len(L) - 1) : T[i] = L[i + 1]
  BY <1>1, <1>2
<1>. HIDE DEF T
<1>4. ASSUME L[1] # Comando(id), NEW i \in DOMAIN T, T[i] = Dados(id)
      PROVE  \E j \in DOMAIN T : j < i /\ T[j] = Comando(id)
  <2>1. L[i + 1] = Dados(id) /\ i + 1 \in DOMAIN L
    BY <1>1, <1>2, <1>3, <1>4
  <2>2. PICK j \in DOMAIN L : j < i + 1 /\ L[j] = Comando(id)
    BY <2>1 DEF Precede
  <2>3. j # 1 /\ j - 1 \in DOMAIN T /\ j - 1 < i /\ T[j - 1] = Comando(id)
    BY <1>1, <1>2, <1>3, <1>4, <2>2
  <2>. QED BY <2>3
<1>5. L[1] # Dados(id)
  BY <1>1, <1>2 DEF Precede
<1>. QED BY <1>1, <1>4, <1>5 DEF T, Precede

\* One more line keeps that order, when its command is there.
LEMMA PrecedeMais ==
  ASSUME NEW L \in Seq(Linha), NEW x \in Linha, NEW id \in Ids, Precede(L, id),
         x = Dados(id) => Tem(L, Comando(id))
  PROVE  Precede(L \o <<x>>, id)
<1>. DEFINE M == L \o <<x>>
<1>1. <<x>> \in Seq(Linha) /\ Len(<<x>>) = 1 /\ <<x>>[1] = x
  OBVIOUS
<1>2. /\ Len(L) \in Nat /\ DOMAIN M = 1..(Len(L) + 1) /\ DOMAIN L = 1..Len(L)
      /\ \A i \in 1..Len(L) : M[i] = L[i]
      /\ M[Len(L) + 1] = x
  BY <1>1, ConcatProperties, LenProperties
<1>. HIDE DEF M
<1>. QED BY <1>2 DEF Precede, Tem, M

\* Nothing comes before data that are not there.
LEMMA PrecedeNada ==
  ASSUME NEW L, NEW id, ~Tem(L, Dados(id))
  PROVE  Precede(L, id)
BY DEF Precede, Tem

-----------------------------------------------------------------------------
\* Types of parts of the state.

Fases == {"nao", "inicio", "espera", "dormir", "fim", "rebentou"}

\* Connections and Buffer threads have the same positions.
LEMMA Indices ==
  ASSUME TypeOK
  PROVE  /\ Actual \in Nat /\ DOMAIN ligacoes = 1..Actual /\ DOMAIN replicas = 1..Actual
         /\ ligacoes # <<>> <=> Actual > 0
         /\ Actual > 0 => Actual \in DOMAIN ligacoes /\ 1 \in DOMAIN ligacoes
<1>1. ligacoes \in Seq(Ligacao) /\ replicas \in Seq(Fases) /\ Len(replicas) = Actual
  BY DEF TypeOK, Actual, Fases
<1>2. Actual \in Nat /\ DOMAIN ligacoes = 1..Actual /\ DOMAIN replicas = 1..Actual
  BY <1>1, LenProperties DEF Actual
<1>3. ligacoes # <<>> <=> Actual > 0
  BY <1>1, <1>2, EmptySeq DEF Actual
<1>. QED BY <1>2, <1>3

\* The fields of a connection.
LEMMA LigacaoTipo ==
  ASSUME TypeOK, NEW k \in DOMAIN ligacoes
  PROVE  /\ ligacoes[k] \in Ligacao
         /\ ligacoes[k].linhas \in Seq(Linha) /\ ligacoes[k].respostas \in Seq(Ids)
         /\ ligacoes[k].aberta \in BOOLEAN /\ ligacoes[k].eu \in BOOLEAN
         /\ ligacoes[k].comando \in 0..MaxPedidos /\ ligacoes[k].servidor \in Servidores
         /\ ligacoes[k].thread \in {"fila", "pronta", "rebentou", "baralhada"}
<1>1. ligacoes \in Seq(Ligacao)
  BY DEF TypeOK
<1>2. ligacoes[k] \in Ligacao
  BY <1>1
<1>. QED BY <1>2 DEF Ligacao

\* The requests kept.
LEMMA BufferTipo ==
  ASSUME TypeOK
  PROVE  /\ buffer \in Seq(Pacote) /\ Len(buffer) \in Nat /\ DOMAIN buffer = 1..Len(buffer)
         /\ buffer # <<>> <=> Len(buffer) > 0
         /\ buffer # <<>> => Head(buffer) = buffer[1] /\ 1 \in DOMAIN buffer
         /\ \A j \in DOMAIN buffer : /\ buffer[j] \in Pacote /\ buffer[j].id \in Ids
                                     /\ buffer[j].comandos \in BOOLEAN
<1>1. buffer \in Seq(Pacote)
  BY DEF TypeOK
<1>2. Len(buffer) \in Nat /\ DOMAIN buffer = 1..Len(buffer) /\ (buffer # <<>> <=> Len(buffer) > 0)
  BY <1>1, LenProperties, EmptySeq
<1>3. \A j \in DOMAIN buffer : buffer[j] \in Pacote
  BY <1>1
<1>. QED BY <1>1, <1>2, <1>3 DEF Pacote

\* One connection changes, another is made, a Buffer thread moves.
LEMMA MudarLigacao ==
  ASSUME TypeOK, NEW k \in DOMAIN ligacoes, NEW r \in Ligacao,
         ligacoes' = [ligacoes EXCEPT ![k] = r]
  PROVE  /\ ligacoes' \in Seq(Ligacao) /\ Len(ligacoes') = Len(ligacoes)
         /\ DOMAIN ligacoes' = DOMAIN ligacoes
         /\ ligacoes'[k] = r /\ \A j \in DOMAIN ligacoes \ {k} : ligacoes'[j] = ligacoes[j]
<1>1. ligacoes \in Seq(Ligacao) /\ DOMAIN ligacoes = 1..Len(ligacoes)
  BY Indices DEF TypeOK, Actual
<1>2. ligacoes' \in Seq(Ligacao) /\ Len(ligacoes') = Len(ligacoes)
  BY <1>1, ExceptSeq
<1>. QED BY <1>1, <1>2

\* A connection is made; the others stay as they are.
LEMMA JuntarLigacao ==
  ASSUME TypeOK, NEW s \in Servidores, NovaLigacao(s)
  PROVE  /\ ligacoes' \in Seq(Ligacao) /\ Len(ligacoes') = Actual + 1
         /\ DOMAIN ligacoes' = 1..(Actual + 1)
         /\ \A k \in DOMAIN ligacoes : ligacoes'[k] = ligacoes[k]
         /\ ligacoes'[Actual + 1] =
              [servidor |-> s, aberta |-> TRUE, thread |-> "fila", eu |-> FALSE,
               comando |-> 0, linhas |-> <<>>, respostas |-> <<>>]
         /\ replicas' \in Seq(Fases) /\ Len(replicas') = Actual + 1
         /\ \A k \in DOMAIN ligacoes : replicas'[k] = replicas[k]
         /\ replicas'[Actual + 1] = "nao"
<1>. DEFINE n == [servidor |-> s, aberta |-> TRUE, thread |-> "fila", eu |-> FALSE,
                  comando |-> 0, linhas |-> <<>>, respostas |-> <<>>]
<1>1. n \in Ligacao
  BY ConstantesAssumption, EmptySeq DEF Ligacao
<1>2. ligacoes' = Append(ligacoes, n) /\ replicas' = Append(replicas, "nao")
  BY DEF NovaLigacao
<1>. HIDE DEF n
<1>3. /\ ligacoes \in Seq(Ligacao) /\ replicas \in Seq(Fases) /\ "nao" \in Fases
      /\ Len(ligacoes) = Actual /\ Len(replicas) = Actual
  BY DEF TypeOK, Actual, Fases
<1>4. /\ ligacoes' \in Seq(Ligacao) /\ Len(ligacoes') = Actual + 1
      /\ \A k \in 1..Actual : ligacoes'[k] = ligacoes[k]
      /\ ligacoes'[Actual + 1] = n
  BY <1>1, <1>2, <1>3, AppendProperties
<1>5. /\ replicas' \in Seq(Fases) /\ Len(replicas') = Actual + 1
      /\ \A k \in 1..Actual : replicas'[k] = replicas[k]
      /\ replicas'[Actual + 1] = "nao"
  BY <1>2, <1>3, AppendProperties
<1>6. DOMAIN ligacoes' = 1..(Actual + 1)
  BY <1>4, LenProperties
<1>. QED BY <1>4, <1>5, <1>6, Indices DEF n

\* A Buffer thread moves.
LEMMA MudarReplica ==
  ASSUME TypeOK, NEW k \in DOMAIN ligacoes, NEW para \in Fases,
         replicas' = [replicas EXCEPT ![k] = para]
  PROVE  /\ replicas' \in Seq(Fases) /\ Len(replicas') = Len(replicas)
         /\ replicas'[k] = para
         /\ \A j \in DOMAIN ligacoes \ {k} : replicas'[j] = replicas[j]
<1>1. replicas \in Seq(Fases) /\ k \in 1..Len(replicas)
  BY Indices DEF TypeOK, Fases, Actual
<1>2. replicas' \in Seq(Fases) /\ Len(replicas') = Len(replicas)
  BY <1>1, ExceptSeq
<1>. QED BY <1>1, <1>2, Indices

\* println adds lines to the connection, or does nothing.
LEMMA EnviarFaz ==
  ASSUME TypeOK, NEW k \in DOMAIN ligacoes, NEW L \in Seq(Linha), Enviar(k, L)
  PROVE  /\ ligacoes' \in Seq(Ligacao) /\ Len(ligacoes') = Len(ligacoes)
         /\ DOMAIN ligacoes' = DOMAIN ligacoes
         /\ \A j \in DOMAIN ligacoes :
              /\ ligacoes'[j].aberta = ligacoes[j].aberta
              /\ ligacoes'[j].thread = ligacoes[j].thread
              /\ ligacoes'[j].eu = ligacoes[j].eu
              /\ ligacoes'[j].comando = ligacoes[j].comando
              /\ ligacoes'[j].respostas = ligacoes[j].respostas
              /\ ligacoes'[j].linhas = IF j = k /\ Aberta(k) THEN ligacoes[j].linhas \o L
                                                            ELSE ligacoes[j].linhas
<1>1. /\ ligacoes[k] \in Ligacao /\ ligacoes[k].linhas \in Seq(Linha)
      /\ ligacoes[k].aberta \in BOOLEAN /\ ligacoes \in Seq(Ligacao)
  BY LigacaoTipo DEF TypeOK
<1>2. CASE Aberta(k)
  <2>. DEFINE M == ligacoes[k].linhas \o L
              r == [ligacoes[k] EXCEPT !.linhas = M]
  <2>1. M \in Seq(Linha)
    BY <1>1, ConcatProperties
  <2>2. ligacoes' = [ligacoes EXCEPT ![k] = r]
    BY <1>2 DEF Enviar
  <2>. HIDE DEF M
  <2>3. r \in Ligacao
    BY <1>1, <2>1 DEF Ligacao
  <2>4. /\ r.aberta = ligacoes[k].aberta /\ r.thread = ligacoes[k].thread
        /\ r.eu = ligacoes[k].eu /\ r.comando = ligacoes[k].comando
        /\ r.respostas = ligacoes[k].respostas /\ r.linhas = M
    BY <1>1 DEF Ligacao
  <2>. HIDE DEF r
  <2>5. /\ ligacoes' \in Seq(Ligacao) /\ Len(ligacoes') = Len(ligacoes)
        /\ DOMAIN ligacoes' = DOMAIN ligacoes
        /\ ligacoes'[k] = r /\ \A j \in DOMAIN ligacoes \ {k} : ligacoes'[j] = ligacoes[j]
    BY <2>2, <2>3, MudarLigacao
  <2>. QED BY <1>2, <2>4, <2>5 DEF M
<1>3. CASE ~Aberta(k)
  BY <1>1, <1>3 DEF Enviar
<1>. QED BY <1>2, <1>3

-----------------------------------------------------------------------------
\* Base.

MenuTipo == [fase : {"login", "livre", "escrever", "espera", "morto"},
             id : 0..MaxPedidos, tipo : Tipos, lig : 0..MaxLigacoes]
Onde == {"ligar", "iniciar", "ler", "religar", "reiniciar", "anunciar", "dormir", "morto"}

\* The steps that make and close no connection.
LEMMA BaseMuda ==
  ASSUME Base,
         ligacoes' \in Seq(Ligacao), Len(ligacoes') = Len(ligacoes),
         DOMAIN ligacoes' = DOMAIN ligacoes,
         \A k \in DOMAIN ligacoes :
           /\ ligacoes'[k].aberta = ligacoes[k].aberta
           /\ ~ligacoes[k].aberta => ligacoes'[k].linhas = <<>>
           /\ ligacoes'[k].respostas # <<>> => ligacoes'[k].eu
           /\ \A i \in DOMAIN ligacoes'[k].linhas :
                ligacoes'[k].linhas[i].que = "dados" => ligacoes'[k].linhas[i].id \in Ids,
         papel' \in [Servidores -> {"morto", "S", "P"}], reiniciado' \in BOOLEAN,
         quedas' = quedas,
         contador' \in 0..6, principal' \in Onde, estado' \in {-1, 0, 1}, Principal',
         replicas' \in Seq(Fases), Len(replicas') = Len(replicas),
         buffer' \in Seq(Pacote), Len(buffer') <= MAXIMO_BUFFER,
         feitos' \in Seq(Ids), recusados' \subseteq Ids, pedidos' \in 0..MaxPedidos,
         menu' \in MenuTipo, menu'.fase # "login" => ligacoes # <<>>,
         menu'.fase \in {"escrever", "espera"} => menu'.id \in 1..pedidos',
         menu'.fase = "espera" => menu'.lig \in DOMAIN ligacoes
  PROVE  Base'
<1>1. TypeOK /\ Ligacoes
  BY DEF Base
<1>2. /\ Actual' = Actual /\ Actual \in Nat /\ DOMAIN ligacoes = 1..Actual
      /\ ligacoes # <<>> <=> Actual > 0
  BY <1>1, Indices DEF Actual
<1>3. ligacoes' # <<>> <=> ligacoes # <<>>
  BY <1>2, EmptySeq DEF Actual
<1>4. TypeOK'
  BY <1>1 DEF TypeOK, MenuTipo, Fases, Onde
<1>5. Ligacoes'
  <2>1. \A k \in DOMAIN ligacoes' : k # Actual' => ~Aberta(k)'
    BY <1>1, <1>2 DEF Ligacoes, Aberta
  <2>2. \A k \in DOMAIN ligacoes' :
          /\ ~Aberta(k)' => ligacoes'[k].linhas = <<>>
          /\ ligacoes'[k].respostas # <<>> => ligacoes'[k].eu
          /\ \A i \in DOMAIN ligacoes'[k].linhas :
               ligacoes'[k].linhas[i].que = "dados" => ligacoes'[k].linhas[i].id \in Ids
    BY DEF Aberta
  <2>3. Actual' <= quedas' + 1 /\ (Actual' > 0 /\ ~Aberta(Actual)' => Actual' <= quedas')
    BY <1>1, <1>2 DEF Ligacoes, Aberta
  <2>. QED BY <2>1, <2>2, <2>3 DEF Ligacoes
<1>6. Menu'
  BY <1>3 DEF Menu
<1>. QED BY <1>4, <1>5, <1>6 DEF Base

\* Those that are not of main.
LEMMA BaseMantem ==
  ASSUME Base,
         ligacoes' \in Seq(Ligacao), Len(ligacoes') = Len(ligacoes),
         DOMAIN ligacoes' = DOMAIN ligacoes,
         \A k \in DOMAIN ligacoes :
           /\ ligacoes'[k].aberta = ligacoes[k].aberta
           /\ ~ligacoes[k].aberta => ligacoes'[k].linhas = <<>>
           /\ ligacoes'[k].respostas # <<>> => ligacoes'[k].eu
           /\ \A i \in DOMAIN ligacoes'[k].linhas :
                ligacoes'[k].linhas[i].que = "dados" => ligacoes'[k].linhas[i].id \in Ids,
         papel' \in [Servidores -> {"morto", "S", "P"}], reiniciado' \in BOOLEAN,
         UNCHANGED escuta, quedas' = quedas,
         replicas' \in Seq(Fases), Len(replicas') = Len(replicas),
         \A k \in DOMAIN ligacoes : replicas[k] = "nao" => replicas'[k] = "nao",
         buffer' \in Seq(Pacote), Len(buffer') <= MAXIMO_BUFFER,
         feitos' \in Seq(Ids), recusados' \subseteq Ids, pedidos' \in 0..MaxPedidos,
         menu' \in MenuTipo, menu'.fase # "login" => ligacoes # <<>>,
         menu'.fase \in {"escrever", "espera"} => menu'.id \in 1..pedidos',
         menu'.fase = "espera" => menu'.lig \in DOMAIN ligacoes
  PROVE  Base'
<1>1. TypeOK /\ Principal
  BY DEF Base
<1>2. /\ Actual' = Actual /\ Actual \in Nat /\ DOMAIN ligacoes = 1..Actual
      /\ ligacoes # <<>> <=> Actual > 0
  BY <1>1, Indices DEF Actual
<1>3. ligacoes' # <<>> <=> ligacoes # <<>>
  BY <1>2, EmptySeq DEF Actual
<1>4. /\ contador' \in 0..6 /\ principal' \in Onde /\ estado' \in {-1, 0, 1}
      /\ quedas' = quedas
  BY <1>1 DEF TypeOK, escuta, Onde
<1>5. Principal'
  <2>1. /\ Actual > 0 => Actual \in DOMAIN ligacoes /\ 1 \in DOMAIN ligacoes
        /\ UNCHANGED <<contador, principal, estado>>
    BY <1>2 DEF escuta
  <2>2. Actual > 0 => (Aberta(Actual)' <=> Aberta(Actual)) /\ (Aberta(1)' <=> Aberta(1))
    BY <1>2, <2>1 DEF Aberta
  <2>3. principal' \in {"iniciar", "reiniciar"} => replicas'[Actual'] = "nao"
    BY <1>1, <1>2, <2>1 DEF Principal
  <2>. QED BY <1>1, <1>2, <1>3, <2>1, <2>2, <2>3 DEF Principal
<1>. QED BY <1>4, <1>5, BaseMuda

\* What does not change there, in one place.
LEMMA BaseIgual ==
  ASSUME Base
  PROVE  /\ ligacoes \in Seq(Ligacao)
         /\ \A k \in DOMAIN ligacoes :
              /\ ~ligacoes[k].aberta => ligacoes[k].linhas = <<>>
              /\ ligacoes[k].respostas # <<>> => ligacoes[k].eu
              /\ \A i \in DOMAIN ligacoes[k].linhas :
                   ligacoes[k].linhas[i].que = "dados" => ligacoes[k].linhas[i].id \in Ids
         /\ papel \in [Servidores -> {"morto", "S", "P"}] /\ reiniciado \in BOOLEAN
         /\ replicas \in Seq(Fases) /\ Len(replicas) = Len(ligacoes)
         /\ buffer \in Seq(Pacote) /\ Len(buffer) <= MAXIMO_BUFFER
         /\ feitos \in Seq(Ids) /\ recusados \subseteq Ids /\ pedidos \in 0..MaxPedidos
         /\ menu \in MenuTipo /\ (menu.fase # "login" => ligacoes # <<>>)
         /\ menu.fase \in {"escrever", "espera"} => menu.id \in 1..pedidos
         /\ menu.fase = "espera" => menu.lig \in DOMAIN ligacoes
BY DEF Base, TypeOK, Ligacoes, Menu, Aberta, Fases, MenuTipo

\* The roles of the servers are in no other part.
LEMMA BasePapel ==
  ASSUME Base, UNCHANGED <<ligacoes, feitos, quedas, escuta, utilizador, buffer, replicas>>,
         papel' \in [Servidores -> {"morto", "S", "P"}], reiniciado' \in BOOLEAN
  PROVE  Base'
BY BaseIgual, BaseMantem DEF utilizador

\* A server becomes the primary, or starts again.
LEMMA BaseServidores ==
  ASSUME Base, NEW s \in Servidores, PromoverServidor(s) \/ ArrancarServidor(s)
  PROVE  Base'
<1>1. papel \in [Servidores -> {"morto", "S", "P"}] /\ reiniciado \in BOOLEAN
  BY BaseIgual
<1>2. papel' \in [Servidores -> {"morto", "S", "P"}] /\ reiniciado' \in BOOLEAN
  BY <1>1 DEF PromoverServidor, ArrancarServidor, Par!Promover, Par!Arrancar
<1>3. UNCHANGED <<ligacoes, feitos, quedas, escuta, utilizador, buffer, replicas>>
  BY DEF PromoverServidor, ArrancarServidor
<1>. QED BY <1>2, <1>3, BasePapel

\* The Buffer threads whose step moves nothing else.
LEMMA BaseReplica ==
  ASSUME Base, NEW k \in DOMAIN ligacoes,
         ReplicaFim(k) \/ ReplicaRebenta(k) \/ ReplicaFalha(k) \/ ReplicaAcorda(k)
  PROVE  Base'
<1>1. PICK para \in Fases : replicas' = [replicas EXCEPT ![k] = para]
  BY DEF ReplicaFim, ReplicaRebenta, ReplicaFalha, ReplicaAcorda, Replica, Fases
<1>2. replicas[k] # "nao"
  BY DEF ReplicaFim, ReplicaRebenta, ReplicaFalha, ReplicaAcorda, Replica
<1>3. UNCHANGED <<ligacoes, servidor, escuta, utilizador, buffer>>
  BY DEF ReplicaFim, ReplicaRebenta, ReplicaFalha, ReplicaAcorda
<1>4. /\ replicas' \in Seq(Fases) /\ Len(replicas') = Len(replicas)
      /\ \A j \in DOMAIN ligacoes \ {k} : replicas'[j] = replicas[j]
  BY <1>1, MudarReplica DEF Base
<1>5. \A j \in DOMAIN ligacoes : replicas[j] = "nao" => replicas'[j] = "nao"
  BY <1>2, <1>4
<1>. QED BY <1>3, <1>4, <1>5, BaseIgual, BaseMantem DEF servidor, utilizador

\* What the thread makes of a line: it carries a request out, or answers nothing.
FazPedido(k, l) ==
  /\ l.que = "dados" /\ ligacoes[k].comando = l.id /\ ligacoes[k].eu /\ ligacoes'[k].eu
  /\ ligacoes'[k].comando = 0 /\ ligacoes'[k].thread = "pronta"
  /\ ligacoes'[k].respostas = Append(ligacoes[k].respostas, l.id)
  /\ feitos' = Append(feitos, l.id)
NaoFaz(k, l) ==
  /\ ligacoes'[k].respostas = ligacoes[k].respostas /\ feitos' = feitos
  /\ ligacoes[k].eu => ligacoes'[k].eu
  /\ \/ l.que = "anuncio" /\ ligacoes[k].comando = 0 /\ ligacoes'[k].comando = 0
     \/ l.que = "comando" /\ ligacoes[k].comando = 0 /\ ligacoes'[k].comando = l.id
     \/ /\ l.que = "dados" /\ ligacoes[k].comando = l.id /\ ~ligacoes[k].eu
        /\ ligacoes'[k].thread = "rebentou"
     \/ /\ ~(l.que = "dados" /\ ligacoes[k].comando = l.id)
        /\ ligacoes'[k].thread = "baralhada"

\* AtenderLinha takes the first line, and does FazPedido or NaoFaz with it.
LEMMA AtenderFaz ==
  ASSUME Base, NEW k \in DOMAIN ligacoes, AtenderLinha(k)
  PROVE  /\ ligacoes' \in Seq(Ligacao) /\ Len(ligacoes') = Len(ligacoes)
         /\ DOMAIN ligacoes' = DOMAIN ligacoes
         /\ \A j \in DOMAIN ligacoes \ {k} : ligacoes'[j] = ligacoes[j]
         /\ Aberta(k) /\ ligacoes[k].thread = "pronta" /\ ligacoes[k].linhas # <<>>
         /\ ligacoes'[k].aberta = ligacoes[k].aberta
         /\ ligacoes'[k].linhas = Tail(ligacoes[k].linhas)
         /\ FazPedido(k, Head(ligacoes[k].linhas)) \/ NaoFaz(k, Head(ligacoes[k].linhas))
<1>. DEFINE c == ligacoes[k]
            l == Head(c.linhas)
            T == Tail(c.linhas)
            resto == [c EXCEPT !.linhas = T]
            depois ==
              CASE l.que = "anuncio" /\ resto.comando = 0 -> [resto EXCEPT !.eu = TRUE]
                [] l.que = "comando" /\ resto.comando = 0 -> [resto EXCEPT !.comando = l.id]
                [] l.que = "dados" /\ resto.comando = l.id /\ resto.eu ->
                     [resto EXCEPT !.comando = 0, !.respostas = Append(@, l.id)]
                [] l.que = "dados" /\ resto.comando = l.id /\ ~resto.eu ->
                     [resto EXCEPT !.thread = "rebentou"]
                [] OTHER -> [resto EXCEPT !.thread = "baralhada"]
<1>1. /\ c \in Ligacao /\ c.aberta /\ c.thread = "pronta" /\ c.linhas # <<>>
      /\ c.linhas \in Seq(Linha) /\ c.respostas \in Seq(Ids)
      /\ c.comando \in 0..MaxPedidos /\ c.eu \in BOOLEAN
  BY LigacaoTipo DEF AtenderLinha, Aberta, Base
<1>2. T \in Seq(Linha) /\ l \in Linha /\ l \in [que : {"comando", "dados", "anuncio"}, id : 0..MaxPedidos]
  BY <1>1, TemResto DEF Linha
<1>3. /\ ligacoes' = [ligacoes EXCEPT ![k] = depois]
      /\ feitos' = IF Len(depois.respostas) > Len(c.respostas)
                   THEN Append(feitos, l.id) ELSE feitos
  BY DEF AtenderLinha
<1>4. l.que = "dados" => l.id \in Ids
  <2>1. l = c.linhas[1] /\ 1 \in DOMAIN c.linhas
    BY <1>1, LenProperties, EmptySeq, HeadTailProperties
  <2>. QED BY <2>1 DEF Base, Ligacoes
<1>. HIDE DEF l, T, c
<1>5. l.que \in {"comando", "dados", "anuncio"} /\ l.id \in 0..MaxPedidos
  BY <1>2
<1>6. /\ resto \in Ligacao /\ resto.comando = c.comando /\ resto.eu = c.eu
      /\ resto.respostas = c.respostas /\ resto.thread = "pronta" /\ resto.aberta
      /\ resto.linhas = T
  BY <1>1, <1>2 DEF Ligacao
<1>. HIDE DEF resto
<1>7. CASE l.que = "dados" /\ c.comando = l.id /\ c.eu
  <2>. DEFINE R == Append(c.respostas, l.id)
              r == [resto EXCEPT !.comando = 0, !.respostas = R]
  <2>1. R \in Seq(Ids) /\ Len(R) = Len(c.respostas) + 1 /\ Len(c.respostas) \in Nat
    BY <1>1, <1>4, <1>7, AppendProperties, LenProperties
  <2>2. depois = r
    BY <1>6, <1>7
  <2>. HIDE DEF depois, R
  <2>3. /\ r \in Ligacao /\ r.comando = 0 /\ r.eu = c.eu /\ r.thread = "pronta"
        /\ r.aberta /\ r.respostas = R /\ r.linhas = T
    <3>. DEFINE s == [resto EXCEPT !.comando = 0]
    <3>1. /\ s \in Ligacao /\ s.comando = 0 /\ s.eu = c.eu /\ s.thread = "pronta"
          /\ s.aberta /\ s.linhas = T
      BY <1>6, ConstantesAssumption DEF Ligacao
    <3>2. r = [s EXCEPT !.respostas = R]
      BY Zenon
    <3>. HIDE DEF s, r
    <3>3. r \in Ligacao
      BY <2>1, <3>1, <3>2 DEF Ligacao
    <3>4. /\ r.comando = s.comando /\ r.eu = s.eu /\ r.thread = s.thread
          /\ r.aberta = s.aberta /\ r.linhas = s.linhas /\ r.respostas = R
      BY <3>1, <3>2 DEF Ligacao
    <3>. QED BY <3>1, <3>3, <3>4
  <2>. HIDE DEF r
  <2>4. /\ ligacoes' \in Seq(Ligacao) /\ Len(ligacoes') = Len(ligacoes)
        /\ DOMAIN ligacoes' = DOMAIN ligacoes
        /\ ligacoes'[k] = r /\ \A j \in DOMAIN ligacoes \ {k} : ligacoes'[j] = ligacoes[j]
    BY <1>3, <2>2, <2>3, MudarLigacao DEF Base
  <2>5. feitos' = Append(feitos, l.id)
    BY <1>3, <2>1, <2>2, <2>3
  <2>6. FazPedido(k, l)
    BY <1>7, <2>3, <2>4, <2>5 DEF FazPedido, c, R
  <2>. QED BY <1>1, <2>3, <2>4, <2>6 DEF c, l, T, Aberta
<1>8. CASE ~(l.que = "dados" /\ c.comando = l.id /\ c.eu)
  <2>1. /\ depois \in Ligacao /\ depois.respostas = c.respostas /\ depois.aberta
        /\ depois.linhas = T /\ (c.eu => depois.eu)
        /\ \/ l.que = "anuncio" /\ c.comando = 0 /\ depois.comando = 0
           \/ l.que = "comando" /\ c.comando = 0 /\ depois.comando = l.id
           \/ l.que = "dados" /\ c.comando = l.id /\ ~c.eu /\ depois.thread = "rebentou"
           \/ ~(l.que = "dados" /\ c.comando = l.id) /\ depois.thread = "baralhada"
    <3>1. CASE l.que = "anuncio" /\ c.comando = 0
      <4>1. depois = [resto EXCEPT !.eu = TRUE]
        BY <1>6, <3>1
      <4>. QED BY <1>6, <3>1, <4>1 DEF Ligacao
    <3>2. CASE l.que = "comando" /\ c.comando = 0
      <4>1. depois = [resto EXCEPT !.comando = l.id]
        BY <1>6, <3>2
      <4>. QED BY <1>5, <1>6, <3>2, <4>1 DEF Ligacao
    <3>3. CASE l.que = "dados" /\ c.comando = l.id /\ ~c.eu
      <4>1. depois = [resto EXCEPT !.thread = "rebentou"]
        BY <1>6, <3>3
      <4>. QED BY <1>6, <3>3, <4>1 DEF Ligacao
    <3>4. CASE /\ ~(l.que = "anuncio" /\ c.comando = 0) /\ ~(l.que = "comando" /\ c.comando = 0)
               /\ ~(l.que = "dados" /\ c.comando = l.id)
      <4>1. depois = [resto EXCEPT !.thread = "baralhada"]
        BY <1>6, <3>4
      <4>. QED BY <1>6, <3>4, <4>1 DEF Ligacao
    <3>. QED BY <1>1, <1>8, <3>1, <3>2, <3>3, <3>4
  <2>. HIDE DEF depois
  <2>2. /\ ligacoes' \in Seq(Ligacao) /\ Len(ligacoes') = Len(ligacoes)
        /\ DOMAIN ligacoes' = DOMAIN ligacoes
        /\ ligacoes'[k] = depois /\ \A j \in DOMAIN ligacoes \ {k} : ligacoes'[j] = ligacoes[j]
    BY <1>3, <2>1, MudarLigacao DEF Base
  <2>3. Len(c.respostas) \in Nat
    BY <1>1, LenProperties
  <2>4. feitos' = feitos
    BY <1>3, <2>1, <2>3
  <2>5. NaoFaz(k, l)
    BY <2>1, <2>2, <2>4 DEF NaoFaz, c
  <2>. QED BY <1>1, <2>1, <2>2, <2>5 DEF c, l, T, Aberta
<1>. QED BY <1>7, <1>8

\* A line is read: the answers of a connection are for a known user.
LEMMA BaseAtender ==
  ASSUME Base, NEW k \in DOMAIN ligacoes, AtenderLinha(k)
  PROVE  Base'
<1>. DEFINE L == ligacoes[k].linhas
            l == Head(L)
<1>1. /\ ligacoes' \in Seq(Ligacao) /\ Len(ligacoes') = Len(ligacoes)
      /\ DOMAIN ligacoes' = DOMAIN ligacoes
      /\ \A j \in DOMAIN ligacoes \ {k} : ligacoes'[j] = ligacoes[j]
      /\ Aberta(k) /\ L # <<>>
      /\ ligacoes'[k].aberta = ligacoes[k].aberta
      /\ ligacoes'[k].linhas = Tail(L)
      /\ FazPedido(k, l) \/ NaoFaz(k, l)
  BY AtenderFaz
<1>2. /\ L \in Seq(Linha)
      /\ \A i \in DOMAIN L : L[i].que = "dados" => L[i].id \in Ids
      /\ ligacoes[k].respostas # <<>> => ligacoes[k].eu
  BY LigacaoTipo DEF Base, Ligacoes
<1>. HIDE DEF L
<1>3. /\ Len(Tail(L)) = Len(L) - 1 /\ Len(L) \in Nat /\ DOMAIN L = 1..Len(L)
      /\ DOMAIN Tail(L) = 1..(Len(L) - 1) /\ \A i \in 1..(Len(L) - 1) : Tail(L)[i] = L[i + 1]
      /\ l = L[1] /\ Len(L) > 0
  BY <1>1, <1>2, HeadTailProperties, LenProperties, EmptySeq
<1>. HIDE DEF l
<1>4. \A i \in DOMAIN Tail(L) : Tail(L)[i].que = "dados" => Tail(L)[i].id \in Ids
  BY <1>2, <1>3
<1>5. ligacoes'[k].respostas # <<>> => ligacoes'[k].eu
  BY <1>1, <1>2 DEF FazPedido, NaoFaz
<1>6. feitos' \in Seq(Ids)
  <2>1. FazPedido(k, l) => l.id \in Ids
    BY <1>2, <1>3 DEF FazPedido
  <2>2. feitos' = feitos \/ (l.id \in Ids /\ feitos' = Append(feitos, l.id))
    BY <1>1, <2>1 DEF FazPedido, NaoFaz
  <2>3. feitos \in Seq(Ids)
    BY BaseIgual
  <2>. QED BY <2>2, <2>3, AppendProperties
<1>7. UNCHANGED <<papel, reiniciado, quedas, escuta, utilizador, buffer, replicas>>
  BY DEF AtenderLinha
<1>8. \A j \in DOMAIN ligacoes :
        /\ ligacoes'[j].aberta = ligacoes[j].aberta
        /\ ~ligacoes[j].aberta => ligacoes'[j].linhas = <<>>
        /\ ligacoes'[j].respostas # <<>> => ligacoes'[j].eu
        /\ \A i \in DOMAIN ligacoes'[j].linhas :
             ligacoes'[j].linhas[i].que = "dados" => ligacoes'[j].linhas[i].id \in Ids
  <2>1. ASSUME NEW j \in DOMAIN ligacoes \ {k}
        PROVE  /\ ligacoes'[j].aberta = ligacoes[j].aberta
               /\ ~ligacoes[j].aberta => ligacoes'[j].linhas = <<>>
               /\ ligacoes'[j].respostas # <<>> => ligacoes'[j].eu
               /\ \A i \in DOMAIN ligacoes'[j].linhas :
                    ligacoes'[j].linhas[i].que = "dados" => ligacoes'[j].linhas[i].id \in Ids
    BY <1>1, BaseIgual
  <2>2. /\ ligacoes'[k].aberta = ligacoes[k].aberta /\ ligacoes[k].aberta
        /\ \A i \in DOMAIN ligacoes'[k].linhas :
             ligacoes'[k].linhas[i].que = "dados" => ligacoes'[k].linhas[i].id \in Ids
    BY <1>1, <1>4 DEF Aberta
  <2>. QED BY <1>5, <2>1, <2>2
<1>. QED BY <1>1, <1>6, <1>7, <1>8, BaseIgual, BaseMantem DEF utilizador

\* A thread takes an answer from its connection.
LEMMA TirarFaz ==
  ASSUME TypeOK, NEW k \in DOMAIN ligacoes, Resposta(k),
         ligacoes' = [ligacoes EXCEPT ![k].respostas = Tail(@)]
  PROVE  /\ ligacoes' \in Seq(Ligacao) /\ Len(ligacoes') = Len(ligacoes)
         /\ DOMAIN ligacoes' = DOMAIN ligacoes
         /\ \A j \in DOMAIN ligacoes :
              /\ ligacoes'[j].aberta = ligacoes[j].aberta
              /\ ligacoes'[j].thread = ligacoes[j].thread
              /\ ligacoes'[j].eu = ligacoes[j].eu
              /\ ligacoes'[j].comando = ligacoes[j].comando
              /\ ligacoes'[j].linhas = ligacoes[j].linhas
              /\ ligacoes'[j].respostas = IF j = k THEN Tail(ligacoes[j].respostas)
                                          ELSE ligacoes[j].respostas
         /\ Len(Tail(ligacoes[k].respostas)) = Len(ligacoes[k].respostas) - 1
         /\ Len(ligacoes[k].respostas) \in Nat
<1>1. /\ ligacoes[k] \in Ligacao /\ ligacoes[k].respostas \in Seq(Ids)
      /\ ligacoes[k].respostas # <<>>
  BY LigacaoTipo DEF Resposta
<1>. DEFINE M == Tail(ligacoes[k].respostas)
            r == [ligacoes[k] EXCEPT !.respostas = M]
<1>2. /\ M \in Seq(Ids) /\ Len(M) = Len(ligacoes[k].respostas) - 1
      /\ Len(ligacoes[k].respostas) \in Nat
  BY <1>1, HeadTailProperties, LenProperties
<1>3. ligacoes' = [ligacoes EXCEPT ![k] = r]
  OBVIOUS
<1>. HIDE DEF M
<1>4. r \in Ligacao
  BY <1>1, <1>2 DEF Ligacao
<1>5. /\ r.aberta = ligacoes[k].aberta /\ r.thread = ligacoes[k].thread
      /\ r.eu = ligacoes[k].eu /\ r.comando = ligacoes[k].comando
      /\ r.linhas = ligacoes[k].linhas /\ r.respostas = M
  BY <1>1 DEF Ligacao
<1>. HIDE DEF r
<1>6. /\ ligacoes' \in Seq(Ligacao) /\ Len(ligacoes') = Len(ligacoes)
      /\ DOMAIN ligacoes' = DOMAIN ligacoes
      /\ ligacoes'[k] = r /\ \A j \in DOMAIN ligacoes \ {k} : ligacoes'[j] = ligacoes[j]
  BY <1>3, <1>4, MudarLigacao
<1>. QED BY <1>2, <1>5, <1>6 DEF M

\* A request is kept, or the user is told that it is not.
LEMMA GuardarFaz ==
  ASSUME TypeOK, menu.id \in Ids, NEW c \in BOOLEAN, Guardar(c)
  PROVE  /\ buffer' \in Seq(Pacote) /\ Len(buffer') <= MAXIMO_BUFFER /\ recusados' \subseteq Ids
         /\ \/ /\ Len(buffer') = Len(buffer) + 1 /\ DOMAIN buffer' = 1..(Len(buffer) + 1)
               /\ \A j \in DOMAIN buffer : buffer'[j] = buffer[j]
               /\ buffer'[Len(buffer) + 1].id = menu.id
               /\ buffer'[Len(buffer) + 1].comandos = c
               /\ recusados' = recusados
            \/ buffer' = buffer /\ recusados' = recusados \cup {menu.id}
<1>1. CASE Len(buffer) < MAXIMO_BUFFER
  <2>. DEFINE p == [id |-> menu.id, tipo |-> menu.tipo, comandos |-> c]
  <2>1. p \in Pacote
    BY DEF Pacote, TypeOK
  <2>2. buffer' = Append(buffer, p) /\ recusados' = recusados
    BY <1>1 DEF Guardar
  <2>3. p.id = menu.id /\ p.comandos = c
    OBVIOUS
  <2>. HIDE DEF p
  <2>4. /\ buffer' \in Seq(Pacote) /\ Len(buffer') = Len(buffer) + 1
        /\ \A j \in 1..Len(buffer) : buffer'[j] = buffer[j]
        /\ buffer'[Len(buffer) + 1] = p
    BY <2>1, <2>2, AppendProperties DEF TypeOK
  <2>5. DOMAIN buffer' = 1..(Len(buffer) + 1)
    BY <2>4, LenProperties
  <2>6. Len(buffer) + 1 <= MAXIMO_BUFFER
    BY <1>1, BufferTipo, ConstantesAssumption
  <2>. QED BY <2>2, <2>3, <2>4, <2>5, <2>6, BufferTipo DEF TypeOK
<1>2. CASE ~(Len(buffer) < MAXIMO_BUFFER)
  BY <1>2 DEF Guardar, TypeOK
<1>. QED BY <1>1, <1>2

\* println of lines whose data are of requests.
LEMMA EnviarBase ==
  ASSUME Base, NEW k \in DOMAIN ligacoes, NEW L \in Seq(Linha), Enviar(k, L),
         \A i \in 1..Len(L) : L[i].que = "dados" => L[i].id \in Ids
  PROVE  \A j \in DOMAIN ligacoes :
           /\ ligacoes'[j].aberta = ligacoes[j].aberta
           /\ ~ligacoes[j].aberta => ligacoes'[j].linhas = <<>>
           /\ ligacoes'[j].respostas # <<>> => ligacoes'[j].eu
           /\ \A i \in DOMAIN ligacoes'[j].linhas :
                ligacoes'[j].linhas[i].que = "dados" => ligacoes'[j].linhas[i].id \in Ids
<1>1. TypeOK
  BY DEF Base
<1>2. \A j \in DOMAIN ligacoes :
        /\ ligacoes'[j].aberta = ligacoes[j].aberta
        /\ ligacoes'[j].eu = ligacoes[j].eu
        /\ ligacoes'[j].respostas = ligacoes[j].respostas
        /\ ligacoes'[j].linhas = IF j = k /\ Aberta(k) THEN ligacoes[j].linhas \o L
                                                      ELSE ligacoes[j].linhas
  BY <1>1, EnviarFaz
<1>3. \A j \in DOMAIN ligacoes :
        /\ ~ligacoes[j].aberta => ligacoes[j].linhas = <<>>
        /\ ligacoes[j].respostas # <<>> => ligacoes[j].eu
        /\ \A i \in DOMAIN ligacoes[j].linhas :
             ligacoes[j].linhas[i].que = "dados" => ligacoes[j].linhas[i].id \in Ids
  BY BaseIgual
<1>4. ASSUME NEW M \in Seq(Linha), \A i \in DOMAIN M : M[i].que = "dados" => M[i].id \in Ids
      PROVE  \A i \in DOMAIN (M \o L) : (M \o L)[i].que = "dados" => (M \o L)[i].id \in Ids
  <2>. DEFINE N == M \o L
  <2>1. /\ Len(M) \in Nat /\ Len(L) \in Nat /\ DOMAIN M = 1..Len(M)
        /\ DOMAIN N = 1..(Len(M) + Len(L))
        /\ \A i \in 1..(Len(M) + Len(L)) :
             N[i] = IF i <= Len(M) THEN M[i] ELSE L[i - Len(M)]
    BY ConcatProperties, LenProperties
  <2>. HIDE DEF N
  <2>2. \A i \in DOMAIN N : N[i].que = "dados" => N[i].id \in Ids
    BY <1>4, <2>1
  <2>. QED BY <2>2 DEF N
<1>5. ligacoes[k].linhas \in Seq(Linha)
  BY <1>1, LigacaoTipo
<1>6. \A i \in DOMAIN ligacoes'[k].linhas :
        ligacoes'[k].linhas[i].que = "dados" => ligacoes'[k].linhas[i].id \in Ids
  BY <1>2, <1>3, <1>4, <1>5
<1>7. ~ligacoes[k].aberta => ligacoes'[k].linhas = <<>>
  BY <1>2, <1>3 DEF Aberta
<1>. QED BY <1>2, <1>3, <1>6, <1>7

\* The command of a request that the user chose is sent.
LEMMA BaseEscolher ==
  ASSUME Base, NEW t \in Tipos, Escolher(t)
  PROVE  Base'
<1>. DEFINE id == pedidos + 1
            L == <<Comando(id)>>
<1>1. /\ menu.fase = "livre" /\ pedidos < MaxPedidos /\ pedidos' = id
      /\ menu' = [fase |-> "escrever", id |-> id, tipo |-> t, lig |-> 0]
      /\ Enviar(Actual, L)
      /\ UNCHANGED <<recusados, servidor, escuta, buffer, replicas>>
  BY DEF Escolher, Comando
<1>2. /\ pedidos \in 0..MaxPedidos /\ ligacoes # <<>>
  BY <1>1, BaseIgual
<1>3. id \in Ids /\ Actual \in DOMAIN ligacoes
  BY <1>1, <1>2, Indices, ConstantesAssumption DEF Ids, Base
<1>4. L \in Seq(Linha) /\ Len(L) = 1 /\ L[1] = Comando(id) /\ Comando(id).que # "dados"
  BY <1>3, LinhaTipo DEF Comando
<1>5. menu' \in MenuTipo /\ menu'.id \in 1..pedidos' /\ menu'.fase = "escrever"
  BY <1>1, <1>2, <1>3, ConstantesAssumption DEF MenuTipo, Ids
<1>. HIDE DEF L
<1>6. /\ ligacoes' \in Seq(Ligacao) /\ Len(ligacoes') = Len(ligacoes)
      /\ DOMAIN ligacoes' = DOMAIN ligacoes
  BY <1>1, <1>3, <1>4, EnviarFaz DEF Base
<1>7. \A j \in DOMAIN ligacoes :
        /\ ligacoes'[j].aberta = ligacoes[j].aberta
        /\ ~ligacoes[j].aberta => ligacoes'[j].linhas = <<>>
        /\ ligacoes'[j].respostas # <<>> => ligacoes'[j].eu
        /\ \A i \in DOMAIN ligacoes'[j].linhas :
             ligacoes'[j].linhas[i].que = "dados" => ligacoes'[j].linhas[i].id \in Ids
  BY <1>1, <1>3, <1>4, EnviarBase
<1>8. pedidos' \in 0..MaxPedidos
  BY <1>1, <1>3 DEF Ids
<1>. QED BY <1>1, <1>2, <1>5, <1>6, <1>7, <1>8, BaseIgual, BaseMantem DEF servidor

\* Its data are sent, and the menu waits on the last connection.
LEMMA BaseEnviarDados ==
  ASSUME Base, EnviarDados
  PROVE  Base'
<1>. DEFINE L == <<Dados(menu.id)>>
<1>1. /\ menu.fase = "escrever" /\ Enviar(Actual, L)
      /\ menu' = [menu EXCEPT !.fase = "espera", !.lig = Actual]
      /\ UNCHANGED <<recusados, pedidos, servidor, escuta, buffer, replicas>>
  BY DEF EnviarDados, Dados
<1>2. menu \in MenuTipo /\ menu.id \in 1..pedidos /\ pedidos \in 0..MaxPedidos /\ ligacoes # <<>>
  BY <1>1, BaseIgual
<1>3. menu.id \in Ids /\ Actual \in DOMAIN ligacoes /\ Actual \in 0..MaxLigacoes
  BY <1>2, Indices, ConstantesAssumption DEF Ids, Base, TypeOK, Actual
<1>4. L \in Seq(Linha) /\ Len(L) = 1 /\ L[1] = Dados(menu.id) /\ Dados(menu.id).id \in Ids
  BY <1>3, LinhaTipo DEF Dados
<1>5. /\ menu' \in MenuTipo /\ menu'.fase = "espera" /\ menu'.id = menu.id
      /\ menu'.lig = Actual
  BY <1>1, <1>2, <1>3 DEF MenuTipo
<1>. HIDE DEF L
<1>6. /\ ligacoes' \in Seq(Ligacao) /\ Len(ligacoes') = Len(ligacoes)
      /\ DOMAIN ligacoes' = DOMAIN ligacoes
  BY <1>1, <1>3, <1>4, EnviarFaz DEF Base
<1>7. \A j \in DOMAIN ligacoes :
        /\ ligacoes'[j].aberta = ligacoes[j].aberta
        /\ ~ligacoes[j].aberta => ligacoes'[j].linhas = <<>>
        /\ ligacoes'[j].respostas # <<>> => ligacoes'[j].eu
        /\ \A i \in DOMAIN ligacoes'[j].linhas :
             ligacoes'[j].linhas[i].que = "dados" => ligacoes'[j].linhas[i].id \in Ids
  BY <1>1, <1>3, <1>4, EnviarBase
<1>. QED BY <1>1, <1>2, <1>3, <1>5, <1>6, <1>7, BaseIgual, BaseMantem DEF servidor

\* A request that is kept leaves the menu.
LEMMA BaseGuardar ==
  ASSUME Base, GuardarDados \/ RespostaFalha
  PROVE  Base'
<1>1. /\ menu.fase \in {"escrever", "espera"}
      /\ UNCHANGED <<pedidos, ligacoes, servidor, escuta, replicas>>
      /\ \/ \E c \in BOOLEAN : Guardar(c) /\ menu' = [menu EXCEPT !.fase = "livre"]
         \/ menu' = [menu EXCEPT !.fase = "morto"] /\ UNCHANGED <<recusados, buffer>>
  BY DEF GuardarDados, RespostaFalha
<1>2. /\ menu \in MenuTipo /\ menu.id \in 1..pedidos /\ pedidos \in 0..MaxPedidos
      /\ ligacoes # <<>>
  BY <1>1, BaseIgual
<1>3. menu' \in MenuTipo /\ menu'.fase \in {"livre", "morto"}
  BY <1>1, <1>2 DEF MenuTipo
<1>4. menu.id \in Ids
  BY <1>2, ConstantesAssumption DEF Ids
<1>5. buffer' \in Seq(Pacote) /\ Len(buffer') <= MAXIMO_BUFFER /\ recusados' \subseteq Ids
  BY <1>1, <1>4, GuardarFaz, BaseIgual DEF Base
<1>. QED BY <1>1, <1>2, <1>3, <1>5, BaseIgual, BaseMantem DEF servidor

\* The user logs in.
LEMMA BaseEntrar ==
  ASSUME Base, Entrar
  PROVE  Base'
<1>1. /\ estado = 1 /\ menu' = [menu EXCEPT !.fase = "livre"]
      /\ ligacoes' = [ligacoes EXCEPT ![Actual].eu = TRUE]
      /\ UNCHANGED <<recusados, pedidos, servidor, escuta, buffer, replicas>>
  BY DEF Entrar
<1>2. ligacoes # <<>>
  BY <1>1 DEF Base, Principal
<1>3. Actual \in DOMAIN ligacoes /\ ligacoes[Actual] \in Ligacao
  BY <1>2, Indices, LigacaoTipo DEF Base
<1>. DEFINE r == [ligacoes[Actual] EXCEPT !.eu = TRUE]
<1>4. ligacoes' = [ligacoes EXCEPT ![Actual] = r]
  BY <1>1
<1>5. /\ r \in Ligacao /\ r.eu /\ r.aberta = ligacoes[Actual].aberta
      /\ r.linhas = ligacoes[Actual].linhas /\ r.respostas = ligacoes[Actual].respostas
  BY <1>3 DEF Ligacao
<1>. HIDE DEF r
<1>6. /\ ligacoes' \in Seq(Ligacao) /\ Len(ligacoes') = Len(ligacoes)
      /\ DOMAIN ligacoes' = DOMAIN ligacoes /\ ligacoes'[Actual] = r
      /\ \A j \in DOMAIN ligacoes \ {Actual} : ligacoes'[j] = ligacoes[j]
  BY <1>3, <1>4, <1>5, MudarLigacao DEF Base
<1>7. menu' \in MenuTipo /\ menu'.fase = "livre"
  BY <1>1, BaseIgual DEF MenuTipo
<1>8. \A j \in DOMAIN ligacoes :
        /\ ligacoes'[j].aberta = ligacoes[j].aberta
        /\ ligacoes'[j].linhas = ligacoes[j].linhas
        /\ ligacoes'[j].respostas = ligacoes[j].respostas
        /\ ligacoes[j].eu => ligacoes'[j].eu
  BY <1>5, <1>6
<1>. QED BY <1>1, <1>2, <1>6, <1>7, <1>8, BaseIgual, BaseMantem DEF servidor

\* A thread takes the connection.
LEMMA BaseAceitar ==
  ASSUME Base, NEW k \in DOMAIN ligacoes, Aceitar(k)
  PROVE  Base'
<1>1. /\ ligacoes' = [ligacoes EXCEPT ![k].thread = "pronta"]
      /\ UNCHANGED <<servidor, escuta, utilizador, buffer, replicas>>
  BY DEF Aceitar
<1>2. ligacoes[k] \in Ligacao
  BY LigacaoTipo DEF Base
<1>. DEFINE r == [ligacoes[k] EXCEPT !.thread = "pronta"]
<1>3. ligacoes' = [ligacoes EXCEPT ![k] = r]
  BY <1>1
<1>4. /\ r \in Ligacao /\ r.eu = ligacoes[k].eu /\ r.aberta = ligacoes[k].aberta
      /\ r.linhas = ligacoes[k].linhas /\ r.respostas = ligacoes[k].respostas
  BY <1>2 DEF Ligacao
<1>. HIDE DEF r
<1>5. /\ ligacoes' \in Seq(Ligacao) /\ Len(ligacoes') = Len(ligacoes)
      /\ DOMAIN ligacoes' = DOMAIN ligacoes /\ ligacoes'[k] = r
      /\ \A j \in DOMAIN ligacoes \ {k} : ligacoes'[j] = ligacoes[j]
  BY <1>3, <1>4, MudarLigacao DEF Base
<1>6. \A j \in DOMAIN ligacoes :
        /\ ligacoes'[j].aberta = ligacoes[j].aberta
        /\ ligacoes'[j].linhas = ligacoes[j].linhas
        /\ ligacoes'[j].respostas = ligacoes[j].respostas
        /\ ligacoes[j].eu => ligacoes'[j].eu
  BY <1>4, <1>5
<1>. QED BY <1>1, <1>5, <1>6, BaseIgual, BaseMantem DEF servidor, utilizador

\* An answer is read, by the menu or by a Buffer thread.
LEMMA BaseTirar ==
  ASSUME Base, NEW k \in DOMAIN ligacoes, Resposta(k),
         ligacoes' = [ligacoes EXCEPT ![k].respostas = Tail(@)]
  PROVE  /\ ligacoes' \in Seq(Ligacao) /\ Len(ligacoes') = Len(ligacoes)
         /\ DOMAIN ligacoes' = DOMAIN ligacoes
         /\ \A j \in DOMAIN ligacoes :
              /\ ligacoes'[j].aberta = ligacoes[j].aberta
              /\ ~ligacoes[j].aberta => ligacoes'[j].linhas = <<>>
              /\ ligacoes'[j].respostas # <<>> => ligacoes'[j].eu
              /\ \A i \in DOMAIN ligacoes'[j].linhas :
                   ligacoes'[j].linhas[i].que = "dados" => ligacoes'[j].linhas[i].id \in Ids
<1>1. /\ ligacoes' \in Seq(Ligacao) /\ Len(ligacoes') = Len(ligacoes)
      /\ DOMAIN ligacoes' = DOMAIN ligacoes
      /\ \A j \in DOMAIN ligacoes :
           /\ ligacoes'[j].aberta = ligacoes[j].aberta
           /\ ligacoes'[j].eu = ligacoes[j].eu
           /\ ligacoes'[j].linhas = ligacoes[j].linhas
           /\ ligacoes'[j].respostas = IF j = k THEN Tail(ligacoes[j].respostas)
                                       ELSE ligacoes[j].respostas
  BY TirarFaz DEF Base
<1>2. \A j \in DOMAIN ligacoes : ligacoes'[j].respostas # <<>> => ligacoes[j].eu
  BY <1>1, BaseIgual DEF Resposta
<1>. QED BY <1>1, <1>2, BaseIgual

\* The menu reads an answer.
LEMMA BaseLerResposta ==
  ASSUME Base, LerResposta
  PROVE  Base'
<1>1. /\ menu.fase = "espera" /\ Resposta(menu.lig)
      /\ ligacoes' = [ligacoes EXCEPT ![menu.lig].respostas = Tail(@)]
      /\ menu' = [menu EXCEPT !.fase = "livre"]
      /\ UNCHANGED <<recusados, pedidos, servidor, escuta, buffer, replicas>>
  BY DEF LerResposta
<1>2. menu \in MenuTipo /\ menu.lig \in DOMAIN ligacoes /\ ligacoes # <<>>
  BY <1>1, BaseIgual
<1>3. menu' \in MenuTipo /\ menu'.fase = "livre"
  BY <1>1, <1>2 DEF MenuTipo
<1>4. /\ ligacoes' \in Seq(Ligacao) /\ Len(ligacoes') = Len(ligacoes)
      /\ DOMAIN ligacoes' = DOMAIN ligacoes
      /\ \A j \in DOMAIN ligacoes :
           /\ ligacoes'[j].aberta = ligacoes[j].aberta
           /\ ~ligacoes[j].aberta => ligacoes'[j].linhas = <<>>
           /\ ligacoes'[j].respostas # <<>> => ligacoes'[j].eu
           /\ \A i \in DOMAIN ligacoes'[j].linhas :
                ligacoes'[j].linhas[i].que = "dados" => ligacoes'[j].linhas[i].id \in Ids
  BY <1>1, <1>2, BaseTirar
<1>. QED BY <1>1, <1>2, <1>3, <1>4, BaseIgual, BaseMantem DEF servidor

\* remove(0).
LEMMA RetirarFaz ==
  ASSUME TypeOK, buffer' = Retirar
  PROVE  /\ buffer' \in Seq(Pacote) /\ Len(buffer') <= MAXIMO_BUFFER
         /\ buffer = <<>> => buffer' = <<>>
         /\ buffer # <<>> => /\ DOMAIN buffer' = 1..(Len(buffer) - 1)
                             /\ \A j \in 1..(Len(buffer) - 1) : buffer'[j] = buffer[j + 1]
<1>1. buffer \in Seq(Pacote) /\ Len(buffer) <= MAXIMO_BUFFER /\ Len(buffer) \in Nat
  BY BufferTipo DEF TypeOK
<1>2. CASE buffer = <<>>
  BY <1>1, <1>2 DEF Retirar
<1>3. CASE buffer # <<>>
  <2>1. /\ buffer' \in Seq(Pacote) /\ Len(buffer') = Len(buffer) - 1
        /\ \A j \in 1..Len(buffer') : buffer'[j] = buffer[j + 1]
    BY <1>1, <1>3, HeadTailProperties DEF Retirar
  <2>2. DOMAIN buffer' = 1..Len(buffer')
    BY <2>1, LenProperties
  <2>3. Len(buffer) - 1 <= MAXIMO_BUFFER
    BY <1>1, ConstantesAssumption
  <2>. QED BY <1>3, <2>1, <2>2, <2>3
<1>. QED BY <1>2, <1>3

\* A Buffer thread reads an answer.
LEMMA BaseReplicaResposta ==
  ASSUME Base, NEW k \in DOMAIN ligacoes, ReplicaResposta(k)
  PROVE  Base'
<1>1. /\ Resposta(k) /\ replicas[k] = "espera"
      /\ replicas' = [replicas EXCEPT ![k] = "dormir"]
      /\ ligacoes' = [ligacoes EXCEPT ![k].respostas = Tail(@)]
      /\ buffer' = Retirar
      /\ UNCHANGED <<servidor, escuta, utilizador>>
  BY DEF ReplicaResposta, Replica
<1>2. /\ ligacoes' \in Seq(Ligacao) /\ Len(ligacoes') = Len(ligacoes)
      /\ DOMAIN ligacoes' = DOMAIN ligacoes
      /\ \A j \in DOMAIN ligacoes :
           /\ ligacoes'[j].aberta = ligacoes[j].aberta
           /\ ~ligacoes[j].aberta => ligacoes'[j].linhas = <<>>
           /\ ligacoes'[j].respostas # <<>> => ligacoes'[j].eu
           /\ \A i \in DOMAIN ligacoes'[j].linhas :
                ligacoes'[j].linhas[i].que = "dados" => ligacoes'[j].linhas[i].id \in Ids
  BY <1>1, BaseTirar
<1>3. buffer' \in Seq(Pacote) /\ Len(buffer') <= MAXIMO_BUFFER
  BY <1>1, RetirarFaz DEF Base
<1>4. /\ replicas' \in Seq(Fases) /\ Len(replicas') = Len(replicas)
      /\ \A j \in DOMAIN ligacoes \ {k} : replicas'[j] = replicas[j]
  BY <1>1, MudarReplica DEF Base, Fases
<1>5. \A j \in DOMAIN ligacoes : replicas[j] = "nao" => replicas'[j] = "nao"
  BY <1>1, <1>4
<1>. QED BY <1>1, <1>2, <1>3, <1>4, <1>5, BaseIgual, BaseMantem DEF servidor, utilizador

\* A Buffer thread sends a request again.
LEMMA BaseReplicaEnvia ==
  ASSUME Base, NEW k \in DOMAIN ligacoes, ReplicaEnvia(k)
  PROVE  Base'
<1>. DEFINE id == Head(buffer).id
            L == <<Comando(id), Dados(id)>>
<1>1. /\ buffer # <<>> /\ replicas[k] = "inicio"
      /\ replicas' = [replicas EXCEPT ![k] = "espera"]
      /\ Enviar(k, L)
      /\ UNCHANGED <<servidor, escuta, utilizador, buffer>>
  BY DEF ReplicaEnvia, Replica, Comando, Dados
<1>2. id \in Ids
  BY <1>1, BufferTipo DEF Base
<1>. HIDE DEF id
<1>3. /\ L \in Seq(Linha) /\ Len(L) = 2 /\ L[1] = Comando(id) /\ L[2] = Dados(id)
      /\ Comando(id).que # "dados" /\ Dados(id).id = id
  BY <1>2, LinhaTipo DEF Comando, Dados
<1>. HIDE DEF L
<1>4. \A i \in 1..Len(L) : L[i].que = "dados" => L[i].id \in Ids
  <2>1. \A i \in 1..Len(L) : i = 1 \/ i = 2
    BY <1>3
  <2>. QED BY <1>2, <1>3, <2>1
<1>5. /\ ligacoes' \in Seq(Ligacao) /\ Len(ligacoes') = Len(ligacoes)
      /\ DOMAIN ligacoes' = DOMAIN ligacoes
  BY <1>1, <1>3, EnviarFaz DEF Base
<1>6. \A j \in DOMAIN ligacoes :
        /\ ligacoes'[j].aberta = ligacoes[j].aberta
        /\ ~ligacoes[j].aberta => ligacoes'[j].linhas = <<>>
        /\ ligacoes'[j].respostas # <<>> => ligacoes'[j].eu
        /\ \A i \in DOMAIN ligacoes'[j].linhas :
             ligacoes'[j].linhas[i].que = "dados" => ligacoes'[j].linhas[i].id \in Ids
  BY <1>1, <1>3, <1>4, EnviarBase
<1>7. /\ replicas' \in Seq(Fases) /\ Len(replicas') = Len(replicas)
      /\ \A j \in DOMAIN ligacoes \ {k} : replicas'[j] = replicas[j]
  BY <1>1, MudarReplica DEF Base, Fases
<1>8. \A j \in DOMAIN ligacoes : replicas[j] = "nao" => replicas'[j] = "nao"
  BY <1>1, <1>7
<1>. QED BY <1>1, <1>5, <1>6, <1>7, <1>8, BaseIgual, BaseMantem DEF servidor, utilizador

\* The steps of main.
LEMMA BaseEscuta ==
  ASSUME Base, UNCHANGED <<ligacoes, servidor, utilizador, buffer>>,
         replicas' \in Seq(Fases), Len(replicas') = Len(replicas),
         contador' \in 0..6, principal' \in Onde, estado' \in {-1, 0, 1}, Principal'
  PROVE  Base'
BY BaseIgual, BaseMuda DEF utilizador, servidor

\* The state of main, and the last connection.
LEMMA BasePrincipal ==
  ASSUME Base
  PROVE  /\ contador \in 0..6 /\ principal \in Onde /\ estado \in {-1, 0, 1} /\ Principal
         /\ Actual \in Nat /\ DOMAIN ligacoes = 1..Actual /\ (ligacoes # <<>> <=> Actual > 0)
         /\ \A k \in DOMAIN ligacoes : k # Actual => ~Aberta(k)
         /\ Actual <= quedas + 1 /\ (Actual > 0 /\ ~Aberta(Actual) => Actual <= quedas)
         /\ quedas \in 0..MaxQuedas
BY Indices DEF Base, TypeOK, Onde, Ligacoes

\* main waits, or ends; the connection failed before it looks for another.
LEMMA BaseEspera ==
  ASSUME Base, LigarFalha \/ ForaDasPosicoes \/ Ler \/ ReligarFalha \/ Acordar
  PROVE  Base'
<1>1. UNCHANGED <<ligacoes, servidor, utilizador, buffer, replicas>>
  BY DEF LigarFalha, ForaDasPosicoes, Ler, ReligarFalha, Acordar
<1>2. /\ contador \in 0..6 /\ principal \in Onde /\ estado \in {-1, 0, 1}
      /\ Actual \in Nat /\ DOMAIN ligacoes = 1..Actual /\ (ligacoes # <<>> <=> Actual > 0)
      /\ \A k \in DOMAIN ligacoes : k # Actual => ~Aberta(k)
      /\ principal \in {"ligar", "morto"} => ligacoes = <<>> /\ estado = 0
      /\ principal \notin {"ligar", "morto"} => ligacoes # <<>> /\ contador <= 5
      /\ estado = 0 /\ ligacoes # <<>> => ~Aberta(1)
  BY BasePrincipal DEF Principal
<1>3. /\ Actual' = Actual /\ (ligacoes' # <<>> <=> ligacoes # <<>>)
      /\ (Aberta(Actual)' <=> Aberta(Actual)) /\ (Aberta(1)' <=> Aberta(1))
  BY <1>1 DEF Actual, Aberta
<1>4. CASE LigarFalha
  <2>1. contador <= 5 /\ contador' = contador + 1 /\ principal' = "ligar" /\ estado' = 0
        /\ ligacoes = <<>>
    BY <1>2, <1>4 DEF LigarFalha, Posicao, Servidores
  <2>2. Principal'
    BY <1>3, <2>1 DEF Principal
  <2>. QED BY <1>1, <1>2, <2>1, <2>2, BaseIgual, BaseEscuta DEF Onde
<1>5. CASE ForaDasPosicoes
  <2>1. contador' = contador /\ principal' = "morto" /\ estado' = 0 /\ ligacoes = <<>>
    BY <1>2, <1>5 DEF ForaDasPosicoes
  <2>2. Principal'
    BY <1>3, <2>1 DEF Principal
  <2>. QED BY <1>1, <1>2, <2>1, <2>2, BaseIgual, BaseEscuta DEF Onde
<1>6. CASE Ler
  <2>1. /\ contador' \in 0..5 /\ principal' = "religar" /\ estado' = 0 /\ ligacoes # <<>>
        /\ ~Aberta(Actual)
    BY <1>2, <1>6 DEF Ler, Proximo
  <2>2. ~Aberta(1)
    BY <1>2, <2>1
  <2>3. Principal'
    BY <1>3, <2>1, <2>2 DEF Principal
  <2>. QED BY <1>1, <1>2, <2>1, <2>3, BaseIgual, BaseEscuta DEF Onde
<1>7. CASE ReligarFalha \/ Acordar
  <2>1. /\ contador' = contador /\ contador <= 5 /\ principal' \in {"ler", "dormir"}
        /\ estado' = estado /\ ligacoes # <<>>
    BY <1>2, <1>7 DEF ReligarFalha, Acordar
  <2>2. Principal'
    BY <1>2, <1>3, <2>1 DEF Principal
  <2>. QED BY <1>1, <1>2, <2>1, <2>2, BaseIgual, BaseEscuta DEF Onde
<1>. QED BY <1>4, <1>5, <1>6, <1>7

\* iniciar starts the Buffer thread of the last connection only.
LEMMA ComReplicaFaz ==
  ASSUME Base, ligacoes # <<>>, replicas' = ComReplica
  PROVE  /\ replicas' \in Seq(Fases) /\ Len(replicas') = Len(replicas)
         /\ \A j \in DOMAIN ligacoes : replicas'[j] = replicas[j] \/ replicas'[j] = "inicio"
         /\ \A j \in DOMAIN ligacoes : j # Actual => replicas'[j] = replicas[j]
<1>1. Actual \in DOMAIN ligacoes /\ "inicio" \in Fases
  BY BasePrincipal DEF Fases
<1>2. CASE Servida(Actual) /\ Aberta(Actual)
  <2>1. replicas' = [replicas EXCEPT ![Actual] = "inicio"]
    BY <1>2 DEF ComReplica
  <2>2. /\ replicas' \in Seq(Fases) /\ Len(replicas') = Len(replicas)
        /\ replicas'[Actual] = "inicio"
        /\ \A j \in DOMAIN ligacoes \ {Actual} : replicas'[j] = replicas[j]
    BY <1>1, <2>1, MudarReplica DEF Base
  <2>. QED BY <1>1, <2>2
<1>3. CASE ~(Servida(Actual) /\ Aberta(Actual))
  BY <1>3, BaseIgual DEF ComReplica
<1>. QED BY <1>2, <1>3

\* main starts the connection.
LEMMA BaseIniciar ==
  ASSUME Base, Iniciar \/ Reiniciar
  PROVE  Base'
<1>1. /\ UNCHANGED <<ligacoes, servidor, utilizador, buffer>> /\ replicas' = ComReplica
      /\ contador' = contador
      /\ \/ principal' = "ler" /\ estado' = 1
         \/ principal' = "anunciar" /\ estado' = estado /\ Actual >= 2
      /\ principal \in {"iniciar", "reiniciar"}
  BY DEF Iniciar, Reiniciar, Base, Principal
<1>2. /\ contador \in 0..6 /\ estado \in {-1, 0, 1} /\ ligacoes # <<>> /\ contador <= 5
      /\ estado = 0 => ~Aberta(1)
  BY <1>1, BasePrincipal DEF Principal
<1>3. /\ Actual' = Actual /\ (ligacoes' # <<>> <=> ligacoes # <<>>)
      /\ (Aberta(Actual)' <=> Aberta(Actual)) /\ (Aberta(1)' <=> Aberta(1))
  BY <1>1 DEF Actual, Aberta
<1>4. Principal'
  BY <1>1, <1>2, <1>3 DEF Principal
<1>5. replicas' \in Seq(Fases) /\ Len(replicas') = Len(replicas)
  BY <1>1, <1>2, ComReplicaFaz
<1>. QED BY <1>1, <1>2, <1>4, <1>5, BaseEscuta DEF Onde

\* main connects: what was the last connection is closed.
LEMMA BaseLigar ==
  ASSUME Base, Ligar \/ Religar
  PROVE  Base'
<1>. DEFINE n == Actual + 1
<1>1. PICK s \in Servidores :
        /\ NovaLigacao(s) /\ Len(ligacoes) < MaxLigacoes /\ s = Posicao
        /\ contador' = contador /\ UNCHANGED <<servidor, utilizador, buffer>>
        /\ \/ principal = "ligar" /\ principal' = "iniciar" /\ estado' = -1
           \/ principal = "religar" /\ principal' = "reiniciar" /\ estado' = estado
  <2>1. Posicao \in Servidores
    BY BasePrincipal DEF Ligar, Religar, Posicao, Servidores, Principal
  <2>. QED BY <2>1 DEF Ligar, Religar
<1>2. /\ contador \in 0..6 /\ estado \in {-1, 0, 1}
      /\ Actual \in Nat /\ DOMAIN ligacoes = 1..Actual /\ (ligacoes # <<>> <=> Actual > 0)
      /\ \A k \in DOMAIN ligacoes : k # Actual => ~Aberta(k)
      /\ principal = "ligar" => ligacoes = <<>> /\ estado = 0
      /\ principal = "religar" => ligacoes # <<>> /\ contador <= 5 /\ ~Aberta(Actual)
      /\ Actual > 0 /\ ~Aberta(Actual) => Actual <= quedas
      /\ quedas \in 0..MaxQuedas
  BY BasePrincipal DEF Principal
<1>3. contador <= 5
  BY <1>1, <1>2 DEF Servidores, Posicao
<1>4. /\ ligacoes' \in Seq(Ligacao) /\ Actual' = n /\ Len(ligacoes') = n
      /\ DOMAIN ligacoes' = 1..n
      /\ \A k \in 1..Actual : ligacoes'[k] = ligacoes[k]
      /\ ligacoes'[n].aberta /\ ligacoes'[n].linhas = <<>> /\ ligacoes'[n].respostas = <<>>
      /\ replicas' \in Seq(Fases) /\ Len(replicas') = n /\ replicas'[n] = "nao"
  <2>1. TypeOK /\ Actual' = Len(ligacoes')
    BY DEF Base, Actual
  <2>. DEFINE c == [servidor |-> s, aberta |-> TRUE, thread |-> "fila", eu |-> FALSE,
                    comando |-> 0, linhas |-> <<>>, respostas |-> <<>>]
  <2>2. c.aberta /\ c.linhas = <<>> /\ c.respostas = <<>>
    OBVIOUS
  <2>3. ligacoes'[n] = c
    BY <1>1, <2>1, JuntarLigacao
  <2>. HIDE DEF c
  <2>. QED BY <1>1, <1>2, <2>1, <2>2, <2>3, JuntarLigacao
<1>5. ligacoes' # <<>> /\ n <= MaxLigacoes
  BY <1>1, <1>2, <1>4, EmptySeq, ConstantesAssumption DEF Actual
<1>6. \A k \in 1..Actual : ~Aberta(k)'
  BY <1>1, <1>2, <1>4 DEF Aberta
<1>7. TypeOK'
  BY <1>1, <1>2, <1>4, <1>5, BaseIgual DEF TypeOK, utilizador, servidor, Base, Fases
<1>8. Ligacoes'
  <2>1. \A k \in 1..n : k # n => ~Aberta(k)'
    BY <1>2, <1>6
  <2>2. \A k \in 1..n : /\ ~ligacoes'[k].aberta => ligacoes'[k].linhas = <<>>
                        /\ ligacoes'[k].respostas # <<>> => ligacoes'[k].eu
                        /\ \A i \in DOMAIN ligacoes'[k].linhas :
                             ligacoes'[k].linhas[i].que = "dados" =>
                               ligacoes'[k].linhas[i].id \in Ids
    <3>1. \A k \in 1..n : k \in 1..Actual \/ k = n
      BY <1>2
    <3>2. DOMAIN << >> = {}
      OBVIOUS
    <3>. QED BY <1>2, <1>4, <3>1, <3>2, BaseIgual
  <2>3. Actual' <= quedas' + 1 /\ Aberta(Actual)'
    BY <1>1, <1>2, <1>4 DEF Aberta, servidor
  <2>. QED BY <1>4, <2>1, <2>2, <2>3 DEF Ligacoes, Aberta
<1>9. Principal'
  <2>1. principal' = "reiniciar" => n >= 2 /\ ~Aberta(1)'
    BY <1>1, <1>2, <1>6
  <2>. QED BY <1>1, <1>2, <1>3, <1>4, <1>5, <2>1 DEF Principal
<1>10. Menu'
  BY <1>1, <1>2, <1>4, <1>5, BaseIgual DEF Menu, utilizador
<1>. QED BY <1>7, <1>8, <1>9, <1>10 DEF Base

\* main announces the user.
LEMMA BaseAnunciar ==
  ASSUME Base, Anunciar
  PROVE  Base'
<1>. DEFINE L == <<[que |-> "anuncio", id |-> 0]>>
<1>1. /\ principal = "anunciar" /\ Enviar(Actual, L) /\ estado' = 1 /\ principal' = "ler"
      /\ UNCHANGED <<contador, servidor, utilizador, buffer, replicas>>
  BY DEF Anunciar
<1>2. /\ contador \in 0..6 /\ contador <= 5 /\ ligacoes # <<>> /\ Actual \in DOMAIN ligacoes
  BY <1>1, BasePrincipal DEF Principal
<1>3. L \in Seq(Linha) /\ Len(L) = 1 /\ L[1].que = "anuncio"
  BY ConstantesAssumption DEF Linha
<1>. HIDE DEF L
<1>4. /\ ligacoes' \in Seq(Ligacao) /\ Len(ligacoes') = Len(ligacoes)
      /\ DOMAIN ligacoes' = DOMAIN ligacoes
  BY <1>1, <1>2, <1>3, EnviarFaz DEF Base
<1>5. \A j \in DOMAIN ligacoes :
        /\ ligacoes'[j].aberta = ligacoes[j].aberta
        /\ ~ligacoes[j].aberta => ligacoes'[j].linhas = <<>>
        /\ ligacoes'[j].respostas # <<>> => ligacoes'[j].eu
        /\ \A i \in DOMAIN ligacoes'[j].linhas :
             ligacoes'[j].linhas[i].que = "dados" => ligacoes'[j].linhas[i].id \in Ids
  BY <1>1, <1>2, <1>3, EnviarBase
<1>6. ligacoes' # <<>>
  BY <1>2, <1>4, BaseIgual, EmptySeq
<1>7. Principal'
  BY <1>1, <1>2, <1>6 DEF Principal
<1>. QED BY <1>1, <1>2, <1>4, <1>5, <1>7, BaseIgual, BaseMuda DEF Onde, servidor, utilizador

\* A server stops: its connections are closed, and their lines are lost.
LEMMA CairFaz ==
  ASSUME Base, NEW s \in Servidores, CairServidor(s)
  PROVE  /\ UNCHANGED <<feitos, reiniciado, escuta, utilizador, buffer, replicas>>
         /\ quedas' = quedas + 1 /\ quedas < MaxQuedas
         /\ menu.fase = "login" => ligacoes = <<>>
         /\ papel' \in [Servidores -> {"morto", "S", "P"}]
         /\ ligacoes' \in Seq(Ligacao) /\ Len(ligacoes') = Len(ligacoes)
         /\ DOMAIN ligacoes' = DOMAIN ligacoes
         /\ \A k \in DOMAIN ligacoes :
              /\ ligacoes'[k].aberta => ligacoes'[k] = ligacoes[k]
              /\ ligacoes'[k].eu = ligacoes[k].eu
              /\ ligacoes'[k].respostas \in {<<>>, ligacoes[k].respostas}
              /\ ligacoes'[k].linhas \in {<<>>, ligacoes[k].linhas}
              /\ ~ligacoes[k].aberta => ~ligacoes'[k].aberta
              /\ ~ligacoes'[k].aberta => ligacoes'[k].linhas = <<>>
<1>1. PICK guarda \in BOOLEAN :
        ligacoes' = [k \in DOMAIN ligacoes |->
         IF ligacoes[k].servidor # s THEN ligacoes[k]
         ELSE [ligacoes[k] EXCEPT !.aberta = FALSE, !.linhas = <<>>,
                                  !.respostas = IF guarda THEN @ ELSE <<>>]]
  BY DEF CairServidor
<1>. DEFINE r(k) == [ligacoes[k] EXCEPT !.aberta = FALSE, !.linhas = <<>>,
                                        !.respostas = IF guarda THEN @ ELSE <<>>]
<1>2. ASSUME NEW k \in DOMAIN ligacoes
      PROVE  /\ r(k) \in Ligacao /\ ~r(k).aberta /\ r(k).eu = ligacoes[k].eu
             /\ r(k).linhas = <<>> /\ r(k).respostas \in {<<>>, ligacoes[k].respostas}
  <2>1. ligacoes[k] \in Ligacao /\ ligacoes[k].respostas \in Seq(Ids)
    BY LigacaoTipo DEF Base
  <2>. DEFINE a == [ligacoes[k] EXCEPT !.aberta = FALSE]
              b == [a EXCEPT !.linhas = <<>>]
              R == IF guarda THEN ligacoes[k].respostas ELSE <<>>
  <2>2. a \in Ligacao /\ ~a.aberta /\ a.eu = ligacoes[k].eu /\ a.respostas = ligacoes[k].respostas
    BY <2>1 DEF Ligacao
  <2>3. R \in Seq(Ids) /\ R \in {<<>>, ligacoes[k].respostas} /\ <<>> \in Seq(Linha)
    BY <2>1, EmptySeq
  <2>4. r(k) = [b EXCEPT !.respostas = R]
    BY <2>1, <2>2 DEF Ligacao
  <2>. HIDE DEF a, R
  <2>5. /\ b \in Ligacao /\ ~b.aberta /\ b.eu = ligacoes[k].eu /\ b.linhas = <<>>
    BY <2>2, <2>3 DEF Ligacao
  <2>. HIDE DEF b, r
  <2>. QED BY <2>3, <2>4, <2>5 DEF Ligacao
<1>3. /\ DOMAIN ligacoes' = DOMAIN ligacoes
      /\ \A k \in DOMAIN ligacoes :
           ligacoes'[k] = IF ligacoes[k].servidor # s THEN ligacoes[k] ELSE r(k)
  BY <1>1
<1>. HIDE DEF r
<1>4. \A k \in DOMAIN ligacoes : ligacoes'[k] \in Ligacao
  BY <1>2, <1>3, LigacaoTipo DEF Base
<1>5. ligacoes' \in Seq(Ligacao) /\ Len(ligacoes') = Len(ligacoes)
  <2>1. Len(ligacoes) \in Nat /\ DOMAIN ligacoes = 1..Len(ligacoes)
    BY BaseIgual, LenProperties
  <2>2. ligacoes' = [k \in 1..Len(ligacoes) |-> ligacoes'[k]]
    BY <1>1, <2>1
  <2>3. \A k \in 1..Len(ligacoes) : ligacoes'[k] \in Ligacao
    BY <1>4, <2>1
  <2>4. ligacoes' \in Seq(Ligacao)
    BY <2>1, <2>2, <2>3, IsASeq
  <2>. QED BY <1>3, <2>1, <2>4, LenProperties
<1>6. papel' \in [Servidores -> {"morto", "S", "P"}]
  BY BaseIgual DEF CairServidor, Par!Cair
<1>7. \A k \in DOMAIN ligacoes :
        /\ ligacoes'[k].aberta => ligacoes'[k] = ligacoes[k]
        /\ ligacoes'[k].eu = ligacoes[k].eu
        /\ ligacoes'[k].respostas \in {<<>>, ligacoes[k].respostas}
        /\ ligacoes'[k].linhas \in {<<>>, ligacoes[k].linhas}
        /\ ~ligacoes[k].aberta => ~ligacoes'[k].aberta
        /\ ~ligacoes'[k].aberta => ligacoes'[k].linhas = <<>>
  BY <1>2, <1>3, BaseIgual
<1>. QED BY <1>3, <1>5, <1>6, <1>7 DEF CairServidor

\* A server stops: the last connection is closed, and one stop more.
LEMMA BaseCair ==
  ASSUME Base, NEW s \in Servidores, CairServidor(s)
  PROVE  Base'
<1>1. /\ UNCHANGED <<feitos, reiniciado, escuta, utilizador, buffer, replicas>>
      /\ quedas' = quedas + 1 /\ quedas < MaxQuedas
      /\ papel' \in [Servidores -> {"morto", "S", "P"}]
      /\ ligacoes' \in Seq(Ligacao) /\ Len(ligacoes') = Len(ligacoes)
      /\ DOMAIN ligacoes' = DOMAIN ligacoes
      /\ \A k \in DOMAIN ligacoes :
           /\ ligacoes'[k].eu = ligacoes[k].eu
           /\ ligacoes'[k].respostas \in {<<>>, ligacoes[k].respostas}
           /\ ligacoes'[k].linhas \in {<<>>, ligacoes[k].linhas}
           /\ ~ligacoes[k].aberta => ~ligacoes'[k].aberta
           /\ ~ligacoes'[k].aberta => ligacoes'[k].linhas = <<>>
  BY CairFaz
<1>2. /\ quedas \in 0..MaxQuedas /\ Actual \in Nat /\ DOMAIN ligacoes = 1..Actual
      /\ (ligacoes # <<>> <=> Actual > 0)
      /\ \A k \in DOMAIN ligacoes : k # Actual => ~Aberta(k)
      /\ Actual <= quedas + 1 /\ Principal
  BY BasePrincipal
<1>3. Actual' = Actual /\ (ligacoes' # <<>> <=> ligacoes # <<>>)
  <2>1. Actual' = Actual
    BY <1>1 DEF Actual
  <2>. QED BY <1>1, <1>2, <2>1, EmptySeq DEF Actual
<1>4. TypeOK'
  BY <1>1, <1>2, ConstantesAssumption DEF Base, TypeOK, escuta, utilizador
<1>5. Ligacoes'
  <2>1. \A k \in DOMAIN ligacoes :
          /\ k # Actual => ~ligacoes'[k].aberta
          /\ ~ligacoes'[k].aberta => ligacoes'[k].linhas = <<>>
          /\ ligacoes'[k].respostas # <<>> => ligacoes'[k].eu
          /\ \A i \in DOMAIN ligacoes'[k].linhas :
               ligacoes'[k].linhas[i].que = "dados" => ligacoes'[k].linhas[i].id \in Ids
    <3>1. DOMAIN << >> = {}
      OBVIOUS
    <3>. QED BY <1>1, <1>2, <3>1, BaseIgual DEF Aberta
  <2>2. Actual <= quedas' /\ Actual <= quedas' + 1
    BY <1>1, <1>2
  <2>. QED BY <1>1, <1>3, <2>1, <2>2 DEF Ligacoes, Aberta
<1>6. Principal'
  <2>1. /\ ~Aberta(Actual) /\ Actual > 0 => ~Aberta(Actual)'
        /\ Actual > 0 /\ ~Aberta(1) => ~Aberta(1)'
        /\ UNCHANGED <<contador, principal, estado, replicas>>
    BY <1>1, <1>2, <1>3 DEF Aberta, escuta
  <2>. QED BY <1>2, <1>3, <2>1 DEF Principal
<1>7. Menu'
  BY <1>1, <1>3, BaseIgual DEF Menu, utilizador
<1>. QED BY <1>4, <1>5, <1>6, <1>7 DEF Base

\* Base holds at first, and after every step.
LEMMA BaseInicial == Init => Base
<1>. SUFFICES ASSUME Init PROVE Base
  OBVIOUS
<1>1. /\ ligacoes = <<>> /\ replicas = <<>> /\ buffer = <<>> /\ feitos = <<>>
      /\ contador = 0 /\ principal = "ligar" /\ estado = 0 /\ recusados = {}
      /\ reiniciado = FALSE /\ pedidos = 0 /\ quedas = 0
      /\ papel \in [Servidores -> {"morto", "S", "P"}]
  BY DEF Init
<1>2. /\ menu \in MenuTipo /\ menu.fase = "login"
  BY ConstantesAssumption DEF Init, MenuTipo
<1>3. Len(ligacoes) = 0 /\ Len(buffer) = 0 /\ DOMAIN ligacoes = {} /\ Len(replicas) = 0
  BY <1>1
<1>4. TypeOK
  <2>1. /\ ligacoes \in Seq(Ligacao) /\ replicas \in Seq(Fases) /\ buffer \in Seq(Pacote)
        /\ feitos \in Seq(Ids)
    BY <1>1, EmptySeq
  <2>2. /\ Len(ligacoes) <= MaxLigacoes /\ Len(buffer) <= MAXIMO_BUFFER
        /\ pedidos \in 0..MaxPedidos /\ quedas \in 0..MaxQuedas
    BY <1>1, <1>3, ConstantesAssumption
  <2>3. contador \in 0..6 /\ principal \in Onde /\ estado \in {-1, 0, 1}
    BY <1>1 DEF Onde
  <2>4. recusados \subseteq Ids /\ reiniciado \in BOOLEAN /\ Len(replicas) = Len(ligacoes)
    BY <1>1, <1>3
  <2>. QED BY <1>1, <1>2, <2>1, <2>2, <2>3, <2>4, Zenon DEF TypeOK, MenuTipo, Fases, Onde
<1>. QED BY <1>1, <1>2, <1>3, <1>4 DEF Base, Ligacoes, Principal, Menu, Actual

\* Each action has its lemma above.
LEMMA BasePasso ==
  ASSUME Base, Next
  PROVE  Base'
<1>1. CASE PassoPrincipal
  BY <1>1, BaseEspera, BaseIniciar, BaseLigar, BaseAnunciar DEF PassoPrincipal
<1>2. CASE Entrar \/ EnviarDados \/ GuardarDados \/ LerResposta \/ RespostaFalha
  BY <1>2, BaseEntrar, BaseEnviarDados, BaseGuardar, BaseLerResposta
<1>3. CASE \E t \in Tipos : Escolher(t)
  BY <1>3, BaseEscolher
<1>4. ASSUME NEW k \in DOMAIN ligacoes, PassoReplica(k) \/ Aceitar(k) \/ AtenderLinha(k)
      PROVE  Base'
  BY <1>4, BaseReplica, BaseReplicaResposta, BaseReplicaEnvia, BaseAceitar, BaseAtender
     DEF PassoReplica
<1>5. ASSUME NEW s \in Servidores,
             CairServidor(s) \/ PromoverServidor(s) \/ ArrancarServidor(s)
      PROVE  Base'
  BY <1>5, BaseCair, BaseServidores
<1>. QED BY <1>1, <1>2, <1>3, <1>4, <1>5 DEF Next

-----------------------------------------------------------------------------
\* Copias.

\* The connections keep the lines with data that they have, or lose them; a new
\* one has none.
MenosLinhas ==
  /\ feitos' = feitos /\ DOMAIN ligacoes \subseteq DOMAIN ligacoes'
  /\ \A k \in DOMAIN ligacoes :
       /\ Distintos(ligacoes[k].linhas) => Distintos(ligacoes'[k].linhas)
       /\ \A id \in Ids : Tem(ligacoes'[k].linhas, Dados(id)) => NaLinha(k, id)
  /\ \A k \in DOMAIN ligacoes' \ DOMAIN ligacoes : ligacoes'[k].linhas = <<>>

\* Nothing is in an empty list.
LEMMA ListaVazia == Distintos(<<>>) /\ \A l : ~Tem(<<>>, l)
<1>1. DOMAIN << >> = {}
  OBVIOUS
<1>. QED BY <1>1 DEF Distintos, Tem

\* Fewer lines are carried by no more connections.
LEMMA UmaVezMenos ==
  ASSUME Base, NEW f, CopiasCom(f), MenosLinhas
  PROVE  /\ f \in [DOMAIN feitos' -> DOMAIN ligacoes'] /\ UmaVez(f)'
         /\ \A k \in DOMAIN ligacoes', id \in Ids :
              Levou(f, k, id)' => k \in DOMAIN ligacoes /\ Levou(f, k, id)
<1>1. /\ f \in [DOMAIN feitos -> DOMAIN ligacoes] /\ feitos' = feitos
      /\ DOMAIN ligacoes \subseteq DOMAIN ligacoes' /\ UmaVez(f)
  BY DEF CopiasCom, MenosLinhas
<1>2. f \in [DOMAIN feitos' -> DOMAIN ligacoes']
  BY <1>1
<1>3. ASSUME NEW k \in DOMAIN ligacoes', NEW id \in Ids, Levou(f, k, id)'
      PROVE  k \in DOMAIN ligacoes /\ Levou(f, k, id)
  <2>1. CASE k \in DOMAIN ligacoes
    BY <1>1, <1>3, <2>1 DEF MenosLinhas, Levou, NaLinha
  <2>2. CASE k \notin DOMAIN ligacoes
    <3>1. ~NaLinha(k, id)'
      BY <2>2, ListaVazia DEF MenosLinhas, NaLinha
    <3>2. PICK i \in DOMAIN feitos : f[i] = k
      BY <1>1, <1>3, <3>1 DEF Levou
    <3>. QED BY <1>1, <2>2, <3>2
  <2>. QED BY <2>1, <2>2
<1>4. \A i \in DOMAIN feitos' : feitos'[i] \in Ids
  BY <1>1, BaseIgual
<1>5. UmaVez(f)'
  <2>1. \A i \in DOMAIN feitos' : ~NaLinha(f[i], feitos[i])'
    BY <1>1, <1>4 DEF UmaVez, MenosLinhas, NaLinha
  <2>2. \A k \in DOMAIN ligacoes' : Distintos(ligacoes'[k].linhas)
    BY <1>1, ListaVazia DEF UmaVez, MenosLinhas
  <2>. QED BY <1>1, <2>1, <2>2 DEF UmaVez
<1>. QED BY <1>2, <1>3, <1>5

\* Connections that carry no more than they did: the rest of Copias.
LEMMA CopiasSemMais ==
  ASSUME Base, NEW f, CopiasCom(f), NEW g,
         DOMAIN ligacoes \subseteq DOMAIN ligacoes',
         \A k \in DOMAIN ligacoes', id \in Ids :
           Levou(g, k, id)' => k \in DOMAIN ligacoes /\ Levou(f, k, id)
  PROVE  /\ UmaOuDepois(g)'
         /\ /\ \A id \in Ids : Novo(id)' => Novo(id) /\ ~NoBuffer(id)'
            /\ menu'.fase = "espera" => menu' = menu /\ ~NoBuffer(menu.id)'
            => Novos(g)'
         /\ /\ buffer' = buffer
            /\ \A k \in DOMAIN ligacoes :
                 ligacoes'[k].aberta =>
                   Aberta(k) /\ (replicas[k] = "espera" => replicas'[k] = "espera")
            => NoBufferUmaVez(g)'
<1>1. Novos(f) /\ NoBufferUmaVez(f) /\ UmaOuDepois(f)
  BY DEF CopiasCom
<1>2. UmaOuDepois(g)'
  BY <1>1 DEF UmaOuDepois
<1>3. ASSUME \A id \in Ids : Novo(id)' => Novo(id) /\ ~NoBuffer(id)',
             menu'.fase = "espera" => menu' = menu /\ ~NoBuffer(menu.id)'
      PROVE  Novos(g)'
  <2>1. ASSUME menu'.fase = "espera"
        PROVE  /\ ~NoBuffer(menu.id)'
               /\ \A k \in DOMAIN ligacoes' : Levou(g, k, menu.id)' => k = menu.lig
    <3>1. menu' = menu /\ menu.fase = "espera" /\ menu.id \in Ids
      BY <1>3, <2>1, BaseIgual, ConstantesAssumption DEF Ids
    <3>. QED BY <1>1, <1>3, <3>1 DEF Novos
  <2>2. \A id \in Ids : Novo(id)' =>
          ~NoBuffer(id)' /\ \A k \in DOMAIN ligacoes' : ~Levou(g, k, id)'
    BY <1>1, <1>3 DEF Novos
  <2>. QED BY <1>3, <2>1, <2>2 DEF Novos
<1>4. ASSUME buffer' = buffer,
             \A k \in DOMAIN ligacoes :
                 ligacoes'[k].aberta =>
                   Aberta(k) /\ (replicas[k] = "espera" => replicas'[k] = "espera")
      PROVE  NoBufferUmaVez(g)'
  <2>1. ComComandos' => ligacoes' # <<>> /\ ~Aberta(1)'
    <3>1. ComComandos => 1 \in DOMAIN ligacoes /\ ~Aberta(1)
      BY <1>1, Indices DEF NoBufferUmaVez, Base
    <3>2. DOMAIN << >> = {}
      OBVIOUS
    <3>3. ComComandos' <=> ComComandos
      BY <1>4 DEF ComComandos
    <3>. QED BY <1>4, <3>1, <3>2, <3>3 DEF Aberta
  <2>2. \A j \in DOMAIN buffer : buffer[j].id \in Ids
    BY BufferTipo DEF Base
  <2>3. \A j \in DOMAIN buffer : \A k \in DOMAIN ligacoes' :
          buffer[j].comandos /\ Levou(g, k, buffer[j].id)' =>
            k # 1 /\ (ligacoes'[k].aberta => j = 1 /\ replicas'[k] = "espera")
    BY <1>1, <1>4, <2>2 DEF NoBufferUmaVez
  <2>. QED BY <1>1, <1>4, <2>1, <2>3 DEF NoBufferUmaVez, Aberta
<1>. QED BY <1>2, <1>3, <1>4

\* A new assignment is enough.
LEMMA CopiasDe ==
  ASSUME NEW f, CopiasCom(f)'
  PROVE  Copias'
BY DEF Copias, CopiasCom

\* The steps that send no request and leave the buffer as it is.
LEMMA CopiasMenos ==
  ASSUME Base, Copias, MenosLinhas, buffer' = buffer,
         \A id \in Ids : Novo(id)' => Novo(id),
         menu'.fase = "espera" => menu' = menu,
         \A k \in DOMAIN ligacoes :
           ligacoes'[k].aberta =>
             Aberta(k) /\ (replicas[k] = "espera" => replicas'[k] = "espera")
  PROVE  Copias'
<1>1. PICK f : CopiasCom(f)
  BY DEF Copias
<1>2. /\ f \in [DOMAIN feitos' -> DOMAIN ligacoes'] /\ UmaVez(f)'
      /\ \A k \in DOMAIN ligacoes', id \in Ids :
           Levou(f, k, id)' => k \in DOMAIN ligacoes /\ Levou(f, k, id)
  BY <1>1, UmaVezMenos
<1>3. UmaOuDepois(f)' /\ NoBufferUmaVez(f)'
  BY <1>1, <1>2, CopiasSemMais DEF MenosLinhas
<1>4. Novos(f)'
  <2>1. \A id \in Ids : Novo(id)' => Novo(id) /\ ~NoBuffer(id)'
    BY <1>1 DEF CopiasCom, Novos, NoBuffer
  <2>2. menu'.fase = "espera" => menu' = menu /\ ~NoBuffer(menu.id)'
    BY <1>1 DEF CopiasCom, Novos, NoBuffer
  <2>. QED BY <1>1, <1>2, <2>1, <2>2, CopiasSemMais DEF MenosLinhas
<1>5. CopiasCom(f)'
  BY <1>2, <1>3, <1>4 DEF CopiasCom
<1>. QED BY <1>5, CopiasDe

\* What the menu keeps was carried by none when it was not sent; of one that was
\* sent the commands are not kept.
LEMMA CopiasGuardar ==
  ASSUME Base, Copias, GuardarDados \/ RespostaFalha
  PROVE  Copias'
<1>1. /\ UNCHANGED <<pedidos, ligacoes, servidor, escuta, replicas>>
      /\ menu'.fase \in {"livre", "morto"}
      /\ \/ /\ menu.fase = "escrever" /\ estado = 0 /\ Guardar(TRUE)
         \/ menu.fase = "espera" /\ Guardar(FALSE)
         \/ menu.fase = "espera" /\ UNCHANGED buffer
  <2>1. menu \in MenuTipo
    BY BaseIgual
  <2>. QED BY <2>1 DEF GuardarDados, RespostaFalha, MenuTipo
<1>2. PICK f : CopiasCom(f)
  BY DEF Copias
<1>3. MenosLinhas
  BY <1>1, BaseIgual DEF MenosLinhas, NaLinha, servidor
<1>4. /\ f \in [DOMAIN feitos' -> DOMAIN ligacoes'] /\ UmaVez(f)'
      /\ \A k \in DOMAIN ligacoes', id \in Ids :
           Levou(f, k, id)' => k \in DOMAIN ligacoes /\ Levou(f, k, id)
  BY <1>2, <1>3, UmaVezMenos
<1>5. menu.id \in Ids /\ menu.id \in 1..pedidos /\ ligacoes # <<>> /\ pedidos \in Nat
  <2>1. /\ menu.id \in 1..pedidos /\ pedidos \in 0..MaxPedidos
        /\ menu.fase # "login" => ligacoes # <<>>
    BY <1>1, BaseIgual
  <2>2. menu.id \in Ids /\ pedidos \in Nat
    BY <2>1, ConstantesAssumption DEF Ids
  <2>3. menu.fase # "login"
    BY <1>1
  <2>. QED BY <2>1, <2>2, <2>3
<1>6. CASE UNCHANGED buffer
  <2>1. \A id \in Ids : Novo(id)' => Novo(id)
    BY <1>1 DEF Novo
  <2>2. \A k \in DOMAIN ligacoes :
          ligacoes'[k].aberta =>
            Aberta(k) /\ (replicas[k] = "espera" => replicas'[k] = "espera")
    BY <1>1 DEF Aberta
  <2>. QED BY <1>1, <1>3, <1>6, <2>1, <2>2, CopiasMenos
<1>7. ASSUME NEW c \in BOOLEAN, Guardar(c), ~UNCHANGED buffer,
             c => menu.fase = "escrever" /\ estado = 0
      PROVE  Copias'
  <2>1. /\ DOMAIN buffer = 1..Len(buffer) /\ DOMAIN buffer' = 1..(Len(buffer) + 1)
        /\ Len(buffer) \in Nat
        /\ \A j \in DOMAIN buffer : buffer'[j] = buffer[j]
        /\ buffer'[Len(buffer) + 1].id = menu.id
        /\ buffer'[Len(buffer) + 1].comandos = c
        /\ buffer' \in Seq(Pacote)
    BY <1>5, <1>7, GuardarFaz, BufferTipo DEF Base
  <2>2. /\ Novos(f) /\ NoBufferUmaVez(f)
        /\ ~NoBuffer(menu.id)
        /\ c => \A k \in DOMAIN ligacoes : ~Levou(f, k, menu.id)
    BY <1>1, <1>2, <1>5, <1>7 DEF CopiasCom, Novos, Novo
  <2>3. UmaOuDepois(f)'
    BY <1>1, <1>2, <1>4, CopiasSemMais
  <2>4. Novos(f)'
    <3>1. \A id \in Ids : Novo(id)' => Novo(id) /\ id # menu.id
      BY <1>1, <1>5 DEF Novo, Ids
    <3>2. \A id \in Ids : NoBuffer(id)' => NoBuffer(id) \/ id = menu.id
      BY <2>1 DEF NoBuffer
    <3>3. \A id \in Ids : Novo(id)' => Novo(id) /\ ~NoBuffer(id)'
      BY <2>2, <3>1, <3>2 DEF Novos
    <3>. QED BY <1>1, <1>2, <1>4, <3>3, CopiasSemMais
  <2>5. NoBufferUmaVez(f)'
    <3>1. \A i, j \in DOMAIN buffer' : buffer'[i].id = buffer'[j].id => i = j
      BY <2>1, <2>2 DEF NoBufferUmaVez, NoBuffer
    <3>2. \A j \in DOMAIN buffer' : buffer'[j].id \in Ids
      BY <1>5, <2>1, BufferTipo DEF Base
    <3>3. \A j \in DOMAIN buffer' : \A k \in DOMAIN ligacoes :
            buffer'[j].comandos /\ Levou(f, k, buffer'[j].id)
              => k # 1 /\ (ligacoes[k].aberta => j = 1 /\ replicas[k] = "espera")
      BY <2>1, <2>2 DEF NoBufferUmaVez, Aberta
    <3>4. \A j \in DOMAIN buffer' : \A k \in DOMAIN ligacoes' :
            buffer'[j].comandos /\ Levou(f, k, buffer[j].id)'
              => k # 1 /\ (ligacoes'[k].aberta => j = 1 /\ replicas'[k] = "espera")
      BY <1>1, <1>4, <3>2, <3>3
    <3>5. ComComandos' => ligacoes # <<>> /\ ~Aberta(1)
      <4>1. c => ~Aberta(1)
        BY <1>5, <1>7, BasePrincipal DEF Principal
      <4>2. ComComandos' => ComComandos \/ c
        BY <2>1 DEF ComComandos
      <4>. QED BY <1>5, <2>2, <4>1, <4>2 DEF NoBufferUmaVez
    <3>. QED BY <1>1, <3>1, <3>4, <3>5 DEF NoBufferUmaVez, Aberta
  <2>6. CopiasCom(f)'
    BY <1>4, <2>3, <2>4, <2>5 DEF CopiasCom
  <2>. QED BY <2>6, CopiasDe
<1>. QED BY <1>1, <1>6, <1>7

\* The thread of a connection takes a line, and may carry its request out.
LEMMA CopiasAtender ==
  ASSUME Base, Copias, NEW k \in DOMAIN ligacoes, AtenderLinha(k)
  PROVE  Copias'
<1>. DEFINE L == ligacoes[k].linhas
            l == Head(L)
<1>1. /\ DOMAIN ligacoes' = DOMAIN ligacoes
      /\ \A j \in DOMAIN ligacoes \ {k} : ligacoes'[j] = ligacoes[j]
      /\ ligacoes[k].aberta /\ L # <<>> /\ ligacoes'[k].linhas = Tail(L)
      /\ ligacoes'[k].aberta = ligacoes[k].aberta
      /\ FazPedido(k, l) \/ NaoFaz(k, l)
  BY AtenderFaz DEF Aberta
<1>2. UNCHANGED <<papel, reiniciado, quedas, escuta, utilizador, buffer, replicas>>
  BY DEF AtenderLinha
<1>3. L \in Seq(Linha) /\ \A i \in DOMAIN L : L[i].que = "dados" => L[i].id \in Ids
  BY LigacaoTipo, BaseIgual DEF Base
<1>. HIDE DEF L
<1>4. /\ l \in Linha /\ Tem(L, l)
      /\ \A x : Tem(Tail(L), x) => Tem(L, x)
      /\ Distintos(L) => Distintos(Tail(L)) /\ (l.que = "dados" => ~Tem(Tail(L), l))
  BY <1>1, <1>3, TemResto
<1>5. l.que = "dados" => l.id \in Ids /\ l = Dados(l.id)
  <2>1. l.que = "dados" => l.id \in Ids
    BY <1>3, <1>4 DEF Tem
  <2>. QED BY <1>4, <2>1 DEF Linha, Dados
<1>. HIDE DEF l
<1>6. /\ \A j \in DOMAIN ligacoes : Distintos(ligacoes[j].linhas) => Distintos(ligacoes'[j].linhas)
      /\ \A j \in DOMAIN ligacoes, id \in Ids :
           Tem(ligacoes'[j].linhas, Dados(id)) => NaLinha(j, id)
  BY <1>1, <1>4 DEF NaLinha, L
<1>7. /\ \A id \in Ids : Novo(id)' => Novo(id)
      /\ menu' = menu /\ buffer' = buffer
      /\ \A j \in DOMAIN ligacoes :
           ligacoes'[j].aberta =>
             Aberta(j) /\ (replicas[j] = "espera" => replicas'[j] = "espera")
  BY <1>1, <1>2 DEF Novo, utilizador, Aberta
<1>8. CASE NaoFaz(k, l)
  <2>1. MenosLinhas
    BY <1>1, <1>6, <1>8 DEF MenosLinhas, NaoFaz
  <2>. QED BY <1>7, <2>1, CopiasMenos
<1>9. CASE FazPedido(k, l)
  <2>. DEFINE id == l.id
              n == Len(feitos) + 1
  <2>1. /\ feitos' = Append(feitos, id) /\ id \in Ids /\ l = Dados(id) /\ l.que = "dados"
    BY <1>5, <1>9 DEF FazPedido
  <2>. HIDE DEF id
  <2>2. /\ Len(feitos) \in Nat /\ DOMAIN feitos = 1..(n - 1) /\ DOMAIN feitos' = 1..n
        /\ \A i \in 1..(n - 1) : feitos'[i] = feitos[i] /\ feitos[i] \in Ids
        /\ feitos'[n] = id
    <3>1. feitos \in Seq(Ids)
      BY BaseIgual
    <3>2. Len(feitos) \in Nat /\ DOMAIN feitos = 1..Len(feitos)
      BY <3>1, LenProperties
    <3>3. /\ feitos' \in Seq(Ids) /\ Len(feitos') = Len(feitos) + 1
          /\ \A i \in 1..Len(feitos) : feitos'[i] = feitos[i]
          /\ feitos'[Len(feitos) + 1] = id
      BY <2>1, <3>1, AppendProperties
    <3>4. DOMAIN feitos' = 1..(Len(feitos) + 1)
      BY <3>3, LenProperties
    <3>. QED BY <3>1, <3>2, <3>3, <3>4
  <2>3. PICK f : CopiasCom(f)
    BY DEF Copias
  <2>4. PICK g : g = [i \in 1..n |-> IF i = n THEN k ELSE f[i]]
    OBVIOUS
  <2>. HIDE DEF n
  <2>5. n \in Nat /\ n >= 1 /\ \A i \in 1..n : i = n \/ i \in 1..(n - 1)
    BY <2>2 DEF n
  <2>6. /\ g \in [DOMAIN feitos' -> DOMAIN ligacoes'] /\ g[n] = k
        /\ \A i \in 1..(n - 1) : g[i] = f[i]
    BY <1>1, <2>2, <2>3, <2>4, <2>5 DEF CopiasCom
  <2>7. NaLinha(k, id) /\ ~Tem(ligacoes'[k].linhas, Dados(id))
    BY <1>1, <1>4, <2>1, <2>3 DEF NaLinha, L, CopiasCom, UmaVez
  <2>8. \A q \in DOMAIN ligacoes', y \in Ids :
          Levou(g, q, y)' => q \in DOMAIN ligacoes /\ Levou(f, q, y)
    <3>1. ASSUME NEW q \in DOMAIN ligacoes', NEW y \in Ids, Levou(g, q, y)'
          PROVE  Levou(f, q, y)
      <4>1. CASE Tem(ligacoes'[q].linhas, Dados(y))
        BY <1>1, <1>6, <4>1 DEF Levou
      <4>2. ASSUME NEW i \in DOMAIN feitos', g[i] = q, feitos'[i] = y
            PROVE  Levou(f, q, y)
        BY <2>2, <2>5, <2>6, <2>7, <4>2 DEF Levou
      <4>. QED BY <3>1, <4>1, <4>2 DEF Levou, NaLinha
    <3>. QED BY <1>1, <3>1
  <2>9. UmaVez(g)'
    <3>1. \A i \in DOMAIN feitos : ~NaLinha(f[i], feitos[i]) /\ f[i] \in DOMAIN ligacoes
      BY <2>3 DEF CopiasCom, UmaVez
    <3>2. \A i, j \in DOMAIN feitos : feitos[i] = feitos[j] /\ f[i] = f[j] => i = j
      BY <2>3 DEF CopiasCom, UmaVez
    <3>3. \A i \in 1..(n - 1) : ~(feitos[i] = id /\ f[i] = k)
      BY <2>2, <2>7, <3>1
    <3>4. \A i, j \in 1..n : feitos'[i] = feitos'[j] /\ g[i] = g[j] => i = j
      BY <2>2, <2>5, <2>6, <3>2, <3>3
    <3>5. \A i \in 1..n : ~Tem(ligacoes'[g[i]].linhas, Dados(feitos'[i]))
      <4>1. \A i \in 1..(n - 1) : ~Tem(ligacoes'[f[i]].linhas, Dados(feitos[i]))
        BY <1>6, <2>2, <3>1
      <4>. QED BY <2>2, <2>5, <2>6, <2>7, <4>1
    <3>6. \A j \in DOMAIN ligacoes' : Distintos(ligacoes'[j].linhas)
      BY <1>1, <1>6, <2>3 DEF CopiasCom, UmaVez
    <3>. QED BY <2>2, <3>4, <3>5, <3>6 DEF UmaVez, NaLinha
  <2>10. UmaOuDepois(g)' /\ NoBufferUmaVez(g)'
    BY <1>1, <1>7, <2>3, <2>8, CopiasSemMais
  <2>11. Novos(g)'
    <3>1. \A y \in Ids : Novo(y)' => Novo(y) /\ ~NoBuffer(y)'
      BY <1>7, <2>3 DEF CopiasCom, Novos, NoBuffer
    <3>2. menu'.fase = "espera" => menu' = menu /\ ~NoBuffer(menu.id)'
      BY <1>7, <2>3 DEF CopiasCom, Novos, NoBuffer
    <3>. QED BY <1>1, <2>3, <2>8, <3>1, <3>2, CopiasSemMais
  <2>12. CopiasCom(g)'
    BY <2>6, <2>9, <2>10, <2>11 DEF CopiasCom
  <2>. QED BY <2>12, CopiasDe
<1>. QED BY <1>1, <1>8, <1>9

\* Only the thread of the last connection had sent the head of the buffer there.
LEMMA CopiasReplicaResposta ==
  ASSUME Base, Copias, NEW k \in DOMAIN ligacoes, ReplicaResposta(k)
  PROVE  Copias'
<1>1. /\ Resposta(k) /\ ligacoes' = [ligacoes EXCEPT ![k].respostas = Tail(@)]
      /\ buffer' = Retirar /\ UNCHANGED <<servidor, escuta, utilizador>>
  BY DEF ReplicaResposta
<1>2. /\ DOMAIN ligacoes' = DOMAIN ligacoes
      /\ \A j \in DOMAIN ligacoes : /\ ligacoes'[j].aberta = ligacoes[j].aberta
                                    /\ ligacoes'[j].linhas = ligacoes[j].linhas
  BY <1>1, TirarFaz DEF Base
<1>3. PICK f : CopiasCom(f)
  BY DEF Copias
<1>4. MenosLinhas
  BY <1>1, <1>2 DEF MenosLinhas, NaLinha, servidor
<1>5. /\ f \in [DOMAIN feitos' -> DOMAIN ligacoes'] /\ UmaVez(f)'
      /\ \A q \in DOMAIN ligacoes', id \in Ids :
           Levou(f, q, id)' => q \in DOMAIN ligacoes /\ Levou(f, q, id)
  BY <1>3, <1>4, UmaVezMenos
<1>6. \A j \in DOMAIN buffer' :
        \E i \in DOMAIN buffer : i = j + 1 /\ buffer'[j] = buffer[i] /\ j \in Nat /\ j # 0
  <2>1. CASE buffer = <<>>
    <3>1. buffer' = <<>>
      BY <1>1, <2>1, RetirarFaz DEF Base
    <3>2. DOMAIN << >> = {}
      OBVIOUS
    <3>. QED BY <3>1, <3>2
  <2>2. CASE buffer # <<>>
    <3>1. /\ DOMAIN buffer' = 1..(Len(buffer) - 1)
          /\ \A j \in 1..(Len(buffer) - 1) : buffer'[j] = buffer[j + 1]
          /\ Len(buffer) \in Nat /\ DOMAIN buffer = 1..Len(buffer)
      BY <1>1, <2>2, RetirarFaz, BufferTipo DEF Base
    <3>. QED BY <3>1
  <2>. QED BY <2>1, <2>2
<1>7. \A id : NoBuffer(id)' => NoBuffer(id)
  BY <1>6 DEF NoBuffer
<1>8. UmaOuDepois(f)'
  BY <1>2, <1>3, <1>5, CopiasSemMais
<1>9. Novos(f)'
  <2>1. \A id \in Ids : Novo(id)' => Novo(id) /\ ~NoBuffer(id)'
    BY <1>1, <1>3, <1>7 DEF CopiasCom, Novos, Novo, utilizador
  <2>2. menu'.fase = "espera" => menu' = menu /\ ~NoBuffer(menu.id)'
    BY <1>1, <1>3, <1>7 DEF CopiasCom, Novos, NoBuffer, utilizador
  <2>. QED BY <1>2, <1>3, <1>5, <2>1, <2>2, CopiasSemMais
<1>10. NoBufferUmaVez(f)'
  <2>1. NoBufferUmaVez(f)
    BY <1>3 DEF CopiasCom
  <2>2. \A i, j \in DOMAIN buffer' : buffer'[i].id = buffer'[j].id => i = j
    BY <1>6, <2>1 DEF NoBufferUmaVez
  <2>3. ASSUME NEW j \in DOMAIN buffer', NEW q \in DOMAIN ligacoes',
               buffer'[j].comandos, Levou(f, q, buffer[j].id)'
        PROVE  q # 1 /\ ~ligacoes'[q].aberta
    <3>1. PICK i \in DOMAIN buffer : i # 1 /\ buffer'[j] = buffer[i] /\ buffer[i].id \in Ids
      BY <1>6, BufferTipo DEF Base
    <3>2. Levou(f, q, buffer[i].id)
      BY <1>5, <2>3, <3>1
    <3>. QED BY <1>2, <2>1, <2>3, <3>1, <3>2 DEF NoBufferUmaVez, Aberta
  <2>4. ComComandos' => ligacoes' # <<>> /\ ~Aberta(1)'
    <3>1. ComComandos' => ComComandos
      BY <1>6 DEF ComComandos
    <3>2. ComComandos => 1 \in DOMAIN ligacoes /\ ~ligacoes[1].aberta
      BY <2>1, Indices DEF NoBufferUmaVez, Base, Aberta
    <3>3. DOMAIN << >> = {}
      OBVIOUS
    <3>. QED BY <1>2, <3>1, <3>2, <3>3 DEF Aberta
  <2>. QED BY <2>2, <2>3, <2>4 DEF NoBufferUmaVez, Aberta
<1>11. CopiasCom(f)'
  BY <1>5, <1>8, <1>9, <1>10 DEF CopiasCom
<1>. QED BY <1>11, CopiasDe

\* The lines of a request that is sent: its data, and the command unless the menu
\* sent it before.
DeEnvio(L, x) == L = <<Dados(x)>> \/ L = <<Comando(x), Dados(x)>>

\* The lines of a request, put after others.
LEMMA DadosMais ==
  ASSUME NEW M \in Seq(Linha), NEW x \in Ids, NEW L, DeEnvio(L, x)
  PROVE  /\ M \o L \in Seq(Linha)
         /\ \A y \in Ids : Tem(M \o L, Dados(y)) <=> Tem(M, Dados(y)) \/ y = x
         /\ \A y \in Ids : Tem(M, Comando(y)) => Tem(M \o L, Comando(y))
         /\ Distintos(M) /\ ~Tem(M, Dados(x)) => Distintos(M \o L)
         /\ \A y \in Ids :
              /\ Precede(M, y)
              /\ y = x /\ L = <<Dados(x)>> => Tem(M, Comando(x))
              => Precede(M \o L, y)
<1>1. Dados(x) \in Linha /\ Comando(x) \in Linha
  BY LinhaTipo
<1>2. /\ \A y : (Dados(y) = Dados(x) <=> y = x) /\ Dados(y) # Comando(x)
      /\ Dados(x).que = "dados" /\ Comando(x).que # "dados"
  BY DEF Dados, Comando
<1>3. ASSUME NEW N \in Seq(Linha)
      PROVE  /\ N \o <<Dados(x)>> \in Seq(Linha)
             /\ \A y \in Ids : Tem(N \o <<Dados(x)>>, Dados(y)) <=> Tem(N, Dados(y)) \/ y = x
             /\ \A l : Tem(N, l) => Tem(N \o <<Dados(x)>>, l)
             /\ Distintos(N) /\ ~Tem(N, Dados(x)) => Distintos(N \o <<Dados(x)>>)
             /\ \A y \in Ids : Precede(N, y) /\ (y = x => Tem(N, Comando(x)))
                                 => Precede(N \o <<Dados(x)>>, y)
  <2>1. \A y \in Ids : Precede(N, y) /\ (y = x => Tem(N, Comando(x)))
                                 => Precede(N \o <<Dados(x)>>, y)
    BY <1>1, <1>2, PrecedeMais
  <2>2. /\ N \o <<Dados(x)>> \in Seq(Linha)
        /\ \A l : Tem(N \o <<Dados(x)>>, l) <=> Tem(N, l) \/ l = Dados(x)
        /\ Distintos(N) /\ ~Tem(N, Dados(x)) => Distintos(N \o <<Dados(x)>>)
    BY <1>1, TemMais
  <2>. QED BY <1>2, <2>1, <2>2
<1>4. CASE L = <<Dados(x)>>
  BY <1>3, <1>4
<1>5. CASE L = <<Comando(x), Dados(x)>>
  <2>. DEFINE N == M \o <<Comando(x)>>
  <2>1. /\ N \in Seq(Linha)
        /\ \A l : Tem(N, l) <=> Tem(M, l) \/ l = Comando(x)
        /\ Distintos(M) => Distintos(N)
    BY <1>1, <1>2, TemMais
  <2>2. \A y \in Ids : Precede(M, y) => Precede(N, y)
    BY <1>1, <1>2, PrecedeMais
  <2>3. M \o L = N \o <<Dados(x)>>
    <3>1. L = <<Comando(x)>> \o <<Dados(x)>>
      BY <1>5
    <3>2. <<Comando(x)>> \in Seq(Linha) /\ <<Dados(x)>> \in Seq(Linha)
      BY <1>1
    <3>. QED BY <3>1, <3>2, ConcatAssociative
  <2>. HIDE DEF N
  <2>4. <<Comando(x), Dados(x)>> # <<Dados(x)>>
    OBVIOUS
  <2>5. \A y \in Ids : Tem(N, Dados(y)) <=> Tem(M, Dados(y))
    BY <1>2, <2>1
  <2>. QED BY <1>3, <2>1, <2>2, <2>3, <2>5
<1>. QED BY <1>4, <1>5 DEF DeEnvio

\* A request is sent on the connection k.
LEMMA EnvioFaz ==
  ASSUME Base, NEW k \in DOMAIN ligacoes, NEW x \in Ids, NEW L, DeEnvio(L, x), Enviar(k, L)
  PROVE  /\ DOMAIN ligacoes' = DOMAIN ligacoes
         /\ \A j \in DOMAIN ligacoes :
              /\ ligacoes'[j].aberta = ligacoes[j].aberta
              /\ ligacoes'[j].thread = ligacoes[j].thread
              /\ ligacoes'[j].eu = ligacoes[j].eu
              /\ ligacoes'[j].comando = ligacoes[j].comando
              /\ ligacoes'[j].respostas = ligacoes[j].respostas
              /\ \A y \in Ids : Tem(ligacoes'[j].linhas, Dados(y)) <=>
                   NaLinha(j, y) \/ (j = k /\ y = x /\ Aberta(k))
              /\ \A y \in Ids : Tem(ligacoes[j].linhas, Comando(y)) =>
                   Tem(ligacoes'[j].linhas, Comando(y))
              /\ Distintos(ligacoes[j].linhas) /\ (j = k /\ Aberta(k) => ~NaLinha(k, x)) =>
                   Distintos(ligacoes'[j].linhas)
              /\ \A y \in Ids :
                   /\ Precede(ligacoes[j].linhas, y)
                   /\ y = x /\ L = <<Dados(x)>> => Tem(ligacoes[j].linhas, Comando(x))
                   => Precede(ligacoes'[j].linhas, y)
<1>1. L \in Seq(Linha)
  <2>1. Dados(x) \in Linha /\ Comando(x) \in Linha
    BY LinhaTipo
  <2>2. <<Dados(x)>> \in Seq(Linha) /\ <<Comando(x), Dados(x)>> \in Seq(Linha)
    BY <2>1
  <2>. QED BY <2>2 DEF DeEnvio
<1>2. /\ DOMAIN ligacoes' = DOMAIN ligacoes
      /\ \A j \in DOMAIN ligacoes :
           /\ ligacoes'[j].aberta = ligacoes[j].aberta
           /\ ligacoes'[j].thread = ligacoes[j].thread
           /\ ligacoes'[j].eu = ligacoes[j].eu
           /\ ligacoes'[j].comando = ligacoes[j].comando
           /\ ligacoes'[j].respostas = ligacoes[j].respostas
           /\ ligacoes'[j].linhas = IF j = k /\ Aberta(k) THEN ligacoes[j].linhas \o L
                                                         ELSE ligacoes[j].linhas
  BY <1>1, EnviarFaz DEF Base
<1>3. ASSUME NEW j \in DOMAIN ligacoes
      PROVE  /\ \A y \in Ids : Tem(ligacoes'[j].linhas, Dados(y)) <=>
                  NaLinha(j, y) \/ (j = k /\ y = x /\ Aberta(k))
             /\ \A y \in Ids : Tem(ligacoes[j].linhas, Comando(y)) =>
                  Tem(ligacoes'[j].linhas, Comando(y))
             /\ Distintos(ligacoes[j].linhas) /\ (j = k /\ Aberta(k) => ~NaLinha(k, x)) =>
                  Distintos(ligacoes'[j].linhas)
             /\ \A y \in Ids :
                  /\ Precede(ligacoes[j].linhas, y)
                  /\ y = x /\ L = <<Dados(x)>> => Tem(ligacoes[j].linhas, Comando(x))
                  => Precede(ligacoes'[j].linhas, y)
  <2>1. CASE j = k /\ Aberta(k)
    <3>. DEFINE M == ligacoes[k].linhas
    <3>1. M \in Seq(Linha) /\ ligacoes'[j].linhas = M \o L
      BY <1>2, <2>1, LigacaoTipo DEF Base
    <3>. HIDE DEF M
    <3>2. /\ \A y \in Ids : Tem(M \o L, Dados(y)) <=> Tem(M, Dados(y)) \/ y = x
          /\ \A y \in Ids : Tem(M, Comando(y)) => Tem(M \o L, Comando(y))
          /\ Distintos(M) /\ ~Tem(M, Dados(x)) => Distintos(M \o L)
          /\ \A y \in Ids :
               /\ Precede(M, y)
               /\ y = x /\ L = <<Dados(x)>> => Tem(M, Comando(x))
               => Precede(M \o L, y)
      BY <3>1, DadosMais
    <3>3. ligacoes[j].linhas = M /\ \A y : NaLinha(j, y) <=> Tem(M, Dados(y))
      BY <2>1 DEF M, NaLinha
    <3>. QED BY <2>1, <3>1, <3>2, <3>3
  <2>2. CASE ~(j = k /\ Aberta(k))
    BY <1>2, <2>2 DEF NaLinha
  <2>. QED BY <2>1, <2>2
<1>. QED BY <1>2, <1>3

\* A request that no open connection carried is sent on the connection k.
LEMMA CopiasEnvio ==
  ASSUME Base, NEW f, CopiasCom(f), NEW k \in DOMAIN ligacoes, NEW x \in Ids,
         NEW L, DeEnvio(L, x), Enviar(k, L), Aberta(k) => ~Levou(f, k, x), feitos' = feitos
  PROVE  /\ f \in [DOMAIN feitos' -> DOMAIN ligacoes'] /\ UmaVez(f)'
         /\ \A q \in DOMAIN ligacoes, y \in Ids :
              Levou(f, q, y)' => Levou(f, q, y) \/ (q = k /\ y = x /\ Aberta(k))
<1>1. /\ DOMAIN ligacoes' = DOMAIN ligacoes
      /\ \A j \in DOMAIN ligacoes :
           /\ \A y \in Ids : Tem(ligacoes'[j].linhas, Dados(y)) <=>
                NaLinha(j, y) \/ (j = k /\ y = x /\ Aberta(k))
           /\ Distintos(ligacoes[j].linhas) /\ (j = k /\ Aberta(k) => ~NaLinha(k, x)) =>
                Distintos(ligacoes'[j].linhas)
  BY EnvioFaz
<1>2. /\ f \in [DOMAIN feitos -> DOMAIN ligacoes] /\ UmaVez(f)
      /\ \A i \in DOMAIN feitos : feitos[i] \in Ids
  BY BaseIgual DEF CopiasCom
<1>3. \A j \in DOMAIN ligacoes : Distintos(ligacoes'[j].linhas)
  BY <1>1, <1>2 DEF Levou, UmaVez
<1>4. \A i \in DOMAIN feitos : ~Tem(ligacoes'[f[i]].linhas, Dados(feitos[i]))
  BY <1>1, <1>2 DEF Levou, UmaVez
<1>5. UmaVez(f)'
  BY <1>1, <1>2, <1>3, <1>4 DEF UmaVez, NaLinha
<1>6. \A q \in DOMAIN ligacoes, y \in Ids :
        Levou(f, q, y)' => Levou(f, q, y) \/ (q = k /\ y = x /\ Aberta(k))
  BY <1>1 DEF Levou, NaLinha
<1>. QED BY <1>1, <1>2, <1>5, <1>6

\* What EnviarDados does.
LEMMA EnviarDadosFaz ==
  ASSUME Base, EnviarDados
  PROVE  /\ menu.fase = "escrever" /\ estado # 0 /\ Enviar(Actual, <<Dados(menu.id)>>)
         /\ menu'.fase = "espera" /\ menu'.id = menu.id /\ menu'.lig = Actual
         /\ menu.id \in Ids /\ menu.id \in 1..pedidos /\ Actual \in DOMAIN ligacoes
         /\ UNCHANGED <<recusados, pedidos, servidor, escuta, buffer, replicas>>
<1>1. /\ menu.fase = "escrever" /\ estado # 0 /\ Enviar(Actual, <<Dados(menu.id)>>)
      /\ menu' = [menu EXCEPT !.fase = "espera", !.lig = Actual]
      /\ UNCHANGED <<recusados, pedidos, servidor, escuta, buffer, replicas>>
  BY DEF EnviarDados, Dados
<1>2. menu \in MenuTipo /\ menu.id \in 1..pedidos /\ pedidos \in 0..MaxPedidos /\ ligacoes # <<>>
  BY <1>1, BaseIgual
<1>3. menu'.fase = "espera" /\ menu'.id = menu.id /\ menu'.lig = Actual
  BY <1>1, <1>2 DEF MenuTipo
<1>4. menu.id \in Ids /\ Actual \in DOMAIN ligacoes
  BY <1>2, Indices, ConstantesAssumption DEF Ids, Base
<1>. QED BY <1>1, <1>2, <1>3, <1>4

\* A new request is sent on one connection, by the menu.
LEMMA CopiasEnviarDados ==
  ASSUME Base, Copias, EnviarDados
  PROVE  Copias'
<1>1. PICK x \in Ids, k \in DOMAIN ligacoes :
        /\ x = menu.id /\ menu.fase = "escrever" /\ Enviar(k, <<Dados(x)>>)
        /\ menu'.fase = "espera" /\ menu'.id = x /\ menu'.lig = k
        /\ x \in 1..pedidos
        /\ UNCHANGED <<recusados, pedidos, servidor, escuta, buffer, replicas>>
  BY EnviarDadosFaz
<1>2. PICK f : CopiasCom(f)
  BY DEF Copias
<1>3. /\ Novos(f) /\ NoBufferUmaVez(f) /\ UmaOuDepois(f)
      /\ Novo(x) /\ ~NoBuffer(x) /\ \A q \in DOMAIN ligacoes : ~Levou(f, q, x)
  BY <1>1, <1>2 DEF CopiasCom, Novos, Novo
<1>4. /\ DOMAIN ligacoes' = DOMAIN ligacoes
      /\ \A j \in DOMAIN ligacoes : ligacoes'[j].aberta = ligacoes[j].aberta
  BY <1>1, EnvioFaz DEF DeEnvio
<1>5. /\ f \in [DOMAIN feitos' -> DOMAIN ligacoes'] /\ UmaVez(f)'
      /\ \A q \in DOMAIN ligacoes, y \in Ids :
           Levou(f, q, y)' => Levou(f, q, y) \/ (q = k /\ y = x)
  BY <1>1, <1>2, <1>3, CopiasEnvio DEF DeEnvio, servidor
<1>6. Novos(f)'
  <2>1. \A id \in Ids : Novo(id)' => Novo(id) /\ id # x
    <3>1. \A id \in Ids : Novo(id)' => id > pedidos
      BY <1>1 DEF Novo
    <3>2. pedidos \in Nat
      BY BaseIgual, ConstantesAssumption
    <3>. QED BY <1>1, <3>1, <3>2, ConstantesAssumption DEF Novo, Ids
  <2>2. \A id \in Ids : Novo(id)' =>
          ~NoBuffer(id)' /\ \A q \in DOMAIN ligacoes' : ~Levou(f, q, id)'
    BY <1>1, <1>3, <1>4, <1>5, <2>1 DEF Novos, NoBuffer
  <2>3. ~NoBuffer(menu.id)' /\ \A q \in DOMAIN ligacoes' : Levou(f, q, menu.id)' => q = menu'.lig
    <3>1. \A q \in DOMAIN ligacoes : Levou(f, q, x)' => q = k
      BY <1>1, <1>3, <1>5
    <3>2. ~(\E i \in DOMAIN buffer' : buffer'[i].id = x)
      BY <1>1, <1>3 DEF NoBuffer
    <3>. QED BY <1>1, <1>4, <3>1, <3>2 DEF NoBuffer, Levou, NaLinha
  <2>. QED BY <2>2, <2>3 DEF Novos
<1>7. NoBufferUmaVez(f)'
  <2>1. \A j \in DOMAIN buffer : buffer[j].id \in Ids /\ buffer[j].id # x
    BY <1>3, BufferTipo DEF Base, NoBuffer
  <2>2. \A j \in DOMAIN buffer : \A q \in DOMAIN ligacoes :
          buffer[j].comandos /\ Levou(f, q, buffer[j].id)' =>
            q # 1 /\ (ligacoes'[q].aberta => j = 1 /\ replicas[q] = "espera")
    BY <1>1, <1>3, <1>4, <1>5, <2>1 DEF NoBufferUmaVez, Aberta
  <2>3. ComComandos' => ligacoes' # <<>> /\ ~Aberta(1)'
    <3>1. ComComandos => 1 \in DOMAIN ligacoes /\ ~ligacoes[1].aberta
      BY <1>3, Indices DEF NoBufferUmaVez, Base, Aberta
    <3>2. DOMAIN << >> = {}
      OBVIOUS
    <3>3. ComComandos' <=> ComComandos
      BY <1>1 DEF ComComandos
    <3>. QED BY <1>4, <3>1, <3>2, <3>3 DEF Aberta
  <2>. QED BY <1>1, <1>3, <1>4, <2>2, <2>3 DEF NoBufferUmaVez, Aberta
<1>8. UmaOuDepois(f)'
  BY <1>3, <1>4, <1>5 DEF UmaOuDepois
<1>9. CopiasCom(f)'
  BY <1>5, <1>6, <1>7, <1>8 DEF CopiasCom
<1>. QED BY <1>9, CopiasDe

\* What ReplicaEnvia does.
LEMMA ReplicaEnviaFaz ==
  ASSUME Base, NEW k \in DOMAIN ligacoes, ReplicaEnvia(k)
  PROVE  LET x == Head(buffer).id IN
         /\ buffer # <<>> /\ x = buffer[1].id /\ buffer[1].comandos /\ 1 \in DOMAIN buffer
         /\ x \in Ids /\ ComComandos
         /\ replicas[k] = "inicio" /\ replicas'[k] = "espera"
         /\ \A j \in DOMAIN ligacoes \ {k} : replicas'[j] = replicas[j]
         /\ DeEnvio(<<Comando(x), Dados(x)>>, x) /\ Enviar(k, <<Comando(x), Dados(x)>>)
         /\ UNCHANGED <<servidor, escuta, utilizador, buffer>>
<1>1. /\ buffer # <<>> /\ Head(buffer).comandos
      /\ replicas[k] = "inicio" /\ replicas' = [replicas EXCEPT ![k] = "espera"]
      /\ Enviar(k, <<Comando(Head(buffer).id), Dados(Head(buffer).id)>>)
      /\ UNCHANGED <<servidor, escuta, utilizador, buffer>>
  BY DEF ReplicaEnvia, Replica, Comando, Dados
<1>2. /\ Head(buffer) = buffer[1] /\ 1 \in DOMAIN buffer /\ buffer[1].id \in Ids
  BY <1>1, BufferTipo DEF Base
<1>3. ComComandos
  BY <1>1, <1>2 DEF ComComandos
<1>4. replicas'[k] = "espera" /\ \A j \in DOMAIN ligacoes \ {k} : replicas'[j] = replicas[j]
  BY <1>1, MudarReplica DEF Base, Fases
<1>. QED BY <1>1, <1>2, <1>3, <1>4 DEF DeEnvio

\* The head of the buffer was not sent on an open connection whose Buffer thread
\* does not wait, nor on the first.
LEMMA CopiasReplicaEnvia ==
  ASSUME Base, Copias, NEW k \in DOMAIN ligacoes, ReplicaEnvia(k)
  PROVE  Copias'
<1>. DEFINE x == Head(buffer).id
            L == <<Comando(x), Dados(x)>>
<1>1. /\ x = buffer[1].id /\ buffer[1].comandos /\ 1 \in DOMAIN buffer
      /\ x \in Ids /\ ComComandos
      /\ replicas[k] = "inicio" /\ replicas'[k] = "espera"
      /\ \A j \in DOMAIN ligacoes \ {k} : replicas'[j] = replicas[j]
      /\ DeEnvio(L, x) /\ Enviar(k, L)
      /\ UNCHANGED <<servidor, escuta, utilizador, buffer>>
  BY ReplicaEnviaFaz
<1>. HIDE DEF x, L
<1>2. PICK f : CopiasCom(f)
  BY DEF Copias
<1>3. /\ Novos(f) /\ NoBufferUmaVez(f) /\ UmaOuDepois(f)
      /\ NoBuffer(x) /\ ligacoes # <<>> /\ ~Aberta(1)
  BY <1>1, <1>2 DEF CopiasCom, NoBufferUmaVez, NoBuffer
<1>4. /\ Aberta(k) => ~Levou(f, k, x) /\ k # 1
      /\ \A q \in DOMAIN ligacoes : Levou(f, q, x) => q # 1
  BY <1>1, <1>3 DEF NoBufferUmaVez
<1>5. /\ DOMAIN ligacoes' = DOMAIN ligacoes
      /\ \A j \in DOMAIN ligacoes : ligacoes'[j].aberta = ligacoes[j].aberta
  BY <1>1, EnvioFaz
<1>6. /\ f \in [DOMAIN feitos' -> DOMAIN ligacoes'] /\ UmaVez(f)'
      /\ \A q \in DOMAIN ligacoes, y \in Ids :
           Levou(f, q, y)' => Levou(f, q, y) \/ (q = k /\ y = x /\ Aberta(k))
  BY <1>1, <1>2, <1>4, CopiasEnvio DEF servidor
<1>7. Novos(f)'
  <2>1. \A id \in Ids : Novo(id)' =>
          ~NoBuffer(id)' /\ \A q \in DOMAIN ligacoes' : ~Levou(f, q, id)'
    BY <1>1, <1>3, <1>5, <1>6 DEF Novos, Novo, NoBuffer, utilizador
  <2>2. ASSUME menu.fase = "espera"
        PROVE  ~NoBuffer(menu.id)' /\ \A q \in DOMAIN ligacoes' : Levou(f, q, menu.id)' => q = menu.lig
    <3>1. menu.id \in Ids
      BY <2>2, BaseIgual, ConstantesAssumption DEF Ids
    <3>2. menu' = menu /\ ~NoBuffer(menu.id) /\ menu.id # x
      BY <1>1, <1>3, <2>2 DEF Novos, utilizador
    <3>3. ~NoBuffer(menu.id)'
      BY <1>1, <3>2 DEF NoBuffer
    <3>. QED BY <1>3, <1>5, <1>6, <2>2, <3>1, <3>2, <3>3 DEF Novos
  <2>. QED BY <1>1, <2>1, <2>2 DEF Novos, utilizador
<1>8. NoBufferUmaVez(f)'
  <2>1. \A j \in DOMAIN buffer : buffer[j].id \in Ids /\ (buffer[j].id = x => j = 1)
    BY <1>1, <1>3, BufferTipo DEF Base, NoBufferUmaVez
  <2>2. \A j \in DOMAIN buffer : \A q \in DOMAIN ligacoes :
          buffer[j].comandos /\ Levou(f, q, buffer[j].id)' =>
            q # 1 /\ (ligacoes'[q].aberta => j = 1 /\ replicas'[q] = "espera")
    <3>1. ASSUME NEW j \in DOMAIN buffer, NEW q \in DOMAIN ligacoes,
                 buffer[j].comandos, Levou(f, q, buffer[j].id)'
          PROVE  q # 1 /\ (ligacoes'[q].aberta => j = 1 /\ replicas'[q] = "espera")
      <4>1. CASE Levou(f, q, buffer[j].id)
        <5>1. q # 1 /\ (Aberta(q) => j = 1 /\ replicas[q] = "espera")
          BY <1>3, <3>1, <4>1 DEF NoBufferUmaVez
        <5>2. replicas[q] = "espera" => replicas'[q] = "espera"
          BY <1>1
        <5>. QED BY <1>5, <5>1, <5>2 DEF Aberta
      <4>2. CASE q = k /\ buffer[j].id = x /\ Aberta(k)
        BY <1>1, <1>4, <2>1, <3>1, <4>2
      <4>. QED BY <1>1, <1>6, <2>1, <3>1, <4>1, <4>2
    <3>. QED BY <3>1
  <2>3. ligacoes' # <<>> /\ ~Aberta(1)'
    <3>1. 1 \in DOMAIN ligacoes
      BY <1>3, Indices DEF Base
    <3>2. DOMAIN << >> = {}
      OBVIOUS
    <3>. QED BY <1>3, <1>5, <3>1, <3>2 DEF Aberta
  <2>. QED BY <1>1, <1>3, <1>5, <2>2, <2>3 DEF NoBufferUmaVez, Aberta
<1>9. UmaOuDepois(f)'
  <2>1. ASSUME NEW id \in Ids
        PROVE  \/ \A q, l \in DOMAIN ligacoes : Levou(f, q, id)' /\ Levou(f, l, id)' => q = l
               \/ \A q \in DOMAIN ligacoes : Levou(f, q, id)' => q # 1
    <3>1. CASE id = x
      BY <1>4, <1>6, <3>1
    <3>2. CASE id # x
      BY <1>3, <1>6, <3>2 DEF UmaOuDepois
    <3>. QED BY <3>1, <3>2
  <2>. QED BY <1>5, <2>1 DEF UmaOuDepois
<1>10. CopiasCom(f)'
  BY <1>6, <1>7, <1>8, <1>9 DEF CopiasCom
<1>. QED BY <1>10, CopiasDe

-----------------------------------------------------------------------------
\* The steps that move no request: main connects, waits and starts again, a
\* server becomes the primary and takes connections, the user logs in.
MesmasLinhas(k) ==
  /\ Distintos(ligacoes[k].linhas) => Distintos(ligacoes'[k].linhas)
  /\ \A id \in Ids :
       /\ Tem(ligacoes'[k].linhas, Dados(id)) <=> NaLinha(k, id)
       /\ Tem(ligacoes[k].linhas, Comando(id)) => Tem(ligacoes'[k].linhas, Comando(id))
       /\ Precede(ligacoes[k].linhas, id) => Precede(ligacoes'[k].linhas, id)
Quieto ==
  /\ DOMAIN ligacoes \subseteq DOMAIN ligacoes' /\ Actual' \in {Actual, Actual + 1}
  /\ \A k \in DOMAIN ligacoes :
       /\ ligacoes'[k].aberta = ligacoes[k].aberta
       /\ ligacoes'[k].respostas = ligacoes[k].respostas
       /\ ligacoes'[k].comando = ligacoes[k].comando
       /\ ligacoes[k].eu => ligacoes'[k].eu
       /\ ligacoes[k].thread \in Mortas => ligacoes'[k].thread \in Mortas
       /\ MesmasLinhas(k)
       /\ Aberta(k) /\ replicas[k] = "espera" => replicas'[k] = "espera"
       /\ replicas'[k] = "espera" => replicas[k] = "espera"
  /\ \A k \in DOMAIN ligacoes' \ DOMAIN ligacoes :
       /\ ligacoes'[k].linhas = <<>> /\ ligacoes'[k].respostas = <<>>
       /\ replicas'[k] # "espera"
  /\ UNCHANGED <<feitos, buffer, pedidos, recusados, quedas>>
  /\ menu' = menu \/ (menu.fase = "login" /\ menu'.fase = "livre")
  /\ ligacoes # <<>> /\ (estado = 0 \/ Actual >= 2) => estado' = 0 \/ Actual' >= 2

\* The connections keep their lines, and the menu at most leaves the login.
LEMMA QuietoIgual ==
  ASSUME Base, DOMAIN ligacoes' = DOMAIN ligacoes, Len(ligacoes') = Len(ligacoes),
         \A k \in DOMAIN ligacoes :
           /\ ligacoes'[k].aberta = ligacoes[k].aberta
           /\ ligacoes'[k].respostas = ligacoes[k].respostas
           /\ ligacoes'[k].comando = ligacoes[k].comando
           /\ ligacoes'[k].linhas = ligacoes[k].linhas
           /\ ligacoes[k].eu => ligacoes'[k].eu
           /\ ligacoes[k].thread \in Mortas => ligacoes'[k].thread \in Mortas
           /\ Aberta(k) /\ replicas[k] = "espera" => replicas'[k] = "espera"
           /\ replicas'[k] = "espera" => replicas[k] = "espera",
         UNCHANGED <<feitos, buffer, pedidos, recusados, quedas>>,
         menu' = menu \/ (menu.fase = "login" /\ menu'.fase = "livre"),
         ligacoes # <<>> /\ (estado = 0 \/ Actual >= 2) => estado' = 0 \/ Actual >= 2
  PROVE  Quieto
<1>1. Actual' = Actual
  BY DEF Actual
<1>2. \A k \in DOMAIN ligacoes : MesmasLinhas(k)
  BY DEF MesmasLinhas, NaLinha
<1>. QED BY <1>1, <1>2 DEF Quieto

\* The servers change roles.
LEMMA QuietoServidores ==
  ASSUME Base, NEW s \in Servidores, PromoverServidor(s) \/ ArrancarServidor(s)
  PROVE  Quieto
<1>1. UNCHANGED <<ligacoes, feitos, quedas, escuta, utilizador, buffer, replicas>>
  BY DEF PromoverServidor, ArrancarServidor
<1>. QED BY <1>1, QuietoIgual DEF escuta, utilizador

\* A Buffer thread ends, or waits.
LEMMA QuietoReplica ==
  ASSUME Base, NEW k \in DOMAIN ligacoes,
         ReplicaFim(k) \/ ReplicaRebenta(k) \/ ReplicaFalha(k) \/ ReplicaAcorda(k)
  PROVE  Quieto
<1>1. PICK de, para \in Fases :
        /\ replicas[k] = de /\ replicas' = [replicas EXCEPT ![k] = para]
        /\ para # "espera" /\ (de = "espera" => ~Aberta(k))
  BY DEF ReplicaFim, ReplicaRebenta, ReplicaFalha, ReplicaAcorda, Replica, Fases, SemResposta
<1>2. UNCHANGED <<ligacoes, servidor, escuta, utilizador, buffer>>
  BY DEF ReplicaFim, ReplicaRebenta, ReplicaFalha, ReplicaAcorda
<1>3. replicas'[k] = para /\ \A j \in DOMAIN ligacoes \ {k} : replicas'[j] = replicas[j]
  BY <1>1, MudarReplica DEF Base
<1>4. \A j \in DOMAIN ligacoes :
        /\ Aberta(j) /\ replicas[j] = "espera" => replicas'[j] = "espera"
        /\ replicas'[j] = "espera" => replicas[j] = "espera"
  BY <1>1, <1>3
<1>. QED BY <1>2, <1>4, QuietoIgual DEF servidor, escuta, utilizador

\* main waits.
LEMMA QuietoEspera ==
  ASSUME Base, LigarFalha \/ ForaDasPosicoes \/ Ler \/ ReligarFalha \/ Acordar
  PROVE  Quieto
<1>1. UNCHANGED <<ligacoes, servidor, utilizador, buffer, replicas>>
  BY DEF LigarFalha, ForaDasPosicoes, Ler, ReligarFalha, Acordar
<1>2. estado' \in {0, estado}
  BY DEF LigarFalha, ForaDasPosicoes, Ler, ReligarFalha, Acordar
<1>. QED BY <1>1, <1>2, QuietoIgual DEF servidor, utilizador

\* main starts the connection.
LEMMA QuietoIniciar ==
  ASSUME Base, Iniciar \/ Reiniciar
  PROVE  Quieto
<1>1. /\ UNCHANGED <<ligacoes, servidor, utilizador, buffer>> /\ replicas' = ComReplica
      /\ principal \in {"iniciar", "reiniciar"}
      /\ principal = "reiniciar" => estado' = estado
  BY DEF Iniciar, Reiniciar
<1>2. /\ ligacoes # <<>> /\ replicas[Actual] = "nao"
      /\ estado = 0 => principal = "reiniciar"
      /\ Actual \in DOMAIN ligacoes
  BY <1>1, BasePrincipal DEF Principal
<1>3. \A j \in DOMAIN ligacoes :
        /\ replicas'[j] = replicas[j] \/ (j = Actual /\ replicas'[j] = "inicio")
  BY <1>1, <1>2, ComReplicaFaz
<1>4. \A j \in DOMAIN ligacoes :
        /\ Aberta(j) /\ replicas[j] = "espera" => replicas'[j] = "espera"
        /\ replicas'[j] = "espera" => replicas[j] = "espera"
  BY <1>2, <1>3
<1>. QED BY <1>1, <1>2, <1>4, QuietoIgual DEF servidor, utilizador

\* main connects: nothing is on the new connection.
LEMMA QuietoLigar ==
  ASSUME Base, Ligar \/ Religar
  PROVE  Quieto
<1>1. PICK s \in Servidores :
        /\ NovaLigacao(s) /\ UNCHANGED <<servidor, utilizador, buffer>>
        /\ principal = "ligar" \/ estado' = estado
  <2>1. Posicao \in Servidores
    BY BasePrincipal DEF Ligar, Religar, Posicao, Servidores, Principal
  <2>. QED BY <2>1 DEF Ligar, Religar
<1>2. /\ TypeOK /\ Actual \in Nat /\ DOMAIN ligacoes = 1..Actual
      /\ principal = "ligar" => ligacoes = <<>>
  BY BasePrincipal DEF Principal, Base
<1>3. /\ DOMAIN ligacoes' = 1..(Actual + 1) /\ Len(ligacoes') = Actual + 1
      /\ \A k \in DOMAIN ligacoes : ligacoes'[k] = ligacoes[k] /\ replicas'[k] = replicas[k]
      /\ replicas'[Actual + 1] = "nao"
  BY <1>1, <1>2, JuntarLigacao
<1>4. ligacoes'[Actual + 1].linhas = <<>> /\ ligacoes'[Actual + 1].respostas = <<>>
  <2>. DEFINE c == [servidor |-> s, aberta |-> TRUE, thread |-> "fila", eu |-> FALSE,
                    comando |-> 0, linhas |-> <<>>, respostas |-> <<>>]
  <2>1. c.linhas = <<>> /\ c.respostas = <<>>
    OBVIOUS
  <2>2. ligacoes'[Actual + 1] = c
    BY <1>1, <1>2, JuntarLigacao
  <2>. HIDE DEF c
  <2>. QED BY <2>1, <2>2
<1>5. Actual' = Actual + 1
  BY <1>3 DEF Actual
<1>6. \A k \in DOMAIN ligacoes : MesmasLinhas(k)
  BY <1>3 DEF MesmasLinhas, NaLinha
<1>7. \A k \in DOMAIN ligacoes' \ DOMAIN ligacoes : k = Actual + 1
  BY <1>2, <1>3
<1>. QED BY <1>1, <1>2, <1>3, <1>4, <1>5, <1>6, <1>7 DEF Quieto, servidor, utilizador

\* The announcement is neither a command nor data.
LEMMA QuietoAnunciar ==
  ASSUME Base, Anunciar
  PROVE  Quieto
<1>. DEFINE l == [que |-> "anuncio", id |-> 0]
<1>1. /\ principal = "anunciar" /\ Enviar(Actual, <<l>>)
      /\ UNCHANGED <<contador, servidor, utilizador, buffer, replicas>>
  BY DEF Anunciar
<1>2. Actual >= 2 /\ ligacoes # <<>> /\ Actual \in DOMAIN ligacoes
  BY <1>1, BasePrincipal DEF Principal
<1>3. /\ l \in Linha /\ l.que # "dados" /\ \A id : l # Dados(id) /\ l # Comando(id)
      /\ <<l>> \in Seq(Linha)
  BY ConstantesAssumption DEF Linha, Dados, Comando
<1>. HIDE DEF l
<1>4. /\ DOMAIN ligacoes' = DOMAIN ligacoes /\ Len(ligacoes') = Len(ligacoes)
      /\ \A j \in DOMAIN ligacoes :
           /\ ligacoes'[j].aberta = ligacoes[j].aberta
           /\ ligacoes'[j].thread = ligacoes[j].thread
           /\ ligacoes'[j].eu = ligacoes[j].eu
           /\ ligacoes'[j].comando = ligacoes[j].comando
           /\ ligacoes'[j].respostas = ligacoes[j].respostas
           /\ \/ ligacoes'[j].linhas = ligacoes[j].linhas
              \/ ligacoes'[j].linhas = ligacoes[j].linhas \o <<l>>
  BY <1>1, <1>2, <1>3, EnviarFaz DEF Base
<1>5. ASSUME NEW M \in Seq(Linha)
      PROVE  /\ Distintos(M) => Distintos(M \o <<l>>)
             /\ \A id \in Ids :
                  /\ Tem(M \o <<l>>, Dados(id)) <=> Tem(M, Dados(id))
                  /\ Tem(M, Comando(id)) => Tem(M \o <<l>>, Comando(id))
                  /\ Precede(M, id) => Precede(M \o <<l>>, id)
  BY <1>3, TemMais, PrecedeMais
<1>6. ASSUME NEW j \in DOMAIN ligacoes PROVE MesmasLinhas(j)
  <2>1. ligacoes[j].linhas \in Seq(Linha)
    BY LigacaoTipo DEF Base
  <2>2. CASE ligacoes'[j].linhas = ligacoes[j].linhas
    BY <2>2 DEF MesmasLinhas, NaLinha
  <2>3. CASE ligacoes'[j].linhas = ligacoes[j].linhas \o <<l>>
    BY <1>5, <2>1, <2>3 DEF MesmasLinhas, NaLinha
  <2>. QED BY <1>4, <2>2, <2>3
<1>7. Actual' = Actual
  BY <1>4 DEF Actual
<1>. QED BY <1>1, <1>2, <1>4, <1>6, <1>7 DEF Quieto, servidor, utilizador

\* The user logs in.
LEMMA QuietoEntrar ==
  ASSUME Base, Entrar
  PROVE  Quieto
<1>1. /\ menu.fase = "login" /\ estado = 1 /\ menu' = [menu EXCEPT !.fase = "livre"]
      /\ ligacoes' = [ligacoes EXCEPT ![Actual].eu = TRUE]
      /\ UNCHANGED <<recusados, pedidos, servidor, escuta, buffer, replicas>>
  BY DEF Entrar
<1>2. Actual \in DOMAIN ligacoes
  BY <1>1, BasePrincipal DEF Principal
<1>3. ligacoes[Actual] \in Ligacao
  BY <1>2, LigacaoTipo DEF Base
<1>. DEFINE r == [ligacoes[Actual] EXCEPT !.eu = TRUE]
<1>4. ligacoes' = [ligacoes EXCEPT ![Actual] = r]
  BY <1>1
<1>5. /\ r \in Ligacao /\ r.eu /\ r.aberta = ligacoes[Actual].aberta
      /\ r.linhas = ligacoes[Actual].linhas /\ r.respostas = ligacoes[Actual].respostas
      /\ r.thread = ligacoes[Actual].thread /\ r.comando = ligacoes[Actual].comando
  BY <1>3 DEF Ligacao
<1>. HIDE DEF r
<1>6. /\ Len(ligacoes') = Len(ligacoes)
      /\ DOMAIN ligacoes' = DOMAIN ligacoes /\ ligacoes'[Actual] = r
      /\ \A j \in DOMAIN ligacoes \ {Actual} : ligacoes'[j] = ligacoes[j]
  BY <1>2, <1>4, <1>5, MudarLigacao DEF Base
<1>7. menu'.fase = "livre"
  BY <1>1, BaseIgual DEF MenuTipo
<1>8. \A j \in DOMAIN ligacoes :
        /\ ligacoes'[j].aberta = ligacoes[j].aberta
        /\ ligacoes'[j].linhas = ligacoes[j].linhas
        /\ ligacoes'[j].respostas = ligacoes[j].respostas
        /\ ligacoes'[j].thread = ligacoes[j].thread
        /\ ligacoes'[j].comando = ligacoes[j].comando
        /\ ligacoes[j].eu => ligacoes'[j].eu
  BY <1>5, <1>6
<1>. QED BY <1>1, <1>6, <1>7, <1>8, QuietoIgual DEF servidor, escuta

\* A thread takes the connection.
LEMMA QuietoAceitar ==
  ASSUME Base, NEW k \in DOMAIN ligacoes, Aceitar(k)
  PROVE  Quieto
<1>1. /\ ligacoes' = [ligacoes EXCEPT ![k].thread = "pronta"]
      /\ ligacoes[k].thread = "fila"
      /\ UNCHANGED <<servidor, escuta, utilizador, buffer, replicas>>
  BY DEF Aceitar, Servida
<1>2. ligacoes[k] \in Ligacao
  BY LigacaoTipo DEF Base
<1>. DEFINE r == [ligacoes[k] EXCEPT !.thread = "pronta"]
<1>3. ligacoes' = [ligacoes EXCEPT ![k] = r]
  BY <1>1
<1>4. /\ r \in Ligacao /\ r.eu = ligacoes[k].eu /\ r.aberta = ligacoes[k].aberta
      /\ r.linhas = ligacoes[k].linhas /\ r.respostas = ligacoes[k].respostas
      /\ r.comando = ligacoes[k].comando
  BY <1>2 DEF Ligacao
<1>. HIDE DEF r
<1>5. /\ Len(ligacoes') = Len(ligacoes)
      /\ DOMAIN ligacoes' = DOMAIN ligacoes /\ ligacoes'[k] = r
      /\ \A j \in DOMAIN ligacoes \ {k} : ligacoes'[j] = ligacoes[j]
  BY <1>3, <1>4, MudarLigacao DEF Base
<1>6. \A j \in DOMAIN ligacoes :
        /\ ligacoes'[j].aberta = ligacoes[j].aberta
        /\ ligacoes'[j].linhas = ligacoes[j].linhas
        /\ ligacoes'[j].respostas = ligacoes[j].respostas
        /\ ligacoes'[j].comando = ligacoes[j].comando
        /\ ligacoes[j].eu => ligacoes'[j].eu
        /\ ligacoes[j].thread \in Mortas => ligacoes'[j].thread \in Mortas
  BY <1>1, <1>4, <1>5 DEF Mortas
<1>. QED BY <1>1, <1>5, <1>6, QuietoIgual DEF servidor, escuta, utilizador

\* No copy is made where no request moves.
LEMMA CopiasQuieto ==
  ASSUME Base, Copias, Quieto
  PROVE  Copias'
<1>1. MenosLinhas
  BY DEF Quieto, MesmasLinhas, MenosLinhas
<1>2. \A id \in Ids : Novo(id)' => Novo(id)
  BY DEF Quieto, Novo
<1>3. \A k \in DOMAIN ligacoes :
        ligacoes'[k].aberta => Aberta(k) /\ (replicas[k] = "espera" => replicas'[k] = "espera")
  BY DEF Quieto, Aberta
<1>4. menu'.fase = "espera" => menu' = menu
  BY DEF Quieto
<1>. QED BY <1>1, <1>2, <1>3, <1>4, CopiasMenos DEF Quieto

\* The command of a new request; nothing else is sent.
LEMMA EscolherFaz ==
  ASSUME Base, NEW t \in Tipos, Escolher(t)
  PROVE  /\ menu.fase = "livre" /\ estado # 0 /\ pedidos' = pedidos + 1
         /\ menu'.fase = "escrever" /\ menu'.id = pedidos + 1
         /\ pedidos \in Nat /\ pedidos + 1 \in Ids /\ Actual \in DOMAIN ligacoes
         /\ DOMAIN ligacoes' = DOMAIN ligacoes
         /\ UNCHANGED <<recusados, servidor, escuta, buffer, replicas>>
         /\ \A j \in DOMAIN ligacoes :
              /\ ligacoes'[j].aberta = ligacoes[j].aberta
              /\ ligacoes'[j].thread = ligacoes[j].thread
              /\ ligacoes'[j].eu = ligacoes[j].eu
              /\ ligacoes'[j].comando = ligacoes[j].comando
              /\ ligacoes'[j].respostas = ligacoes[j].respostas
              /\ MesmasLinhas(j)
         /\ Aberta(Actual) => Tem(ligacoes'[Actual].linhas, Comando(pedidos + 1))
<1>. DEFINE x == pedidos + 1
            l == Comando(x)
<1>1. /\ menu.fase = "livre" /\ estado # 0 /\ pedidos < MaxPedidos /\ pedidos' = x
      /\ menu' = [fase |-> "escrever", id |-> x, tipo |-> t, lig |-> 0]
      /\ Enviar(Actual, <<l>>)
      /\ UNCHANGED <<recusados, servidor, escuta, buffer, replicas>>
  BY DEF Escolher, Comando
<1>2. pedidos \in 0..MaxPedidos /\ ligacoes # <<>>
  BY <1>1, BaseIgual
<1>3. pedidos \in Nat /\ x \in Ids /\ Actual \in DOMAIN ligacoes
  BY <1>1, <1>2, Indices, ConstantesAssumption DEF Ids, Base
<1>4. menu'.fase = "escrever" /\ menu'.id = x
  BY <1>1
<1>. HIDE DEF x
<1>5. /\ l \in Linha /\ l.que # "dados" /\ \A id : l # Dados(id)
      /\ <<l>> \in Seq(Linha) /\ l = Comando(x)
  <2>1. l \in Linha
    BY <1>3, LinhaTipo
  <2>2. l.que # "dados" /\ \A id : l # Dados(id)
    BY DEF Dados, Comando
  <2>. HIDE DEF l
  <2>3. <<l>> \in Seq(Linha)
    BY <2>1
  <2>. QED BY <2>1, <2>2, <2>3 DEF l
<1>. HIDE DEF l
<1>6. /\ DOMAIN ligacoes' = DOMAIN ligacoes /\ Len(ligacoes') = Len(ligacoes)
      /\ \A j \in DOMAIN ligacoes :
           /\ ligacoes'[j].aberta = ligacoes[j].aberta
           /\ ligacoes'[j].thread = ligacoes[j].thread
           /\ ligacoes'[j].eu = ligacoes[j].eu
           /\ ligacoes'[j].comando = ligacoes[j].comando
           /\ ligacoes'[j].respostas = ligacoes[j].respostas
           /\ \/ ligacoes'[j].linhas = ligacoes[j].linhas
              \/ ligacoes'[j].linhas = ligacoes[j].linhas \o <<l>>
      /\ Aberta(Actual) => ligacoes'[Actual].linhas = ligacoes[Actual].linhas \o <<l>>
  BY <1>1, <1>3, <1>5, EnviarFaz DEF Base
<1>7. ASSUME NEW M \in Seq(Linha)
      PROVE  /\ Distintos(M) => Distintos(M \o <<l>>)
             /\ Tem(M \o <<l>>, l)
             /\ \A id \in Ids :
                  /\ Tem(M \o <<l>>, Dados(id)) <=> Tem(M, Dados(id))
                  /\ Tem(M, Comando(id)) => Tem(M \o <<l>>, Comando(id))
                  /\ Precede(M, id) => Precede(M \o <<l>>, id)
  BY <1>5, TemMais, PrecedeMais
<1>8. ASSUME NEW j \in DOMAIN ligacoes PROVE MesmasLinhas(j)
  <2>1. ligacoes[j].linhas \in Seq(Linha)
    BY LigacaoTipo DEF Base
  <2>2. CASE ligacoes'[j].linhas = ligacoes[j].linhas
    BY <2>2 DEF MesmasLinhas, NaLinha
  <2>3. CASE ligacoes'[j].linhas = ligacoes[j].linhas \o <<l>>
    BY <1>7, <2>1, <2>3 DEF MesmasLinhas, NaLinha
  <2>. QED BY <1>6, <2>2, <2>3
<1>9. Aberta(Actual) => Tem(ligacoes'[Actual].linhas, l)
  BY <1>3, <1>6, <1>7, LigacaoTipo DEF Base
<1>. QED BY <1>1, <1>3, <1>4, <1>5, <1>6, <1>8, <1>9 DEF x

\* The command alone is no copy.
LEMMA CopiasEscolher ==
  ASSUME Base, Copias, NEW t \in Tipos, Escolher(t)
  PROVE  Copias'
<1>1. /\ pedidos' = pedidos + 1 /\ menu'.fase = "escrever" /\ menu'.id = pedidos + 1
      /\ pedidos \in Nat /\ DOMAIN ligacoes' = DOMAIN ligacoes
      /\ UNCHANGED <<recusados, servidor, escuta, buffer, replicas>>
      /\ \A j \in DOMAIN ligacoes : /\ ligacoes'[j].aberta = ligacoes[j].aberta
                                    /\ MesmasLinhas(j)
  BY EscolherFaz
<1>2. MenosLinhas
  BY <1>1 DEF MesmasLinhas, MenosLinhas, servidor
<1>3. \A id \in Ids : Novo(id)' => Novo(id)
  BY <1>1, ConstantesAssumption DEF Novo, Ids
<1>4. \A k \in DOMAIN ligacoes :
        ligacoes'[k].aberta => Aberta(k) /\ (replicas[k] = "espera" => replicas'[k] = "espera")
  BY <1>1 DEF Aberta
<1>. QED BY <1>1, <1>2, <1>3, <1>4, CopiasMenos

\* What LerResposta does.
LEMMA LerRespostaFaz ==
  ASSUME Base, LerResposta
  PROVE  /\ menu.fase = "espera" /\ menu.lig \in DOMAIN ligacoes
         /\ ligacoes[menu.lig].respostas # <<>>
         /\ menu.id \in 1..pedidos /\ menu.id \in Ids
         /\ menu'.fase = "livre" /\ DOMAIN ligacoes' = DOMAIN ligacoes
         /\ UNCHANGED <<recusados, pedidos, servidor, escuta, buffer, replicas>>
         /\ \A j \in DOMAIN ligacoes :
              /\ ligacoes'[j].aberta = ligacoes[j].aberta
              /\ ligacoes'[j].thread = ligacoes[j].thread
              /\ ligacoes'[j].eu = ligacoes[j].eu
              /\ ligacoes'[j].comando = ligacoes[j].comando
              /\ ligacoes'[j].linhas = ligacoes[j].linhas
              /\ ligacoes'[j].respostas = IF j = menu.lig THEN Tail(ligacoes[j].respostas)
                                          ELSE ligacoes[j].respostas
         /\ Len(Tail(ligacoes[menu.lig].respostas)) = Len(ligacoes[menu.lig].respostas) - 1
         /\ Len(ligacoes[menu.lig].respostas) \in Nat
<1>1. /\ menu.fase = "espera" /\ Resposta(menu.lig)
      /\ ligacoes' = [ligacoes EXCEPT ![menu.lig].respostas = Tail(@)]
      /\ menu' = [menu EXCEPT !.fase = "livre"]
      /\ UNCHANGED <<recusados, pedidos, servidor, escuta, buffer, replicas>>
  BY DEF LerResposta
<1>2. menu \in MenuTipo /\ menu.lig \in DOMAIN ligacoes /\ menu.id \in 1..pedidos
  BY <1>1, BaseIgual
<1>3. menu'.fase = "livre"
  BY <1>1, <1>2 DEF MenuTipo
<1>4. menu.id \in Ids
  BY <1>2, BaseIgual, ConstantesAssumption DEF Ids
<1>5. /\ DOMAIN ligacoes' = DOMAIN ligacoes
      /\ \A j \in DOMAIN ligacoes :
              /\ ligacoes'[j].aberta = ligacoes[j].aberta
              /\ ligacoes'[j].thread = ligacoes[j].thread
              /\ ligacoes'[j].eu = ligacoes[j].eu
              /\ ligacoes'[j].comando = ligacoes[j].comando
              /\ ligacoes'[j].linhas = ligacoes[j].linhas
              /\ ligacoes'[j].respostas = IF j = menu.lig THEN Tail(ligacoes[j].respostas)
                                          ELSE ligacoes[j].respostas
      /\ Len(Tail(ligacoes[menu.lig].respostas)) = Len(ligacoes[menu.lig].respostas) - 1
      /\ Len(ligacoes[menu.lig].respostas) \in Nat
  BY <1>1, <1>2, TirarFaz DEF Base
<1>. QED BY <1>1, <1>2, <1>3, <1>4, <1>5 DEF Resposta

\* Reading an answer makes no copy.
LEMMA CopiasLerResposta ==
  ASSUME Base, Copias, LerResposta
  PROVE  Copias'
<1>1. /\ menu.fase = "espera" /\ menu'.fase = "livre" /\ DOMAIN ligacoes' = DOMAIN ligacoes
      /\ UNCHANGED <<recusados, pedidos, servidor, escuta, buffer, replicas>>
      /\ \A j \in DOMAIN ligacoes : /\ ligacoes'[j].aberta = ligacoes[j].aberta
                                    /\ ligacoes'[j].linhas = ligacoes[j].linhas
  BY LerRespostaFaz
<1>2. MenosLinhas
  BY <1>1 DEF MenosLinhas, servidor, NaLinha
<1>3. \A id \in Ids : Novo(id)' => Novo(id)
  BY <1>1 DEF Novo
<1>4. \A k \in DOMAIN ligacoes :
        ligacoes'[k].aberta => Aberta(k) /\ (replicas[k] = "espera" => replicas'[k] = "espera")
  BY <1>1 DEF Aberta
<1>. QED BY <1>1, <1>2, <1>3, <1>4, CopiasMenos

\* Nor does a stop.
LEMMA CopiasCair ==
  ASSUME Base, Copias, NEW s \in Servidores, CairServidor(s)
  PROVE  Copias'
<1>1. /\ UNCHANGED <<feitos, utilizador, buffer, replicas>> /\ DOMAIN ligacoes' = DOMAIN ligacoes
      /\ \A k \in DOMAIN ligacoes :
           /\ ligacoes'[k].linhas \in {<<>>, ligacoes[k].linhas}
           /\ ~ligacoes[k].aberta => ~ligacoes'[k].aberta
  BY CairFaz
<1>2. MenosLinhas
  BY <1>1, ListaVazia DEF MenosLinhas, NaLinha
<1>3. \A id \in Ids : Novo(id)' => Novo(id)
  BY <1>1 DEF Novo, utilizador
<1>4. \A k \in DOMAIN ligacoes :
        ligacoes'[k].aberta => Aberta(k) /\ (replicas[k] = "espera" => replicas'[k] = "espera")
  BY <1>1 DEF Aberta
<1>5. menu'.fase = "espera" => menu' = menu
  BY <1>1 DEF utilizador
<1>. QED BY <1>1, <1>2, <1>3, <1>4, <1>5, CopiasMenos

\* At first nothing was sent.
LEMMA CopiasInicial == Init => Copias
<1>. SUFFICES ASSUME Init PROVE Copias
  OBVIOUS
<1>1. /\ ligacoes = <<>> /\ buffer = <<>> /\ feitos = <<>> /\ menu.fase = "login"
  BY DEF Init
<1>2. DOMAIN << >> = {}
  OBVIOUS
<1>3. PICK f : f = [i \in {} |-> i]
  OBVIOUS
<1>4. f \in [DOMAIN feitos -> DOMAIN ligacoes]
  BY <1>1, <1>2, <1>3
<1>5. CopiasCom(f)
  BY <1>1, <1>2, <1>4
     DEF CopiasCom, UmaVez, Novos, NoBuffer, NoBufferUmaVez, UmaOuDepois, ComComandos
<1>. QED BY <1>5 DEF Copias, CopiasCom

-----------------------------------------------------------------------------
\* Primeira.

\* The first connection exists when any does.
LEMMA UmaExiste ==
  ASSUME Base'
  PROVE  ligacoes' # <<>> <=> 1 \in DOMAIN ligacoes'
<1>1. ligacoes' \in Seq(Ligacao)
  BY DEF Base, TypeOK
<1>. QED BY <1>1, LenProperties, EmptySeq

\* The copies of Copias that the proofs about answers need.
LEMMA CopiasDizem ==
  ASSUME Base, Copias
  PROVE  /\ \A k \in DOMAIN ligacoes : Distintos(ligacoes[k].linhas)
         /\ \A id \in Ids : Novo(id) =>
              ~NoBuffer(id) /\ \A k \in DOMAIN ligacoes : ~NaLinha(k, id)
         /\ menu.fase = "espera" =>
              /\ ~NoBuffer(menu.id) /\ menu.id \in Ids
              /\ \A k \in DOMAIN ligacoes : NaLinha(k, menu.id) => k = menu.lig
         /\ \A j \in DOMAIN buffer : \A k \in DOMAIN ligacoes :
              buffer[j].comandos /\ NaLinha(k, buffer[j].id) /\ Aberta(k) =>
                replicas[k] = "espera"
         /\ ComComandos => ligacoes # <<>> /\ 1 \in DOMAIN ligacoes /\ ~Aberta(1)
<1>1. PICK f : CopiasCom(f)
  BY DEF Copias
<1>2. \A k, id : NaLinha(k, id) => Levou(f, k, id)
  BY DEF Levou
<1>3. menu.fase = "espera" => menu.id \in Ids
  BY BaseIgual, ConstantesAssumption DEF Ids
<1>4. ligacoes # <<>> => 1 \in DOMAIN ligacoes
  BY Indices DEF Base
<1>. QED BY <1>1, <1>2, <1>3, <1>4 DEF CopiasCom, UmaVez, Novos, NoBufferUmaVez

\* The steps that put nothing on the first connection.
LEMMA PrimeiraMenos ==
  ASSUME Base, Copias, Primeira, Base', DOMAIN ligacoes \subseteq DOMAIN ligacoes',
         1 \in DOMAIN ligacoes =>
           /\ ligacoes'[1].respostas \in {<<>>, ligacoes[1].respostas}
           /\ \A id \in Ids : Tem(ligacoes'[1].linhas, Dados(id)) => NaLinha(1, id)
           /\ replicas'[1] = "espera" => replicas[1] = "espera" \/ ComComandos,
         1 \notin DOMAIN ligacoes /\ 1 \in DOMAIN ligacoes' =>
           ligacoes'[1].linhas = <<>> /\ ligacoes'[1].respostas = <<>> /\ replicas'[1] # "espera",
         menu' = menu \/ (~NaPrimeira /\ ~NaPrimeira'),
         ComComandos' => ComComandos,
         ligacoes # <<>> /\ (estado = 0 \/ Actual >= 2) => estado' = 0 \/ Actual' >= 2
  PROVE  Primeira'
<1>1. /\ ligacoes' # <<>> <=> 1 \in DOMAIN ligacoes'
      /\ ligacoes # <<>> <=> 1 \in DOMAIN ligacoes
      /\ ComComandos => ligacoes # <<>>
      /\ NaPrimeira' => NaPrimeira /\ menu'.id = menu.id
      /\ NaPrimeira => NaPrimeira'
  <2>1. TypeOK
    BY DEF Base
  <2>2. ligacoes # <<>> <=> 1 \in DOMAIN ligacoes
    BY <2>1, Indices
  <2>. QED BY <2>2, UmaExiste, CopiasDizem DEF NaPrimeira
<1>2. Len(<<>>) <= 1
  OBVIOUS
<1>3. ASSUME 1 \in DOMAIN ligacoes'
      PROVE  /\ ligacoes'[1].respostas # <<>> => NaPrimeira'
             /\ Len(ligacoes'[1].respostas) <= 1
             /\ \A id \in Ids : Tem(ligacoes'[1].linhas, Dados(id)) =>
                  NaPrimeira' /\ menu'.id = id /\ ligacoes'[1].respostas = <<>>
  <2>1. CASE 1 \in DOMAIN ligacoes
    BY <1>1, <1>2, <2>1 DEF Primeira
  <2>2. CASE 1 \notin DOMAIN ligacoes
    BY <1>2, <1>3, <2>2, ListaVazia
  <2>. QED BY <2>1, <2>2
<1>4. ASSUME ComComandos' \/ (ligacoes' # <<>> /\ replicas'[1] = "espera")
      PROVE  ~NaPrimeira' /\ (estado' = 0 \/ Actual' >= 2)
  <2>1. ligacoes # <<>> /\ (ComComandos \/ replicas[1] = "espera")
    BY <1>1, <1>4
  <2>2. ~NaPrimeira /\ (estado = 0 \/ Actual >= 2)
    BY <2>1 DEF Primeira
  <2>. QED BY <1>1, <2>1, <2>2
<1>. QED BY <1>1, <1>3, <1>4 DEF Primeira, NaLinha

\* Such are those that move no request,
LEMMA PrimeiraQuieto ==
  ASSUME Base, Copias, Primeira, Base', Quieto
  PROVE  Primeira'
<1>1. ComComandos' => ComComandos
  BY DEF Quieto, ComComandos
<1>2. menu' = menu \/ (~NaPrimeira /\ ~NaPrimeira')
  BY DEF Quieto, NaPrimeira
<1>. QED BY <1>1, <1>2, PrimeiraMenos DEF Quieto, MesmasLinhas

\* the choice of a request,
LEMMA PrimeiraEscolher ==
  ASSUME Base, Copias, Primeira, Base', NEW t \in Tipos, Escolher(t)
  PROVE  Primeira'
<1>1. /\ menu.fase = "livre" /\ menu'.fase = "escrever"
      /\ DOMAIN ligacoes' = DOMAIN ligacoes
      /\ UNCHANGED <<recusados, servidor, escuta, buffer, replicas>>
      /\ \A j \in DOMAIN ligacoes :
           ligacoes'[j].respostas = ligacoes[j].respostas /\ MesmasLinhas(j)
  BY EscolherFaz
<1>2. Actual' = Actual
  <2>1. /\ ligacoes \in Seq(Ligacao) /\ ligacoes' \in Seq(Ligacao)
    BY DEF Base, TypeOK
  <2>. QED BY <1>1, <2>1, LenProperties DEF Actual
<1>3. ComComandos' => ComComandos
  BY <1>1 DEF ComComandos
<1>4. menu' = menu \/ (~NaPrimeira /\ ~NaPrimeira')
  BY <1>1 DEF NaPrimeira
<1>. QED BY <1>1, <1>2, <1>3, <1>4, PrimeiraMenos DEF escuta, MesmasLinhas

\* and a stop.
LEMMA PrimeiraCair ==
  ASSUME Base, Copias, Primeira, Base', NEW s \in Servidores, CairServidor(s)
  PROVE  Primeira'
<1>1. /\ UNCHANGED <<feitos, escuta, utilizador, buffer, replicas>>
      /\ DOMAIN ligacoes' = DOMAIN ligacoes /\ Len(ligacoes') = Len(ligacoes)
      /\ \A k \in DOMAIN ligacoes :
           /\ ligacoes'[k].respostas \in {<<>>, ligacoes[k].respostas}
           /\ ligacoes'[k].linhas \in {<<>>, ligacoes[k].linhas}
  BY CairFaz
<1>2. \A k \in DOMAIN ligacoes, id \in Ids :
        Tem(ligacoes'[k].linhas, Dados(id)) => NaLinha(k, id)
  BY <1>1, ListaVazia DEF NaLinha
<1>3. Actual' = Actual /\ menu' = menu /\ estado' = estado /\ (ComComandos' => ComComandos)
  BY <1>1 DEF Actual, utilizador, escuta, ComComandos
<1>. QED BY <1>1, <1>2, <1>3, PrimeiraMenos

\* The answer that is taken from the first connection is the menu's, and the only.
LEMMA PrimeiraLerResposta ==
  ASSUME Base, Copias, Primeira, Base', LerResposta
  PROVE  Primeira'
<1>1. /\ menu.fase = "espera" /\ menu.lig \in DOMAIN ligacoes
      /\ ligacoes[menu.lig].respostas # <<>>
      /\ menu'.fase = "livre" /\ DOMAIN ligacoes' = DOMAIN ligacoes
      /\ UNCHANGED <<recusados, pedidos, servidor, escuta, buffer, replicas>>
      /\ \A j \in DOMAIN ligacoes :
           /\ ligacoes'[j].linhas = ligacoes[j].linhas
           /\ ligacoes'[j].respostas = IF j = menu.lig THEN Tail(ligacoes[j].respostas)
                                       ELSE ligacoes[j].respostas
      /\ Len(Tail(ligacoes[menu.lig].respostas)) = Len(ligacoes[menu.lig].respostas) - 1
      /\ Len(ligacoes[menu.lig].respostas) \in Nat
  BY LerRespostaFaz
<1>2. TypeOK /\ TypeOK' /\ ~NaPrimeira'
  BY <1>1 DEF Base, NaPrimeira
<1>3. Actual' = Actual /\ 1 \in DOMAIN ligacoes /\ ligacoes # <<>>
  <2>1. /\ ligacoes \in Seq(Ligacao) /\ ligacoes' \in Seq(Ligacao)
    BY <1>2 DEF TypeOK
  <2>2. Actual' = Actual
    BY <1>1, <2>1, LenProperties DEF Actual
  <2>3. ligacoes # <<>>
    BY <1>1, BaseIgual
  <2>. QED BY <1>2, <2>2, <2>3, Indices
<1>4. ligacoes'[1].respostas = <<>> /\ \A id \in Ids : ~NaLinha(1, id)
  <2>1. CASE menu.lig = 1
    <3>1. NaPrimeira /\ Len(ligacoes[1].respostas) <= 1 /\ \A id \in Ids : ~NaLinha(1, id)
      BY <1>1, <1>3, <2>1 DEF Primeira, NaPrimeira
    <3>2. ligacoes[1].respostas \in Seq(Ids) /\ ligacoes[1].respostas # <<>>
      BY <1>1, <1>2, <1>3, <2>1, LigacaoTipo
    <3>3. Tail(ligacoes[1].respostas) \in Seq(Ids) /\ Len(Tail(ligacoes[1].respostas)) <= 0
      BY <1>1, <2>1, <3>1, <3>2, HeadTailProperties
    <3>4. Tail(ligacoes[1].respostas) = <<>>
      BY <3>3, EmptySeq, LenProperties
    <3>. QED BY <1>1, <1>3, <2>1, <3>1, <3>4
  <2>2. CASE menu.lig # 1
    BY <1>1, <1>3, <2>2 DEF Primeira, NaPrimeira
  <2>. QED BY <2>1, <2>2
<1>5. Len(ligacoes'[1].respostas) <= 1 /\ \A id \in Ids : ~NaLinha(1, id)'
  BY <1>1, <1>3, <1>4 DEF NaLinha
<1>6. ComComandos' \/ (ligacoes' # <<>> /\ replicas'[1] = "espera") => estado' = 0 \/ Actual' >= 2
  <2>1. ComComandos' => ComComandos
    BY <1>1 DEF ComComandos
  <2>. QED BY <1>1, <1>3, <2>1 DEF Primeira, escuta
<1>. QED BY <1>2, <1>4, <1>5, <1>6 DEF Primeira

\* What is kept may be sent again: the first connection is closed then.
LEMMA PrimeiraGuardar ==
  ASSUME Base, Copias, Primeira, Base', GuardarDados \/ RespostaFalha
  PROVE  Primeira'
<1>1. /\ UNCHANGED <<pedidos, ligacoes, servidor, escuta, replicas>>
      /\ menu'.fase \in {"livre", "morto"}
      /\ \/ /\ menu.fase = "escrever" /\ estado = 0 /\ Guardar(TRUE)
         \/ menu.fase = "espera" /\ SemResposta(menu.lig) /\ Guardar(FALSE)
         \/ menu.fase = "espera" /\ SemResposta(menu.lig) /\ UNCHANGED buffer
  <2>1. menu \in MenuTipo
    BY BaseIgual
  <2>. QED BY <2>1 DEF GuardarDados, RespostaFalha, MenuTipo
<1>2. ~NaPrimeira'
  BY <1>1 DEF NaPrimeira
<1>3. menu.id \in Ids
  <2>1. menu.id \in 1..pedidos /\ pedidos \in 0..MaxPedidos
    BY <1>1, BaseIgual
  <2>. QED BY <2>1, ConstantesAssumption DEF Ids
<1>4. ASSUME ligacoes # <<>>
      PROVE  /\ ligacoes[1].respostas = <<>> /\ Len(ligacoes[1].respostas) <= 1
             /\ \A id \in Ids : ~NaLinha(1, id)
  <2>1. 1 \in DOMAIN ligacoes /\ Len(<<>>) <= 1
    BY <1>4, Indices DEF Base
  <2>2. CASE NaPrimeira
    <3>1. ligacoes[1].respostas = <<>> /\ ~ligacoes[1].aberta
      BY <1>1, <2>2 DEF NaPrimeira, SemResposta, Resposta, Aberta
    <3>2. ligacoes[1].linhas = <<>>
      BY <2>1, <3>1, BaseIgual
    <3>. QED BY <2>1, <3>1, <3>2, ListaVazia DEF NaLinha
  <2>3. CASE ~NaPrimeira
    BY <1>4, <2>1, <2>3 DEF Primeira
  <2>. QED BY <2>2, <2>3
<1>5. ComComandos' => ComComandos \/ estado = 0
  <2>1. ASSUME NEW c \in BOOLEAN, Guardar(c)
        PROVE  ComComandos' => ComComandos \/ c
    <3>1. DOMAIN buffer = 1..Len(buffer) /\ Len(buffer) \in Nat
      BY BufferTipo DEF Base
    <3>. QED BY <1>3, <2>1, <3>1, GuardarFaz DEF Base, ComComandos
  <2>2. UNCHANGED buffer => (ComComandos' => ComComandos)
    BY DEF ComComandos
  <2>. QED BY <1>1, <2>1, <2>2
<1>6. ComComandos' \/ (ligacoes' # <<>> /\ replicas'[1] = "espera") => estado' = 0 \/ Actual' >= 2
  BY <1>1, <1>5 DEF Primeira, escuta, Actual
<1>. QED BY <1>1, <1>2, <1>4, <1>6 DEF Primeira, NaLinha

\* The data of a request go to the first connection when there is no other, and
\* nothing is to be sent again.
LEMMA PrimeiraEnviarDados ==
  ASSUME Base, Copias, Primeira, Base', EnviarDados
  PROVE  Primeira'
<1>1. PICK x \in Ids, k \in DOMAIN ligacoes :
        /\ x = menu.id /\ k = Actual
        /\ menu.fase = "escrever" /\ estado # 0 /\ Enviar(k, <<Dados(x)>>)
        /\ menu'.fase = "espera" /\ menu'.id = x /\ menu'.lig = k
        /\ UNCHANGED <<recusados, pedidos, servidor, escuta, buffer, replicas>>
  BY EnviarDadosFaz
<1>2. /\ DOMAIN ligacoes' = DOMAIN ligacoes
      /\ \A j \in DOMAIN ligacoes :
           /\ ligacoes'[j].respostas = ligacoes[j].respostas
           /\ \A y \in Ids : Tem(ligacoes'[j].linhas, Dados(y)) <=>
                NaLinha(j, y) \/ (j = k /\ y = x /\ Aberta(k))
  BY <1>1, EnvioFaz DEF DeEnvio
<1>3. ligacoes # <<>> /\ 1 \in DOMAIN ligacoes /\ Actual \in Nat /\ Actual' = Actual
  <2>1. TypeOK /\ TypeOK'
    BY DEF Base
  <2>2. ligacoes # <<>> /\ 1 \in DOMAIN ligacoes /\ Actual \in Nat
    BY <1>1, <2>1, Indices
  <2>3. ligacoes \in Seq(Ligacao) /\ ligacoes' \in Seq(Ligacao)
    BY <2>1 DEF TypeOK
  <2>. QED BY <1>2, <2>2, <2>3, LenProperties DEF Actual
<1>4. /\ ligacoes[1].respostas = <<>> /\ Len(ligacoes[1].respostas) <= 1
      /\ \A y \in Ids : ~NaLinha(1, y)
  BY <1>1, <1>3 DEF Primeira, NaPrimeira
<1>5. \A y \in Ids : Tem(ligacoes'[1].linhas, Dados(y)) => k = 1 /\ y = x
  BY <1>2, <1>3, <1>4
<1>6. ComComandos' \/ (ligacoes' # <<>> /\ replicas'[1] = "espera") => Actual >= 2
  <2>1. ComComandos' => ComComandos
    BY <1>1 DEF ComComandos
  <2>. QED BY <1>1, <1>3, <2>1 DEF Primeira
<1>7. ComComandos' \/ (ligacoes' # <<>> /\ replicas'[1] = "espera") =>
        ~NaPrimeira' /\ (estado' = 0 \/ Actual' >= 2)
  BY <1>1, <1>3, <1>6 DEF NaPrimeira
<1>8. k = 1 => NaPrimeira'
  BY <1>1 DEF NaPrimeira
<1>. QED BY <1>1, <1>2, <1>3, <1>4, <1>5, <1>7, <1>8 DEF Primeira, NaLinha

\* What AtenderLinha does to the lines of requests.
LEMMA AtenderDados ==
  ASSUME Base, Copias, NEW k \in DOMAIN ligacoes, AtenderLinha(k)
  PROVE  LET l == Head(ligacoes[k].linhas) IN
         /\ DOMAIN ligacoes' = DOMAIN ligacoes /\ Actual' = Actual
         /\ \A j \in DOMAIN ligacoes \ {k} : ligacoes'[j] = ligacoes[j]
         /\ Aberta(k) /\ ligacoes'[k].aberta /\ ligacoes[k].thread = "pronta"
         /\ FazPedido(k, l) \/ NaoFaz(k, l)
         /\ l.que = "dados" => l.id \in Ids /\ l = Dados(l.id) /\ NaLinha(k, l.id)
         /\ \A y \in Ids :
              /\ Tem(ligacoes'[k].linhas, Dados(y)) <=> NaLinha(k, y) /\ l # Dados(y)
              /\ Tem(ligacoes[k].linhas, Comando(y)) =>
                   l = Comando(y) \/ Tem(ligacoes'[k].linhas, Comando(y))
              /\ Precede(ligacoes[k].linhas, y) =>
                   l # Dados(y) /\ (l = Comando(y) \/ Precede(ligacoes'[k].linhas, y))
         /\ UNCHANGED <<papel, reiniciado, quedas, escuta, utilizador, buffer, replicas>>
<1>. DEFINE L == ligacoes[k].linhas
            l == Head(L)
<1>1. /\ DOMAIN ligacoes' = DOMAIN ligacoes /\ Len(ligacoes') = Len(ligacoes)
      /\ \A j \in DOMAIN ligacoes \ {k} : ligacoes'[j] = ligacoes[j]
      /\ Aberta(k) /\ ligacoes[k].thread = "pronta"
      /\ L # <<>> /\ ligacoes'[k].linhas = Tail(L)
      /\ ligacoes'[k].aberta = ligacoes[k].aberta
      /\ FazPedido(k, l) \/ NaoFaz(k, l)
  BY AtenderFaz
<1>2. UNCHANGED <<papel, reiniciado, quedas, escuta, utilizador, buffer, replicas>>
  BY DEF AtenderLinha
<1>3. /\ L \in Seq(Linha) /\ \A i \in DOMAIN L : L[i].que = "dados" => L[i].id \in Ids
      /\ Distintos(L) /\ \A y : NaLinha(k, y) <=> Tem(L, Dados(y))
  BY LigacaoTipo, BaseIgual, CopiasDizem DEF Base, NaLinha
<1>. HIDE DEF L
<1>4. /\ l \in Linha /\ Tem(L, l)
      /\ \A x : Tem(Tail(L), x) => Tem(L, x)
      /\ \A x : Tem(L, x) => x = l \/ Tem(Tail(L), x)
      /\ l.que = "dados" => ~Tem(Tail(L), l)
  BY <1>1, <1>3, TemResto
<1>5. \A y \in Ids : Precede(L, y) => l # Dados(y) /\ (l = Comando(y) \/ Precede(Tail(L), y))
  BY <1>1, <1>3, PrecedeResto
<1>6. l.que = "dados" => l.id \in Ids /\ l = Dados(l.id)
  <2>1. l.que = "dados" => l.id \in Ids
    BY <1>3, <1>4 DEF Tem
  <2>. QED BY <1>4, <2>1 DEF Linha, Dados
<1>7. \A y : Dados(y).que = "dados"
  BY DEF Dados
<1>. HIDE DEF l
<1>8. \A y \in Ids :
        /\ Tem(ligacoes'[k].linhas, Dados(y)) <=> NaLinha(k, y) /\ l # Dados(y)
        /\ Tem(L, Comando(y)) => l = Comando(y) \/ Tem(ligacoes'[k].linhas, Comando(y))
  BY <1>1, <1>3, <1>4, <1>7
<1>9. l.que = "dados" => NaLinha(k, l.id)
  BY <1>3, <1>4, <1>6
<1>10. Actual' = Actual /\ ligacoes'[k].aberta
  BY <1>1 DEF Actual, Aberta
<1>. QED BY <1>1, <1>2, <1>5, <1>6, <1>8, <1>9, <1>10 DEF L, l

\* An answer comes on the first connection for the request that the menu waits for.
LEMMA PrimeiraAtender ==
  ASSUME Base, Copias, Primeira, Base', NEW k \in DOMAIN ligacoes, AtenderLinha(k)
  PROVE  Primeira'
<1>1. PICK l :
        /\ DOMAIN ligacoes' = DOMAIN ligacoes /\ Actual' = Actual
        /\ \A j \in DOMAIN ligacoes \ {k} : ligacoes'[j] = ligacoes[j]
        /\ FazPedido(k, l) \/ NaoFaz(k, l)
        /\ l.que = "dados" => l.id \in Ids /\ l = Dados(l.id) /\ NaLinha(k, l.id)
        /\ \A y \in Ids :
             Tem(ligacoes'[k].linhas, Dados(y)) <=> NaLinha(k, y) /\ l # Dados(y)
        /\ UNCHANGED <<papel, reiniciado, quedas, escuta, utilizador, buffer, replicas>>
  BY AtenderDados
<1>2. menu' = menu /\ estado' = estado /\ (ComComandos' <=> ComComandos) /\ replicas' = replicas
  BY <1>1 DEF utilizador, escuta, ComComandos
<1>3. CASE k # 1 \/ NaoFaz(k, l)
  <2>1. 1 \in DOMAIN ligacoes =>
          /\ ligacoes'[1].respostas = ligacoes[1].respostas
          /\ \A id \in Ids : Tem(ligacoes'[1].linhas, Dados(id)) => NaLinha(1, id)
    BY <1>1, <1>3 DEF NaLinha, NaoFaz
  <2>. QED BY <1>1, <1>2, <2>1, PrimeiraMenos
<1>4. CASE k = 1 /\ FazPedido(1, l)
  <2>1. /\ l.id \in Ids /\ l = Dados(l.id) /\ NaLinha(1, l.id)
        /\ ligacoes'[1].respostas = Append(ligacoes[1].respostas, l.id)
    BY <1>1, <1>4 DEF FazPedido
  <2>2. 1 \in DOMAIN ligacoes /\ ligacoes # <<>>
    BY <1>4, Indices DEF Base
  <2>3. NaPrimeira /\ menu.id = l.id /\ ligacoes[1].respostas = <<>>
    BY <2>1, <2>2 DEF Primeira
  <2>4. Len(ligacoes'[1].respostas) <= 1
    BY <2>1, <2>3
  <2>5. \A y \in Ids : ~Tem(ligacoes'[1].linhas, Dados(y))
    BY <1>1, <1>4, <2>1, <2>2, <2>3 DEF Primeira
  <2>6. ~(ComComandos' \/ (ligacoes' # <<>> /\ replicas'[1] = "espera"))
    BY <1>2, <2>2, <2>3 DEF Primeira
  <2>7. NaPrimeira'
    BY <1>2, <2>3 DEF NaPrimeira
  <2>. QED BY <2>4, <2>5, <2>6, <2>7 DEF Primeira, NaLinha
<1>. QED BY <1>1, <1>3, <1>4

\* Buffer threads send when the first connection is closed.
LEMMA PrimeiraReplicaEnvia ==
  ASSUME Base, Copias, Primeira, Base', NEW k \in DOMAIN ligacoes, ReplicaEnvia(k)
  PROVE  Primeira'
<1>1. PICK x, L :
        /\ x \in Ids /\ ComComandos /\ DeEnvio(L, x) /\ Enviar(k, L)
        /\ UNCHANGED <<servidor, escuta, utilizador, buffer>>
  BY ReplicaEnviaFaz
<1>2. /\ DOMAIN ligacoes' = DOMAIN ligacoes
      /\ \A j \in DOMAIN ligacoes :
           /\ ligacoes'[j].respostas = ligacoes[j].respostas
           /\ \A y \in Ids : Tem(ligacoes'[j].linhas, Dados(y)) <=>
                NaLinha(j, y) \/ (j = k /\ y = x /\ Aberta(k))
  BY <1>1, EnvioFaz
<1>3. 1 \in DOMAIN ligacoes /\ ~Aberta(1)
  BY <1>1, CopiasDizem
<1>4. Actual' = Actual
  <2>1. ligacoes \in Seq(Ligacao) /\ ligacoes' \in Seq(Ligacao)
    BY DEF Base, TypeOK
  <2>. QED BY <1>2, <2>1, LenProperties DEF Actual
<1>5. \A y \in Ids : Tem(ligacoes'[1].linhas, Dados(y)) => NaLinha(1, y)
  BY <1>2, <1>3
<1>6. menu' = menu /\ estado' = estado
  BY <1>1 DEF utilizador, escuta
<1>. QED BY <1>1, <1>2, <1>3, <1>4, <1>5, <1>6, PrimeiraMenos

\* What ReplicaResposta does.
LEMMA ReplicaRespostaFaz ==
  ASSUME Base, NEW k \in DOMAIN ligacoes, ReplicaResposta(k)
  PROVE  /\ ligacoes[k].respostas # <<>> /\ replicas[k] = "espera" /\ replicas'[k] = "dormir"
         /\ \A j \in DOMAIN ligacoes \ {k} : replicas'[j] = replicas[j]
         /\ DOMAIN ligacoes' = DOMAIN ligacoes /\ Actual' = Actual
         /\ \A j \in DOMAIN ligacoes :
              /\ ligacoes'[j].aberta = ligacoes[j].aberta
              /\ ligacoes'[j].thread = ligacoes[j].thread
              /\ ligacoes'[j].eu = ligacoes[j].eu
              /\ ligacoes'[j].comando = ligacoes[j].comando
              /\ ligacoes'[j].linhas = ligacoes[j].linhas
              /\ j # k => ligacoes'[j].respostas = ligacoes[j].respostas
         /\ buffer' = Retirar /\ (ComComandos' => ComComandos)
         /\ \A id : NoBuffer(id) => NoBuffer(id)' \/ (buffer # <<>> /\ id = Head(buffer).id)
         /\ UNCHANGED <<servidor, escuta, utilizador>>
<1>1. /\ Resposta(k) /\ replicas[k] = "espera" /\ replicas' = [replicas EXCEPT ![k] = "dormir"]
      /\ ligacoes' = [ligacoes EXCEPT ![k].respostas = Tail(@)]
      /\ buffer' = Retirar /\ UNCHANGED <<servidor, escuta, utilizador>>
  BY DEF ReplicaResposta, Replica
<1>2. /\ DOMAIN ligacoes' = DOMAIN ligacoes /\ Len(ligacoes') = Len(ligacoes)
      /\ \A j \in DOMAIN ligacoes :
           /\ ligacoes'[j].aberta = ligacoes[j].aberta
           /\ ligacoes'[j].thread = ligacoes[j].thread
           /\ ligacoes'[j].eu = ligacoes[j].eu
           /\ ligacoes'[j].comando = ligacoes[j].comando
           /\ ligacoes'[j].linhas = ligacoes[j].linhas
           /\ j # k => ligacoes'[j].respostas = ligacoes[j].respostas
  BY <1>1, TirarFaz DEF Base
<1>3. replicas'[k] = "dormir" /\ \A j \in DOMAIN ligacoes \ {k} : replicas'[j] = replicas[j]
  BY <1>1, MudarReplica DEF Base, Fases
<1>4. /\ DOMAIN buffer = 1..Len(buffer) /\ Len(buffer) \in Nat
      /\ buffer # <<>> <=> Len(buffer) > 0
      /\ buffer # <<>> => Head(buffer) = buffer[1]
  BY BufferTipo DEF Base
<1>5. CASE buffer = <<>>
  <2>1. buffer' = buffer
    BY <1>1, <1>5, RetirarFaz DEF Base
  <2>. QED BY <1>1, <1>2, <1>3, <1>5, <2>1 DEF Resposta, Actual, ComComandos, NoBuffer
<1>6. CASE buffer # <<>>
  <2>1. /\ DOMAIN buffer' = 1..(Len(buffer) - 1)
        /\ \A j \in 1..(Len(buffer) - 1) : buffer'[j] = buffer[j + 1]
    BY <1>1, <1>6, RetirarFaz DEF Base
  <2>2. ComComandos' => ComComandos
    BY <1>4, <2>1 DEF ComComandos
  <2>3. ASSUME NEW id, NEW i \in DOMAIN buffer, buffer[i].id = id, i # 1
        PROVE  NoBuffer(id)'
    <3>1. i - 1 \in DOMAIN buffer' /\ buffer'[i - 1] = buffer[i]
      BY <1>4, <2>1, <2>3
    <3>. QED BY <2>3, <3>1 DEF NoBuffer
  <2>4. \A id : NoBuffer(id) => NoBuffer(id)' \/ id = Head(buffer).id
    BY <1>4, <1>6, <2>3 DEF NoBuffer
  <2>. QED BY <1>1, <1>2, <1>3, <1>6, <2>2, <2>4 DEF Resposta, Actual
<1>. QED BY <1>5, <1>6

\* No Buffer thread reads answers of the first connection.
LEMMA PrimeiraReplicaResposta ==
  ASSUME Base, Copias, Primeira, Base', NEW k \in DOMAIN ligacoes, ReplicaResposta(k)
  PROVE  Primeira' /\ k # 1
<1>1. /\ ligacoes[k].respostas # <<>> /\ replicas[k] = "espera"
      /\ replicas'[k] = "dormir"
      /\ \A j \in DOMAIN ligacoes \ {k} : replicas'[j] = replicas[j]
      /\ DOMAIN ligacoes' = DOMAIN ligacoes /\ Actual' = Actual
      /\ \A j \in DOMAIN ligacoes :
           /\ ligacoes'[j].linhas = ligacoes[j].linhas
           /\ j # k => ligacoes'[j].respostas = ligacoes[j].respostas
      /\ ComComandos' => ComComandos
      /\ UNCHANGED <<servidor, escuta, utilizador>>
  BY ReplicaRespostaFaz
<1>2. ligacoes # <<>>
  BY Indices DEF Base
<1>3. k # 1
  BY <1>1, <1>2 DEF Primeira
<1>4. menu' = menu /\ estado' = estado
  BY <1>1 DEF utilizador, escuta
<1>. QED BY <1>1, <1>3, <1>4, PrimeiraMenos DEF NaLinha

\* At first there is no connection.
LEMMA PrimeiraInicial == Init => Primeira
<1>. SUFFICES ASSUME Init PROVE Primeira
  OBVIOUS
<1>1. ligacoes = <<>> /\ buffer = <<>>
  BY DEF Init
<1>2. DOMAIN << >> = {}
  OBVIOUS
<1>. QED BY <1>1, <1>2 DEF Primeira, ComComandos

-----------------------------------------------------------------------------
\* Segunda.  When one server stopped at most, there is one connection or two, and
\* the second is open.

\* What one stop at most leaves of the connections.
LEMMA UmaQueda ==
  ASSUME Base, quedas <= 1
  PROVE  /\ Actual \in {0, 1, 2} /\ DOMAIN ligacoes = 1..Actual
         /\ \A k \in DOMAIN ligacoes : (k = 1 \/ k = 2) /\ (k = 2 => Actual = 2 /\ Aberta(2))
         /\ \A k \in DOMAIN ligacoes : Aberta(k) => k = Actual
         /\ Actual = 2 => 1 \in DOMAIN ligacoes /\ 2 \in DOMAIN ligacoes /\ ~Aberta(1)
         /\ 1..pedidos \subseteq Ids /\ pedidos \in Nat
<1>1. /\ Actual \in Nat /\ DOMAIN ligacoes = 1..Actual
      /\ \A k \in DOMAIN ligacoes : k # Actual => ~Aberta(k)
      /\ Actual <= quedas + 1 /\ (Actual > 0 /\ ~Aberta(Actual) => Actual <= quedas)
      /\ quedas \in 0..MaxQuedas
  BY BasePrincipal
<1>2. Actual <= 2 /\ (Actual = 2 => Aberta(2))
  BY <1>1, ConstantesAssumption
<1>3. 1..pedidos \subseteq Ids /\ pedidos \in Nat
  <2>1. pedidos \in 0..MaxPedidos
    BY BaseIgual
  <2>. QED BY <2>1, ConstantesAssumption DEF Ids
<1>4. Actual \in {0, 1, 2}
  BY <1>1, <1>2
<1>. QED BY <1>1, <1>2, <1>3, <1>4

\* Where no request moves, nobody comes to wait in vain.
LEMMA SegundaQuieto ==
  ASSUME Base, Copias, Segunda, Quieto
  PROVE  Segunda'
<1>. SUFFICES ASSUME quedas <= 1, SemComandos, MenuEspera, Actual = 2 => NaSegunda,
                     \A id \in 1..pedidos : NaLista(id)
              PROVE  /\ SemComandos' /\ MenuEspera' /\ (Actual' = 2 => NaSegunda')
                     /\ \A id \in 1..pedidos' : NaLista(id)'
  BY BasePrincipal DEF Segunda, Quieto
<1>1. /\ DOMAIN ligacoes \subseteq DOMAIN ligacoes' /\ Actual' \in {Actual, Actual + 1}
      /\ Actual \in {0, 1, 2} /\ DOMAIN ligacoes = 1..Actual
      /\ 1..pedidos \subseteq Ids
      /\ UNCHANGED <<feitos, buffer, pedidos, recusados, quedas>>
      /\ menu' = menu \/ (menu.fase = "login" /\ menu'.fase = "livre")
  BY UmaQueda DEF Quieto
<1>2. /\ ComComandos' <=> ComComandos
      /\ ComComandos => ligacoes # <<>>
      /\ \A id : (Feito(id)' <=> Feito(id)) /\ (NoBuffer(id)' <=> NoBuffer(id))
      /\ buffer # <<>> => Head(buffer).id \in Ids
  BY <1>1, CopiasDizem, BufferTipo DEF ComComandos, Feito, NoBuffer, Base
<1>3. \A k \in DOMAIN ligacoes :
        /\ \A id \in Ids : Tem(ligacoes'[k].linhas, Dados(id)) <=> NaLinha(k, id)
        /\ Calada(k) => Calada(k)'
  BY DEF Quieto, MesmasLinhas, Calada, Aberta
<1>4. SemComandos'
  <2>1. Actual = 0 => ligacoes = <<>>
    BY Indices DEF Base
  <2>. QED BY <1>1, <1>2, <2>1 DEF SemComandos
<1>5. MenuEspera'
  <2>1. ASSUME menu'.fase = "espera"
        PROVE  Feito(menu.id)' \/ NaLinha(menu.lig, menu.id)' \/ Calada(menu.lig)'
    <3>1. menu' = menu /\ menu.fase = "espera" /\ menu.lig \in DOMAIN ligacoes /\ menu.id \in Ids
      BY <1>1, <2>1, BaseIgual
    <3>. QED BY <1>1, <1>2, <1>3, <3>1 DEF MenuEspera, NaLinha, Feito, Calada, Aberta
  <2>. QED BY <2>1 DEF MenuEspera
<1>6. ASSUME Actual = 2 PROVE NaSegunda'
  <2>1. /\ NaSegunda /\ 2 \in DOMAIN ligacoes
        /\ ligacoes'[2].respostas = ligacoes[2].respostas
        /\ ligacoes'[2].comando = ligacoes[2].comando
        /\ ligacoes[2].eu => ligacoes'[2].eu
        /\ ligacoes[2].thread \in Mortas => ligacoes'[2].thread \in Mortas
        /\ replicas'[2] = "espera" => replicas[2] = "espera"
        /\ \A id \in Ids :
             /\ NaLinha(2, id)' <=> NaLinha(2, id)
             /\ Tem(ligacoes[2].linhas, Comando(id)) => Tem(ligacoes'[2].linhas, Comando(id))
             /\ Precede(ligacoes[2].linhas, id) => Precede(ligacoes'[2].linhas, id)
    BY <1>1, <1>6 DEF Quieto, MesmasLinhas, NaLinha
  <2>2. \A id \in Ids : Lido(id) => Lido(id)'
    BY <2>1 DEF Lido
  <2>3. ReplicaEspera'
    <3>1. ASSUME replicas'[2] = "espera"
          PROVE  /\ buffer' # <<>>
                 /\ Feito(Head(buffer).id)' \/ NaLinha(2, Head(buffer).id)' \/ Calada(2)'
      BY <1>1, <1>2, <1>3, <2>1, <3>1 DEF NaSegunda, ReplicaEspera, NaLinha, Feito
    <3>. QED BY <3>1 DEF ReplicaEspera
  <2>4. ComandosAntes'
    <3>1. \A id \in Ids : Orfao(id) => Orfao(id)'
      BY <1>1, <1>2, <2>1 DEF Orfao
    <3>. QED BY <2>1, <2>2, <3>1 DEF NaSegunda, ComandosAntes
  <2>5. Escrita'
    <3>1. ASSUME menu'.fase = "escrever"
          PROVE  \/ Tem(ligacoes[2].linhas, Comando(menu.id))' \/ Lido(menu.id)'
                 \/ /\ ~ComComandos' /\ ligacoes'[2].respostas = <<>>
                    /\ \A y \in Ids : ~NaLinha(2, y)'
      <4>1. menu' = menu /\ menu.id \in Ids /\ menu.fase = "escrever"
        BY <1>1, <3>1, BaseIgual
      <4>2. CASE Lido(menu.id)
        BY <2>1, <4>1, <4>2 DEF Lido
      <4>3. CASE Tem(ligacoes[2].linhas, Comando(menu.id))
        BY <2>1, <4>1, <4>3
      <4>4. CASE ~ComComandos /\ ligacoes[2].respostas = <<>> /\ \A y \in Ids : ~NaLinha(2, y)
        BY <1>2, <2>1, <4>4
      <4>. QED BY <2>1, <4>1, <4>2, <4>3, <4>4 DEF NaSegunda, Escrita
    <3>. QED BY <3>1 DEF Escrita
  <2>6. Donos'
    BY <1>1, <1>2, <2>1 DEF NaSegunda, Donos
  <2>. QED BY <2>3, <2>4, <2>5, <2>6 DEF NaSegunda
<1>7. ASSUME Actual = 1, Actual' = 2 PROVE NaSegunda'
  <2>1. 2 \in DOMAIN ligacoes' \ DOMAIN ligacoes
    <3>1. DOMAIN ligacoes' = 1..2
      <4>1. Len(ligacoes') = 2
        BY <1>7 DEF Actual
      <4>. QED BY <4>1, LenProperties
    <3>. QED BY <1>1, <1>7, <3>1
  <2>2. /\ ligacoes'[2].linhas = <<>> /\ ligacoes'[2].respostas = <<>>
        /\ replicas'[2] # "espera"
    BY <2>1 DEF Quieto
  <2>3. \A id : ~NaLinha(2, id)'
    BY <2>2, ListaVazia DEF NaLinha
  <2>4. menu'.fase = "escrever" => ~ComComandos'
    BY <1>1, <1>2, <1>7 DEF SemComandos
  <2>. QED BY <2>2, <2>3, <2>4 DEF NaSegunda, ReplicaEspera, ComandosAntes, Escrita, Donos
<1>8. Actual' = 2 => NaSegunda'
  BY <1>1, <1>6, <1>7
<1>9. \A id \in 1..pedidos' : NaLista(id)'
  <2>1. ASSUME NEW id \in 1..pedidos PROVE NaLista(id)'
    <3>1. CASE \E k \in DOMAIN ligacoes : NaLinha(k, id)
      BY <1>1, <1>3, <2>1, <3>1 DEF NaLista, NaLinha
    <3>2. CASE Feito(id) \/ NoBuffer(id) \/ id \in recusados
      BY <1>1, <1>2, <3>2 DEF NaLista
    <3>3. CASE menu.id = id /\ menu.fase \in {"escrever", "espera", "morto"}
      BY <1>1, <3>3 DEF NaLista
    <3>. QED BY <2>1, <3>1, <3>2, <3>3 DEF NaLista
  <2>. QED BY <1>1, <2>1
<1>. QED BY <1>4, <1>5, <1>8, <1>9

\* The steps that make no connection.
LEMMA MesmasLigacoes ==
  ASSUME Base, Base', DOMAIN ligacoes' = DOMAIN ligacoes
  PROVE  Actual' = Actual
<1>1. ligacoes \in Seq(Ligacao) /\ ligacoes' \in Seq(Ligacao)
  BY DEF Base, TypeOK
<1>. QED BY <1>1, LenProperties DEF Actual

\* At first nobody waits.
LEMMA SegundaInicial == Init => Segunda
<1>. SUFFICES ASSUME Init PROVE Segunda
  OBVIOUS
<1>1. menu.fase = "login" /\ pedidos = 0 /\ Actual = 0
  BY DEF Init, Actual
<1>. QED BY <1>1 DEF Segunda, SemComandos, MenuEspera

\* While the user writes, the command is on its way to the second connection.
LEMMA SegundaEscolher ==
  ASSUME Base, Copias, Primeira, Segunda, Base', NEW t \in Tipos, Escolher(t)
  PROVE  Segunda'
<1>. SUFFICES ASSUME quedas <= 1, SemComandos, MenuEspera, Actual = 2 => NaSegunda,
                     \A id \in 1..pedidos : NaLista(id)
              PROVE  /\ SemComandos' /\ MenuEspera' /\ (Actual' = 2 => NaSegunda')
                     /\ \A id \in 1..pedidos' : NaLista(id)'
  BY EscolherFaz DEF Segunda, servidor
<1>1. /\ menu.fase = "livre" /\ estado # 0 /\ pedidos' = pedidos + 1
      /\ menu'.fase = "escrever" /\ menu'.id = pedidos + 1
      /\ pedidos \in Nat /\ pedidos + 1 \in Ids
      /\ DOMAIN ligacoes' = DOMAIN ligacoes
      /\ UNCHANGED <<recusados, feitos, buffer, replicas>>
      /\ \A j \in DOMAIN ligacoes :
           /\ ligacoes'[j].aberta = ligacoes[j].aberta
           /\ ligacoes'[j].thread = ligacoes[j].thread
           /\ ligacoes'[j].eu = ligacoes[j].eu
           /\ ligacoes'[j].comando = ligacoes[j].comando
           /\ ligacoes'[j].respostas = ligacoes[j].respostas
           /\ MesmasLinhas(j)
      /\ Aberta(Actual) => Tem(ligacoes'[Actual].linhas, Comando(pedidos + 1))
  BY EscolherFaz DEF servidor
<1>2. /\ Actual' = Actual /\ Actual \in {0, 1, 2} /\ DOMAIN ligacoes = 1..Actual
      /\ Actual = 2 => 2 \in DOMAIN ligacoes /\ Aberta(2)
      /\ 1..pedidos \subseteq Ids
  BY <1>1, UmaQueda, MesmasLigacoes
<1>3. /\ ComComandos' <=> ComComandos
      /\ \A id : (Feito(id)' <=> Feito(id)) /\ (NoBuffer(id)' <=> NoBuffer(id))
      /\ buffer # <<>> => Head(buffer).id \in Ids
  BY <1>1, BufferTipo DEF ComComandos, Feito, NoBuffer, Base
<1>4. SemComandos'
  BY <1>1, <1>2, <1>3 DEF SemComandos, Primeira
<1>5. MenuEspera'
  BY <1>1 DEF MenuEspera
<1>6. ASSUME Actual = 2 PROVE NaSegunda'
  <2>1. /\ NaSegunda /\ 2 \in DOMAIN ligacoes
        /\ ligacoes'[2].aberta = ligacoes[2].aberta
        /\ ligacoes'[2].thread = ligacoes[2].thread
        /\ ligacoes'[2].eu = ligacoes[2].eu
        /\ ligacoes'[2].comando = ligacoes[2].comando
        /\ ligacoes'[2].respostas = ligacoes[2].respostas
        /\ Tem(ligacoes'[2].linhas, Comando(pedidos + 1))
        /\ \A id \in Ids :
             /\ NaLinha(2, id)' <=> NaLinha(2, id)
             /\ Precede(ligacoes[2].linhas, id) => Precede(ligacoes'[2].linhas, id)
    BY <1>1, <1>2, <1>6 DEF MesmasLinhas, NaLinha
  <2>2. ReplicaEspera'
    BY <1>1, <1>3, <2>1 DEF NaSegunda, ReplicaEspera, NaLinha, Feito, Calada, Aberta
  <2>3. ComandosAntes'
    BY <1>1, <2>1 DEF NaSegunda, ComandosAntes, Lido, Orfao
  <2>4. Escrita'
    BY <1>1, <2>1 DEF Escrita
  <2>5. Donos'
    BY <1>1, <1>3, <2>1 DEF NaSegunda, Donos
  <2>. QED BY <2>2, <2>3, <2>4, <2>5 DEF NaSegunda
<1>7. ASSUME NEW id \in 1..pedidos' PROVE NaLista(id)'
  <2>1. id \in 1..pedidos \/ id = menu'.id
    BY <1>1, <1>7
  <2>2. CASE id = menu'.id
    BY <1>1, <2>2 DEF NaLista
  <2>3. CASE id \in 1..pedidos
    BY <1>1, <1>2, <1>3, <2>3 DEF NaLista, MesmasLinhas, NaLinha
  <2>. QED BY <2>1, <2>2, <2>3
<1>. QED BY <1>2, <1>4, <1>5, <1>6, <1>7

\* The data follow their command, or are alone on the second connection.
LEMMA SegundaEnviarDados ==
  ASSUME Base, Copias, Primeira, Segunda, Base', EnviarDados
  PROVE  Segunda'
<1>. SUFFICES ASSUME quedas <= 1, SemComandos, MenuEspera, Actual = 2 => NaSegunda,
                     \A id \in 1..pedidos : NaLista(id)
              PROVE  /\ SemComandos' /\ MenuEspera' /\ (Actual' = 2 => NaSegunda')
                     /\ \A id \in 1..pedidos' : NaLista(id)'
  BY EnviarDadosFaz DEF Segunda, servidor
<1>1. PICK x \in Ids, k \in DOMAIN ligacoes :
        /\ x = menu.id /\ k = Actual
        /\ menu.fase = "escrever" /\ Enviar(k, <<Dados(x)>>)
        /\ menu'.fase = "espera" /\ menu'.id = x /\ menu'.lig = k
        /\ UNCHANGED <<recusados, pedidos, feitos, buffer, replicas>>
  BY EnviarDadosFaz DEF servidor
<1>2. /\ DOMAIN ligacoes' = DOMAIN ligacoes
      /\ \A j \in DOMAIN ligacoes :
           /\ ligacoes'[j].aberta = ligacoes[j].aberta
           /\ ligacoes'[j].thread = ligacoes[j].thread
           /\ ligacoes'[j].eu = ligacoes[j].eu
           /\ ligacoes'[j].comando = ligacoes[j].comando
           /\ ligacoes'[j].respostas = ligacoes[j].respostas
           /\ \A y \in Ids : Tem(ligacoes'[j].linhas, Dados(y)) <=>
                NaLinha(j, y) \/ (j = k /\ y = x /\ Aberta(k))
           /\ \A y \in Ids :
                /\ Precede(ligacoes[j].linhas, y)
                /\ y = x => Tem(ligacoes[j].linhas, Comando(x))
                => Precede(ligacoes'[j].linhas, y)
  BY <1>1, EnvioFaz DEF DeEnvio
<1>3. /\ Actual' = Actual /\ Actual \in {0, 1, 2} /\ DOMAIN ligacoes = 1..Actual
      /\ Actual = 2 => 2 \in DOMAIN ligacoes /\ Aberta(2)
      /\ 1..pedidos \subseteq Ids
  BY <1>2, UmaQueda, MesmasLigacoes
<1>4. /\ ComComandos' <=> ComComandos
      /\ \A id : (Feito(id)' <=> Feito(id)) /\ (NoBuffer(id)' <=> NoBuffer(id))
      /\ buffer # <<>> => Head(buffer).id \in Ids
      /\ \A j \in DOMAIN ligacoes : ~NaLinha(j, x)
  <2>1. Novo(x)
    BY <1>1 DEF Novo
  <2>. QED BY <1>1, <2>1, BufferTipo, CopiasDizem DEF ComComandos, Feito, NoBuffer, Base
<1>5. SemComandos'
  BY <1>1 DEF SemComandos
<1>6. MenuEspera'
  <2>1. CASE Aberta(k)
    BY <1>1, <1>2, <2>1 DEF MenuEspera, NaLinha
  <2>2. CASE ~Aberta(k)
    <3>1. k = 1 /\ ligacoes # <<>>
      BY <1>1, <1>3, <2>2, Indices DEF Base
    <3>2. ligacoes[1].respostas = <<>>
      BY <1>1, <3>1 DEF Primeira, NaPrimeira
    <3>3. ligacoes'[k].respostas = <<>> /\ ~ligacoes'[k].aberta
      BY <1>2, <2>2, <3>1, <3>2 DEF Aberta
    <3>. QED BY <1>1, <3>3 DEF MenuEspera, Calada, Aberta
  <2>. QED BY <2>1, <2>2
<1>7. ASSUME Actual = 2 PROVE NaSegunda'
  <2>1. /\ NaSegunda /\ 2 \in DOMAIN ligacoes /\ k = 2 /\ Aberta(2)
        /\ ligacoes'[2].aberta = ligacoes[2].aberta
        /\ ligacoes'[2].thread = ligacoes[2].thread
        /\ ligacoes'[2].eu = ligacoes[2].eu
        /\ ligacoes'[2].comando = ligacoes[2].comando
        /\ ligacoes'[2].respostas = ligacoes[2].respostas
        /\ \A y \in Ids : NaLinha(2, y)' <=> NaLinha(2, y) \/ y = x
    BY <1>1, <1>2, <1>3, <1>7 DEF NaLinha
  <2>2. ReplicaEspera'
    BY <1>1, <1>4, <2>1 DEF NaSegunda, ReplicaEspera, NaLinha, Feito, Calada, Aberta
  <2>3. ComandosAntes'
    <3>1. ASSUME NEW y \in Ids, NaLinha(2, y), y # x
          PROVE  Precede(ligacoes'[2].linhas, y) \/ Lido(y)'
      BY <1>1, <1>2, <2>1, <3>1 DEF NaSegunda, ComandosAntes, Lido, Orfao
    <3>2. Precede(ligacoes'[2].linhas, x) \/ Lido(x)' \/ Orfao(x)'
      <4>1. CASE Tem(ligacoes[2].linhas, Comando(x))
        <5>1. Precede(ligacoes[2].linhas, x)
          BY <1>4, <2>1, PrecedeNada DEF NaLinha
        <5>. QED BY <1>2, <2>1, <4>1, <5>1
      <4>2. CASE Lido(x)
        BY <2>1, <4>2 DEF Lido
      <4>3. CASE ~ComComandos /\ ligacoes[2].respostas = <<>> /\ \A y \in Ids : ~NaLinha(2, y)
        BY <1>1, <1>4, <2>1, <4>3 DEF Orfao
      <4>. QED BY <1>1, <2>1, <4>1, <4>2, <4>3 DEF NaSegunda, Escrita
    <3>. QED BY <2>1, <3>1, <3>2 DEF ComandosAntes
  <2>4. Escrita'
    BY <1>1 DEF Escrita
  <2>5. Donos'
    BY <1>1, <1>4, <2>1 DEF NaSegunda, Donos
  <2>. QED BY <2>2, <2>3, <2>4, <2>5 DEF NaSegunda
<1>8. ASSUME NEW id \in 1..pedidos PROVE NaLista(id)'
  <2>1. id \in Ids /\ \A j \in DOMAIN ligacoes : NaLinha(j, id) => NaLinha(j, id)'
    BY <1>2, <1>3, <1>8 DEF NaLinha
  <2>2. menu.id = id => menu'.id = id /\ menu'.fase = "espera"
    BY <1>1
  <2>. QED BY <1>1, <1>2, <1>4, <1>8, <2>1, <2>2 DEF NaLista
<1>. QED BY <1>1, <1>3, <1>5, <1>6, <1>7, <1>8

\* A request that cannot be sent, or whose answer does not come, is kept, refused,
\* or stays with the menu; its data are on no open connection.
LEMMA SegundaGuardar ==
  ASSUME Base, Copias, Segunda, Base', GuardarDados \/ RespostaFalha
  PROVE  Segunda'
<1>1. /\ UNCHANGED <<pedidos, ligacoes, papel, feitos, reiniciado, quedas, escuta, replicas>>
      /\ menu'.fase \in {"livre", "morto"} /\ menu'.id = menu.id
      /\ menu.fase \in {"escrever", "espera"}
      /\ menu.fase = "espera" => SemResposta(menu.lig)
      /\ (\E c \in BOOLEAN : Guardar(c))
           \/ (UNCHANGED <<recusados, buffer>> /\ menu'.fase = "morto")
  <2>1. menu \in MenuTipo
    BY BaseIgual
  <2>. QED BY <2>1 DEF GuardarDados, RespostaFalha, MenuTipo, servidor
<1>. SUFFICES ASSUME quedas <= 1, SemComandos, MenuEspera, Actual = 2 => NaSegunda,
                     \A id \in 1..pedidos : NaLista(id)
              PROVE  /\ SemComandos' /\ MenuEspera' /\ (Actual' = 2 => NaSegunda')
                     /\ \A id \in 1..pedidos' : NaLista(id)'
  BY <1>1 DEF Segunda
<1>2. PICK x \in Ids : x = menu.id
  <2>1. menu.id \in 1..pedidos /\ pedidos \in 0..MaxPedidos
    BY <1>1, BaseIgual
  <2>. QED BY <2>1, ConstantesAssumption DEF Ids
<1>3. /\ Actual' = Actual /\ DOMAIN ligacoes = 1..Actual
      /\ \A k \in DOMAIN ligacoes : (k = 1 \/ k = 2) /\ (k = 2 => Aberta(2))
      /\ Actual = 2 => 2 \in DOMAIN ligacoes
      /\ 1..pedidos \subseteq Ids
  BY <1>1, UmaQueda, MesmasLigacoes
<1>4. /\ SemComandos' /\ MenuEspera' /\ Escrita'
      /\ \A id : Feito(id)' <=> Feito(id)
      /\ \A k, id : NaLinha(k, id)' <=> NaLinha(k, id)
  BY <1>1 DEF SemComandos, MenuEspera, Escrita, Feito, NaLinha
<1>5. /\ buffer # <<>> => buffer' # <<>> /\ Head(buffer').id = Head(buffer).id
      /\ \A id : NoBuffer(id) => NoBuffer(id)'
      /\ recusados \subseteq recusados'
      /\ NoBuffer(x)' \/ x \in recusados' \/ menu'.fase = "morto"
  <2>1. ASSUME NEW c \in BOOLEAN, Guardar(c)
        PROVE  /\ buffer # <<>> => buffer' # <<>> /\ Head(buffer').id = Head(buffer).id
               /\ \A id : NoBuffer(id) => NoBuffer(id)'
               /\ recusados \subseteq recusados'
               /\ NoBuffer(x)' \/ x \in recusados'
    <3>1. /\ DOMAIN buffer = 1..Len(buffer) /\ Len(buffer) \in Nat
          /\ buffer # <<>> => Head(buffer) = buffer[1] /\ 1 \in DOMAIN buffer
      BY BufferTipo DEF Base
    <3>2. CASE buffer' = buffer /\ recusados' = recusados \cup {menu.id}
      BY <1>2, <3>2 DEF NoBuffer
    <3>3. CASE /\ DOMAIN buffer' = 1..(Len(buffer) + 1)
               /\ \A j \in DOMAIN buffer : buffer'[j] = buffer[j]
               /\ buffer'[Len(buffer) + 1].id = menu.id
               /\ recusados' = recusados
      <4>1. NoBuffer(x)' /\ \A id : NoBuffer(id) => NoBuffer(id)'
        BY <1>2, <3>1, <3>3 DEF NoBuffer
      <4>2. buffer' # <<>> => Head(buffer') = buffer'[1]
        <5>1. TypeOK'
          BY DEF Base
        <5>2. buffer' \in Seq(Pacote)
          BY <5>1 DEF TypeOK
        <5>. QED BY <5>2, HeadTailProperties
      <4>3. DOMAIN << >> = {}
        OBVIOUS
      <4>4. buffer # <<>> => buffer' # <<>> /\ buffer'[1] = buffer[1]
        BY <3>1, <3>3, <4>3
      <4>. QED BY <3>1, <3>3, <4>1, <4>2, <4>4
    <3>. QED BY <1>2, <2>1, <3>2, <3>3, GuardarFaz DEF Base
  <2>. QED BY <1>1, <2>1 DEF NoBuffer
<1>6. menu.fase = "espera" /\ Actual = 2 => ~NaLinha(2, x)
  <2>1. ASSUME menu.fase = "espera", Actual = 2, NaLinha(2, x) PROVE FALSE
    <3>1. menu.lig \in DOMAIN ligacoes /\ ~Aberta(menu.lig)
      BY <1>1, <2>1, BaseIgual DEF SemResposta
    <3>2. menu.lig = 1
      BY <1>3, <3>1
    <3>. QED BY <1>2, <1>3, <2>1, <3>2, CopiasDizem
  <2>. QED BY <2>1
<1>7. ASSUME Actual = 2 PROVE NaSegunda'
  <2>1. /\ NaSegunda /\ 2 \in DOMAIN ligacoes
        /\ \A id \in Ids : menu.fase = "espera" /\ menu.id = id => ~NaLinha(2, id)
    BY <1>2, <1>3, <1>6, <1>7
  <2>2. ReplicaEspera'
    BY <1>1, <1>4, <1>5, <2>1 DEF NaSegunda, ReplicaEspera, Calada, Aberta, Feito, NaLinha
  <2>3. ComandosAntes'
    BY <1>1, <1>4, <2>1 DEF NaSegunda, ComandosAntes, Lido, Orfao
  <2>4. Donos'
    BY <1>1, <1>4, <1>5, <2>1 DEF NaSegunda, Donos
  <2>. QED BY <1>4, <2>2, <2>3, <2>4 DEF NaSegunda
<1>8. ASSUME NEW id \in 1..pedidos PROVE NaLista(id)'
  <2>1. CASE id = x
    BY <1>1, <1>2, <1>5, <2>1 DEF NaLista
  <2>2. CASE id # x
    BY <1>1, <1>2, <1>4, <1>5, <1>8, <2>2 DEF NaLista
  <2>. QED BY <2>1, <2>2
<1>. QED BY <1>1, <1>3, <1>4, <1>7, <1>8

\* The menu takes an answer when its request is done or on its way.
LEMMA SegundaLerResposta ==
  ASSUME Base, Copias, Segunda, Base', LerResposta
  PROVE  Segunda'
<1>. SUFFICES ASSUME quedas <= 1, SemComandos, MenuEspera, Actual = 2 => NaSegunda,
                     \A id \in 1..pedidos : NaLista(id)
              PROVE  /\ SemComandos' /\ MenuEspera' /\ (Actual' = 2 => NaSegunda')
                     /\ \A id \in 1..pedidos' : NaLista(id)'
  BY LerRespostaFaz DEF Segunda, servidor
<1>1. PICK q \in DOMAIN ligacoes, x \in Ids :
        /\ q = menu.lig /\ x = menu.id /\ menu.fase = "espera" /\ ligacoes[q].respostas # <<>>
        /\ menu'.fase = "livre" /\ DOMAIN ligacoes' = DOMAIN ligacoes
        /\ UNCHANGED <<recusados, pedidos, feitos, buffer, replicas>>
        /\ \A j \in DOMAIN ligacoes :
             /\ ligacoes'[j].aberta = ligacoes[j].aberta
             /\ ligacoes'[j].thread = ligacoes[j].thread
             /\ ligacoes'[j].eu = ligacoes[j].eu
             /\ ligacoes'[j].comando = ligacoes[j].comando
             /\ ligacoes'[j].linhas = ligacoes[j].linhas
             /\ j # q => ligacoes'[j].respostas = ligacoes[j].respostas
  BY LerRespostaFaz DEF servidor
<1>2. /\ Actual' = Actual /\ DOMAIN ligacoes = 1..Actual
      /\ Actual = 2 => 2 \in DOMAIN ligacoes
      /\ 1..pedidos \subseteq Ids
  BY <1>1, UmaQueda, MesmasLigacoes
<1>3. /\ SemComandos' /\ MenuEspera' /\ Escrita'
      /\ \A id : Feito(id)' <=> Feito(id)
      /\ \A id : NoBuffer(id)' <=> NoBuffer(id)
      /\ \A k \in DOMAIN ligacoes, id \in Ids : NaLinha(k, id)' <=> NaLinha(k, id)
  BY <1>1 DEF SemComandos, MenuEspera, Escrita, Feito, NaLinha, NoBuffer
<1>4. Feito(x) \/ NaLinha(q, x)
  BY <1>1 DEF MenuEspera, Calada
<1>5. ASSUME Actual = 2 PROVE NaSegunda'
  <2>1. /\ NaSegunda /\ 2 \in DOMAIN ligacoes
        /\ \A id \in Ids : NaLinha(2, id) /\ menu.id = id => q = 2
        /\ q = 2 => ligacoes[2].respostas # <<>> /\ ligacoes[2].eu
    BY <1>1, <1>2, <1>5, CopiasDizem, BaseIgual
  <2>2. ReplicaEspera'
    <3>1. Calada(2) => Calada(2)'
      BY <1>1, <2>1 DEF Calada, Aberta
    <3>2. buffer # <<>> => Head(buffer).id \in Ids
      BY BufferTipo DEF Base
    <3>. QED BY <1>1, <1>3, <2>1, <3>1, <3>2 DEF NaSegunda, ReplicaEspera, Feito, NaLinha
  <2>3. ComandosAntes'
    BY <1>1, <1>3, <2>1 DEF NaSegunda, ComandosAntes, Lido, Orfao
  <2>4. Donos'
    BY <1>1, <1>3, <2>1 DEF NaSegunda, Donos
  <2>. QED BY <1>3, <2>2, <2>3, <2>4 DEF NaSegunda
<1>6. ASSUME NEW id \in 1..pedidos PROVE NaLista(id)'
  <2>1. CASE id = x
    BY <1>1, <1>3, <1>4, <2>1 DEF NaLista
  <2>2. CASE id # x
    <3>1. id \in Ids
      BY <1>2, <1>6
    <3>. QED BY <1>1, <1>3, <1>6, <2>2, <3>1 DEF NaLista
  <2>. QED BY <2>1, <2>2
<1>. QED BY <1>1, <1>2, <1>3, <1>5, <1>6

\* The first server that stops takes at most the request of the menu with it.
LEMMA SegundaCair ==
  ASSUME Base, Primeira, Segunda, Base', NEW s \in Servidores, CairServidor(s)
  PROVE  Segunda'
<1>1. /\ UNCHANGED <<feitos, menu, recusados, pedidos, buffer>>
      /\ quedas' = quedas + 1 /\ quedas \in Nat
      /\ DOMAIN ligacoes' = DOMAIN ligacoes
      /\ \A k \in DOMAIN ligacoes :
           /\ ligacoes'[k].aberta => ligacoes'[k] = ligacoes[k]
           /\ ligacoes'[k].respostas \in {<<>>, ligacoes[k].respostas}
           /\ ~ligacoes[k].aberta => ~ligacoes'[k].aberta
  BY CairFaz, BasePrincipal, ConstantesAssumption DEF utilizador
<1>. SUFFICES ASSUME quedas = 0, SemComandos, MenuEspera,
                     \A id \in 1..pedidos : NaLista(id)
              PROVE  /\ SemComandos' /\ MenuEspera' /\ (Actual' = 2 => NaSegunda')
                     /\ \A id \in 1..pedidos' : NaLista(id)'
  BY <1>1 DEF Segunda
<1>2. /\ Actual' = Actual /\ Actual # 2 /\ 1..pedidos \subseteq Ids
      /\ \A k \in DOMAIN ligacoes : k = 1 /\ ligacoes # <<>>
  BY <1>1, BasePrincipal, UmaQueda, MesmasLigacoes
<1>3. /\ \A id : Feito(id)' <=> Feito(id)
      /\ \A id : NoBuffer(id)' <=> NoBuffer(id)
  BY <1>1 DEF Feito, NoBuffer
<1>4. SemComandos'
  BY <1>1, <1>2 DEF SemComandos, ComComandos
<1>5. ASSUME menu.fase = "espera"
      PROVE  Feito(menu.id)' \/ NaLinha(menu.lig, menu.id)' \/ Calada(menu.lig)'
  <2>1. menu.lig = 1 /\ 1 \in DOMAIN ligacoes /\ ligacoes # <<>> /\ menu.id \in Ids
    BY <1>2, <1>5, BaseIgual
  <2>2. CASE ligacoes'[1].aberta
    BY <1>1, <1>3, <1>5, <2>1, <2>2 DEF MenuEspera, NaLinha, Calada, Aberta, Feito
  <2>3. CASE ~ligacoes'[1].aberta
    <3>1. NaLinha(1, menu.id) \/ Calada(1) => ligacoes'[1].respostas = <<>>
      BY <1>1, <2>1 DEF Primeira, Calada
    <3>. QED BY <1>1, <1>3, <1>5, <2>1, <2>3, <3>1 DEF MenuEspera, Calada, Aberta, Feito
  <2>. QED BY <2>2, <2>3
<1>6. MenuEspera'
  BY <1>1, <1>5 DEF MenuEspera
<1>7. ASSUME NEW id \in 1..pedidos PROVE NaLista(id)'
  <2>1. CASE \E k \in DOMAIN ligacoes : NaLinha(k, id)
    <3>1. menu.id = id /\ menu.fase = "espera"
      BY <1>2, <2>1 DEF Primeira, NaPrimeira
    <3>. QED BY <1>1, <3>1 DEF NaLista
  <2>2. CASE ~(\E k \in DOMAIN ligacoes : NaLinha(k, id))
    BY <1>1, <1>3, <1>7, <2>2 DEF NaLista
  <2>. QED BY <2>1, <2>2
<1>. QED BY <1>1, <1>2, <1>4, <1>6, <1>7

\* A Buffer thread sends the command before the data, and then waits for them.
LEMMA SegundaReplicaEnvia ==
  ASSUME Base, Copias, Segunda, Base', NEW k \in DOMAIN ligacoes, ReplicaEnvia(k)
  PROVE  Segunda'
<1>1. PICK x, L :
        /\ x = Head(buffer).id /\ L = <<Comando(x), Dados(x)>>
        /\ buffer # <<>> /\ x = buffer[1].id /\ buffer[1].comandos /\ 1 \in DOMAIN buffer
        /\ x \in Ids /\ ComComandos
        /\ replicas[k] = "inicio"
        /\ \A j \in DOMAIN ligacoes \ {k} : replicas'[j] = replicas[j]
        /\ DeEnvio(L, x) /\ Enviar(k, L)
        /\ UNCHANGED <<feitos, quedas, menu, recusados, pedidos, buffer>>
  BY ReplicaEnviaFaz DEF servidor, utilizador
<1>. SUFFICES ASSUME quedas <= 1, SemComandos, MenuEspera, Actual = 2 => NaSegunda,
                     \A id \in 1..pedidos : NaLista(id)
              PROVE  /\ SemComandos' /\ MenuEspera' /\ (Actual' = 2 => NaSegunda')
                     /\ \A id \in 1..pedidos' : NaLista(id)'
  BY <1>1 DEF Segunda
<1>2. L # <<Dados(x)>>
  <2>1. Len(L) = 2 /\ Len(<<Dados(x)>>) = 1
    BY <1>1
  <2>. QED BY <2>1
<1>3. /\ DOMAIN ligacoes' = DOMAIN ligacoes
      /\ \A j \in DOMAIN ligacoes :
           /\ ligacoes'[j].aberta = ligacoes[j].aberta
           /\ ligacoes'[j].thread = ligacoes[j].thread
           /\ ligacoes'[j].eu = ligacoes[j].eu
           /\ ligacoes'[j].comando = ligacoes[j].comando
           /\ ligacoes'[j].respostas = ligacoes[j].respostas
           /\ \A y \in Ids : Tem(ligacoes'[j].linhas, Dados(y)) <=>
                NaLinha(j, y) \/ (j = k /\ y = x /\ Aberta(k))
           /\ \A y \in Ids : Tem(ligacoes[j].linhas, Comando(y)) =>
                Tem(ligacoes'[j].linhas, Comando(y))
           /\ \A y \in Ids :
                Precede(ligacoes[j].linhas, y) => Precede(ligacoes'[j].linhas, y)
  BY <1>1, <1>2, EnvioFaz
<1>4. /\ Actual' = Actual /\ DOMAIN ligacoes = 1..Actual
      /\ Actual = 2 => 2 \in DOMAIN ligacoes /\ Aberta(2)
      /\ 1..pedidos \subseteq Ids
  BY <1>3, UmaQueda, MesmasLigacoes
<1>5. /\ ComComandos' <=> ComComandos
      /\ \A id : Feito(id)' <=> Feito(id)
      /\ \A id : NoBuffer(id)' <=> NoBuffer(id)
      /\ NoBuffer(x)
  BY <1>1 DEF Feito, NoBuffer, ComComandos
<1>6. SemComandos'
  BY <1>1, <1>4, <1>5 DEF SemComandos
<1>7. MenuEspera'
  <2>1. ASSUME menu.fase = "espera"
        PROVE  Feito(menu.id)' \/ NaLinha(menu.lig, menu.id)' \/ Calada(menu.lig)'
    <3>1. menu.lig \in DOMAIN ligacoes /\ menu.id \in 1..pedidos
      BY <2>1, BaseIgual
    <3>. QED BY <1>1, <1>3, <1>4, <1>5, <2>1, <3>1
             DEF MenuEspera, NaLinha, Calada, Aberta, Feito
  <2>. QED BY <1>1, <2>1 DEF MenuEspera
<1>8. ASSUME Actual = 2 PROVE NaSegunda'
  <2>1. /\ NaSegunda /\ 2 \in DOMAIN ligacoes /\ Aberta(2)
        /\ ligacoes'[2].aberta = ligacoes[2].aberta
        /\ ligacoes'[2].thread = ligacoes[2].thread
        /\ ligacoes'[2].eu = ligacoes[2].eu
        /\ ligacoes'[2].comando = ligacoes[2].comando
        /\ ligacoes'[2].respostas = ligacoes[2].respostas
        /\ \A y \in Ids : NaLinha(2, y)' <=> NaLinha(2, y) \/ (y = x /\ k = 2)
    BY <1>3, <1>4, <1>8 DEF NaLinha
  <2>2. ReplicaEspera'
    <3>1. ASSUME replicas'[2] = "espera"
          PROVE  Feito(x)' \/ NaLinha(2, x)' \/ Calada(2)'
      <4>1. CASE k = 2
        BY <1>1, <2>1, <4>1
      <4>2. CASE k # 2
        BY <1>1, <1>5, <2>1, <3>1, <4>2
           DEF NaSegunda, ReplicaEspera, Calada, Aberta, Feito, NaLinha
      <4>. QED BY <4>1, <4>2
    <3>. QED BY <1>1, <3>1 DEF ReplicaEspera
  <2>3. ComandosAntes'
    <3>1. ASSUME NEW y \in Ids, NaLinha(2, y)
          PROVE  Precede(ligacoes'[2].linhas, y) \/ Lido(y)'
      BY <1>1, <1>3, <2>1, <3>1 DEF NaSegunda, ComandosAntes, Lido, Orfao
    <3>2. k = 2 => Precede(ligacoes'[2].linhas, x)
      <4>1. k = 2 => ~NaLinha(2, x)
        BY <1>1, <2>1, CopiasDizem
      <4>2. k = 2 => Precede(ligacoes[2].linhas, x)
        BY <4>1, PrecedeNada DEF NaLinha
      <4>. QED BY <1>1, <1>3, <2>1, <4>2
    <3>. QED BY <2>1, <3>1, <3>2 DEF ComandosAntes
  <2>4. Escrita'
    <3>1. ASSUME menu.fase = "escrever"
          PROVE  Tem(ligacoes'[2].linhas, Comando(menu.id)) \/ Lido(menu.id)'
      <4>1. menu.id \in Ids
        BY <1>4, <3>1, BaseIgual
      <4>. QED BY <1>1, <1>3, <2>1, <3>1, <4>1 DEF NaSegunda, Escrita, Lido
    <3>. QED BY <1>1, <3>1 DEF Escrita, Lido
  <2>5. Donos'
    BY <1>1, <1>5, <2>1 DEF NaSegunda, Donos
  <2>. QED BY <2>2, <2>3, <2>4, <2>5 DEF NaSegunda
<1>9. ASSUME NEW id \in 1..pedidos PROVE NaLista(id)'
  <2>1. id \in Ids /\ \A j \in DOMAIN ligacoes : NaLinha(j, id) => NaLinha(j, id)'
    BY <1>3, <1>4, <1>9 DEF NaLinha
  <2>. QED BY <1>1, <1>3, <1>5, <1>9, <2>1 DEF NaLista
<1>. QED BY <1>1, <1>4, <1>6, <1>7, <1>8, <1>9

\* The request that a Buffer thread removes is done, or its data wait for the server.
LEMMA SegundaReplicaResposta ==
  ASSUME Base, Copias, Primeira, Segunda, Base',
         NEW k \in DOMAIN ligacoes, ReplicaResposta(k)
  PROVE  Segunda'
<1>. SUFFICES ASSUME quedas <= 1, SemComandos, MenuEspera, Actual = 2 => NaSegunda,
                     \A id \in 1..pedidos : NaLista(id)
              PROVE  /\ SemComandos' /\ MenuEspera' /\ (Actual' = 2 => NaSegunda')
                     /\ \A id \in 1..pedidos' : NaLista(id)'
  BY ReplicaRespostaFaz DEF Segunda, servidor
<1>1. /\ ligacoes[k].respostas # <<>> /\ replicas[k] = "espera" /\ replicas'[k] = "dormir"
      /\ DOMAIN ligacoes' = DOMAIN ligacoes /\ Actual' = Actual
      /\ \A j \in DOMAIN ligacoes :
           /\ ligacoes'[j].aberta = ligacoes[j].aberta
           /\ ligacoes'[j].thread = ligacoes[j].thread
           /\ ligacoes'[j].eu = ligacoes[j].eu
           /\ ligacoes'[j].comando = ligacoes[j].comando
           /\ ligacoes'[j].linhas = ligacoes[j].linhas
           /\ j # k => ligacoes'[j].respostas = ligacoes[j].respostas
      /\ \A id : NoBuffer(id) => NoBuffer(id)' \/ (buffer # <<>> /\ id = Head(buffer).id)
      /\ UNCHANGED <<feitos, menu, recusados, pedidos>>
  BY ReplicaRespostaFaz DEF servidor, utilizador
<1>2. /\ k = 2 /\ Actual = 2 /\ 2 \in DOMAIN ligacoes /\ NaSegunda
      /\ 1..pedidos \subseteq Ids
  BY UmaQueda, PrimeiraReplicaResposta
<1>3. /\ ~Calada(2) /\ ligacoes[2].eu /\ \A id : ~Orfao(id)
  BY <1>1, <1>2, BaseIgual DEF Calada, Orfao
<1>4. /\ \A id : Feito(id)' <=> Feito(id)
      /\ \A j \in DOMAIN ligacoes, id \in Ids : NaLinha(j, id)' <=> NaLinha(j, id)
  BY <1>1 DEF Feito, NaLinha
<1>5. SemComandos'
  BY <1>1, <1>2 DEF SemComandos
<1>6. MenuEspera'
  <2>1. ASSUME menu.fase = "espera"
        PROVE  Feito(menu.id)' \/ NaLinha(menu.lig, menu.id)' \/ Calada(menu.lig)'
    <3>1. menu.lig \in DOMAIN ligacoes
      BY <2>1, BaseIgual
    <3>2. Calada(menu.lig) => menu.lig # k /\ Calada(menu.lig)'
      BY <1>1, <1>2, <1>3, <3>1 DEF Calada, Aberta
    <3>. QED BY <1>1, <2>1, <3>1, <3>2 DEF MenuEspera, Feito, NaLinha
  <2>. QED BY <1>1, <2>1 DEF MenuEspera
<1>7. NaSegunda'
  <2>1. ReplicaEspera'
    BY <1>1, <1>2 DEF ReplicaEspera
  <2>2. ComandosAntes'
    BY <1>1, <1>2, <1>3, <1>4 DEF NaSegunda, ComandosAntes, Lido
  <2>3. Escrita'
    BY <1>1, <1>2 DEF NaSegunda, Escrita, Lido
  <2>4. Donos'
    BY <1>1, <1>2, <1>3 DEF Donos
  <2>. QED BY <2>1, <2>2, <2>3, <2>4 DEF NaSegunda
<1>8. ASSUME NEW id \in 1..pedidos PROVE NaLista(id)'
  <2>1. id \in Ids /\ \A j \in DOMAIN ligacoes : NaLinha(j, id) => NaLinha(j, id)'
    BY <1>2, <1>4, <1>8
  <2>2. buffer # <<>> /\ id = Head(buffer).id => Feito(id) \/ NaLinha(2, id)
    BY <1>1, <1>2, <1>3 DEF NaSegunda, ReplicaEspera
  <2>. QED BY <1>1, <1>2, <1>4, <1>8, <2>1, <2>2 DEF NaLista
<1>. QED BY <1>1, <1>5, <1>6, <1>7, <1>8

\* The data that the thread reads are carried out, or nothing is answered any
\* more and somebody still has the request.
LEMMA AtenderUm ==
  ASSUME Base, Copias, Primeira, NEW k \in DOMAIN ligacoes, AtenderLinha(k),
         k = 1 \/ (k = 2 /\ NaSegunda), NEW id \in Ids, NaLinha(k, id)
  PROVE  \/ NaLinha(k, id)' \/ Feito(id)'
         \/ Calada(k)' /\ (NoBuffer(id) \/ (menu.fase = "espera" /\ menu.id = id))
<1>1. PICK l :
        /\ ligacoes[k].thread = "pronta"
        /\ FazPedido(k, l) \/ NaoFaz(k, l)
        /\ Tem(ligacoes'[k].linhas, Dados(id)) <=> NaLinha(k, id) /\ l # Dados(id)
        /\ Precede(ligacoes[k].linhas, id) => l # Dados(id)
  BY AtenderDados
<1>. SUFFICES ASSUME l = Dados(id)
              PROVE  \/ Feito(id)'
                     \/ Calada(k)' /\ (NoBuffer(id) \/ (menu.fase = "espera" /\ menu.id = id))
  BY <1>1 DEF NaLinha
<1>2. l.que = "dados" /\ l.id = id
  BY DEF Dados
<1>3. CASE FazPedido(k, l)
  <2>1. feitos' = Append(feitos, id) /\ feitos \in Seq(Ids)
    BY <1>2, <1>3, BaseIgual DEF FazPedido
  <2>2. feitos'[Len(feitos) + 1] = id /\ Len(feitos) + 1 \in DOMAIN feitos'
    <3>1. /\ feitos' \in Seq(Ids) /\ Len(feitos') = Len(feitos) + 1
          /\ feitos'[Len(feitos) + 1] = id
      BY <2>1, AppendProperties
    <3>2. Len(feitos) \in Nat /\ DOMAIN feitos' = 1..(Len(feitos) + 1)
      BY <2>1, <3>1, LenProperties
    <3>. QED BY <3>1, <3>2
  <2>. QED BY <2>2 DEF Feito
<1>4. CASE NaoFaz(k, l)
  <2>1. /\ ligacoes'[k].respostas = ligacoes[k].respostas
        /\ ligacoes'[k].thread \in Mortas
        /\ ligacoes[k].comando = id => ~ligacoes[k].eu
    BY <1>2, <1>4 DEF NaoFaz, Mortas
  <2>2. /\ ligacoes[k].respostas = <<>>
        /\ NoBuffer(id) \/ (menu.fase = "espera" /\ menu.id = id)
    <3>1. CASE k = 1
      <4>1. ligacoes # <<>>
        BY <3>1, Indices DEF Base
      <4>. QED BY <3>1, <4>1 DEF Primeira, NaPrimeira
    <3>2. CASE k = 2 /\ NaSegunda
      <4>1. Lido(id) \/ Orfao(id)
        BY <1>1, <3>2 DEF NaSegunda, ComandosAntes
      <4>2. CASE Lido(id)
        <5>1. ~ligacoes[2].eu
          BY <1>1, <2>1, <3>2, <4>2 DEF Lido, Mortas
        <5>2. ligacoes[2].respostas = <<>>
          BY <3>2, <5>1, BaseIgual
        <5>. QED BY <3>2, <5>1, <5>2 DEF NaSegunda, Donos
      <4>3. CASE Orfao(id)
        BY <3>2, <4>3 DEF Orfao
      <4>. QED BY <4>1, <4>2, <4>3
    <3>. QED BY <3>1, <3>2
  <2>. QED BY <2>1, <2>2 DEF Calada
<1>. QED BY <1>1, <1>3, <1>4

\* After a line of the second connection, what was read stays read.
LEMMA AtenderSegunda ==
  ASSUME Base, Copias, 2 \in DOMAIN ligacoes, AtenderLinha(2), NaSegunda
  PROVE  ComandosAntes' /\ Escrita' /\ Donos'
<1>1. PICK l :
        /\ ligacoes[2].thread = "pronta"
        /\ FazPedido(2, l) \/ NaoFaz(2, l)
        /\ l.que = "dados" => l.id \in Ids /\ l = Dados(l.id) /\ NaLinha(2, l.id)
        /\ \A y \in Ids :
             /\ Tem(ligacoes'[2].linhas, Dados(y)) <=> NaLinha(2, y) /\ l # Dados(y)
             /\ Tem(ligacoes[2].linhas, Comando(y)) =>
                  l = Comando(y) \/ Tem(ligacoes'[2].linhas, Comando(y))
             /\ Precede(ligacoes[2].linhas, y) =>
                  l = Comando(y) \/ Precede(ligacoes'[2].linhas, y)
        /\ UNCHANGED <<menu, buffer>>
  BY AtenderDados DEF utilizador
<1>2. /\ \A y \in Ids : NaLinha(2, y)' => NaLinha(2, y) /\ l # Dados(y)
      /\ ComComandos' <=> ComComandos
      /\ \A id : NoBuffer(id)' <=> NoBuffer(id)
  BY <1>1 DEF NaLinha, ComComandos, NoBuffer
<1>3. ASSUME NEW y \in Ids, l = Comando(y) PROVE Lido(y)'
  <2>1. l.que = "comando" /\ l.id = y
    BY <1>3 DEF Comando
  <2>. QED BY <1>1, <2>1 DEF FazPedido, NaoFaz, Lido, Mortas
<1>4. ASSUME NEW y \in Ids, Lido(y) PROVE Lido(y)' \/ l = Dados(y)
  <2>1. ligacoes[2].comando = y /\ y # 0
    BY <1>1, <1>4, ConstantesAssumption DEF Lido, Mortas, Ids
  <2>2. CASE FazPedido(2, l)
    BY <1>1, <2>1, <2>2 DEF FazPedido
  <2>3. CASE NaoFaz(2, l)
    BY <2>1, <2>3 DEF NaoFaz, Lido, Mortas
  <2>. QED BY <1>1, <2>2, <2>3
<1>5. ASSUME NEW y, \A z \in Ids : NaLinha(2, z) => z = y
      PROVE  ligacoes'[2].respostas = ligacoes[2].respostas \/ l = Dados(y)
  BY <1>1, <1>5 DEF FazPedido, NaoFaz
<1>6. ASSUME NEW y \in Ids, NaLinha(2, y)'
      PROVE  Precede(ligacoes'[2].linhas, y) \/ Lido(y)' \/ Orfao(y)'
  <2>1. NaLinha(2, y) /\ l # Dados(y)
    BY <1>2, <1>6
  <2>2. CASE Orfao(y)
    <3>1. ligacoes'[2].respostas = <<>>
      BY <1>5, <2>1, <2>2 DEF Orfao
    <3>. QED BY <1>1, <1>2, <2>2, <3>1 DEF Orfao
  <2>. QED BY <1>1, <1>3, <1>4, <2>1, <2>2 DEF NaSegunda, ComandosAntes
<1>7. ComandosAntes'
  BY <1>6 DEF ComandosAntes
<1>8. Escrita'
  <2>1. ASSUME menu.fase = "escrever", NEW x \in Ids, x = menu.id
        PROVE  \/ Tem(ligacoes'[2].linhas, Comando(x)) \/ Lido(x)'
               \/ /\ ~ComComandos' /\ ligacoes'[2].respostas = <<>>
                  /\ \A y \in Ids : ~NaLinha(2, y)'
    <3>1. ~NaLinha(2, x) /\ l # Dados(x)
      <4>1. Novo(x) /\ ~NaLinha(2, x)
        BY <2>1, CopiasDizem DEF Novo
      <4>2. l = Dados(x) => l.que = "dados" /\ l.id = x
        BY DEF Dados
      <4>. QED BY <1>1, <4>1, <4>2
    <3>2. CASE ~ComComandos /\ ligacoes[2].respostas = <<>> /\ \A y \in Ids : ~NaLinha(2, y)
      BY <1>2, <1>5, <3>1, <3>2
    <3>. QED BY <1>1, <1>3, <1>4, <2>1, <3>1, <3>2 DEF NaSegunda, Escrita
  <2>2. menu.fase = "escrever" => menu.id \in Ids
    <3>1. pedidos \in 0..MaxPedidos /\ (menu.fase = "escrever" => menu.id \in 1..pedidos)
      BY BaseIgual
    <3>. QED BY <3>1, ConstantesAssumption DEF Ids
  <2>. QED BY <1>1, <2>1, <2>2 DEF Escrita, Lido
<1>9. Donos'
  <2>1. ligacoes[2].eu => ligacoes'[2].eu
    BY <1>1 DEF FazPedido, NaoFaz
  <2>. QED BY <1>1, <1>2, <2>1 DEF NaSegunda, Donos
<1>. QED BY <1>7, <1>8, <1>9

\* A line is read on the first connection or on the second.
LEMMA SegundaAtender ==
  ASSUME Base, Copias, Primeira, Segunda, Base', NEW k \in DOMAIN ligacoes, AtenderLinha(k)
  PROVE  Segunda'
<1>1. /\ DOMAIN ligacoes' = DOMAIN ligacoes /\ Actual' = Actual
      /\ \A j \in DOMAIN ligacoes \ {k} : ligacoes'[j] = ligacoes[j]
      /\ Aberta(k) /\ ligacoes[k].thread = "pronta"
      /\ UNCHANGED <<quedas, menu, pedidos, recusados, buffer, replicas>>
  BY AtenderDados DEF utilizador
<1>. SUFFICES ASSUME quedas <= 1, SemComandos, MenuEspera, Actual = 2 => NaSegunda,
                     \A id \in 1..pedidos : NaLista(id)
              PROVE  /\ SemComandos' /\ MenuEspera' /\ (Actual' = 2 => NaSegunda')
                     /\ \A id \in 1..pedidos' : NaLista(id)'
  BY <1>1 DEF Segunda
<1>2. /\ 1..pedidos \subseteq Ids /\ k = Actual
      /\ k = 1 \/ (k = 2 /\ NaSegunda)
      /\ Actual = 2 => 2 \in DOMAIN ligacoes
  BY <1>1, UmaQueda
<1>3. \A id : Feito(id) => Feito(id)'
  <2>1. feitos' = feitos \/ \E x \in Ids : feitos' = Append(feitos, x)
    BY AtenderDados DEF FazPedido, NaoFaz
  <2>2. feitos \in Seq(Ids)
    BY BaseIgual
  <2>3. ASSUME NEW x \in Ids, feitos' = Append(feitos, x)
        PROVE  \A i \in DOMAIN feitos : i \in DOMAIN feitos' /\ feitos'[i] = feitos[i]
    <3>1. /\ feitos' \in Seq(Ids) /\ Len(feitos') = Len(feitos) + 1
          /\ \A i \in 1..Len(feitos) : feitos'[i] = feitos[i]
      BY <2>2, <2>3, AppendProperties
    <3>2. /\ Len(feitos) \in Nat /\ DOMAIN feitos = 1..Len(feitos)
          /\ DOMAIN feitos' = 1..(Len(feitos) + 1)
      BY <2>2, <3>1, LenProperties
    <3>. QED BY <3>1, <3>2
  <2>. QED BY <2>1, <2>3 DEF Feito
<1>4. /\ ComComandos' <=> ComComandos
      /\ \A id : NoBuffer(id)' <=> NoBuffer(id)
      /\ buffer # <<>> => Head(buffer).id \in Ids
  BY <1>1, BufferTipo DEF NoBuffer, ComComandos, Base
<1>5. ASSUME NEW q \in DOMAIN ligacoes, NEW id \in Ids, NaLinha(q, id)
      PROVE  \/ NaLinha(q, id)' \/ Feito(id)'
             \/ Calada(q)' /\ (NoBuffer(id) \/ (menu.fase = "espera" /\ menu.id = id))
  <2>1. CASE q = k
    BY <1>2, <1>5, <2>1, AtenderUm
  <2>2. CASE q # k
    BY <1>1, <1>5, <2>2 DEF NaLinha
  <2>. QED BY <2>1, <2>2
<1>6. \A q \in DOMAIN ligacoes : Calada(q) => Calada(q)'
  BY <1>1 DEF Calada, Aberta, Mortas
<1>7. SemComandos'
  BY <1>1, <1>4 DEF SemComandos
<1>8. MenuEspera'
  <2>1. ASSUME menu.fase = "espera", NEW q \in DOMAIN ligacoes, NEW x \in Ids,
               q = menu.lig, x = menu.id
        PROVE  Feito(x)' \/ NaLinha(q, x)' \/ Calada(q)'
    BY <1>3, <1>5, <1>6, <2>1 DEF MenuEspera
  <2>2. menu.fase = "espera" => menu.lig \in DOMAIN ligacoes /\ menu.id \in Ids
    BY <1>2, BaseIgual
  <2>. QED BY <1>1, <2>1, <2>2 DEF MenuEspera, Feito, NaLinha, Calada, Aberta
<1>9. ASSUME Actual = 2 PROVE NaSegunda'
  <2>1. k = 2 /\ NaSegunda /\ 2 \in DOMAIN ligacoes
    BY <1>2, <1>9
  <2>2. ReplicaEspera'
    <3>1. ASSUME replicas[2] = "espera", NEW x \in Ids, x = Head(buffer).id
          PROVE  buffer # <<>> /\ (Feito(x)' \/ NaLinha(2, x)' \/ Calada(2)')
      BY <1>3, <1>5, <1>6, <2>1, <3>1 DEF NaSegunda, ReplicaEspera
    <3>2. replicas[2] = "espera" => buffer # <<>> /\ Head(buffer).id \in Ids
      BY <1>4, <2>1 DEF NaSegunda, ReplicaEspera
    <3>. QED BY <1>1, <3>1, <3>2 DEF ReplicaEspera, Feito, NaLinha
  <2>3. ComandosAntes' /\ Escrita' /\ Donos'
    BY <2>1, AtenderSegunda
  <2>. QED BY <2>2, <2>3 DEF NaSegunda
<1>10. ASSUME NEW id \in 1..pedidos PROVE NaLista(id)'
  <2>1. CASE \E q \in DOMAIN ligacoes : NaLinha(q, id)
    BY <1>1, <1>2, <1>4, <1>5, <1>10, <2>1 DEF NaLista
  <2>2. CASE ~(\E q \in DOMAIN ligacoes : NaLinha(q, id))
    BY <1>1, <1>3, <1>4, <1>10, <2>2 DEF NaLista
  <2>. QED BY <2>1, <2>2
<1>. QED BY <1>1, <1>7, <1>8, <1>9, <1>10

-----------------------------------------------------------------------------
\* The invariant, and the theorems.

\* Every step is one of those that move a request, or moves none.
LEMMA QuietoOuMove ==
  ASSUME Base, [Next]_vars
  PROVE  \/ Base' /\ Quieto
         \/ GuardarDados \/ RespostaFalha \/ EnviarDados \/ LerResposta
         \/ \E t \in Tipos : Escolher(t)
         \/ \E k \in DOMAIN ligacoes :
              ReplicaEnvia(k) \/ ReplicaResposta(k) \/ AtenderLinha(k)
         \/ \E s \in Servidores : CairServidor(s)
<1>1. CASE UNCHANGED vars
  <2>1. /\ UNCHANGED <<ligacoes, feitos, quedas, escuta, utilizador, buffer, replicas>>
        /\ UNCHANGED <<papel, reiniciado>>
    BY <1>1 DEF vars, escuta, utilizador
  <2>2. Base'
    BY <2>1, BaseIgual, BasePapel
  <2>3. Quieto
    BY <2>1, QuietoIgual DEF escuta, utilizador
  <2>. QED BY <2>2, <2>3
<1>2. CASE PassoPrincipal
  BY <1>2, BasePasso, QuietoEspera, QuietoIniciar, QuietoLigar, QuietoAnunciar
     DEF PassoPrincipal, Next
<1>3. CASE Entrar
  BY <1>3, BasePasso, QuietoEntrar DEF Next
<1>4. ASSUME NEW k \in DOMAIN ligacoes, PassoReplica(k) \/ Aceitar(k) \/ AtenderLinha(k)
      PROVE  (Base' /\ Quieto) \/ ReplicaEnvia(k) \/ ReplicaResposta(k) \/ AtenderLinha(k)
  <2>1. Next
    BY <1>4 DEF Next
  <2>. QED BY <1>4, <2>1, BasePasso, QuietoReplica, QuietoAceitar DEF PassoReplica
<1>5. ASSUME NEW s \in Servidores,
             CairServidor(s) \/ PromoverServidor(s) \/ ArrancarServidor(s)
      PROVE  (Base' /\ Quieto) \/ CairServidor(s)
  <2>1. Next
    BY <1>5 DEF Next
  <2>. QED BY <1>5, <2>1, BasePasso, QuietoServidores
<1>. QED BY <1>1, <1>2, <1>3, <1>4, <1>5 DEF Next

\* The invariant is inductive: each action has its four lemmas above.
LEMMA InvariantePasso == IInv /\ [Next]_vars => IInv'
<1>. SUFFICES ASSUME Base, Copias, Primeira, Segunda, [Next]_vars
              PROVE  Base' /\ Copias' /\ Primeira' /\ Segunda'
  BY DEF IInv
<1>1. CASE Base' /\ Quieto
  BY <1>1, CopiasQuieto, PrimeiraQuieto, SegundaQuieto
<1>2. CASE GuardarDados \/ RespostaFalha
  BY <1>2, BaseGuardar, CopiasGuardar, PrimeiraGuardar, SegundaGuardar
<1>3. CASE EnviarDados
  BY <1>3, BaseEnviarDados, CopiasEnviarDados, PrimeiraEnviarDados, SegundaEnviarDados
<1>4. CASE LerResposta
  BY <1>4, BaseLerResposta, CopiasLerResposta, PrimeiraLerResposta, SegundaLerResposta
<1>5. ASSUME NEW t \in Tipos, Escolher(t)
      PROVE  Base' /\ Copias' /\ Primeira' /\ Segunda'
  BY <1>5, BaseEscolher, CopiasEscolher, PrimeiraEscolher, SegundaEscolher
<1>6. ASSUME NEW k \in DOMAIN ligacoes, ReplicaEnvia(k)
      PROVE  Base' /\ Copias' /\ Primeira' /\ Segunda'
  BY <1>6, BaseReplicaEnvia, CopiasReplicaEnvia, PrimeiraReplicaEnvia, SegundaReplicaEnvia
<1>7. ASSUME NEW k \in DOMAIN ligacoes, ReplicaResposta(k)
      PROVE  Base' /\ Copias' /\ Primeira' /\ Segunda'
  BY <1>7, BaseReplicaResposta, CopiasReplicaResposta, PrimeiraReplicaResposta,
     SegundaReplicaResposta
<1>8. ASSUME NEW k \in DOMAIN ligacoes, AtenderLinha(k)
      PROVE  Base' /\ Copias' /\ Primeira' /\ Segunda'
  BY <1>8, BaseAtender, CopiasAtender, PrimeiraAtender, SegundaAtender
<1>9. ASSUME NEW s \in Servidores, CairServidor(s)
      PROVE  Base' /\ Copias' /\ Primeira' /\ Segunda'
  BY <1>9, BaseCair, CopiasCair, PrimeiraCair, SegundaCair
<1>. QED BY <1>1, <1>2, <1>3, <1>4, <1>5, <1>6, <1>7, <1>8, <1>9, QuietoOuMove

\* What was carried out counts at least once.
LEMMA VezesConta ==
  ASSUME Base, NEW id
  PROVE  /\ IsFiniteSet({i \in DOMAIN feitos : feitos[i] = id}) /\ Vezes(id) \in Nat
         /\ Feito(id) => Vezes(id) > 0
<1>. DEFINE S == {i \in DOMAIN feitos : feitos[i] = id}
<1>1. Len(feitos) \in Nat /\ S \in SUBSET (1..Len(feitos))
  <2>1. feitos \in Seq(Ids)
    BY BaseIgual
  <2>. QED BY <2>1, LenProperties
<1>2. IsFiniteSet(S)
  BY <1>1, FS_Interval, FS_Subset
<1>3. Cardinality(S) \in Nat /\ (Cardinality(S) = 0 <=> S = {})
  BY <1>2, FS_CardinalityType, FS_EmptySet
<1>4. Feito(id) => S # {}
  BY DEF Feito
<1>5. \A c \in Nat : c # 0 => c > 0
  OBVIOUS
<1>6. Feito(id) => Cardinality(S) > 0
  <2>. HIDE DEF S
  <2>. QED BY <1>3, <1>4, <1>5, Zenon
<1>. QED BY <1>2, <1>3, <1>6 DEF Vezes

\* A request was carried out at most once by each connection of a set.
LEMMA VezesPorLigacao ==
  ASSUME Base, NEW f, UmaVez(f), NEW id, NEW T, IsFiniteSet(T),
         \A i \in DOMAIN feitos : feitos[i] = id => f[i] \in T
  PROVE  Vezes(id) <= Cardinality(T)
<1>. DEFINE S == {i \in DOMAIN feitos : feitos[i] = id}
            g == [i \in S |-> f[i]]
<1>1. IsFiniteSet(S) /\ Cardinality(S) \in Nat
  BY VezesConta DEF Vezes
<1>2. Cardinality(T) \in Nat
  BY FS_CardinalityType
<1>3. g \in [S -> T]
  OBVIOUS
<1>4. \A x, y \in S : g[x] = g[y] => x = y
  BY DEF UmaVez
<1>. HIDE DEF S, g
<1>5. ~(Cardinality(T) < Cardinality(S))
  BY <1>1, <1>3, <1>4, FS_PigeonHole
<1>6. Cardinality(S) <= Cardinality(T)
  BY <1>1, <1>2, <1>5
<1>. QED BY <1>6 DEF S, Vezes

\* By one connection, or by those after the first, one for each stop.
LEMMA RepetidosContados ==
  ASSUME IInv
  PROVE  RepeticoesContadas
<1>1. Base /\ \E f : CopiasCom(f)
  BY DEF IInv, Copias
<1>2. PICK f : CopiasCom(f)
  BY <1>1
<1>3. /\ f \in [DOMAIN feitos -> DOMAIN ligacoes] /\ UmaVez(f) /\ UmaOuDepois(f)
      /\ \A i \in DOMAIN feitos : Levou(f, f[i], feitos[i])
  BY <1>2 DEF CopiasCom, Levou
<1>4. /\ Actual \in Nat /\ DOMAIN ligacoes = 1..Actual /\ Actual <= quedas + 1
      /\ quedas \in Nat /\ 1..pedidos \subseteq Ids
  <2>1. /\ Actual \in Nat /\ DOMAIN ligacoes = 1..Actual /\ Actual <= quedas + 1
        /\ quedas \in 0..MaxQuedas /\ pedidos \in 0..MaxPedidos
    BY <1>1, BasePrincipal, BaseIgual
  <2>. QED BY <2>1, ConstantesAssumption DEF Ids
<1>5. ASSUME NEW id \in 1..pedidos, Vezes(id) > 1
      PROVE  Vezes(id) <= quedas
  <2>1. Vezes(id) \in Nat
    BY <1>1, VezesConta
  <2>2. CASE \A k, l \in DOMAIN ligacoes : Levou(f, k, id) /\ Levou(f, l, id) => k = l
    <3>1. \A i, j \in DOMAIN feitos : feitos[i] = id /\ feitos[j] = id => f[i] = f[j]
      BY <1>3, <2>2
    <3>2. PICK T : /\ IsFiniteSet(T) /\ Cardinality(T) <= 1
                   /\ \A i \in DOMAIN feitos : feitos[i] = id => f[i] \in T
      <4>1. CASE \E j \in DOMAIN feitos : feitos[j] = id
        <5>1. PICK j \in DOMAIN feitos : feitos[j] = id
          BY <4>1
        <5>2. PICK c : c = f[j]
          OBVIOUS
        <5>3. IsFiniteSet({c}) /\ Cardinality({c}) = 1
          BY FS_Singleton
        <5>. QED BY <3>1, <5>1, <5>2, <5>3
      <4>2. CASE ~(\E j \in DOMAIN feitos : feitos[j] = id)
        BY <4>2, FS_EmptySet
      <4>. QED BY <4>1, <4>2
    <3>3. Vezes(id) <= Cardinality(T) /\ Cardinality(T) \in Nat
      BY <1>1, <1>3, <3>2, VezesPorLigacao, FS_CardinalityType
    <3>. QED BY <1>5, <2>1, <3>2, <3>3
  <2>3. CASE \A k \in DOMAIN ligacoes : Levou(f, k, id) => k # 1
    <3>1. \A i \in DOMAIN feitos : feitos[i] = id => f[i] \in 2..Actual
      BY <1>3, <1>4, <2>3
    <3>2. IsFiniteSet(2..Actual) /\ Cardinality(2..Actual) <= quedas
      <4>1. /\ IsFiniteSet(2..Actual)
            /\ Cardinality(2..Actual) = IF 2 > Actual THEN 0 ELSE Actual - 2 + 1
        BY <1>4, FS_Interval
      <4>. QED BY <1>4, <4>1
    <3>3. Vezes(id) <= Cardinality(2..Actual) /\ Cardinality(2..Actual) \in Nat
      BY <1>1, <1>3, <3>1, <3>2, VezesPorLigacao, FS_CardinalityType
    <3>. QED BY <1>4, <2>1, <3>2, <3>3
  <2>. QED BY <1>3, <1>4, <2>2, <2>3 DEF UmaOuDepois
<1>. QED BY <1>5 DEF RepeticoesContadas

\* Segunda says where each request is.
LEMMA TodosNaLista ==
  ASSUME IInv
  PROVE  NadaSePerde
<1>1. Base /\ Segunda
  BY DEF IInv
<1>2. ASSUME NEW k \in DOMAIN ligacoes, NEW id, NaLinha(k, id) PROVE NaRede(id)
  BY <1>2 DEF NaLinha, Tem, NaRede, Dados
<1>3. ASSUME quedas <= 1, NEW id \in 1..pedidos
      PROVE  \/ Vezes(id) > 0 \/ NoBuffer(id) \/ id \in recusados \/ NaRede(id)
             \/ menu.id = id /\ menu.fase \in {"escrever", "espera", "morto"}
  BY <1>1, <1>2, <1>3, VezesConta DEF Segunda, NaLista
<1>. QED BY <1>3 DEF NadaSePerde

\* Spec keeps the invariant: a request may be on several connections, but each
\* carries it once, the first one for the menu alone (lines 671 to 694 and 1178 of
\* IdeaBrokerClientTCP).
THEOREM Invariante == Spec => []IInv
<1>1. Init => IInv
  BY BaseInicial, CopiasInicial, PrimeiraInicial, SegundaInicial DEF IInv
<1>. QED BY <1>1, InvariantePasso, PTL DEF Spec

\* The connections, the buffer and the phases of the three threads have their
\* types; the counter of main leaves its range only with the program (line 140 of
\* IdeaBrokerClientTCP).
THEOREM TypeCorrect == Spec => []TypeOK
<1>1. IInv => TypeOK
  BY DEF IInv, Base
<1>. QED BY <1>1, Invariante, PTL

\* However many requests the user makes, none disappears while one server stops at
\* most, whatever the three kinds of threads do meanwhile (lines 671 to 694 and
\* 1178 of IdeaBrokerClientTCP).
THEOREM NenhumSePerde == Spec => []NadaSePerde
<1>1. IInv => NadaSePerde
  BY TodosNaLista
<1>. QED BY <1>1, Invariante, PTL

\* The Buffer threads of all connections send the same head (line 1178), and still
\* a request is carried out at most once for each server that stopped.
THEOREM PoucasRepeticoes == Spec => []RepeticoesContadas
<1>1. IInv => RepeticoesContadas
  BY RepetidosContados
<1>. QED BY <1>1, Invariante, PTL
=============================================================================
