---------------------------- MODULE RegistoProofs ----------------------------
(***************************************************************************)
(* Proofs about Registo, for any number of threads whose calls overlap:    *)
(* names, themes, positions, the order of the ideas, and the money.        *)
(*                                                                         *)
(* Base holds whatever is in dispute: what is stored and pointed to has    *)
(* its type, and an object belongs to one name.  Each of the other four    *)
(* parts is about one list, or the balances, while nothing in it is in     *)
(* dispute: one call at most is changing it, and what that call found and  *)
(* computed is still so when it uses it.                                   *)
(***************************************************************************)
EXTENDS Registo, SequenceTheorems, WellFoundedInduction, TLAPS

\* The arrays of the two lists.
Contas == vectores.contas
Topicos == vectores.topicos

Em(t, F) == fase[t] \in F
DeConta(t) == fase[t] # "livre" /\ pedido[t].op = "registar"
DeTopico(t) == fase[t] # "livre" /\ pedido[t].op \in {"adicionartopico", "criartopico"}
DeIdeia(t) == fase[t] # "livre" /\ pedido[t].op = "criarideia"
DeSaldo(t) == fase[t] # "livre" /\ pedido[t].op \in {"criarideia", "vender"}

\* The call works on a user object; it has taken the investment.
ComObjecto(t) ==
  \/ Em(t, {"ler", "escrever"})
  \/ Em(t, {"gerar", "guardar"}) /\ pedido[t].op = "criarideia"
Pagou(t) == Em(t, {"gerar", "guardar"}) /\ pedido[t].op = "criarideia"

\* Identifiers are at most n; there is such a number, hence a largest identifier.
Ate(n) ==
  /\ \A i \in DOMAIN Contas : Contas[i].id <= n
  /\ \A i \in DOMAIN Topicos : Topicos[i].id <= n
  /\ \A i \in DOMAIN ideias :
       /\ ideias[i].id <= n
       /\ \A j \in DOMAIN ideias[i].respostas : ideias[i].respostas[j] <= n
Limitadas == \E n \in Nat : Ate(n)

\* What users and calls point to is an object, and each object is of one name.
Objectos ==
  /\ Len(devido) = Len(saldo)
  /\ \A i \in DOMAIN Contas : Contas[i].obj \in DOMAIN saldo
  /\ \A t \in Fios : ComObjecto(t) => lugar[t] \in DOMAIN saldo
Donos ==
  /\ \A i, j \in DOMAIN Contas :
       Contas[i].obj = Contas[j].obj => Contas[i].nome = Contas[j].nome
  /\ \A t \in Fios, i \in DOMAIN Contas :
       ComObjecto(t) /\ lugar[t] = Contas[i].obj => pedido[t].nome = Contas[i].nome
  /\ \A t, u \in Fios :
       ComObjecto(t) /\ ComObjecto(u) /\ lugar[t] = lugar[u] => pedido[t].nome = pedido[u].nome

\* What a call has on its way to the end of ArrayList.add.
Lugares ==
  \A t \in Fios :
    /\ Em(t, {"ler", "escrever"}) => pedido[t].op \in {"criarideia", "vender"}
    /\ Em(t, {"gerar"}) => DeConta(t) \/ DeTopico(t) \/ DeIdeia(t)
    /\ Em(t, {"lugar"}) => DeConta(t) \/ DeTopico(t)
    /\ Em(t, {"lugar", "guardar"}) => lido[t] \in Nat
    /\ Em(t, {"guardar"}) /\ DeConta(t) => lugar[t] <= Len(Contas)
    /\ Em(t, {"guardar"}) /\ DeTopico(t) => lugar[t] <= Len(Topicos)
Base == TypeOK /\ Limitadas /\ Objectos /\ Donos /\ Lugares

NasContas ==
  <<"contas">> \notin disputas =>
    /\ Contas = contas /\ NomesDistintos /\ ContasNaPosicao
    /\ \A t, u \in Fios : DeConta(t) /\ DeConta(u) => t = u
    /\ \A t \in Fios : pedido[t].op = "registar" =>
         /\ Em(t, {"gerar", "lugar", "guardar"}) => NomesIguais(pedido[t].nome) = {}
         /\ Em(t, {"lugar", "guardar"}) => lido[t] = Len(contas) + 1
         /\ Em(t, {"guardar"}) => lugar[t] = Len(contas)
NosTopicos ==
  <<"topicos">> \notin disputas =>
    /\ Topicos = topicos /\ TemasDistintos /\ TopicosNaPosicao
    /\ \A t, u \in Fios : DeTopico(t) /\ DeTopico(u) => t = u
    /\ \A t \in Fios : pedido[t].op \in {"adicionartopico", "criartopico"} =>
         /\ Em(t, {"gerar", "lugar", "guardar"}) => TemasIguais(TemaRecebido(pedido[t])) = {}
         /\ Em(t, {"lugar", "guardar"}) => lido[t] = Len(topicos) + 1
         /\ Em(t, {"guardar"}) => lugar[t] = Len(topicos)
NasIdeias ==
  <<"ideias">> \notin disputas =>
    /\ EmOrdem
    /\ \A t, u \in Fios : DeIdeia(t) /\ DeIdeia(u) => t = u
    /\ \A t \in Fios : Em(t, {"guardar"}) /\ DeIdeia(t) =>
         \A j \in DOMAIN ideias : lido[t] > ideias[j].id
NosSaldos ==
  Saldos \cap disputas = {} =>
    /\ SemDividas
    /\ \A t, u \in Fios : DeSaldo(t) /\ DeSaldo(u) /\ pedido[t].nome = pedido[u].nome => t = u
    /\ \A o \in DOMAIN saldo :
         (\A t \in Fios : Pagou(t) => lugar[t] # o) => saldo[o] = devido[o]
    /\ \A t \in Fios : Pagou(t) => saldo[lugar[t]] = devido[lugar[t]] - pedido[t].valor
    /\ \A t \in Fios : Em(t, {"escrever"}) => lido[t] = saldo[lugar[t]]
    /\ \A t \in Fios : Em(t, {"ler", "escrever"}) /\ DeIdeia(t) =>
         saldo[lugar[t]] >= pedido[t].valor

RInv == Base /\ NasContas /\ NosTopicos /\ NasIdeias /\ NosSaldos

-----------------------------------------------------------------------------
\* Lists.

\* The largest identifier of an increasing list is the last one.
LEMMA MaiorUltimo ==
  ASSUME NEW ids, ids \in Seq(Nat), \A i, j \in DOMAIN ids : i < j => ids[i] < ids[j]
  PROVE  /\ Maior(ids) \in Nat
         /\ \A i \in DOMAIN ids : Maior(ids) >= ids[i]
         /\ ids # <<>> => Maior(ids) = ids[Len(ids)]
         /\ ids = <<>> => Maior(ids) = 0
<1>1. CASE ids = <<>>
  BY <1>1 DEF Maior
<1>2. CASE ids # <<>>
  <2>. DEFINE S == {ids[i] : i \in DOMAIN ids}
              n == Len(ids)
  <2>1. n \in Nat /\ n > 0 /\ DOMAIN ids = 1..n
    BY <1>2
  <2>2. \A i \in 1..n : ids[i] \in Nat
    BY <2>1
  <2>3. \A i \in 1..n : ids[n] >= ids[i]
    BY <2>1, <2>2
  <2>4. ids[n] \in S /\ \A y \in S : ids[n] >= y
    BY <2>1, <2>3
  <2>5. \A x \in S : (\A y \in S : x >= y) => x = ids[n]
    <3>1. S \subseteq Nat
      BY <2>1, <2>2
    <3>2. ASSUME NEW x \in S, \A y \in S : x >= y PROVE x = ids[n]
      <4>1. x >= ids[n] /\ ids[n] >= x
        BY <2>4, <3>2
      <4>2. x \in Nat /\ ids[n] \in Nat
        BY <2>4, <3>1, <3>2
      <4>. HIDE DEF S, n
      <4>. QED BY <4>1, <4>2
    <3>. HIDE DEF S, n
    <3>. QED BY <3>2
  <2>6. Maior(ids) = CHOOSE x \in S : \A y \in S : x >= y
    BY <1>2 DEF Maior
  <2>7. Maior(ids) = ids[n]
    <3>. HIDE DEF S, n
    <3>. QED BY <2>4, <2>5, <2>6
  <2>. QED BY <1>2, <2>1, <2>2, <2>3, <2>7
<1>. QED BY <1>1, <1>2

\* A set of natural numbers that is not empty has a least one: < is well founded.
LEMMA MinimoNat ==
  ASSUME NEW T, T \subseteq Nat, T # {}
  PROVE  \E m \in T : \A y \in T : m <= y
<1>. DEFINE R == {ss \in Nat \X Nat : ss[1] < ss[2]}
<1>1. IsWellFoundedOn(R, Nat)
  BY NatLessThanWellFounded, Zenon DEF OpToRel
<1>2. PICK m \in T : \A y \in T : ~(<<y, m>> \in R)
  <2>. HIDE DEF R
  <2>. QED BY <1>1, WFMin
<1>3. ASSUME NEW y \in T PROVE m <= y
  <2>1. y \in Nat /\ m \in Nat
    BY <1>2
  <2>2. y < m => <<y, m>> \in R
    BY <2>1
  <2>. HIDE DEF R
  <2>. QED BY <1>2, <2>1, <2>2
<1>. QED BY <1>3

\* The first of some positions is one of them.
LEMMA PrimeiroDeles ==
  ASSUME NEW S, S \subseteq Nat, S # {}
  PROVE  Primeiro(S) \in S /\ \A j \in S : Primeiro(S) <= j
BY MinimoNat DEF Primeiro

\* A list of numbers up to n has a largest one: the distances to n have a least.
LEMMA MaiorLimitado ==
  ASSUME NEW ids, ids \in Seq(Nat), NEW n \in Nat, \A i \in DOMAIN ids : ids[i] <= n
  PROVE  Maior(ids) \in 0..n
<1>1. CASE ids = <<>>
  BY <1>1 DEF Maior
<1>2. CASE ids # <<>>
  <2>. DEFINE S == {ids[i] : i \in DOMAIN ids}
              T == {n - x : x \in S}
  <2>1. S \subseteq 0..n /\ S # {}
    BY <1>2
  <2>2. T \subseteq Nat /\ T # {}
    BY <2>1
  <2>3. PICK m \in T : \A y \in T : m <= y
    <3>. HIDE DEF T
    <3>. QED BY <2>2, MinimoNat
  <2>5. PICK x \in S : m = n - x
    OBVIOUS
  <2>6. \A y \in S : x >= y
    <3>1. \A y \in S : n - y >= n - x
      BY <2>3, <2>5
    <3>. HIDE DEF S, T
    <3>. QED BY <2>1, <3>1
  <2>7. Maior(ids) = CHOOSE z \in S : \A y \in S : z >= y
    BY <1>2 DEF Maior
  <2>8. Maior(ids) \in S
    <3>. HIDE DEF S, T
    <3>. QED BY <2>6, <2>7
  <2>. QED BY <2>1, <2>8
<1>. QED BY <1>1, <1>2

\* The identifier generated next, where identifiers are positions.
LEMMA MaiorPosicao ==
  ASSUME NEW lista, lista \in Seq(Conta) \/ lista \in Seq(Topico),
         \A i \in DOMAIN lista : lista[i].id = i
  PROVE  Maior(Ids(lista)) = Len(lista)
<1>1. DOMAIN lista = 1..Len(lista) /\ Len(lista) \in Nat
  OBVIOUS
<1>2. /\ Ids(lista) \in Seq(Nat) /\ Len(Ids(lista)) = Len(lista)
      /\ \A i \in 1..Len(lista) : Ids(lista)[i] = i
  BY <1>1 DEF Ids
<1>. QED BY <1>1, <1>2, MaiorUltimo

\* The identifier generated next, where identifiers are at most n.
LEMMA MaiorAte ==
  ASSUME NEW S, NEW lista \in Seq(S), NEW n \in Nat,
         \A i \in DOMAIN lista : lista[i].id \in Nat /\ lista[i].id <= n
  PROVE  Maior(Ids(lista)) \in Nat
<1>1. Ids(lista) \in Seq(Nat) /\ \A i \in DOMAIN Ids(lista) : Ids(lista)[i] <= n
  BY DEF Ids
<1>. QED BY <1>1, MaiorLimitado

\* The identifier generated next for an idea is larger than those in the list.
LEMMA MaiorDasIdeias ==
  ASSUME ideias \in Seq(Ideia), EmOrdem
  PROVE  /\ Maior(Ids(ideias)) \in Nat
         /\ \A j \in DOMAIN ideias : 1 + Maior(Ids(ideias)) > ideias[j].id
<1>1. ideias \in Seq(Ideia) /\ DOMAIN ideias = 1..Len(ideias) /\ Len(ideias) \in Nat
  OBVIOUS
<1>2. \A j \in 1..Len(ideias) : ideias[j].id \in Nat
  <2>1. \A j \in 1..Len(ideias) : ideias[j] \in Ideia
    BY <1>1
  <2>. QED BY <2>1 DEF Ideia
<1>3. Ids(ideias) \in Seq(Nat) /\ DOMAIN Ids(ideias) = DOMAIN ideias
  BY <1>1, <1>2 DEF Ids
<1>4. \A i, j \in DOMAIN Ids(ideias) : i < j => Ids(ideias)[i] < Ids(ideias)[j]
  BY <1>3 DEF EmOrdem, Ids
<1>5. Maior(Ids(ideias)) \in Nat /\ \A j \in DOMAIN ideias : Maior(Ids(ideias)) >= Ids(ideias)[j]
  BY <1>3, <1>4, MaiorUltimo
<1>. QED BY <1>1, <1>2, <1>5 DEF Ids

\* The list after an element was stored at position n + 1 of the array.
LEMMA GuardadaEm ==
  ASSUME NEW S, NEW vector \in Seq(S), NEW n \in 0..Len(vector), NEW e \in S
  PROVE  /\ Guardada(vector, n, e) \in Seq(S)
         /\ Len(Guardada(vector, n, e)) = n + 1
         /\ \A i \in 1..n : Guardada(vector, n, e)[i] = vector[i]
         /\ Guardada(vector, n, e)[n + 1] = e
<1>. DEFINE s == SubSeq(vector, 1, n)
<1>1. s \in Seq(S) /\ Len(s) = n /\ \A i \in 1..n : s[i] = vector[i]
  BY SubSeqProperties
<1>2. Guardada(vector, n, e) = Append(s, e)
  BY DEF Guardada
<1>. HIDE DEF s
<1>. QED BY <1>1, <1>2, AppendProperties

\* A list that agrees with another as far as it goes is a prefix of it.
LEMMA PrefixoDe ==
  ASSUME NEW S, NEW lista \in Seq(S), NEW outra \in Seq(S), Len(lista) <= Len(outra),
         \A i \in 1..Len(lista) : lista[i] = outra[i]
  PROVE  IsPrefix(lista, outra)
<1>. DEFINE a == SubSeq(lista, 1, Len(lista))
            b == SubSeq(outra, 1, Len(lista))
<1>1. a \in Seq(S) /\ Len(a) = Len(lista) /\ \A i \in 1..Len(lista) : a[i] = lista[i]
  BY SubSeqProperties
<1>2. b \in Seq(S) /\ Len(b) = Len(lista) /\ \A i \in 1..Len(lista) : b[i] = outra[i]
  BY SubSeqProperties
<1>3. a = b
  <2>. HIDE DEF a, b
  <2>. QED BY <1>1, <1>2, SeqEqual
<1>. QED BY <1>3 DEF IsPrefix

\* The array after the list changed: the list, and beyond it what was there.
LEMMA SobraFica ==
  ASSUME NEW S, NEW lista \in Seq(S), NEW vector \in Seq(S)
  PROVE  /\ ComSobra(lista, vector) \in Seq(S)
         /\ IsPrefix(lista, ComSobra(lista, vector))
         /\ Len(lista) <= Len(ComSobra(lista, vector))
         /\ Len(vector) <= Len(ComSobra(lista, vector))
         /\ \A i \in DOMAIN ComSobra(lista, vector) :
              ComSobra(lista, vector)[i] = IF i <= Len(lista) THEN lista[i] ELSE vector[i]
         /\ \A i \in DOMAIN ComSobra(lista, vector) : i > Len(lista) => i \in DOMAIN vector
         /\ Len(vector) <= Len(lista) => ComSobra(lista, vector) = lista
<1>. DEFINE r == SubSeq(vector, Len(lista) + 1, Len(vector))
            c == lista \o r
<1>0. Len(lista) \in Nat /\ Len(vector) \in Nat
  OBVIOUS
<1>1. CASE Len(vector) <= Len(lista)
  <2>1. r = <<>>
    BY <1>0, <1>1, SubSeqProperties
  <2>2. ComSobra(lista, vector) = lista
    <3>1. ComSobra(lista, vector) = c
      BY DEF ComSobra
    <3>. HIDE DEF r
    <3>. QED BY <2>1, <3>1, ConcatEmptySeq
  <2>. QED BY <1>1, <2>2, PrefixoDe
<1>2. CASE Len(vector) > Len(lista)
  <2>1. /\ r \in Seq(S) /\ Len(r) = Len(vector) - Len(lista)
        /\ \A i \in 1..(Len(vector) - Len(lista)) : r[i] = vector[Len(lista) + i]
    BY <1>0, <1>2, SubSeqProperties
  <2>. HIDE DEF r
  <2>2. /\ c \in Seq(S) /\ Len(c) = Len(vector)
        /\ \A i \in 1..Len(lista) : c[i] = lista[i]
        /\ \A i \in 1..Len(vector) : i > Len(lista) => c[i] = vector[i]
    <3>1. c \in Seq(S) /\ Len(c) = Len(lista) + Len(r)
      BY <2>1, ConcatProperties
    <3>2. \A i \in 1..Len(lista) : c[i] = lista[i]
      BY <2>1, ConcatProperties
    <3>3. ASSUME NEW i \in 1..Len(vector), i > Len(lista) PROVE c[i] = vector[i]
      <4>1. c[i] = r[i - Len(lista)]
        BY <1>0, <2>1, <3>3, ConcatProperties
      <4>. QED BY <1>0, <2>1, <3>3, <4>1
    <3>. QED BY <1>0, <2>1, <3>1, <3>2, <3>3
  <2>3. ComSobra(lista, vector) = c
    BY DEF ComSobra, r
  <2>. HIDE DEF c
  <2>4. IsPrefix(lista, c)
    BY <1>0, <1>2, <2>2, PrefixoDe
  <2>. QED BY <1>0, <1>2, <2>2, <2>3, <2>4
<1>. QED BY <1>0, <1>1, <1>2

\* A prefix agrees with the whole as far as it goes.
LEMMA PrefixoDiz ==
  ASSUME NEW S, NEW lista \in Seq(S), NEW vector \in Seq(S), IsPrefix(lista, vector)
  PROVE  /\ Len(lista) <= Len(vector)
         /\ \A i \in DOMAIN lista : i \in DOMAIN vector /\ lista[i] = vector[i]
<1>1. /\ Len(lista) <= Len(vector) /\ Len(lista) \in Nat /\ Len(vector) \in Nat
      /\ SubSeq(lista, 1, Len(lista)) = SubSeq(vector, 1, Len(lista))
  BY DEF IsPrefix
<1>2. /\ \A i \in 1..Len(lista) : SubSeq(lista, 1, Len(lista))[i] = lista[i]
      /\ \A i \in 1..Len(lista) : SubSeq(vector, 1, Len(lista))[i] = vector[i]
  BY <1>1, SubSeqProperties
<1>. QED BY <1>1, <1>2

\* The array stays when the list stays.
LEMMA SobraIgual ==
  ASSUME NEW S, NEW lista \in Seq(S), NEW vector \in Seq(S), IsPrefix(lista, vector)
  PROVE  ComSobra(lista, vector) = vector
<1>. DEFINE c == ComSobra(lista, vector)
<1>1. /\ Len(lista) <= Len(vector) /\ Len(lista) \in Nat /\ Len(vector) \in Nat
      /\ \A i \in 1..Len(lista) : lista[i] = vector[i]
  BY PrefixoDiz
<1>2. CASE Len(vector) = Len(lista)
  <2>1. lista = vector
    BY <1>1, <1>2, SeqEqual
  <2>. QED BY <1>2, <2>1, SobraFica
<1>3. CASE Len(vector) > Len(lista)
  <2>1. /\ c \in Seq(S) /\ DOMAIN c = 1..Len(c) /\ Len(c) \in Nat
        /\ Len(vector) <= Len(c)
        /\ \A i \in DOMAIN c : c[i] = IF i <= Len(lista) THEN lista[i] ELSE vector[i]
        /\ \A i \in DOMAIN c : i > Len(lista) => i \in DOMAIN vector
    BY SobraFica
  <2>. HIDE DEF c
  <2>2. Len(c) = Len(vector)
    <3>1. Len(c) \in DOMAIN c /\ Len(c) > Len(lista)
      BY <1>1, <1>3, <2>1
    <3>2. Len(c) \in 1..Len(vector)
      BY <2>1, <3>1
    <3>. QED BY <1>1, <2>1, <3>2
  <2>3. \A i \in 1..Len(c) : c[i] = vector[i]
    BY <1>1, <2>1
  <2>4. c = vector
    BY <2>1, <2>2, <2>3, SeqEqual
  <2>. QED BY <2>4 DEF c
<1>. QED BY <1>1, <1>2, <1>3

\* The list and its array after ArrayList.add stored an element at n + 1.
Depois(S, l, v, vector, n, e) ==
  /\ l \in Seq(S) /\ v \in Seq(S) /\ IsPrefix(l, v)
  /\ Len(l) = n + 1 /\ Len(vector) <= Len(v)
  /\ n + 1 \in DOMAIN v /\ v[n + 1] = e
  /\ \A i \in DOMAIN v : i # n + 1 => i \in DOMAIN vector /\ v[i] = vector[i]
  /\ \A i \in 1..n : l[i] = vector[i]
  /\ l[n + 1] = e
  /\ n = Len(vector) => v = l
LEMMA DepoisDeGuardar ==
  ASSUME NEW S, NEW vector \in Seq(S), NEW n \in 0..Len(vector), NEW e \in S
  PROVE  Depois(S, Guardada(vector, n, e), ComSobra(Guardada(vector, n, e), vector), vector, n, e)
<1>. DEFINE l == Guardada(vector, n, e)
            v == ComSobra(l, vector)
<1>1. /\ l \in Seq(S) /\ Len(l) = n + 1 /\ \A i \in 1..n : l[i] = vector[i]
      /\ l[n + 1] = e
  BY GuardadaEm
<1>. HIDE DEF l
<1>2. /\ v \in Seq(S) /\ IsPrefix(l, v)
      /\ Len(l) <= Len(v) /\ Len(vector) <= Len(v)
      /\ \A i \in DOMAIN v : v[i] = IF i <= Len(l) THEN l[i] ELSE vector[i]
      /\ \A i \in DOMAIN v : i > Len(l) => i \in DOMAIN vector
      /\ Len(vector) <= Len(l) => v = l
  BY <1>1, SobraFica
<1>. HIDE DEF v
<1>3. Depois(S, l, v, vector, n, e)
  BY <1>1, <1>2 DEF Depois
<1>. QED BY <1>3 DEF l, v

\* Deleting one element keeps the others, in their order.
LEMMA SemUm ==
  ASSUME NEW S, NEW lista \in Seq(S), NEW i \in DOMAIN lista
  PROVE  /\ RemoveAt(lista, i) \in Seq(S)
         /\ Len(RemoveAt(lista, i)) = Len(lista) - 1
         /\ \A j \in 1..(Len(lista) - 1) :
              RemoveAt(lista, i)[j] = IF j < i THEN lista[j] ELSE lista[j + 1]
<1>. DEFINE a == SubSeq(lista, 1, i - 1)
            b == SubSeq(lista, i + 1, Len(lista))
<1>1. i \in 1..Len(lista) /\ Len(lista) \in Nat
  OBVIOUS
<1>2. a \in Seq(S) /\ Len(a) = i - 1 /\ \A j \in 1..(i - 1) : a[j] = lista[j]
  BY <1>1, SubSeqProperties
<1>3. /\ b \in Seq(S) /\ Len(b) = Len(lista) - i
      /\ \A j \in 1..(Len(lista) - i) : b[j] = lista[i + j]
  BY <1>1, SubSeqProperties
<1>4. RemoveAt(lista, i) = a \o b
  BY DEF RemoveAt
<1>. HIDE DEF a, b
<1>. QED BY <1>1, <1>2, <1>3, <1>4, ConcatProperties

\* Writing at one position keeps the list of numbers.
LEMMA MudarUm ==
  ASSUME NEW lista \in Seq(Int), NEW k \in DOMAIN lista, NEW e \in Int
  PROVE  [lista EXCEPT ![k] = e] \in Seq(Int) /\ Len([lista EXCEPT ![k] = e]) = Len(lista)
BY ExceptSeq
LEMMA SomarUm ==
  ASSUME NEW lista \in Seq(Int), NEW k \in DOMAIN lista, NEW e \in Int
  PROVE  /\ [lista EXCEPT ![k] = @ + e] \in Seq(Int) /\ Len([lista EXCEPT ![k] = @ + e]) = Len(lista)
         /\ [lista EXCEPT ![k] = @ - e] \in Seq(Int) /\ Len([lista EXCEPT ![k] = @ - e]) = Len(lista)
<1>1. lista[k] + e \in Int /\ lista[k] - e \in Int
  OBVIOUS
<1>. QED BY <1>1, MudarUm

\* A list that did not change is a prefix of itself.
LEMMA PrefixoProprio ==
  ASSUME NEW S, NEW lista \in Seq(S)
  PROVE  IsPrefix(lista, lista)
BY DEF IsPrefix

-----------------------------------------------------------------------------
\* The steps of a call.

\* A call that is running changes nothing of the other threads'.
LEMMA Outros ==
  ASSUME TypeOK, NEW t \in Fios, Passo(t)
  PROVE  /\ fase[t] # "livre"
         /\ pedido' = pedido /\ chamadas' = chamadas /\ disputas' = disputas
         /\ \A u \in Fios : u # t =>
              fase'[u] = fase[u] /\ lugar'[u] = lugar[u] /\ lido'[u] = lido[u]
<1>. USE DEF TypeOK, Tipos, Ir, dados
<1>1. CASE ProcurarNome(t) \/ ProcurarTema(t)
  BY <1>1 DEF Passo, ProcurarNome, ProcurarTema
<1>2. CASE ProcurarSaldo(t)
  BY <1>2 DEF Passo, ProcurarSaldo
<1>3. CASE ProcurarVendedor(t)
  BY <1>3 DEF Passo, ProcurarVendedor
<1>4. CASE LerSaldo(t) \/ EscreverSaldo(t)
  BY <1>4 DEF Passo, LerSaldo, EscreverSaldo
<1>5. CASE GerarId(t)
  BY <1>5 DEF Passo, GerarId
<1>6. CASE LerTamanho(t)
  BY <1>6 DEF Passo, LerTamanho
<1>7. CASE GuardarConta(t) \/ GuardarTopico(t) \/ GuardarIdeia(t)
  BY <1>7 DEF Passo, GuardarConta, GuardarTopico, GuardarIdeia
<1>8. CASE Apagar(t) \/ Responder(t)
  BY <1>8 DEF Passo, Apagar, Responder
<1>. QED BY <1>1, <1>2, <1>3, <1>4, <1>5, <1>6, <1>7, <1>8 DEF Passo

\* Where the list stays, so does its array.
LEMMA ContasFicam ==
  ASSUME TypeOK, NEW t \in Fios, Passo(t), ~GuardarConta(t)
  PROVE  contas' = contas /\ Contas' = Contas
<1>1. contas' = contas
  BY DEF Passo, dados, ProcurarNome, ProcurarTema, ProcurarSaldo, ProcurarVendedor,
         LerSaldo, EscreverSaldo, GerarId, LerTamanho, GuardarTopico, GuardarIdeia,
         Apagar, Responder
<1>2. Contas' = ComSobra(contas, Contas)
  BY <1>1 DEF Passo, Contas
<1>3. contas \in Seq(Conta) /\ Contas \in Seq(Conta) /\ IsPrefix(contas, Contas)
  BY DEF TypeOK, Tipos, Contas
<1>. HIDE DEF Contas
<1>. QED BY <1>1, <1>2, <1>3, SobraIgual
LEMMA TopicosFicam ==
  ASSUME TypeOK, NEW t \in Fios, Passo(t), ~GuardarTopico(t)
  PROVE  topicos' = topicos /\ Topicos' = Topicos
<1>1. topicos' = topicos
  BY DEF Passo, dados, ProcurarNome, ProcurarTema, ProcurarSaldo, ProcurarVendedor,
         LerSaldo, EscreverSaldo, GerarId, LerTamanho, GuardarConta, GuardarIdeia,
         Apagar, Responder
<1>2. Topicos' = ComSobra(topicos, Topicos)
  BY <1>1 DEF Passo, Topicos
<1>3. topicos \in Seq(Topico) /\ Topicos \in Seq(Topico) /\ IsPrefix(topicos, Topicos)
  BY DEF TypeOK, Tipos, Topicos
<1>. HIDE DEF Topicos
<1>. QED BY <1>1, <1>2, <1>3, SobraIgual

\* A new user goes after the last one that the call knows of.
NovaConta(t) == [id |-> lido[t], nome |-> pedido[t].nome, obj |-> Len(saldo) + 1]
LEMMA ContasDepois ==
  ASSUME Base, NEW t \in Fios, Passo(t), GuardarConta(t)
  PROVE  /\ lugar[t] \in 0..Len(Contas) /\ NovaConta(t) \in Conta
         /\ Depois(Conta, contas', Contas', Contas, lugar[t], NovaConta(t))
<1>1. contas' = Guardada(Contas, lugar[t], NovaConta(t)) /\ Contas' = ComSobra(contas', Contas)
  BY DEF GuardarConta, Passo, Contas, NovaConta
<1>2. Contas \in Seq(Conta) /\ lugar[t] \in 0..Len(Contas) /\ NovaConta(t) \in Conta
  BY DEF Base, TypeOK, Tipos, Contas, NovaConta, Conta, Pedido, Lugares, Em, DeConta, GuardarConta
<1>. QED BY <1>1, <1>2, DepoisDeGuardar
NovoTopico(t) == [id |-> lido[t], tema |-> TemaRecebido(pedido[t])]
LEMMA TopicosDepois ==
  ASSUME Base, NEW t \in Fios, Passo(t), GuardarTopico(t)
  PROVE  /\ lugar[t] \in 0..Len(Topicos) /\ NovoTopico(t) \in Topico
         /\ Depois(Topico, topicos', Topicos', Topicos, lugar[t], NovoTopico(t))
<1>1. topicos' = Guardada(Topicos, lugar[t], NovoTopico(t)) /\ Topicos' = ComSobra(topicos', Topicos)
  BY DEF GuardarTopico, Passo, Topicos, NovoTopico
<1>2. Topicos \in Seq(Topico) /\ lugar[t] \in 0..Len(Topicos) /\ NovoTopico(t) \in Topico
  BY DEF Base, TypeOK, Tipos, Topicos, NovoTopico, Topico, TemaRecebido, Pedido, Lugares, Em,
         DeTopico, GuardarTopico
<1>. QED BY <1>1, <1>2, DepoisDeGuardar

-----------------------------------------------------------------------------
\* The initial states: nothing is stored and no call is running.
LEMMA Inicio == Init => RInv
<1>. SUFFICES ASSUME Init PROVE RInv
  OBVIOUS
<1>1. /\ contas = <<>> /\ Contas = <<>> /\ topicos = <<>> /\ Topicos = <<>>
      /\ ideias = <<>> /\ saldo = <<>> /\ devido = <<>>
      /\ \A t \in Fios : fase[t] = "livre"
  BY DEF Init, Contas, Topicos
<1>2. TypeOK
  <2>1. Tipos
    BY ConstantesAssumption DEF Init, Tipos, Fases
  <2>2. vectores \in [contas : Seq(Conta), topicos : Seq(Topico)]
    BY DEF Init
  <2>3. IsPrefix(contas, vectores.contas) /\ IsPrefix(topicos, vectores.topicos)
    BY DEF Init, IsPrefix
  <2>. QED BY <2>1, <2>2, <2>3 DEF TypeOK, Init
<1>3. Limitadas
  <2>1. Ate(0)
    BY <1>1 DEF Ate
  <2>. QED BY <2>1 DEF Limitadas
<1>4. Base
  BY <1>1, <1>2, <1>3 DEF Base, Objectos, Donos, Lugares, ComObjecto, Em, DeConta, DeTopico, DeIdeia
<1>5. NasContas /\ NosTopicos /\ NasIdeias /\ NosSaldos
  BY <1>1 DEF NasContas, NosTopicos, NasIdeias, NosSaldos, NomesDistintos, ContasNaPosicao,
              TemasDistintos, TopicosNaPosicao, EmOrdem, SemDividas, Em, DeConta, DeTopico,
              DeIdeia, DeSaldo, Pagou
<1>. QED BY <1>4, <1>5 DEF RInv

\* A call that arrives puts in dispute what it changes and others are changing.
LEMMA AChamada ==
  ASSUME TypeOK, NEW t \in Fios, Chamar(t)
  PROVE  /\ fase[t] = "livre" /\ fase' = [fase EXCEPT ![t] = "procurar"]
         /\ pedido' \in [Fios -> Pedido] /\ disputas' \subseteq Recursos
         /\ disputas \subseteq disputas'
         /\ \A u \in Fios : u # t => pedido'[u] = pedido[u]
         /\ \A u \in Fios : fase[u] # "livre" => Muda(pedido'[t]) \cap Muda(pedido[u]) \subseteq disputas'
         /\ chamadas' \in 0..MaxChamadas
         /\ UNCHANGED <<dados, vectores, lugar, lido>>
<1>1. PICK p \in Pedido :
        /\ pedido' = [pedido EXCEPT ![t] = p]
        /\ disputas' = disputas \cup
             UNION {Muda(p) \cap Muda(pedido[u]) : u \in {v \in Fios : fase[v] # "livre"}}
  BY DEF Chamar
<1>2. pedido' \in [Fios -> Pedido] /\ pedido'[t] = p /\ \A u \in Fios : u # t => pedido'[u] = pedido[u]
  BY <1>1 DEF TypeOK, Tipos
<1>3. Muda(p) \subseteq Recursos
  BY <1>1 DEF Muda, Recursos, Saldos, Pedido
<1>4. disputas' \subseteq Recursos
  BY <1>1, <1>3 DEF TypeOK
<1>. QED BY <1>1, <1>2, <1>4, ConstantesAssumption DEF Chamar, Ir, TypeOK, Tipos

LEMMA ChamarBase ==
  ASSUME Base, NEW t \in Fios, Chamar(t)
  PROVE  Base'
<1>1. TypeOK
  BY DEF Base
<1>2. TypeOK'
  <2>1. fase' \in [Fios -> Fases]
    BY <1>1, AChamada DEF TypeOK, Tipos, Fases
  <2>. QED BY <1>1, <2>1, AChamada DEF TypeOK, Tipos, dados
<1>3. /\ Contas' = Contas /\ Topicos' = Topicos /\ ideias' = ideias /\ saldo' = saldo
      /\ devido' = devido /\ lugar' = lugar /\ lido' = lido
  BY <1>1, AChamada DEF dados, Contas, Topicos
<1>4. Limitadas'
  BY <1>3 DEF Base, Limitadas, Ate
<1>5. \A u \in Fios : u = t \/ (fase'[u] = fase[u] /\ pedido'[u] = pedido[u])
  BY <1>1, AChamada DEF TypeOK, Tipos
<1>6. fase'[t] = "procurar"
  BY <1>1, AChamada DEF TypeOK, Tipos
<1>7. Objectos'
  BY <1>3, <1>5, <1>6 DEF Base, Objectos, ComObjecto, Em
<1>8. Donos'
  BY <1>3, <1>5, <1>6 DEF Base, Donos, ComObjecto, Em
<1>9. Lugares'
  BY <1>3, <1>5, <1>6 DEF Base, Lugares, Em, DeConta, DeTopico, DeIdeia
<1>. QED BY <1>2, <1>4, <1>7, <1>8, <1>9 DEF Base

LEMMA ChamarListas ==
  ASSUME RInv, NEW t \in Fios, Chamar(t)
  PROVE  NasContas' /\ NosTopicos' /\ NasIdeias' /\ NosSaldos'
<1>1. TypeOK
  BY DEF RInv, Base
<1>2. /\ contas' = contas /\ topicos' = topicos /\ Contas' = Contas /\ Topicos' = Topicos
      /\ ideias' = ideias /\ saldo' = saldo
      /\ devido' = devido /\ lugar' = lugar /\ lido' = lido
      /\ disputas \subseteq disputas'
  BY <1>1, AChamada DEF dados, Contas, Topicos
<1>3. \A u \in Fios : u = t \/ (fase'[u] = fase[u] /\ pedido'[u] = pedido[u])
  BY <1>1, AChamada DEF TypeOK, Tipos
<1>4. fase'[t] = "procurar" /\ fase[t] = "livre" /\ pedido'[t] \in Pedido
  BY <1>1, AChamada DEF TypeOK, Tipos
<1>5. \A u \in Fios : fase[u] # "livre" => Muda(pedido'[t]) \cap Muda(pedido[u]) \subseteq disputas'
  BY <1>1, AChamada
<1>6. NasContas'
  <2>1. ASSUME <<"contas">> \notin disputas', NEW u \in Fios, DeConta(t)', DeConta(u)'
        PROVE  u = t
    <3>1. u # t => DeConta(u) /\ <<"contas">> \in Muda(pedido'[t]) \cap Muda(pedido[u])
      BY <1>3, <2>1 DEF DeConta, Muda
    <3>. QED BY <1>5, <2>1, <3>1 DEF DeConta
  <2>. QED BY <1>2, <1>3, <1>4, <2>1
         DEF RInv, NasContas, NomesDistintos, ContasNaPosicao, NomesIguais, Em, DeConta
<1>7. NosTopicos'
  <2>1. ASSUME <<"topicos">> \notin disputas', NEW u \in Fios, DeTopico(t)', DeTopico(u)'
        PROVE  u = t
    <3>1. u # t => DeTopico(u) /\ <<"topicos">> \in Muda(pedido'[t]) \cap Muda(pedido[u])
      BY <1>3, <2>1 DEF DeTopico, Muda
    <3>. QED BY <1>5, <2>1, <3>1 DEF DeTopico
  <2>. QED BY <1>2, <1>3, <1>4, <2>1
         DEF RInv, NosTopicos, TemasDistintos, TopicosNaPosicao, TemasIguais, TemaRecebido, Em, DeTopico
<1>8. NasIdeias'
  <2>1. ASSUME <<"ideias">> \notin disputas', NEW u \in Fios, DeIdeia(t)', DeIdeia(u)'
        PROVE  u = t
    <3>1. u # t => DeIdeia(u) /\ <<"ideias">> \in Muda(pedido'[t]) \cap Muda(pedido[u])
      BY <1>3, <2>1 DEF DeIdeia, Muda
    <3>. QED BY <1>5, <2>1, <3>1 DEF DeIdeia
  <2>. QED BY <1>2, <1>3, <1>4, <2>1 DEF RInv, NasIdeias, EmOrdem, Em, DeIdeia
<1>9. NosSaldos'
  <2>1. ASSUME Saldos \cap disputas' = {}, NEW u \in Fios, DeSaldo(t)', DeSaldo(u)',
               pedido'[t].nome = pedido'[u].nome
        PROVE  u = t
    <3>. DEFINE r == <<"saldo", pedido'[t].nome>>
    <3>1. r \in Muda(pedido'[t]) /\ r \in Saldos
      BY <1>4, <2>1 DEF DeSaldo, Muda, Saldos, Pedido
    <3>2. u # t => DeSaldo(u) /\ r \in Muda(pedido[u])
      BY <1>3, <2>1 DEF DeSaldo, Muda
    <3>. HIDE DEF r
    <3>. QED BY <1>5, <2>1, <3>1, <3>2 DEF DeSaldo
  <2>2. Saldos \cap disputas' = {} => Saldos \cap disputas = {}
    BY <1>2
  <2>. QED BY <1>2, <1>3, <1>4, <2>1, <2>2
         DEF RInv, NosSaldos, SemDividas, Em, DeIdeia, DeSaldo, Pagou
<1>. QED BY <1>6, <1>7, <1>8, <1>9

-----------------------------------------------------------------------------
\* The steps of a running call keep Base.

\* The user that a search for a balance or for a seller finds.
LEMMA Encontrado ==
  ASSUME Base, NEW t \in Fios, ProcurarSaldo(t) \/ ProcurarVendedor(t)
  PROVE  \/ fase'[t] = "livre" /\ lugar' = lugar
         \/ /\ fase'[t] = "ler" /\ pedido[t].op \in {"criarideia", "vender"}
            /\ \E i \in DOMAIN contas :
                 /\ i \in DOMAIN Contas /\ Contas[i] = contas[i]
                 /\ contas[i].nome = pedido[t].nome
                 /\ lugar' = [lugar EXCEPT ![t] = contas[i].obj]
                 /\ pedido[t].op = "criarideia" => saldo[contas[i].obj] >= pedido[t].valor
<1>1. contas \in Seq(Conta) /\ Contas \in Seq(Conta) /\ IsPrefix(contas, Contas)
  BY DEF Base, TypeOK, Tipos, Contas
<1>2. \A i \in DOMAIN contas : i \in DOMAIN Contas /\ Contas[i] = contas[i]
  <2>. HIDE DEF Contas
  <2>. QED BY <1>1, PrefixoDiz
<1>3. DOMAIN contas \subseteq Nat
  BY <1>1
<1>4. fase \in [Fios -> Fases]
  BY DEF Base, TypeOK, Tipos
<1>5. CASE ProcurarSaldo(t)
  <2>. DEFINE bons == {i \in NomesIguais(pedido[t].nome) : saldo[contas[i].obj] >= pedido[t].valor}
              k == Primeiro(bons)
  <2>1. bons \subseteq Nat
    BY <1>3 DEF NomesIguais
  <2>2. bons # {} => k \in bons
    <3>. HIDE DEF bons
    <3>. QED BY <2>1, PrimeiroDeles
  <2>3. bons # {} => k \in DOMAIN contas /\ contas[k].nome = pedido[t].nome
                     /\ saldo[contas[k].obj] >= pedido[t].valor
    <3>. HIDE DEF k
    <3>. QED BY <2>2 DEF NomesIguais
  <2>4. /\ pedido[t].op = "criarideia"
        /\ IF bons = {} THEN Ir(t, "livre") /\ lugar' = lugar
           ELSE Ir(t, "ler") /\ lugar' = [lugar EXCEPT ![t] = contas[k].obj]
    BY <1>5 DEF ProcurarSaldo
  <2>. HIDE DEF bons, k
  <2>. QED BY <1>2, <1>4, <2>3, <2>4 DEF Ir
<1>6. CASE ProcurarVendedor(t)
  <2>. DEFINE iguais == NomesIguais(pedido[t].nome)
              k == Primeiro(iguais)
  <2>1. iguais \subseteq Nat
    BY <1>3 DEF NomesIguais
  <2>2. iguais # {} => k \in iguais
    <3>. HIDE DEF iguais
    <3>. QED BY <2>1, PrimeiroDeles
  <2>3. iguais # {} => k \in DOMAIN contas /\ contas[k].nome = pedido[t].nome
    <3>. HIDE DEF k
    <3>. QED BY <2>2 DEF NomesIguais
  <2>4. /\ pedido[t].op = "vender"
        /\ IF iguais = {} THEN Ir(t, "livre") /\ lugar' = lugar
           ELSE Ir(t, "ler") /\ lugar' = [lugar EXCEPT ![t] = contas[k].obj]
    BY <1>6 DEF ProcurarVendedor
  <2>. HIDE DEF iguais, k
  <2>. QED BY <1>2, <1>4, <2>3, <2>4 DEF Ir
<1>. QED BY <1>5, <1>6

\* A generated identifier is a positive number.
LEMMA IdGerado ==
  ASSUME Base, NEW t \in Fios, GerarId(t)
  PROVE  lido' = [lido EXCEPT ![t] = 1 + Maior(IdsDa(pedido[t].op))]
         /\ Maior(IdsDa(pedido[t].op)) \in Nat
<1>1. PICK n \in Nat : Ate(n)
  BY DEF Base, Limitadas
<1>2. contas \in Seq(Conta) /\ Contas \in Seq(Conta) /\ IsPrefix(contas, Contas)
  BY DEF Base, TypeOK, Tipos, Contas
<1>3. topicos \in Seq(Topico) /\ Topicos \in Seq(Topico) /\ IsPrefix(topicos, Topicos)
  BY DEF Base, TypeOK, Tipos, Topicos
<1>4. Maior(Ids(contas)) \in Nat
  <2>1. \A i \in DOMAIN contas : i \in DOMAIN Contas /\ contas[i] = Contas[i]
    <3>. HIDE DEF Contas
    <3>. QED BY <1>2, PrefixoDiz
  <2>2. \A i \in DOMAIN contas : contas[i].id \in Nat /\ contas[i].id <= n
    <3>1. \A i \in DOMAIN contas : contas[i] \in Conta
      BY <1>2
    <3>2. \A i \in DOMAIN contas : contas[i].id \in Nat
      BY <3>1 DEF Conta
    <3>3. \A i \in DOMAIN contas : contas[i].id <= n
      BY <1>1, <2>1 DEF Ate
    <3>. QED BY <3>2, <3>3
  <2>. QED BY <1>2, <2>2, MaiorAte
<1>5. Maior(Ids(topicos)) \in Nat
  <2>1. \A i \in DOMAIN topicos : i \in DOMAIN Topicos /\ topicos[i] = Topicos[i]
    <3>. HIDE DEF Topicos
    <3>. QED BY <1>3, PrefixoDiz
  <2>2. \A i \in DOMAIN topicos : topicos[i].id \in Nat /\ topicos[i].id <= n
    <3>1. \A i \in DOMAIN topicos : topicos[i] \in Topico
      BY <1>3
    <3>2. \A i \in DOMAIN topicos : topicos[i].id \in Nat
      BY <3>1 DEF Topico
    <3>3. \A i \in DOMAIN topicos : topicos[i].id <= n
      BY <1>1, <2>1 DEF Ate
    <3>. QED BY <3>2, <3>3
  <2>. QED BY <1>3, <2>2, MaiorAte
<1>6. Maior(Ids(ideias)) \in Nat
  <2>1. ideias \in Seq(Ideia)
    BY DEF Base, TypeOK, Tipos
  <2>2. \A i \in DOMAIN ideias : ideias[i].id \in Nat /\ ideias[i].id <= n
    <3>1. \A i \in DOMAIN ideias : ideias[i] \in Ideia
      BY <2>1
    <3>2. \A i \in DOMAIN ideias : ideias[i].id \in Nat
      BY <3>1 DEF Ideia
    <3>. QED BY <1>1, <3>2 DEF Ate
  <2>. QED BY <2>1, <2>2, MaiorAte
<1>. QED BY <1>4, <1>5, <1>6 DEF GerarId, IdsDa

\* A reply changes the replies of one idea, and they stay bounded.
LEMMA Respondida ==
  ASSUME Base, NEW t \in Fios, Responder(t), NEW n \in Nat, Ate(n)
  PROVE  /\ ideias' \in Seq(Ideia) /\ Len(ideias') = Len(ideias)
         /\ \A j \in DOMAIN ideias :
              /\ ideias'[j].id = ideias[j].id
              /\ \A k \in DOMAIN ideias'[j].respostas : ideias'[j].respostas[k] <= n + 1
<1>0. /\ ideias \in Seq(Ideia)
      /\ \A j \in DOMAIN ideias :
           /\ ideias[j] \in Ideia /\ ideias[j].respostas \in Seq(Nat)
           /\ \A k \in DOMAIN ideias[j].respostas : ideias[j].respostas[k] <= n
  <2>1. ideias \in Seq(Ideia)
    BY DEF Base, TypeOK, Tipos
  <2>2. \A j \in DOMAIN ideias : ideias[j] \in Ideia
    BY <2>1
  <2>3. \A j \in DOMAIN ideias : ideias[j].respostas \in Seq(Nat)
    BY <2>2 DEF Ideia
  <2>. QED BY <2>1, <2>2, <2>3 DEF Ate
<1>1. PICK id \in 1..MaxChamadas :
       ideias' = IF id \notin DOMAIN ideias THEN ideias
         ELSE [j \in DOMAIN ideias |-> IF ideias[j].id # id THEN ideias[j] ELSE
                [id |-> id, autor |-> ideias[j].autor, respostas |->
                   Append(ideias[j].respostas, 1 + Maior(ideias[id].respostas))]]
  BY DEF Responder
<1>2. CASE id \notin DOMAIN ideias
  <2>1. \A j \in DOMAIN ideias :
          \A k \in DOMAIN ideias[j].respostas : ideias[j].respostas[k] <= n + 1
    <3>1. ASSUME NEW j \in DOMAIN ideias, NEW k \in DOMAIN ideias[j].respostas
          PROVE  ideias[j].respostas[k] <= n + 1
      <4>1. ideias[j].respostas[k] \in Nat /\ ideias[j].respostas[k] <= n
        BY <1>0, <3>1
      <4>. QED BY <4>1
    <3>. QED BY <3>1
  <2>. QED BY <1>0, <1>1, <1>2, <2>1
<1>3. CASE id \in DOMAIN ideias
  <2>. DEFINE m == 1 + Maior(ideias[id].respostas)
              r(j) == Append(ideias[j].respostas, m)
  <2>1. m \in Nat /\ m <= n + 1
    <3>1. Maior(ideias[id].respostas) \in 0..n
      BY <1>0, <1>3, MaiorLimitado
    <3>. QED BY <3>1
  <2>. HIDE DEF m
  <2>2. \A j \in DOMAIN ideias :
          /\ r(j) \in Seq(Nat)
          /\ \A k \in DOMAIN r(j) : r(j)[k] <= n + 1
    <3>1. ASSUME NEW j \in DOMAIN ideias
          PROVE  r(j) \in Seq(Nat) /\ \A k \in DOMAIN r(j) : r(j)[k] <= n + 1
      <4>. DEFINE q == ideias[j].respostas
      <4>1. q \in Seq(Nat) /\ \A k \in DOMAIN q : q[k] \in Nat /\ q[k] <= n
        BY <1>0
      <4>. HIDE DEF q
      <4>2. /\ Append(q, m) \in Seq(Nat)
            /\ \A k \in DOMAIN Append(q, m) : Append(q, m)[k] <= n + 1
        BY <2>1, <4>1
      <4>. QED BY <4>2 DEF q
    <3>. QED BY <3>1
  <2>3. ideias' = [j \in DOMAIN ideias |-> IF ideias[j].id # id THEN ideias[j] ELSE
                [id |-> id, autor |-> ideias[j].autor, respostas |-> r(j)]]
    BY <1>1, <1>3 DEF m
  <2>. HIDE DEF r
  <2>4. \A j \in DOMAIN ideias : ideias'[j] \in Ideia
    BY <1>0, <2>2, <2>3 DEF Ideia
  <2>5. DOMAIN ideias' = DOMAIN ideias
    BY <2>3
  <2>6. ideias' \in Seq(Ideia) /\ Len(ideias') = Len(ideias)
    BY <1>0, <2>3, <2>4
  <2>7. ASSUME NEW j \in DOMAIN ideias
        PROVE  /\ ideias'[j].id = ideias[j].id
               /\ \A k \in DOMAIN ideias'[j].respostas : ideias'[j].respostas[k] <= n + 1
    <3>1. CASE ideias[j].id = id
      BY <2>2, <2>3, <3>1
    <3>2. CASE ideias[j].id # id
      <4>1. ideias'[j] = ideias[j]
        BY <2>3, <3>2
      <4>2. ASSUME NEW k \in DOMAIN ideias[j].respostas PROVE ideias[j].respostas[k] <= n + 1
        <5>1. ideias[j].respostas[k] \in Nat /\ ideias[j].respostas[k] <= n
          BY <1>0, <4>2
        <5>. QED BY <5>1
      <4>. QED BY <4>1, <4>2
    <3>. QED BY <3>1, <3>2
  <2>. QED BY <2>6, <2>7
<1>. QED BY <1>2, <1>3

\* The variables that a step changes, by the kind of step.
LEMMA Locais ==
  ASSUME Base, NEW t \in Fios, Passo(t)
  PROVE  /\ fase' \in [Fios -> Fases] /\ lugar' \in [Fios -> Nat] /\ lido' \in [Fios -> Int]
<1>1. /\ fase \in [Fios -> Fases] /\ lugar \in [Fios -> Nat] /\ lido \in [Fios -> Int]
      /\ saldo \in Seq(Int) /\ contas \in Seq(Conta)
  BY DEF Base, TypeOK, Tipos
<1>2. {"livre", "ler", "escrever", "gerar", "lugar", "guardar"} \subseteq Fases
  BY DEF Fases
<1>. USE DEF Passo, Ir, dados
<1>3. CASE ProcurarNome(t) \/ ProcurarTema(t)
  BY <1>1, <1>2, <1>3 DEF ProcurarNome, ProcurarTema
<1>4. CASE ProcurarSaldo(t) \/ ProcurarVendedor(t)
  <2>1. lugar' \in [Fios -> Nat]
    <3>1. \A i \in DOMAIN contas : contas[i] \in Conta
      BY <1>1
    <3>2. \A i \in DOMAIN contas : contas[i].obj \in Nat
      BY <3>1 DEF Conta
    <3>. QED BY <1>1, <1>4, <3>2, Encontrado
  <2>2. fase' \in [Fios -> Fases] /\ lido' = lido
    BY <1>1, <1>2, <1>4 DEF ProcurarSaldo, ProcurarVendedor
  <2>. QED BY <1>1, <2>1, <2>2
<1>5. CASE LerSaldo(t)
  <2>1. saldo[lugar[t]] \in Int
    <3>1. lugar[t] \in DOMAIN saldo
      BY <1>5 DEF LerSaldo, Base, Objectos, ComObjecto, Em
    <3>. QED BY <1>1, <3>1
  <2>. QED BY <1>1, <1>2, <1>5, <2>1 DEF LerSaldo
<1>6. CASE EscreverSaldo(t)
  BY <1>1, <1>2, <1>6 DEF EscreverSaldo
<1>7. CASE GerarId(t)
  <2>1. lido' \in [Fios -> Int]
    BY <1>1, <1>7, IdGerado
  <2>. QED BY <1>1, <1>2, <1>7, <2>1 DEF GerarId
<1>8. CASE LerTamanho(t)
  <2>1. Len(contas) \in Nat /\ Len(topicos) \in Nat
    BY DEF Base, TypeOK, Tipos
  <2>. QED BY <1>1, <1>2, <1>8, <2>1 DEF LerTamanho
<1>9. CASE GuardarConta(t) \/ GuardarTopico(t) \/ GuardarIdeia(t) \/ Apagar(t) \/ Responder(t)
  BY <1>1, <1>2, <1>9 DEF GuardarConta, GuardarTopico, GuardarIdeia, Apagar, Responder
<1>. QED BY <1>3, <1>4, <1>5, <1>6, <1>7, <1>8, <1>9

LEMMA DosSaldos ==
  ASSUME Base, NEW t \in Fios, Passo(t)
  PROVE  /\ saldo' \in Seq(Int) /\ devido' \in Seq(Int) /\ Len(devido') = Len(saldo')
         /\ IF GuardarConta(t)
              THEN /\ Len(saldo') = Len(saldo) + 1
                   /\ saldo'[Len(saldo) + 1] = SaldoInicial /\ devido'[Len(saldo) + 1] = SaldoInicial
                   /\ \A o \in DOMAIN saldo : saldo'[o] = saldo[o] /\ devido'[o] = devido[o]
              ELSE Len(saldo') = Len(saldo)
<1>1. /\ saldo \in Seq(Int) /\ devido \in Seq(Int) /\ Len(devido) = Len(saldo)
      /\ pedido[t].valor \in Int /\ lido[t] \in Int
  <2>1. pedido[t] \in Pedido
    BY DEF Base, TypeOK, Tipos
  <2>2. pedido[t].valor \in Valores
    BY <2>1 DEF Pedido
  <2>3. pedido[t].valor \in Int
    <3>1. Valores \subseteq Nat
      BY ConstantesAssumption
    <3>2. pedido[t].valor \in Nat
      BY <2>2, <3>1, Zenon
    <3>. QED BY <3>2
  <2>. QED BY <2>3 DEF Base, TypeOK, Tipos, Objectos
<1>2. CASE GuardarConta(t)
  BY <1>1, <1>2, ConstantesAssumption DEF GuardarConta
<1>3. CASE EscreverSaldo(t)
  <2>1. NovoSaldo(t) \in Int
    BY <1>1 DEF NovoSaldo
  <2>0. lugar[t] \in DOMAIN saldo /\ lugar[t] \in DOMAIN devido
    BY <1>1, <1>3 DEF EscreverSaldo, Base, Objectos, ComObjecto, Em
  <2>. DEFINE s == [saldo EXCEPT ![lugar[t]] = NovoSaldo(t)]
              d == [devido EXCEPT ![lugar[t]] = @ + pedido[t].valor]
  <2>2. s \in Seq(Int) /\ Len(s) = Len(saldo)
    BY <1>1, <2>0, <2>1, MudarUm
  <2>3. d \in Seq(Int) /\ Len(d) = Len(devido)
    BY <1>1, <2>0, SomarUm
  <2>4. saldo' = s /\ (devido' = d \/ devido' = devido)
    BY <1>3 DEF EscreverSaldo
  <2>5. ~GuardarConta(t)
    BY <1>3 DEF EscreverSaldo, GuardarConta
  <2>. HIDE DEF s, d
  <2>. QED BY <1>1, <2>2, <2>3, <2>4, <2>5
<1>4. CASE GuardarIdeia(t)
  <2>. DEFINE d == [devido EXCEPT ![lugar[t]] = @ - pedido[t].valor]
  <2>0. lugar[t] \in DOMAIN devido
    BY <1>1, <1>4 DEF GuardarIdeia, Base, Objectos, ComObjecto, Em
  <2>1. d \in Seq(Int) /\ Len(d) = Len(devido)
    BY <1>1, <2>0, SomarUm
  <2>2. saldo' = saldo /\ devido' = d /\ ~GuardarConta(t)
    BY <1>4 DEF GuardarIdeia, GuardarConta
  <2>. HIDE DEF d
  <2>. QED BY <1>1, <2>1, <2>2
<1>5. CASE ~GuardarConta(t) /\ ~EscreverSaldo(t) /\ ~GuardarIdeia(t)
  <2>1. saldo' = saldo /\ devido' = devido
    BY <1>5 DEF Passo, dados, ProcurarNome, ProcurarTema, ProcurarSaldo, ProcurarVendedor,
                LerSaldo, GerarId, LerTamanho, GuardarTopico, Apagar, Responder
  <2>. QED BY <1>1, <1>5, <2>1
<1>. QED BY <1>2, <1>3, <1>4, <1>5

LEMMA DasIdeias ==
  ASSUME Base, NEW t \in Fios, Passo(t), ~GuardarIdeia(t), ~Apagar(t), ~Responder(t)
  PROVE  ideias' = ideias
BY DEF Passo, dados, ProcurarNome, ProcurarTema, ProcurarSaldo, ProcurarVendedor,
       LerSaldo, EscreverSaldo, GerarId, LerTamanho, GuardarConta, GuardarTopico

\* Deleting leaves the list, or takes one idea out.
LEMMA Apagada ==
  ASSUME Base, NEW t \in Fios, Apagar(t)
  PROVE  ideias' = ideias \/ \E i \in DOMAIN ideias : ideias' = RemoveAt(ideias, i)
<1>1. PICK id \in 1..MaxChamadas :
        LET alvo == {j \in DOMAIN ideias : ideias[j].id = id /\ ideias[j].autor = pedido[t].nome}
        IN  ideias' = IF alvo = {} THEN ideias ELSE RemoveAt(ideias, Primeiro(alvo))
  BY DEF Apagar
<1>. DEFINE alvo == {j \in DOMAIN ideias : ideias[j].id = id /\ ideias[j].autor = pedido[t].nome}
<1>2. alvo \subseteq Nat /\ alvo \subseteq DOMAIN ideias
  BY DEF Base, TypeOK, Tipos
<1>3. ideias' = IF alvo = {} THEN ideias ELSE RemoveAt(ideias, Primeiro(alvo))
  BY <1>1
<1>. HIDE DEF alvo
<1>. QED BY <1>2, <1>3, PrimeiroDeles

LEMMA PassoTipos ==
  ASSUME Base, NEW t \in Fios, Passo(t)
  PROVE  TypeOK'
<1>1. TypeOK
  BY DEF Base
<1>2. pedido' \in [Fios -> Pedido] /\ chamadas' \in 0..MaxChamadas /\ disputas' \subseteq Recursos
  BY <1>1, Outros DEF TypeOK, Tipos
<1>3. contas' \in Seq(Conta) /\ Contas' \in Seq(Conta) /\ IsPrefix(contas', Contas')
  <2>1. CASE GuardarConta(t)
    BY <2>1, ContasDepois DEF Depois
  <2>2. CASE ~GuardarConta(t)
    BY <1>1, <2>2, ContasFicam DEF TypeOK, Tipos, Contas
  <2>. QED BY <2>1, <2>2
<1>4. topicos' \in Seq(Topico) /\ Topicos' \in Seq(Topico) /\ IsPrefix(topicos', Topicos')
  <2>1. CASE GuardarTopico(t)
    BY <2>1, TopicosDepois DEF Depois
  <2>2. CASE ~GuardarTopico(t)
    BY <1>1, <2>2, TopicosFicam DEF TypeOK, Tipos, Topicos
  <2>. QED BY <2>1, <2>2
<1>5. vectores' \in [contas : Seq(Conta), topicos : Seq(Topico)]
  <2>1. vectores' = [contas |-> Contas', topicos |-> Topicos']
    BY DEF Passo, Contas, Topicos
  <2>. QED BY <1>3, <1>4, <2>1
<1>6. ideias' \in Seq(Ideia)
  <2>0. ideias \in Seq(Ideia)
    BY <1>1 DEF TypeOK, Tipos
  <2>1. CASE GuardarIdeia(t)
    <3>. DEFINE nova == [id |-> lido[t], autor |-> pedido[t].nome, respostas |-> <<>>]
    <3>1. nova \in Ideia
      BY <1>1, <2>1 DEF Base, Lugares, Em, GuardarIdeia, Ideia, TypeOK, Tipos, Pedido
    <3>2. ideias' = Append(ideias, nova)
      BY <2>1 DEF GuardarIdeia
    <3>. HIDE DEF nova
    <3>. QED BY <2>0, <3>1, <3>2
  <2>2. CASE Apagar(t)
    BY <2>0, <2>2, Apagada, SemUm
  <2>3. CASE Responder(t)
    BY <2>3, Respondida DEF Base, Limitadas
  <2>. QED BY <2>0, <2>1, <2>2, <2>3, DasIdeias
<1>. QED BY <1>2, <1>3, <1>4, <1>5, <1>6, Locais, DosSaldos DEF TypeOK, Tipos, Contas, Topicos

LEMMA PassoLimites ==
  ASSUME Base, NEW t \in Fios, Passo(t)
  PROVE  Limitadas'
<1>1. PICK n \in Nat : Ate(n)
  BY DEF Base, Limitadas
<1>2. PICK m \in Nat :
        n <= m /\ n + 1 <= m /\ (fase[t] = "guardar" => lido[t] <= m /\ lido[t] \in Nat)
  <2>1. CASE fase[t] = "guardar"
    <3>1. n + 1 + lido[t] \in Nat /\ lido[t] \in Nat
      BY <2>1 DEF Base, Lugares, Em
    <3>. QED BY <3>1
  <2>2. CASE fase[t] # "guardar"
    <3>1. n + 1 \in Nat
      OBVIOUS
    <3>. QED BY <2>2, <3>1
  <2>. QED BY <2>1, <2>2
<1>3. TypeOK /\ TypeOK'
  BY PassoTipos DEF Base
<1>4. \A i \in DOMAIN Contas' : Contas'[i].id <= m
  <2>1. \A i \in DOMAIN Contas : Contas[i].id \in Nat /\ Contas[i].id <= n
    <3>1. \A i \in DOMAIN Contas : Contas[i] \in Conta
      BY <1>3 DEF TypeOK, Contas
    <3>. QED BY <1>1, <3>1 DEF Ate, Conta
  <2>2. CASE GuardarConta(t)
    BY <1>2, <2>1, <2>2, ContasDepois DEF Depois, NovaConta, GuardarConta
  <2>3. CASE ~GuardarConta(t)
    BY <1>2, <1>3, <2>1, <2>3, ContasFicam
  <2>. QED BY <2>2, <2>3
<1>5. \A i \in DOMAIN Topicos' : Topicos'[i].id <= m
  <2>1. \A i \in DOMAIN Topicos : Topicos[i].id \in Nat /\ Topicos[i].id <= n
    <3>1. \A i \in DOMAIN Topicos : Topicos[i] \in Topico
      BY <1>3 DEF TypeOK, Topicos
    <3>. QED BY <1>1, <3>1 DEF Ate, Topico
  <2>2. CASE GuardarTopico(t)
    BY <1>2, <2>1, <2>2, TopicosDepois DEF Depois, NovoTopico, GuardarTopico
  <2>3. CASE ~GuardarTopico(t)
    BY <1>2, <1>3, <2>1, <2>3, TopicosFicam
  <2>. QED BY <2>2, <2>3
<1>6. \A i \in DOMAIN ideias' :
        /\ ideias'[i].id <= m
        /\ \A j \in DOMAIN ideias'[i].respostas : ideias'[i].respostas[j] <= m
  <2>0. ideias \in Seq(Ideia) /\ ideias' \in Seq(Ideia)
    BY <1>3 DEF TypeOK, Tipos
  <2>1. \A i \in DOMAIN ideias :
          /\ ideias[i].id <= m
          /\ \A j \in DOMAIN ideias[i].respostas : ideias[i].respostas[j] <= m
    <3>1. \A i \in DOMAIN ideias : ideias[i] \in Ideia
      BY <2>0
    <3>2. \A i \in DOMAIN ideias : ideias[i].id \in Nat /\ ideias[i].respostas \in Seq(Nat)
      BY <3>1 DEF Ideia
    <3>3. ASSUME NEW i \in DOMAIN ideias, NEW j \in DOMAIN ideias[i].respostas
          PROVE  ideias[i].respostas[j] <= m
      <4>1. ideias[i].respostas[j] \in Nat
        BY <3>2, <3>3
      <4>. QED BY <1>1, <1>2, <4>1 DEF Ate
    <3>. QED BY <1>1, <1>2, <3>2, <3>3 DEF Ate
  <2>2. CASE GuardarIdeia(t)
    <3>. DEFINE nova == [id |-> lido[t], autor |-> pedido[t].nome, respostas |-> <<>>]
    <3>1. ideias' = Append(ideias, nova) /\ nova.id <= m /\ DOMAIN nova.respostas = {}
      BY <1>2, <2>2 DEF GuardarIdeia
    <3>. HIDE DEF nova
    <3>2. \A i \in DOMAIN ideias' : (i \in DOMAIN ideias /\ ideias'[i] = ideias[i]) \/ ideias'[i] = nova
      BY <2>0, <3>1
    <3>. QED BY <2>1, <3>1, <3>2
  <2>3. CASE Apagar(t)
    <3>1. \A i \in DOMAIN ideias' : \E j \in DOMAIN ideias : ideias'[i] = ideias[j]
      <4>1. CASE ideias' = ideias
        BY <4>1
      <4>2. ASSUME NEW k \in DOMAIN ideias, ideias' = RemoveAt(ideias, k)
            PROVE  \A i \in DOMAIN ideias' : \E j \in DOMAIN ideias : ideias'[i] = ideias[j]
        <5>1. /\ Len(ideias') = Len(ideias) - 1
              /\ \A j \in 1..(Len(ideias) - 1) :
                   ideias'[j] = IF j < k THEN ideias[j] ELSE ideias[j + 1]
          BY <2>0, <4>2, SemUm
        <5>. QED BY <2>0, <5>1
      <4>. QED BY <2>3, <4>1, <4>2, Apagada
    <3>. QED BY <2>1, <3>1
  <2>4. CASE Responder(t)
    <3>1. /\ Len(ideias') = Len(ideias)
          /\ \A j \in DOMAIN ideias :
               /\ ideias'[j].id = ideias[j].id
               /\ \A k \in DOMAIN ideias'[j].respostas : ideias'[j].respostas[k] <= n + 1
      BY <1>1, <2>4, Respondida
    <3>2. DOMAIN ideias' = DOMAIN ideias
      BY <2>0, <3>1
    <3>3. ASSUME NEW i \in DOMAIN ideias', NEW k \in DOMAIN ideias'[i].respostas
          PROVE  ideias'[i].respostas[k] <= m
      <4>1. ideias'[i] \in Ideia
        BY <2>0
      <4>2. ideias'[i].respostas[k] \in Nat
        BY <3>3, <4>1 DEF Ideia
      <4>3. ideias'[i].respostas[k] <= n + 1
        BY <3>1, <3>2, <3>3
      <4>. QED BY <1>2, <4>2, <4>3
    <3>. QED BY <2>1, <3>1, <3>2, <3>3
  <2>5. CASE ~GuardarIdeia(t) /\ ~Apagar(t) /\ ~Responder(t)
    BY <2>1, <2>5, DasIdeias
  <2>. QED BY <2>2, <2>3, <2>4, <2>5
<1>7. Ate(m)'
  BY <1>4, <1>5, <1>6 DEF Ate
<1>. QED BY <1>2, <1>7 DEF Limitadas

\* Who has a user object had it before, or has just found it by name.
LEMMA ComObjectoDepois ==
  ASSUME Base, NEW t \in Fios, Passo(t), NEW u \in Fios, ComObjecto(u)'
  PROVE  \/ ComObjecto(u) /\ lugar'[u] = lugar[u]
         \/ /\ u = t /\ ~GuardarConta(t)
            /\ \E i \in DOMAIN Contas :
                 lugar'[t] = Contas[i].obj /\ Contas[i].nome = pedido[t].nome
<1>0. TypeOK /\ fase \in [Fios -> Fases] /\ lugar \in [Fios -> Nat]
  BY DEF Base, TypeOK, Tipos
<1>1. CASE u # t
  BY <1>0, <1>1, Outros DEF ComObjecto, Em
<1>2. CASE u = t
  <2>1. pedido' = pedido
    BY <1>0, Outros
  <2>2. CASE ProcurarSaldo(t) \/ ProcurarVendedor(t)
    <3>1. fase'[t] # "livre" /\ ~GuardarConta(t)
      BY <1>2, <2>2 DEF ComObjecto, Em, GuardarConta, ProcurarSaldo, ProcurarVendedor
    <3>. QED BY <1>0, <1>2, <2>2, <3>1, Encontrado
  <2>3. CASE LerSaldo(t) \/ EscreverSaldo(t)
    BY <1>0, <1>2, <2>3 DEF LerSaldo, EscreverSaldo, Ir, ComObjecto, Em, Base, Lugares
  <2>4. CASE GerarId(t)
    BY <1>0, <1>2, <2>1, <2>4 DEF GerarId, Ir, ComObjecto, Em
  <2>5. CASE LerTamanho(t)
    BY <1>0, <1>2, <2>1, <2>5 DEF LerTamanho, Ir, ComObjecto, Em, Base, Lugares, DeConta, DeTopico
  <2>6. CASE ProcurarNome(t)
    BY <1>0, <1>2, <2>1, <2>6 DEF ProcurarNome, Ir, ComObjecto, Em
  <2>7. CASE ProcurarTema(t)
    <3>1. fase'[t] \in {"livre", "gerar"} /\ pedido[t].op # "criarideia"
      BY <1>0, <2>7 DEF ProcurarTema, Ir
    <3>. QED BY <1>2, <2>1, <3>1 DEF ComObjecto, Em
  <2>8. CASE GuardarConta(t) \/ GuardarTopico(t) \/ GuardarIdeia(t) \/ Apagar(t) \/ Responder(t)
    <3>1. fase'[t] = "livre"
      BY <1>0, <2>8 DEF GuardarConta, GuardarTopico, GuardarIdeia, Apagar, Responder, Ir
    <3>. QED BY <1>2, <3>1 DEF ComObjecto, Em
  <2>. QED BY <2>2, <2>3, <2>4, <2>5, <2>6, <2>7, <2>8 DEF Passo
<1>. QED BY <1>1, <1>2

\* A user that is stored was stored before, or is the new one.
LEMMA AsContas ==
  ASSUME Base, NEW t \in Fios, Passo(t), NEW i \in DOMAIN Contas'
  PROVE  \/ i \in DOMAIN Contas /\ Contas'[i] = Contas[i]
         \/ /\ GuardarConta(t) /\ i = lugar[t] + 1
            /\ Contas'[i].obj = Len(saldo) + 1 /\ Contas'[i].nome = pedido[t].nome
<1>1. CASE GuardarConta(t)
  <2>1. CASE i = lugar[t] + 1
    <3>1. Contas'[i] = NovaConta(t)
      BY <1>1, <2>1, ContasDepois DEF Depois
    <3>. QED BY <1>1, <2>1, <3>1 DEF NovaConta
  <2>2. CASE i # lugar[t] + 1
    BY <1>1, <2>2, ContasDepois DEF Depois
  <2>. QED BY <2>1, <2>2
<1>2. CASE ~GuardarConta(t)
  <2>1. Contas' = Contas
    BY <1>2, ContasFicam DEF Base
  <2>. QED BY <2>1
<1>. QED BY <1>1, <1>2

LEMMA PassoObjectos ==
  ASSUME Base, NEW t \in Fios, Passo(t)
  PROVE  Objectos' /\ Donos'
<1>1. /\ DOMAIN saldo \subseteq DOMAIN saldo' /\ Len(devido') = Len(saldo')
      /\ GuardarConta(t) => Len(saldo) + 1 \in DOMAIN saldo'
      /\ Len(saldo) + 1 \notin DOMAIN saldo
  <2>1. saldo \in Seq(Int)
    BY DEF Base, TypeOK, Tipos
  <2>. QED BY <2>1, DosSaldos
<1>2. /\ \A i \in DOMAIN Contas : Contas[i].obj \in DOMAIN saldo
      /\ \A u \in Fios : ComObjecto(u) => lugar[u] \in DOMAIN saldo
  BY DEF Base, Objectos
<1>3. pedido' = pedido
  BY Outros DEF Base
<1>4. Objectos'
  <2>1. ASSUME NEW i \in DOMAIN Contas' PROVE Contas'[i].obj \in DOMAIN saldo'
    BY <1>1, <1>2, AsContas
  <2>2. ASSUME NEW u \in Fios, ComObjecto(u)' PROVE lugar'[u] \in DOMAIN saldo'
    BY <1>1, <1>2, <2>2, ComObjectoDepois
  <2>. QED BY <1>1, <2>1, <2>2 DEF Objectos
<1>5. ASSUME NEW i \in DOMAIN Contas', NEW j \in DOMAIN Contas', Contas'[i].obj = Contas'[j].obj
      PROVE  Contas'[i].nome = Contas'[j].nome
  BY <1>1, <1>2, <1>5, AsContas DEF Base, Donos
<1>6. ASSUME NEW u \in Fios, NEW i \in DOMAIN Contas', ComObjecto(u)', lugar'[u] = Contas'[i].obj
      PROVE  pedido'[u].nome = Contas'[i].nome
  <2>1. CASE GuardarConta(t)
    <3>1. ComObjecto(u) /\ lugar'[u] = lugar[u]
      BY <1>6, <2>1, ComObjectoDepois
    <3>2. Contas'[i].obj # Len(saldo) + 1
      BY <1>1, <1>2, <1>6, <3>1
    <3>3. i \in DOMAIN Contas /\ Contas'[i] = Contas[i]
      BY <3>2, AsContas
    <3>. QED BY <1>3, <1>6, <3>1, <3>3 DEF Base, Donos
  <2>2. CASE ~GuardarConta(t)
    <3>1. i \in DOMAIN Contas /\ Contas'[i] = Contas[i]
      BY <2>2, AsContas
    <3>2. CASE ComObjecto(u) /\ lugar'[u] = lugar[u]
      BY <1>3, <1>6, <3>1, <3>2 DEF Base, Donos
    <3>3. ASSUME u = t, NEW k \in DOMAIN Contas,
                 lugar'[t] = Contas[k].obj, Contas[k].nome = pedido[t].nome
          PROVE  pedido'[u].nome = Contas'[i].nome
      <4>1. Contas[k].nome = Contas[i].nome
        BY <1>6, <3>1, <3>3 DEF Base, Donos
      <4>. QED BY <1>3, <3>1, <3>3, <4>1
    <3>4. \/ ComObjecto(u) /\ lugar'[u] = lugar[u]
          \/ u = t /\ \E k \in DOMAIN Contas :
                        lugar'[t] = Contas[k].obj /\ Contas[k].nome = pedido[t].nome
      BY <1>6, ComObjectoDepois
    <3>. QED BY <3>2, <3>3, <3>4
  <2>. QED BY <2>1, <2>2
<1>7. ASSUME NEW u \in Fios, NEW v \in Fios, ComObjecto(u)', ComObjecto(v)', lugar'[u] = lugar'[v]
      PROVE  pedido'[u].nome = pedido'[v].nome
  <2>0. ASSUME NEW x \in Fios, NEW y \in Fios, lugar'[x] = lugar'[y], ComObjecto(y)',
               ComObjecto(x), lugar'[x] = lugar[x]
        PROVE  pedido[x].nome = pedido[y].nome
    <3>1. CASE ComObjecto(y) /\ lugar'[y] = lugar[y]
      BY <2>0, <3>1 DEF Base, Donos
    <3>2. ASSUME y = t, NEW k \in DOMAIN Contas,
                 lugar'[t] = Contas[k].obj, Contas[k].nome = pedido[t].nome
          PROVE  pedido[x].nome = pedido[y].nome
      <4>1. pedido[x].nome = Contas[k].nome
        BY <2>0, <3>2 DEF Base, Donos
      <4>. QED BY <3>2, <4>1
    <3>. QED BY <2>0, <3>1, <3>2, ComObjectoDepois
  <2>1. CASE ComObjecto(u) /\ lugar'[u] = lugar[u]
    BY <1>3, <1>7, <2>0, <2>1
  <2>2. CASE ComObjecto(v) /\ lugar'[v] = lugar[v]
    <3>1. pedido[v].nome = pedido[u].nome
      BY <1>7, <2>0, <2>2
    <3>. QED BY <1>3, <3>1
  <2>3. CASE u = t /\ v = t
    BY <2>3
  <2>. QED BY <1>7, <2>1, <2>2, <2>3, ComObjectoDepois
<1>8. Donos'
  BY <1>5, <1>6, <1>7 DEF Donos
<1>. QED BY <1>4, <1>8

LEMMA PassoLugares ==
  ASSUME Base, NEW t \in Fios, Passo(t)
  PROVE  Lugares'
<1>0. /\ TypeOK /\ fase \in [Fios -> Fases] /\ lugar \in [Fios -> Nat] /\ lido \in [Fios -> Int]
      /\ contas \in Seq(Conta) /\ Contas \in Seq(Conta) /\ IsPrefix(contas, Contas)
      /\ topicos \in Seq(Topico) /\ Topicos \in Seq(Topico) /\ IsPrefix(topicos, Topicos)
  BY DEF Base, TypeOK, Tipos, Contas, Topicos
<1>1. /\ pedido' = pedido
      /\ \A u \in Fios : u # t =>
              fase'[u] = fase[u] /\ lugar'[u] = lugar[u] /\ lido'[u] = lido[u]
  BY <1>0, Outros
<1>2. Len(Contas) \in Nat /\ Len(Contas') \in Nat /\ Len(Contas) <= Len(Contas')
  <2>1. TypeOK'
    BY PassoTipos
  <2>2. Contas' \in Seq(Conta)
    BY <2>1 DEF TypeOK, Contas
  <2>3. Len(Contas) <= Len(Contas')
    <3>1. CASE GuardarConta(t)
      BY <3>1, ContasDepois DEF Depois
    <3>2. CASE ~GuardarConta(t)
      BY <1>0, <3>2, ContasFicam
    <3>. QED BY <3>1, <3>2
  <2>. QED BY <1>0, <2>2, <2>3
<1>3. Len(Topicos) \in Nat /\ Len(Topicos') \in Nat /\ Len(Topicos) <= Len(Topicos')
  <2>1. TypeOK'
    BY PassoTipos
  <2>2. Topicos' \in Seq(Topico)
    BY <2>1 DEF TypeOK, Topicos
  <2>3. Len(Topicos) <= Len(Topicos')
    <3>1. CASE GuardarTopico(t)
      BY <3>1, TopicosDepois DEF Depois
    <3>2. CASE ~GuardarTopico(t)
      BY <1>0, <3>2, TopicosFicam
    <3>. QED BY <3>1, <3>2
  <2>. QED BY <1>0, <2>2, <2>3
<1>. DEFINE L(u) ==
       /\ Em(u, {"ler", "escrever"}) => pedido[u].op \in {"criarideia", "vender"}
       /\ Em(u, {"gerar"}) => DeConta(u) \/ DeTopico(u) \/ DeIdeia(u)
       /\ Em(u, {"lugar"}) => DeConta(u) \/ DeTopico(u)
       /\ Em(u, {"lugar", "guardar"}) => lido[u] \in Nat
       /\ Em(u, {"guardar"}) /\ DeConta(u) => lugar[u] <= Len(Contas)
       /\ Em(u, {"guardar"}) /\ DeTopico(u) => lugar[u] <= Len(Topicos)
<1>4. \A u \in Fios : L(u)
  BY DEF Base, Lugares
<1>5. ASSUME NEW u \in Fios, u # t PROVE L(u)'
  <2>1. lugar[u] \in Nat
    BY <1>0
  <2>. QED BY <1>1, <1>2, <1>3, <1>4, <1>5, <2>1 DEF Em, DeConta, DeTopico, DeIdeia
<1>6. L(t)'
  <2>. USE DEF Em, DeConta, DeTopico, DeIdeia, Ir
  <2>1. CASE ProcurarNome(t)
    BY <1>0, <1>1, <2>1 DEF ProcurarNome
  <2>2. CASE ProcurarTema(t)
    <3>1. fase'[t] \in {"livre", "gerar"} /\ pedido[t].op \in {"adicionartopico", "criartopico"}
      BY <1>0, <2>2 DEF ProcurarTema
    <3>. QED BY <1>1, <3>1
  <2>3. CASE ProcurarSaldo(t) \/ ProcurarVendedor(t)
    <3>1. fase'[t] = "livre" \/ (fase'[t] = "ler" /\ pedido[t].op \in {"criarideia", "vender"})
      BY <2>3, Encontrado
    <3>. QED BY <1>1, <3>1
  <2>4. CASE LerSaldo(t) \/ EscreverSaldo(t)
    BY <1>0, <1>1, <1>4, <2>4 DEF LerSaldo, EscreverSaldo
  <2>5. CASE GerarId(t)
    <3>1. lido'[t] \in Nat
      BY <1>0, <2>5, IdGerado
    <3>2. \/ fase'[t] = "guardar" /\ pedido[t].op = "criarideia"
          \/ fase'[t] = "lugar" /\ pedido[t].op # "criarideia"
      BY <1>0, <2>5 DEF GerarId
    <3>. QED BY <1>1, <1>4, <2>5, <3>1, <3>2 DEF GerarId
  <2>6. CASE LerTamanho(t)
    <3>1. Len(contas) <= Len(Contas) /\ Len(topicos) <= Len(Topicos)
      BY <1>0, PrefixoDiz
    <3>2. /\ fase'[t] = "guardar" /\ lido' = lido /\ fase[t] = "lugar"
          /\ lugar'[t] = IF pedido[t].op = "registar" THEN Len(contas) ELSE Len(topicos)
      BY <1>0, <2>6 DEF LerTamanho
    <3>3. ~GuardarConta(t) /\ ~GuardarTopico(t)
      BY <2>6 DEF LerTamanho, GuardarConta, GuardarTopico
    <3>4. Contas' = Contas /\ Topicos' = Topicos
      BY <1>0, <3>3, ContasFicam, TopicosFicam
    <3>. QED BY <1>1, <1>4, <3>1, <3>2, <3>4
  <2>7. CASE GuardarConta(t) \/ GuardarTopico(t) \/ GuardarIdeia(t) \/ Apagar(t) \/ Responder(t)
    <3>1. fase'[t] = "livre"
      BY <1>0, <2>7 DEF GuardarConta, GuardarTopico, GuardarIdeia, Apagar, Responder
    <3>. QED BY <3>1
  <2>. QED BY <2>1, <2>2, <2>3, <2>4, <2>5, <2>6, <2>7 DEF Passo
<1>. QED BY <1>5, <1>6 DEF Lugares

LEMMA PassoBase ==
  ASSUME Base, NEW t \in Fios, Passo(t)
  PROVE  Base'
BY PassoTipos, PassoLimites, PassoObjectos, PassoLugares DEF Base

-----------------------------------------------------------------------------
\* The steps of a running call keep the users and the topics in order.
LEMMA PassoContas ==
  ASSUME Base, NasContas, NEW t \in Fios, Passo(t)
  PROVE  NasContas'
<1>. SUFFICES ASSUME <<"contas">> \notin disputas'
     PROVE  /\ (Contas = contas /\ NomesDistintos /\ ContasNaPosicao)'
            /\ \A u, v \in Fios : DeConta(u)' /\ DeConta(v)' => u = v
            /\ \A u \in Fios : pedido'[u].op = "registar" =>
                 /\ Em(u, {"gerar", "lugar", "guardar"})' => NomesIguais(pedido[u].nome)' = {}
                 /\ Em(u, {"lugar", "guardar"})' => lido'[u] = Len(contas') + 1
                 /\ Em(u, {"guardar"})' => lugar'[u] = Len(contas')
  BY DEF NasContas
<1>0. /\ TypeOK /\ fase \in [Fios -> Fases] /\ lugar \in [Fios -> Nat] /\ lido \in [Fios -> Int]
      /\ contas \in Seq(Conta)
  BY DEF Base, TypeOK, Tipos
<1>1. /\ fase[t] # "livre" /\ pedido' = pedido /\ disputas' = disputas
      /\ \A u \in Fios : u # t =>
              fase'[u] = fase[u] /\ lugar'[u] = lugar[u] /\ lido'[u] = lido[u]
  BY <1>0, Outros
<1>2. /\ Contas = contas /\ NomesDistintos /\ ContasNaPosicao
      /\ \A u, v \in Fios : DeConta(u) /\ DeConta(v) => u = v
      /\ \A u \in Fios : pedido[u].op = "registar" =>
           /\ Em(u, {"gerar", "lugar", "guardar"}) => NomesIguais(pedido[u].nome) = {}
           /\ Em(u, {"lugar", "guardar"}) => lido[u] = Len(contas) + 1
           /\ Em(u, {"guardar"}) => lugar[u] = Len(contas)
  BY <1>1 DEF NasContas
<1>3. \A u, v \in Fios : DeConta(u)' /\ DeConta(v)' => u = v
  BY <1>1, <1>2 DEF DeConta
<1>4. CASE pedido[t].op # "registar"
  <2>1. contas' = contas /\ Contas' = Contas
    BY <1>0, <1>4, ContasFicam DEF GuardarConta
  <2>2. \A u \in Fios : pedido[u].op = "registar" => u # t
    BY <1>4
  <2>. QED BY <1>1, <1>2, <1>3, <2>1, <2>2 DEF NomesDistintos, ContasNaPosicao, NomesIguais, Em
<1>5. CASE pedido[t].op = "registar"
  <2>0. \A u \in Fios : u # t => ~DeConta(u)'
    BY <1>1, <1>3, <1>5, <1>2 DEF DeConta
  <2>1. CASE GuardarConta(t)
    <3>1. /\ Depois(Conta, contas', Contas', Contas, Len(contas), NovaConta(t))
          /\ lugar[t] = Len(contas) /\ lido[t] = Len(contas) + 1
          /\ NomesIguais(pedido[t].nome) = {}
      BY <1>2, <1>5, <2>1, ContasDepois DEF GuardarConta, Em
    <3>2. /\ Contas' = contas' /\ contas' \in Seq(Conta) /\ Len(contas') = Len(contas) + 1
          /\ \A i \in DOMAIN contas : contas'[i] = contas[i]
          /\ contas'[Len(contas) + 1] = NovaConta(t)
      BY <1>0, <1>2, <3>1 DEF Depois
    <3>3. ContasNaPosicao'
      BY <1>0, <1>2, <3>1, <3>2 DEF ContasNaPosicao, NovaConta
    <3>4. NomesDistintos'
      <4>1. \A i \in DOMAIN contas : contas[i].nome # NovaConta(t).nome
        BY <3>1 DEF NomesIguais, NovaConta
      <4>2. \A i \in DOMAIN contas' : i \in DOMAIN contas \/ i = Len(contas) + 1
        BY <1>0, <3>2
      <4>. QED BY <1>2, <3>2, <4>1, <4>2 DEF NomesDistintos
    <3>5. fase'[t] = "livre"
      BY <1>0, <2>1 DEF GuardarConta, Ir
    <3>. QED BY <1>3, <2>0, <3>2, <3>3, <3>4, <3>5, <1>1 DEF Em, DeConta
  <2>2. CASE ~GuardarConta(t)
    <3>1. contas' = contas /\ Contas' = Contas
      BY <1>0, <2>2, ContasFicam
    <3>2. (Contas = contas /\ NomesDistintos /\ ContasNaPosicao)'
      BY <1>2, <3>1 DEF NomesDistintos, ContasNaPosicao
    <3>3. /\ Em(t, {"gerar", "lugar", "guardar"})' => NomesIguais(pedido[t].nome) = {}
          /\ Em(t, {"lugar", "guardar"})' => lido'[t] = Len(contas) + 1
          /\ Em(t, {"guardar"})' => lugar'[t] = Len(contas)
      <4>1. CASE ProcurarNome(t)
        BY <1>0, <4>1 DEF ProcurarNome, Ir, Em
      <4>2. CASE GerarId(t)
        <5>1. Maior(Ids(contas)) = Len(contas)
          BY <1>0, <1>2, MaiorPosicao DEF ContasNaPosicao
        <5>2. lido' = [lido EXCEPT ![t] = 1 + Len(contas)] /\ fase'[t] = "lugar"
              /\ NomesIguais(pedido[t].nome) = {}
          BY <1>0, <1>2, <1>5, <4>2, <5>1 DEF GerarId, IdsDa, Ir, Em
        <5>. QED BY <1>0, <5>2 DEF Em
      <4>3. CASE LerTamanho(t)
        BY <1>0, <1>2, <1>5, <4>3 DEF LerTamanho, Ir, Em
      <4>4. CASE LerSaldo(t) \/ EscreverSaldo(t)
        BY <1>5, <4>4 DEF LerSaldo, EscreverSaldo, Base, Lugares, Em
      <4>. QED BY <1>5, <2>2, <4>1, <4>2, <4>3, <4>4
             DEF Passo, ProcurarTema, ProcurarSaldo, ProcurarVendedor, GuardarTopico, GuardarIdeia,
                 Apagar, Responder
    <3>. QED BY <1>1, <1>3, <2>0, <3>1, <3>2, <3>3 DEF NomesIguais, Em, DeConta
  <2>. QED BY <2>1, <2>2
<1>. QED BY <1>4, <1>5

LEMMA PassoTopicos ==
  ASSUME Base, NosTopicos, NEW t \in Fios, Passo(t)
  PROVE  NosTopicos'
<1>. DEFINE DeTemas(p) == p.op \in {"adicionartopico", "criartopico"}
<1>. SUFFICES ASSUME <<"topicos">> \notin disputas'
     PROVE  /\ (Topicos = topicos /\ TemasDistintos /\ TopicosNaPosicao)'
            /\ \A u, v \in Fios : DeTopico(u)' /\ DeTopico(v)' => u = v
            /\ \A u \in Fios : DeTemas(pedido'[u]) =>
                 /\ Em(u, {"gerar", "lugar", "guardar"})' => TemasIguais(TemaRecebido(pedido[u]))' = {}
                 /\ Em(u, {"lugar", "guardar"})' => lido'[u] = Len(topicos') + 1
                 /\ Em(u, {"guardar"})' => lugar'[u] = Len(topicos')
  BY DEF NosTopicos
<1>0. /\ TypeOK /\ fase \in [Fios -> Fases] /\ lugar \in [Fios -> Nat] /\ lido \in [Fios -> Int]
      /\ topicos \in Seq(Topico)
  BY DEF Base, TypeOK, Tipos
<1>1. /\ fase[t] # "livre" /\ pedido' = pedido /\ disputas' = disputas
      /\ \A u \in Fios : u # t =>
              fase'[u] = fase[u] /\ lugar'[u] = lugar[u] /\ lido'[u] = lido[u]
  BY <1>0, Outros
<1>2. /\ Topicos = topicos /\ TemasDistintos /\ TopicosNaPosicao
      /\ \A u, v \in Fios : DeTopico(u) /\ DeTopico(v) => u = v
      /\ \A u \in Fios : DeTemas(pedido[u]) =>
           /\ Em(u, {"gerar", "lugar", "guardar"}) => TemasIguais(TemaRecebido(pedido[u])) = {}
           /\ Em(u, {"lugar", "guardar"}) => lido[u] = Len(topicos) + 1
           /\ Em(u, {"guardar"}) => lugar[u] = Len(topicos)
  BY <1>1 DEF NosTopicos
<1>3. \A u, v \in Fios : DeTopico(u)' /\ DeTopico(v)' => u = v
  BY <1>1, <1>2 DEF DeTopico
<1>4. CASE ~DeTemas(pedido[t])
  <2>1. topicos' = topicos /\ Topicos' = Topicos
    BY <1>0, <1>4, TopicosFicam DEF GuardarTopico
  <2>2. \A u \in Fios : DeTemas(pedido[u]) => u # t
    BY <1>4
  <2>. QED BY <1>1, <1>2, <1>3, <2>1, <2>2
         DEF TemasDistintos, TopicosNaPosicao, TemasIguais, TemaRecebido, Em
<1>5. CASE DeTemas(pedido[t])
  <2>0. \A u \in Fios : u # t => ~DeTopico(u)'
    BY <1>1, <1>3, <1>5, <1>2 DEF DeTopico
  <2>1. CASE GuardarTopico(t)
    <3>1. /\ Depois(Topico, topicos', Topicos', Topicos, Len(topicos), NovoTopico(t))
          /\ lugar[t] = Len(topicos) /\ lido[t] = Len(topicos) + 1
          /\ TemasIguais(TemaRecebido(pedido[t])) = {}
      BY <1>2, <1>5, <2>1, TopicosDepois DEF GuardarTopico, Em
    <3>2. /\ Topicos' = topicos' /\ topicos' \in Seq(Topico) /\ Len(topicos') = Len(topicos) + 1
          /\ \A i \in DOMAIN topicos : topicos'[i] = topicos[i]
          /\ topicos'[Len(topicos) + 1] = NovoTopico(t)
      BY <1>0, <1>2, <3>1 DEF Depois
    <3>3. TopicosNaPosicao'
      BY <1>0, <1>2, <3>1, <3>2 DEF TopicosNaPosicao, NovoTopico
    <3>4. TemasDistintos'
      <4>1. \A i \in DOMAIN topicos : topicos[i].tema # NovoTopico(t).tema
        BY <3>1 DEF TemasIguais, NovoTopico
      <4>2. \A i \in DOMAIN topicos' : i \in DOMAIN topicos \/ i = Len(topicos) + 1
        BY <1>0, <3>2
      <4>. QED BY <1>2, <3>2, <4>1, <4>2 DEF TemasDistintos
    <3>5. fase'[t] = "livre"
      BY <1>0, <2>1 DEF GuardarTopico, Ir
    <3>. QED BY <1>3, <2>0, <3>2, <3>3, <3>4, <3>5, <1>1 DEF Em, DeTopico
  <2>2. CASE ~GuardarTopico(t)
    <3>1. topicos' = topicos /\ Topicos' = Topicos
      BY <1>0, <2>2, TopicosFicam
    <3>2. (Topicos = topicos /\ TemasDistintos /\ TopicosNaPosicao)'
      BY <1>2, <3>1 DEF TemasDistintos, TopicosNaPosicao
    <3>3. /\ Em(t, {"gerar", "lugar", "guardar"})' => TemasIguais(TemaRecebido(pedido[t])) = {}
          /\ Em(t, {"lugar", "guardar"})' => lido'[t] = Len(topicos) + 1
          /\ Em(t, {"guardar"})' => lugar'[t] = Len(topicos)
      <4>1. CASE ProcurarTema(t)
        BY <1>0, <4>1 DEF ProcurarTema, Ir, Em
      <4>2. CASE GerarId(t)
        <5>1. Maior(Ids(topicos)) = Len(topicos)
          BY <1>0, <1>2, MaiorPosicao DEF TopicosNaPosicao
        <5>2. lido' = [lido EXCEPT ![t] = 1 + Len(topicos)] /\ fase'[t] = "lugar"
              /\ TemasIguais(TemaRecebido(pedido[t])) = {}
          BY <1>0, <1>2, <1>5, <4>2, <5>1 DEF GerarId, IdsDa, Ir, Em
        <5>. QED BY <1>0, <5>2 DEF Em
      <4>3. CASE LerTamanho(t)
        BY <1>0, <1>2, <1>5, <4>3 DEF LerTamanho, Ir, Em
      <4>4. CASE LerSaldo(t) \/ EscreverSaldo(t)
        BY <1>5, <4>4 DEF LerSaldo, EscreverSaldo, Base, Lugares, Em
      <4>. QED BY <1>5, <2>2, <4>1, <4>2, <4>3, <4>4
             DEF Passo, ProcurarNome, ProcurarSaldo, ProcurarVendedor, GuardarConta, GuardarIdeia,
                 Apagar, Responder
    <3>. QED BY <1>1, <1>3, <2>0, <3>1, <3>2, <3>3 DEF TemasIguais, TemaRecebido, Em, DeTopico
  <2>. QED BY <2>1, <2>2
<1>. QED BY <1>4, <1>5

\* They keep the ideas in order.
LEMMA PassoIdeias ==
  ASSUME Base, NasIdeias, NEW t \in Fios, Passo(t)
  PROVE  NasIdeias'
<1>. SUFFICES ASSUME <<"ideias">> \notin disputas'
     PROVE  /\ EmOrdem'
            /\ \A u, v \in Fios : DeIdeia(u)' /\ DeIdeia(v)' => u = v
            /\ \A u \in Fios : Em(u, {"guardar"})' /\ DeIdeia(u)' =>
                 \A j \in DOMAIN ideias' : lido'[u] > ideias'[j].id
  BY DEF NasIdeias
<1>0. /\ TypeOK /\ fase \in [Fios -> Fases] /\ lido \in [Fios -> Int]
      /\ ideias \in Seq(Ideia)
  BY DEF Base, TypeOK, Tipos
<1>1. /\ fase[t] # "livre" /\ pedido' = pedido /\ disputas' = disputas
      /\ \A u \in Fios : u # t => fase'[u] = fase[u] /\ lido'[u] = lido[u]
  BY <1>0, Outros
<1>2. /\ EmOrdem
      /\ \A u, v \in Fios : DeIdeia(u) /\ DeIdeia(v) => u = v
      /\ \A u \in Fios : Em(u, {"guardar"}) /\ DeIdeia(u) =>
           \A j \in DOMAIN ideias : lido[u] > ideias[j].id
  BY <1>1 DEF NasIdeias
<1>3. \A u, v \in Fios : DeIdeia(u)' /\ DeIdeia(v)' => u = v
  BY <1>1, <1>2 DEF DeIdeia
<1>4. CASE GuardarIdeia(t)
  <2>. DEFINE nova == [id |-> lido[t], autor |-> pedido[t].nome, respostas |-> <<>>]
  <2>1. ideias' = Append(ideias, nova) /\ nova.id = lido[t] /\ fase'[t] = "livre"
    BY <1>0, <1>4 DEF GuardarIdeia, Ir
  <2>. HIDE DEF nova
  <2>2. DeIdeia(t) /\ \A j \in DOMAIN ideias : lido[t] > ideias[j].id
    BY <1>2, <1>4 DEF GuardarIdeia, DeIdeia, Em
  <2>3. /\ Len(ideias') = Len(ideias) + 1 /\ DOMAIN ideias' = 1..Len(ideias')
        /\ \A j \in DOMAIN ideias : ideias'[j] = ideias[j]
        /\ ideias'[Len(ideias) + 1] = nova
    BY <1>0, <2>1
  <2>4. EmOrdem'
    <3>1. ASSUME NEW i \in DOMAIN ideias', NEW j \in DOMAIN ideias', i < j
          PROVE  ideias'[i].id < ideias'[j].id
      <4>1. i \in DOMAIN ideias /\ (j \in DOMAIN ideias \/ j = Len(ideias) + 1)
        BY <1>0, <2>3, <3>1
      <4>2. ideias[i].id \in Nat /\ lido[t] \in Int
        <5>1. ideias[i] \in Ideia
          BY <1>0, <4>1
        <5>. QED BY <1>0, <5>1 DEF Ideia
      <4>3. CASE j \in DOMAIN ideias
        BY <1>2, <2>3, <3>1, <4>1, <4>3 DEF EmOrdem
      <4>4. CASE j = Len(ideias) + 1
        <5>1. ideias'[i].id = ideias[i].id /\ ideias'[j].id = lido[t] /\ lido[t] > ideias[i].id
          BY <2>1, <2>2, <2>3, <4>1, <4>4
        <5>. QED BY <4>2, <5>1
      <4>. QED BY <4>1, <4>3, <4>4
    <3>. QED BY <3>1 DEF EmOrdem
  <2>5. \A u \in Fios : ~(Em(u, {"guardar"})' /\ DeIdeia(u)')
    BY <1>1, <1>2, <2>1, <2>2 DEF DeIdeia, Em
  <2>. QED BY <1>3, <2>4, <2>5
<1>5. CASE Apagar(t)
  <2>1. CASE ideias' = ideias
    BY <1>0, <1>1, <1>2, <1>3, <1>5, <2>1 DEF Apagar, Ir, Em, DeIdeia, EmOrdem
  <2>2. ASSUME NEW k \in DOMAIN ideias, ideias' = RemoveAt(ideias, k)
        PROVE  NasIdeias'
    <3>1. /\ ideias' \in Seq(Ideia) /\ Len(ideias') = Len(ideias) - 1
          /\ \A j \in 1..(Len(ideias) - 1) :
               ideias'[j] = IF j < k THEN ideias[j] ELSE ideias[j + 1]
      BY <1>0, <2>2, SemUm
    <3>. DEFINE g(j) == IF j < k THEN j ELSE j + 1
    <3>2. ASSUME NEW j \in DOMAIN ideias'
          PROVE  g(j) \in DOMAIN ideias /\ ideias'[j] = ideias[g(j)]
      <4>1. /\ Len(ideias) \in Nat /\ DOMAIN ideias = 1..Len(ideias) /\ k \in 1..Len(ideias)
            /\ DOMAIN ideias' = 1..(Len(ideias) - 1)
        BY <1>0, <3>1
      <4>2. j \in 1..(Len(ideias) - 1) /\ g(j) \in 1..Len(ideias)
        BY <4>1
      <4>. QED BY <3>1, <4>1, <4>2
    <3>3. \A i, j \in DOMAIN ideias' : i < j => g(i) < g(j)
      BY <1>0, <3>1
    <3>. HIDE DEF g
    <3>4. EmOrdem'
      BY <1>2, <3>2, <3>3 DEF EmOrdem
    <3>5. fase'[t] = "livre"
      BY <1>0, <1>5 DEF Apagar, Ir
    <3>6. \A u \in Fios : Em(u, {"guardar"})' /\ DeIdeia(u)' =>
                 \A j \in DOMAIN ideias' : lido'[u] > ideias'[j].id
      BY <1>1, <1>2, <3>2, <3>5 DEF Em, DeIdeia
    <3>. QED BY <1>3, <3>4, <3>6 DEF NasIdeias
  <2>. QED BY <1>5, <2>1, <2>2, Apagada DEF NasIdeias
<1>6. CASE Responder(t)
  <2>1. PICK n \in Nat : Ate(n)
    BY DEF Base, Limitadas
  <2>2. /\ ideias' \in Seq(Ideia) /\ Len(ideias') = Len(ideias)
        /\ \A j \in DOMAIN ideias : ideias'[j].id = ideias[j].id
    BY <1>6, <2>1, Respondida
  <2>3. DOMAIN ideias' = DOMAIN ideias /\ fase'[t] = "livre"
    BY <1>0, <1>6, <2>2 DEF Responder, Ir
  <2>. QED BY <1>1, <1>2, <1>3, <2>2, <2>3 DEF Em, DeIdeia, EmOrdem
<1>7. CASE GerarId(t)
  <2>1. ideias' = ideias
    BY <1>7 DEF GerarId, dados
  <2>2. pedido[t].op = "criarideia" =>
          /\ lido' = [lido EXCEPT ![t] = 1 + Maior(Ids(ideias))]
          /\ \A j \in DOMAIN ideias : 1 + Maior(Ids(ideias)) > ideias[j].id
    BY <1>0, <1>2, <1>7, MaiorDasIdeias DEF GerarId, IdsDa
  <2>. QED BY <1>0, <1>1, <1>2, <1>3, <2>1, <2>2 DEF Em, DeIdeia, EmOrdem
<1>8. CASE ~GuardarIdeia(t) /\ ~Apagar(t) /\ ~Responder(t) /\ ~GerarId(t)
  <2>1. ideias' = ideias
    BY <1>8, DasIdeias
  <2>2. Em(t, {"guardar"})' => pedido[t].op # "criarideia"
    <3>1. CASE LerTamanho(t)
      BY <3>1 DEF LerTamanho, Base, Lugares, Em, DeConta, DeTopico
    <3>2. CASE ProcurarSaldo(t) \/ ProcurarVendedor(t)
      BY <3>2, Encontrado DEF Em
    <3>. QED BY <1>0, <1>8, <3>1, <3>2
           DEF Passo, ProcurarNome, ProcurarTema, LerSaldo, EscreverSaldo, GuardarConta,
               GuardarTopico, Ir, Em
  <2>. QED BY <1>1, <1>2, <1>3, <2>1, <2>2 DEF Em, DeIdeia, EmOrdem
<1>. QED BY <1>4, <1>5, <1>6, <1>7, <1>8

-----------------------------------------------------------------------------
\* They keep the balances.

\* A user object that a call works on is of no other call's.
LEMMA Sozinho ==
  ASSUME Base, NosSaldos, Saldos \cap disputas = {},
         NEW t \in Fios, NEW u \in Fios, ComObjecto(t), ComObjecto(u), lugar[t] = lugar[u]
  PROVE  u = t
<1>1. pedido[t].nome = pedido[u].nome
  BY DEF Base, Donos
<1>2. DeSaldo(t) /\ DeSaldo(u)
  BY DEF DeSaldo, ComObjecto, Em, Base, Lugares
<1>. QED BY <1>1, <1>2 DEF NosSaldos

\* What NosSaldos says of the objects and the calls, apart from who makes them.
Certos ==
  /\ SemDividas
  /\ \A o \in DOMAIN saldo :
       (\A t \in Fios : Pagou(t) => lugar[t] # o) => saldo[o] = devido[o]
  /\ \A t \in Fios : Pagou(t) => saldo[lugar[t]] = devido[lugar[t]] - pedido[t].valor
  /\ \A t \in Fios : Em(t, {"escrever"}) => lido[t] = saldo[lugar[t]]
  /\ \A t \in Fios : Em(t, {"ler", "escrever"}) /\ DeIdeia(t) =>
       saldo[lugar[t]] >= pedido[t].valor

LEMMA PassoSaldos ==
  ASSUME Base, NosSaldos, NEW t \in Fios, Passo(t)
  PROVE  NosSaldos'
<1>0. /\ TypeOK /\ fase \in [Fios -> Fases] /\ lugar \in [Fios -> Nat] /\ lido \in [Fios -> Int]
      /\ saldo \in Seq(Int) /\ devido \in Seq(Int) /\ Len(devido) = Len(saldo)
  BY DEF Base, TypeOK, Tipos, Objectos
<1>1. /\ fase[t] # "livre" /\ pedido' = pedido /\ disputas' = disputas
      /\ \A u \in Fios : u # t =>
              fase'[u] = fase[u] /\ lugar'[u] = lugar[u] /\ lido'[u] = lido[u]
  BY <1>0, Outros
<1>. SUFFICES ASSUME Saldos \cap disputas = {}
     PROVE  Certos'
  <2>1. Saldos' = Saldos
    BY DEF Saldos
  <2>2. Saldos \cap disputas = {} =>
          \A u, v \in Fios : DeSaldo(u)' /\ DeSaldo(v)' /\ pedido'[u].nome = pedido'[v].nome => u = v
    BY <1>1 DEF NosSaldos, DeSaldo
  <2>. QED BY <1>1, <2>1, <2>2 DEF NosSaldos, Certos
<1>2. Certos
  BY DEF NosSaldos, Certos
<1>3. \A u \in Fios : ComObjecto(u) => lugar[u] \in DOMAIN saldo
  BY DEF Base, Objectos
<1>4. /\ \A u \in Fios : Pagou(u) \/ Em(u, {"ler", "escrever"}) => ComObjecto(u)
      /\ pedido[t].valor \in Nat
  <2>1. pedido[t].valor \in Valores
    BY <1>0 DEF TypeOK, Tipos, Pedido
  <2>2. Valores \subseteq Nat
    BY ConstantesAssumption
  <2>3. pedido[t].valor \in Nat
    BY <2>1, <2>2, Zenon
  <2>. QED BY <2>3 DEF Pagou, Em, ComObjecto
<1>5. CASE GuardarConta(t)
  <2>1. /\ Len(saldo') = Len(saldo) + 1
        /\ saldo'[Len(saldo) + 1] = SaldoInicial /\ devido'[Len(saldo) + 1] = SaldoInicial
        /\ \A o \in DOMAIN saldo : saldo'[o] = saldo[o] /\ devido'[o] = devido[o]
        /\ saldo' \in Seq(Int)
    BY <1>5, DosSaldos
  <2>2. \A o \in DOMAIN saldo' : o \in DOMAIN saldo \/ o = Len(saldo) + 1
    BY <1>0, <2>1
  <2>3. fase'[t] = "livre" /\ ~Pagou(t)
    BY <1>0, <1>5 DEF GuardarConta, Ir, Pagou
  <2>4. \A u \in Fios : /\ Pagou(u)' <=> Pagou(u)
                        /\ Em(u, {"ler", "escrever"})' => Em(u, {"ler", "escrever"}) /\ u # t
                        /\ Em(u, {"escrever"})' => Em(u, {"escrever"}) /\ u # t
                        /\ Pagou(u) => u # t
    BY <1>1, <2>3 DEF Pagou, Em
  <2>5. SemDividas'
    BY <1>2, <2>1, <2>2, ConstantesAssumption DEF Certos, SemDividas
  <2>6. \A o \in DOMAIN saldo' :
          (\A u \in Fios : Pagou(u)' => lugar'[u] # o) => saldo'[o] = devido'[o]
    BY <1>1, <1>2, <2>1, <2>2, <2>4 DEF Certos
  <2>7. \A u \in Fios : Pagou(u)' => saldo'[lugar'[u]] = devido'[lugar'[u]] - pedido'[u].valor
    BY <1>1, <1>2, <1>3, <1>4, <2>1, <2>4 DEF Certos
  <2>8. \A u \in Fios : Em(u, {"escrever"})' => lido'[u] = saldo'[lugar'[u]]
    BY <1>1, <1>2, <1>3, <1>4, <2>1, <2>4 DEF Certos, Em
  <2>9. \A u \in Fios : Em(u, {"ler", "escrever"})' /\ DeIdeia(u)' => saldo'[lugar'[u]] >= pedido'[u].valor
    BY <1>1, <1>2, <1>3, <1>4, <2>1, <2>4 DEF Certos, DeIdeia
  <2>. QED BY <2>5, <2>6, <2>7, <2>8, <2>9 DEF Certos
<1>6. CASE EscreverSaldo(t)
  <2>. DEFINE o == lugar[t]
              novo == NovoSaldo(t)
  <2>1. /\ Em(t, {"escrever"}) /\ ~Pagou(t) /\ ComObjecto(t) /\ o \in DOMAIN saldo
        /\ lido[t] = saldo[o] /\ lugar' = lugar /\ lido' = lido
        /\ saldo' = [saldo EXCEPT ![o] = novo]
    BY <1>2, <1>3, <1>6 DEF EscreverSaldo, Certos, Em, Pagou, ComObjecto
  <2>2. \A u \in Fios : u # t /\ ComObjecto(u) => lugar[u] # o
    BY <2>1, Sozinho
  <2>3. saldo[o] = devido[o] /\ saldo[o] \in Int /\ saldo[o] >= 0
    <3>1. \A u \in Fios : Pagou(u) => lugar[u] # o
      BY <1>4, <2>1, <2>2
    <3>. QED BY <1>0, <1>2, <2>1, <3>1 DEF Certos, SemDividas
  <2>. HIDE DEF o, novo
  <2>4. CASE pedido[t].op = "vender"
    <3>1. /\ novo = saldo[o] + pedido[t].valor /\ fase'[t] = "livre"
          /\ devido' = [devido EXCEPT ![o] = devido[o] + pedido[t].valor]
      BY <1>0, <1>6, <2>1, <2>4 DEF EscreverSaldo, NovoSaldo, Ir, o, novo
    <3>2. /\ saldo'[o] = novo /\ devido'[o] = novo /\ novo >= 0 /\ DOMAIN saldo' = DOMAIN saldo
          /\ \A x \in DOMAIN saldo : x # o => saldo'[x] = saldo[x] /\ devido'[x] = devido[x]
      BY <1>0, <1>4, <2>1, <2>3, <3>1
    <3>3. \A u \in Fios : /\ Pagou(u)' <=> Pagou(u)
                          /\ Em(u, {"ler", "escrever"})' => Em(u, {"ler", "escrever"}) /\ u # t
                          /\ Em(u, {"escrever"})' => Em(u, {"escrever"}) /\ u # t
                          /\ Pagou(u) => u # t
      BY <1>1, <2>1, <3>1 DEF Pagou, Em
    <3>4. SemDividas'
      BY <1>2, <3>2 DEF Certos, SemDividas
    <3>5. \A x \in DOMAIN saldo' :
            (\A u \in Fios : Pagou(u)' => lugar'[u] # x) => saldo'[x] = devido'[x]
      BY <1>2, <2>1, <3>2, <3>3 DEF Certos
    <3>6. \A u \in Fios : Pagou(u)' => saldo'[lugar'[u]] = devido'[lugar'[u]] - pedido'[u].valor
      BY <1>1, <1>2, <1>3, <1>4, <2>1, <2>2, <3>2, <3>3 DEF Certos
    <3>7. \A u \in Fios : Em(u, {"escrever"})' => lido'[u] = saldo'[lugar'[u]]
      BY <1>1, <1>2, <1>3, <1>4, <2>1, <2>2, <3>2, <3>3 DEF Certos, Em
    <3>8. \A u \in Fios : Em(u, {"ler", "escrever"})' /\ DeIdeia(u)' => saldo'[lugar'[u]] >= pedido'[u].valor
      BY <1>1, <1>2, <1>3, <1>4, <2>1, <2>2, <3>2, <3>3 DEF Certos, DeIdeia
    <3>. QED BY <3>4, <3>5, <3>6, <3>7, <3>8 DEF Certos
  <2>5. CASE pedido[t].op # "vender"
    <3>0. pedido[t].op = "criarideia" /\ DeIdeia(t)
      BY <2>1, <2>5 DEF Base, Lugares, Em, DeIdeia
    <3>1. novo = saldo[o] - pedido[t].valor /\ fase'[t] = "gerar" /\ devido' = devido
      BY <1>0, <1>6, <2>1, <2>5 DEF EscreverSaldo, NovoSaldo, Ir, o, novo
    <3>2. /\ saldo'[o] = novo /\ DOMAIN saldo' = DOMAIN saldo
          /\ \A x \in DOMAIN saldo : x # o => saldo'[x] = saldo[x]
      BY <1>0, <2>1
    <3>3. novo >= 0
      <4>1. saldo[o] >= pedido[t].valor
        BY <1>2, <2>1, <3>0 DEF Certos, Em, o
      <4>. QED BY <1>4, <2>3, <3>1, <4>1
    <3>4. \A u \in Fios : /\ Pagou(u)' => Pagou(u) \/ u = t
                          /\ Pagou(u) => Pagou(u)'
                          /\ Em(u, {"ler", "escrever"})' => Em(u, {"ler", "escrever"}) /\ u # t
                          /\ Em(u, {"escrever"})' => Em(u, {"escrever"}) /\ u # t
                          /\ Pagou(u) => u # t
      BY <1>1, <2>1, <3>1 DEF Pagou, Em
    <3>5. Pagou(t)' /\ lugar'[t] = o
      BY <1>1, <2>1, <3>0, <3>1 DEF Pagou, Em, o
    <3>6. SemDividas'
      BY <1>2, <3>2, <3>3 DEF Certos, SemDividas
    <3>7. \A x \in DOMAIN saldo' :
            (\A u \in Fios : Pagou(u)' => lugar'[u] # x) => saldo'[x] = devido'[x]
      BY <1>2, <2>1, <3>1, <3>2, <3>4, <3>5 DEF Certos
    <3>8. \A u \in Fios : Pagou(u)' => saldo'[lugar'[u]] = devido'[lugar'[u]] - pedido'[u].valor
      BY <1>1, <1>2, <1>3, <1>4, <2>1, <2>2, <2>3, <3>1, <3>2, <3>4, <3>5 DEF Certos
    <3>9. \A u \in Fios : Em(u, {"escrever"})' => lido'[u] = saldo'[lugar'[u]]
      BY <1>1, <1>2, <1>3, <1>4, <2>1, <2>2, <3>2, <3>4 DEF Certos, Em
    <3>10. \A u \in Fios : Em(u, {"ler", "escrever"})' /\ DeIdeia(u)' => saldo'[lugar'[u]] >= pedido'[u].valor
      BY <1>1, <1>2, <1>3, <1>4, <2>1, <2>2, <3>2, <3>4 DEF Certos, DeIdeia
    <3>. QED BY <3>6, <3>7, <3>8, <3>9, <3>10 DEF Certos
  <2>. QED BY <2>4, <2>5
<1>7. CASE GuardarIdeia(t)
  <2>. DEFINE o == lugar[t]
  <2>1. /\ Pagou(t) /\ ComObjecto(t) /\ o \in DOMAIN saldo /\ saldo' = saldo
        /\ lugar' = lugar /\ lido' = lido /\ fase'[t] = "livre"
        /\ devido' = [devido EXCEPT ![o] = devido[o] - pedido[t].valor]
    BY <1>0, <1>3, <1>7 DEF GuardarIdeia, Ir, Pagou, Em, ComObjecto
  <2>2. \A u \in Fios : u # t /\ ComObjecto(u) => lugar[u] # o
    BY <2>1, Sozinho
  <2>. HIDE DEF o
  <2>3. devido'[o] = saldo'[o] /\ \A x \in DOMAIN saldo : x # o => devido'[x] = devido[x]
    <3>1. saldo[o] = devido[o] - pedido[t].valor
      BY <1>2, <2>1 DEF Certos, o
    <3>. QED BY <1>0, <2>1, <3>1
  <2>4. \A u \in Fios : /\ Pagou(u)' <=> Pagou(u) /\ u # t
                        /\ Em(u, {"ler", "escrever"})' => Em(u, {"ler", "escrever"}) /\ u # t
                        /\ Em(u, {"escrever"})' => Em(u, {"escrever"}) /\ u # t
    BY <1>1, <2>1 DEF Pagou, Em
  <2>5. \A x \in DOMAIN saldo' :
          (\A u \in Fios : Pagou(u)' => lugar'[u] # x) => saldo'[x] = devido'[x]
    <3>1. ASSUME NEW x \in DOMAIN saldo, \A u \in Fios : Pagou(u)' => lugar'[u] # x, x # o
          PROVE  saldo'[x] = devido'[x]
      <4>1. \A u \in Fios : Pagou(u) => lugar[u] # x
        BY <2>1, <2>4, <3>1 DEF o
      <4>. QED BY <1>2, <2>1, <2>3, <3>1, <4>1 DEF Certos
    <3>. QED BY <2>1, <2>3, <3>1
  <2>6. \A u \in Fios : Pagou(u)' => saldo'[lugar'[u]] = devido'[lugar'[u]] - pedido'[u].valor
    BY <1>1, <1>2, <1>3, <1>4, <2>1, <2>2, <2>3, <2>4 DEF Certos
  <2>. QED BY <1>1, <1>2, <2>1, <2>4, <2>5, <2>6 DEF Certos, SemDividas, DeIdeia
<1>8. CASE ~GuardarConta(t) /\ ~EscreverSaldo(t) /\ ~GuardarIdeia(t)
  <2>1. saldo' = saldo /\ devido' = devido
    BY <1>8 DEF Passo, dados, ProcurarNome, ProcurarTema, ProcurarSaldo, ProcurarVendedor,
                LerSaldo, GerarId, LerTamanho, GuardarTopico, Apagar, Responder
  <2>2. /\ Pagou(t)' <=> Pagou(t)
        /\ Pagou(t) => lugar'[t] = lugar[t]
        /\ Em(t, {"escrever"})' => lido'[t] = saldo[lugar'[t]]
        /\ Em(t, {"ler", "escrever"})' /\ DeIdeia(t)' => saldo[lugar'[t]] >= pedido[t].valor
    <3>1. CASE ProcurarSaldo(t) \/ ProcurarVendedor(t)
      <4>1. ~Pagou(t)
        BY <3>1 DEF ProcurarSaldo, ProcurarVendedor, Pagou, Em
      <4>. QED BY <1>0, <1>1, <3>1, <4>1, Encontrado DEF Pagou, Em, DeIdeia
    <3>2. CASE LerSaldo(t)
      BY <1>0, <1>1, <1>2, <3>2 DEF LerSaldo, Ir, Pagou, Em, DeIdeia, Certos
    <3>3. CASE GerarId(t)
      BY <1>0, <1>1, <3>3 DEF GerarId, Ir, Pagou, Em
    <3>4. CASE LerTamanho(t)
      BY <1>0, <1>1, <3>4 DEF LerTamanho, Ir, Pagou, Em, Base, Lugares, DeConta, DeTopico
    <3>5. CASE ProcurarNome(t) \/ GuardarTopico(t) \/ Apagar(t) \/ Responder(t)
      BY <1>0, <1>1, <3>5 DEF ProcurarNome, GuardarTopico, Apagar, Responder, Ir, Pagou, Em
    <3>6. CASE ProcurarTema(t)
      <4>1. fase'[t] \in {"livre", "gerar"} /\ pedido[t].op # "criarideia"
        BY <1>0, <3>6 DEF ProcurarTema, Ir
      <4>. QED BY <1>1, <4>1 DEF Pagou, Em
    <3>. QED BY <1>8, <3>1, <3>2, <3>3, <3>4, <3>5, <3>6 DEF Passo
  <2>3. \A u \in Fios : u # t =>
          /\ Pagou(u)' <=> Pagou(u)
          /\ Em(u, {"escrever"})' <=> Em(u, {"escrever"})
          /\ Em(u, {"ler", "escrever"})' <=> Em(u, {"ler", "escrever"})
          /\ DeIdeia(u)' <=> DeIdeia(u)
    BY <1>1 DEF Pagou, Em, DeIdeia
  <2>. QED BY <1>1, <1>2, <2>1, <2>2, <2>3 DEF Certos, SemDividas
<1>. QED BY <1>5, <1>6, <1>7, <1>8

-----------------------------------------------------------------------------
\* The invariant, and what follows from it.

LEMMA Indutivo == RInv /\ [Next]_vars => RInv'
<1>. SUFFICES ASSUME RInv, [Next]_vars PROVE RInv'
  OBVIOUS
<1>1. ASSUME NEW t \in Fios, Chamar(t) PROVE RInv'
  BY <1>1, ChamarBase, ChamarListas DEF RInv
<1>2. ASSUME NEW t \in Fios, Passo(t) PROVE RInv'
  BY <1>2, PassoBase, PassoContas, PassoTopicos, PassoIdeias, PassoSaldos DEF RInv
<1>3. CASE UNCHANGED vars
  <2>1. Base'
    BY <1>3 DEF vars, RInv, Base, TypeOK, Tipos, Limitadas, Ate, Contas, Topicos, Objectos, Donos,
                Lugares, ComObjecto, Em, DeConta, DeTopico, DeIdeia
  <2>2. NasContas' /\ NosTopicos'
    BY <1>3 DEF vars, RInv, NasContas, NosTopicos, Contas, Topicos, NomesDistintos, ContasNaPosicao,
                TemasDistintos, TopicosNaPosicao, NomesIguais, TemasIguais, TemaRecebido, Em,
                DeConta, DeTopico
  <2>3. NasIdeias' /\ NosSaldos'
    BY <1>3 DEF vars, RInv, NasIdeias, NosSaldos, EmOrdem, SemDividas, Em, DeIdeia, DeSaldo, Pagou, Saldos
  <2>. QED BY <2>1, <2>2, <2>3 DEF RInv
<1>. QED BY <1>1, <1>2, <1>3 DEF Next

LEMMA Invariante == Spec => []RInv
BY Inicio, Indutivo, PTL DEF Spec

\* Users, topics, ideas and calls always have their types, whatever is in
\* dispute, and the lists are within their arrays.
THEOREM TypeCorrect == Spec => []TypeOK
<1>1. RInv => TypeOK
  BY DEF RInv, Base
<1>. QED BY <1>1, Invariante, PTL

\* No two users of one name while registrations do not overlap, and no two
\* topics of one theme while new topics do not (IdeiaImpl.java:1422, 440).
THEOREM NomesSemRepetir == Spec => []NomesUnicos
<1>1. RInv => NomesUnicos
  BY DEF RInv, NasContas, NosTopicos, NomesUnicos
<1>. QED BY <1>1, Invariante, PTL

\* A user's or a topic's identifier is its position, which is how the market
\* reaches a topic from its identifier (IdeiaImpl.java:717).
THEOREM PosicoesCertas == Spec => []IdNaPosicao
<1>1. RInv => IdNaPosicao
  BY DEF RInv, NasContas, NosTopicos, IdNaPosicao
<1>. QED BY <1>1, Invariante, PTL

\* Ideas of a topic stay in the order of their identifiers, whatever was
\* deleted, so no identifier is in use twice (IdeiaImpl.java:1508).
THEOREM OrdemDasIdeias == Spec => []IdeiasPorOrdem
<1>1. RInv => IdeiasPorOrdem
  BY DEF RInv, NasIdeias, IdeiasPorOrdem
<1>. QED BY <1>1, Invariante, PTL

\* With no call running, every balance is the initial one, less its user's
\* investments, plus its user's sales (IdeiaImpl.java:1727, 1858).
THEOREM DinheiroCerto == Spec => []DinheiroExacto
<1>1. RInv => DinheiroExacto
  <2>1. SUFFICES ASSUME RInv, Saldos \cap disputas = {}, Sossego PROVE saldo = devido
    BY DEF DinheiroExacto, Exacto
  <2>2. saldo \in Seq(Int) /\ devido \in Seq(Int) /\ Len(devido) = Len(saldo)
    BY <2>1 DEF RInv, Base, TypeOK, Tipos, Objectos
  <2>3. \A o \in DOMAIN saldo : saldo[o] = devido[o]
    BY <2>1 DEF RInv, NosSaldos, Sossego, Pagou, Em
  <2>4. \A o \in 1..Len(saldo) : saldo[o] = devido[o]
    BY <2>2, <2>3
  <2>. HIDE <2>1, <2>3
  <2>. QED BY <2>4, <2>2, <2>3, SeqEqual
<1>. QED BY <1>1, Invariante, PTL

\* New ideas never take a balance below zero, while no other call is changing
\* the same balance (verificarSaldo, IdeiaImpl.java:1707).
THEOREM SaldosChegam == Spec => []SaldoChega
<1>1. RInv => SaldoChega
  BY DEF RInv, NosSaldos, SaldoChega
<1>. QED BY <1>1, Invariante, PTL

\* Users and topics, once stored, are never lost, moved or renamed, while two
\* calls are not adding to the same list (IdeiaImpl.java:1431, 456).
THEOREM NadaSePerdeNosRegistos == Spec => RegistoDuradouro
<1>1. RInv /\ [Next]_vars => Duradouro \/ UNCHANGED vars
  <2>. SUFFICES ASSUME RInv, NEW t \in Fios, Chamar(t) \/ Passo(t) PROVE Duradouro
    BY DEF Next
  <2>0. TypeOK /\ contas \in Seq(Conta) /\ topicos \in Seq(Topico)
    BY DEF RInv, Base, TypeOK, Tipos
  <2>1. CASE Chamar(t)
    BY <2>0, <2>1, PrefixoProprio DEF Chamar, dados, Duradouro
  <2>2. CASE Passo(t)
    <3>1. ASSUME <<"contas">> \notin disputas PROVE IsPrefix(contas, contas')
      <4>1. CASE GuardarConta(t)
        <5>1. Contas = contas /\ lugar[t] = Len(contas)
          BY <3>1, <4>1 DEF RInv, NasContas, GuardarConta, Em
        <5>2. /\ contas' \in Seq(Conta) /\ Len(contas') = Len(contas) + 1
              /\ \A i \in 1..Len(contas) : contas'[i] = contas[i]
          BY <2>2, <4>1, <5>1, ContasDepois DEF RInv, Depois
        <5>. QED BY <2>0, <5>2, PrefixoDe
      <4>2. CASE ~GuardarConta(t)
        BY <2>0, <2>2, <4>2, ContasFicam, PrefixoProprio
      <4>. QED BY <4>1, <4>2
    <3>2. ASSUME <<"topicos">> \notin disputas PROVE IsPrefix(topicos, topicos')
      <4>1. CASE GuardarTopico(t)
        <5>1. Topicos = topicos /\ lugar[t] = Len(topicos)
          BY <3>2, <4>1 DEF RInv, NosTopicos, GuardarTopico, Em
        <5>2. /\ topicos' \in Seq(Topico) /\ Len(topicos') = Len(topicos) + 1
              /\ \A i \in 1..Len(topicos) : topicos'[i] = topicos[i]
          BY <2>2, <4>1, <5>1, TopicosDepois DEF RInv, Depois
        <5>. QED BY <2>0, <5>2, PrefixoDe
      <4>2. CASE ~GuardarTopico(t)
        BY <2>0, <2>2, <4>2, TopicosFicam, PrefixoProprio
      <4>. QED BY <4>1, <4>2
    <3>. QED BY <3>1, <3>2 DEF Duradouro
  <2>. QED BY <2>1, <2>2
<1>. QED BY <1>1, Invariante, PTL DEF Spec, RegistoDuradouro
=============================================================================
