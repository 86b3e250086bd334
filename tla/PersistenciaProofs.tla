------------------------- MODULE PersistenciaProofs -------------------------
(***************************************************************************)
(* Theorems about Persistencia: what its lists and files hold, that a      *)
(* restart finds what was answered until an operation does not save, a     *)
(* write fails or the server stops in the middle of savedados, and that    *)
(* even then identifiers mean what they did.                               *)
(***************************************************************************)
EXTENDS Persistencia, SequenceTheorems, TLAPS

-----------------------------------------------------------------------------
\* The shape of the lists.

LEMMA OrdemFicheiros ==
  /\ Ordem[1] = "utilizadores" /\ Ordem[2] = "topicos" /\ Ordem[3] = "notas"
  /\ \A k \in 1..3 : Ordem[k] \in Ficheiros
BY DEF Ordem, Ficheiros

\* Lists that keep the users, in their places, and the topics there are.
Users(U) ==
  /\ U \in Seq(Utilizador) /\ Len(utilizadores) <= Len(U)
  /\ \A i \in 1..Len(utilizadores) : U[i].nome = utilizadores[i].nome
Temas(T) == T \in Seq(Seq(Ideia)) /\ Len(topicos) <= Len(T)

\* A change of balances and notices leaves a list of users, each in its place.
LEMMA ComTipo ==
  ASSUME utilizadores \in Seq(Utilizador), NEW quem, NEW v \in Int, NEW a \in Nat
  PROVE  /\ Com(quem, v, a) \in Seq(Utilizador)
         /\ DOMAIN Com(quem, v, a) = DOMAIN utilizadores
         /\ Users(Com(quem, v, a))
<1>. DEFINE u(i) == utilizadores[i]
            e(i) == IF u(i).nome \in quem
                    THEN [u(i) EXCEPT !.saldo = @ + v, !.avisos = @ + a] ELSE u(i)
<1>0. \A i \in DOMAIN utilizadores : u(i) \in Utilizador
  OBVIOUS
<1>1. Com(quem, v, a) = [i \in DOMAIN utilizadores |-> e(i)]
  BY DEF Com
<1>. HIDE DEF u
<1>2. ASSUME NEW i \in DOMAIN utilizadores
      PROVE  e(i) \in Utilizador /\ e(i).nome = u(i).nome
  <2>1. /\ u(i) \in [nome : Nomes, saldo : Int, avisos : Nat, acesso : Nat]
        /\ u(i).saldo + v \in Int /\ u(i).avisos + a \in Nat
    BY <1>0 DEF Utilizador
  <2>. QED BY <2>1 DEF Utilizador
<1>. HIDE DEF e
<1>3. DOMAIN utilizadores = 1..Len(utilizadores) /\ Len(utilizadores) \in Nat
  OBVIOUS
<1>. QED BY <1>1, <1>2, <1>3 DEF u, Users

\* One user replaced by one of the same name.
LEMMA UmUtilizador ==
  ASSUME NEW U, Users(U), NEW i \in DOMAIN U, NEW x \in Utilizador, x.nome = U[i].nome
  PROVE  Users([U EXCEPT ![i] = x])
<1>1. U \in Seq(Utilizador) /\ DOMAIN U = 1..Len(U) /\ Len(U) \in Nat
  BY DEF Users
<1>. DEFINE V == [U EXCEPT ![i] = x]
<1>2. V \in Seq(Utilizador) /\ Len(V) = Len(U)
  BY <1>1
<1>3. \A u \in DOMAIN U : V[u].nome = U[u].nome
  BY <1>1
<1>. HIDE DEF V
<1>4. ASSUME NEW u \in 1..Len(utilizadores) PROVE V[u].nome = utilizadores[u].nome
  <2>1. u \in DOMAIN U /\ U[u].nome = utilizadores[u].nome
    BY <1>1 DEF Users
  <2>. QED BY <1>3, <2>1
<1>. QED BY <1>2, <1>4 DEF Users

\* One topic replaced leaves a list of topics, of the same length.
LEMMA ComTopicoTipo ==
  ASSUME NEW k, NEW s, topicos \in Seq(Seq(Ideia)), k \in DOMAIN topicos, s \in Seq(Ideia)
  PROVE  Temas(ComTopico(k, s))
<1>1. DOMAIN topicos = 1..Len(topicos) /\ Len(topicos) \in Nat
  OBVIOUS
<1>. QED BY <1>1 DEF ComTopico, Temas

\* A new holder, price or reply of one idea, likewise.
LEMMA ComIdeiaTipo ==
  ASSUME NEW k, NEW j, NEW d, NEW p, NEW r,
         topicos \in Seq(Seq(Ideia)), k \in DOMAIN topicos, j \in DOMAIN topicos[k],
         d \in Nomes \cup {Root}, p \in Int, r \in Nat
  PROVE  Temas(ComIdeia(k, j, d, p, r))
<1>. DEFINE a == [dono |-> d, preco |-> p, respostas |-> r]
            s == [topicos[k] EXCEPT ![j] = a]
<1>1. a \in Ideia
  BY DEF Ideia
<1>2. topicos[k] \in Seq(Ideia)
  OBVIOUS
<1>3. ComIdeia(k, j, d, p, r) = ComTopico(k, s)
  BY DEF ComIdeia
<1>. HIDE DEF a
<1>4. s \in Seq(Ideia)
  BY <1>1, <1>2
<1>. QED BY <1>3, <1>4, ComTopicoTipo

\* The ideas of a topic, and what they are.
LEMMA IdeiaTipo ==
  ASSUME topicos \in Seq(Seq(Ideia)), NEW k \in DOMAIN topicos, NEW j \in DOMAIN topicos[k]
  PROVE  /\ topicos[k] \in Seq(Ideia) /\ topicos[k][j] \in Ideia
         /\ topicos[k][j].dono \in Nomes \cup {Root}
         /\ topicos[k][j].preco \in Int /\ -topicos[k][j].preco \in Int
         /\ topicos[k][j].respostas \in Nat
<1>1. topicos[k] \in Seq(Ideia)
  OBVIOUS
<1>2. topicos[k][j] \in Ideia
  BY <1>1
<1>3. topicos[k][j].preco \in Int
  BY <1>2 DEF Ideia
<1>. QED BY <1>1, <1>2, <1>3 DEF Ideia

\* A topic without one of its ideas.
LEMMA SemIdeiaTipo ==
  ASSUME NEW s \in Seq(Ideia), NEW j \in DOMAIN s
  PROVE  RemoveAt(s, j) \in Seq(Ideia)
<1>1. j \in 1..Len(s) /\ Len(s) \in Nat
  OBVIOUS
<1>2. /\ SubSeq(s, 1, j - 1) \in Seq(Ideia) /\ SubSeq(s, j + 1, Len(s)) \in Seq(Ideia)
  BY <1>1, SubSeqProperties
<1>. QED BY <1>2, ConcatProperties DEF RemoveAt

LEMMA MemoriaTipo ==
  ASSUME TypeOK
  PROVE  /\ utilizadores \in Seq(Utilizador)
         /\ topicos \in Seq(Seq(Ideia))
         /\ notas \in Seq(Nota)
BY DEF TypeOK, Listas, utilizadores, topicos, notas

\* The users of m are the first of those of n, and m has no more topics than n.
Antes(m, n) ==
  /\ Len(m["utilizadores"]) <= Len(n["utilizadores"])
  /\ \A i \in 1..Len(m["utilizadores"]) :
       m["utilizadores"][i].nome = n["utilizadores"][i].nome
  /\ Len(m["topicos"]) <= Len(n["topicos"])

LEMMA FicamTipo ==
  ASSUME NEW U, NEW T, NEW N, Ficam(U, T, N),
         U \in Seq(Utilizador), T \in Seq(Seq(Ideia)), N \in Seq(Nota)
  PROVE  Listas(memoria')
BY DEF Ficam, Listas, Ficheiros

\* Lists with the users and the topics there were, and perhaps more.
LEMMA FicamAntes ==
  ASSUME NEW U, NEW T, NEW N, Ficam(U, T, N), Users(U), Temas(T)
  PROVE  Antes(memoria, memoria')
BY DEF Ficam, Antes, Ficheiros, Users, Temas, utilizadores, topicos

LEMMA FicamListas ==
  ASSUME NEW U, NEW T, NEW N, Ficam(U, T, N), Users(U), Temas(T), N \in Seq(Nota)
  PROVE  Listas(memoria') /\ Antes(memoria, memoria')
BY FicamTipo, FicamAntes DEF Users, Temas

LEMMA Ficando ==
  ASSUME TypeOK
  PROVE  Users(utilizadores) /\ Temas(topicos) /\ notas \in Seq(Nota)
<1>1. /\ utilizadores \in Seq(Utilizador) /\ topicos \in Seq(Seq(Ideia))
      /\ notas \in Seq(Nota)
  BY MemoriaTipo
<1>2. Len(utilizadores) \in Nat /\ Len(topicos) \in Nat
  BY <1>1
<1>. QED BY <1>1, <1>2 DEF Users, Temas

LEMMA ContagemTipo ==
  ASSUME TypeOK, Chamada
  PROVE  operacoes' \in 0..MaxOperacoes
BY ConstantesAssumption DEF TypeOK, Chamada

\* Every operation leaves lists, and takes no user or topic out of its place; the
\* files are not touched.
LEMMA OperacaoTipo ==
  ASSUME TypeOK, Operacao
  PROVE  /\ Listas(memoria') /\ Antes(memoria, memoria')
         /\ operacoes' \in 0..MaxOperacoes
         /\ ligado /\ UNCHANGED <<disco, ligado, paragens>>
         /\ (\E n \in SUBSET Nomes : GravarEAvisar(n)) \/ NaoGravar
<1>. DEFINE Fim == /\ Chamada
                   /\ (\E n \in SUBSET Nomes : GravarEAvisar(n)) \/ NaoGravar
<1>. /\ utilizadores \in Seq(Utilizador) /\ topicos \in Seq(Seq(Ideia))
     /\ notas \in Seq(Nota)
  BY MemoriaTipo
<1>0. Len(utilizadores) \in Nat /\ Len(topicos) \in Nat
  OBVIOUS
<1>a. \A i \in DOMAIN utilizadores : utilizadores[i] \in Utilizador
  OBVIOUS
<1>b. \A i \in DOMAIN utilizadores : utilizadores[i].nome \in Nomes
  BY <1>a DEF Utilizador
<1>1. ASSUME NEW n \in Nomes, Registar(n)
      PROVE  Listas(memoria') /\ Antes(memoria, memoria')
  <2>. DEFINE u == [nome |-> n, saldo |-> SaldoInicial, avisos |-> 0, acesso |-> 0]
              U == Append(utilizadores, u)
  <2>1. u \in Utilizador
    BY ConstantesAssumption DEF Utilizador
  <2>2. Ficam(U, topicos, notas)
    BY <1>1 DEF Registar
  <2>. HIDE DEF u
  <2>4. /\ U \in Seq(Utilizador) /\ Len(U) = Len(utilizadores) + 1
        /\ \A i \in 1..Len(utilizadores) : U[i] = utilizadores[i]
    BY <2>1, AppendProperties
  <2>. HIDE DEF U
  <2>3. Users(U)
    BY <1>0, <2>4 DEF Users
  <2>. QED BY <2>2, <2>3, Ficando, FicamListas
<1>2. ASSUME NEW n \in Nomes, AdicionarNota(n)
      PROVE  Listas(memoria') /\ Antes(memoria, memoria')
  <2>. DEFINE r == [para |-> n, vista |-> FALSE]
  <2>1. r \in Nota
    BY DEF Nota
  <2>2. Ficam(utilizadores, topicos, Append(notas, r))
    BY <1>2 DEF AdicionarNota
  <2>. HIDE DEF r
  <2>3. Append(notas, r) \in Seq(Nota)
    BY <2>1
  <2>. QED BY <2>2, <2>3, Ficando, FicamListas
<1>3. ASSUME AdicionarTopico
      PROVE  Listas(memoria') /\ Antes(memoria, memoria')
  <2>. DEFINE T == Append(topicos, <<>>)
  <2>1. Temas(T)
    BY <1>0 DEF Temas
  <2>2. Ficam(utilizadores, T, notas)
    BY <1>3 DEF AdicionarTopico
  <2>. HIDE DEF T
  <2>. QED BY <2>1, <2>2, Ficando, FicamListas
<1>4. ASSUME NEW i \in DOMAIN utilizadores, NEW k \in DOMAIN topicos, NEW p \in Precos,
             CriarIdeia(i, k, p)
      PROVE  Listas(memoria') /\ Antes(memoria, memoria')
  <2>. DEFINE U == Com({utilizadores[i].nome}, -p, 1)
              a == [dono |-> utilizadores[i].nome, preco |-> p, respostas |-> 0]
              T == ComTopico(k, Append(topicos[k], a))
  <2>1. Ficam(U, T, notas)
    BY <1>4 DEF CriarIdeia
  <2>2. p \in Int /\ -p \in Int
    BY ConstantesAssumption
  <2>3. a \in Ideia
    BY <1>b, <2>2 DEF Ideia
  <2>4. Users(U)
    BY <2>2, ComTipo
  <2>. HIDE DEF U, a
  <2>5. topicos[k] \in Seq(Ideia)
    OBVIOUS
  <2>6. Append(topicos[k], a) \in Seq(Ideia)
    BY <2>3, <2>5
  <2>7. Temas(T)
    BY <2>6, ComTopicoTipo
  <2>. HIDE DEF T
  <2>. QED BY <2>1, <2>4, <2>7, Ficando, FicamListas
<1>5. ASSUME NEW i \in DOMAIN utilizadores, NEW k \in DOMAIN topicos,
             NEW j \in DOMAIN topicos[k], EfectuarCompra(i, k, j)
      PROVE  Listas(memoria') /\ Antes(memoria, memoria')
  <2>. DEFINE pr == topicos[k][j].preco
              rs == topicos[k][j].respostas
              menos == -pr
              paga == Com({utilizadores[i].nome}, menos, 1)
              T == ComIdeia(k, j, utilizadores[i].nome, pr, rs)
  <2>. PICK v \in DOMAIN utilizadores :
         Ficam([paga EXCEPT ![v] = [paga[v] EXCEPT !.saldo = paga[v].saldo + pr]], T, notas)
    BY <1>5 DEF EfectuarCompra
  <2>1. pr \in Int /\ menos \in Int /\ rs \in Nat
    BY IdeiaTipo
  <2>2. Temas(T)
    BY <1>b, <2>1, ComIdeiaTipo
  <2>. HIDE DEF pr, rs, menos, T
  <2>3. paga \in Seq(Utilizador) /\ DOMAIN paga = DOMAIN utilizadores /\ Users(paga)
    BY <2>1, ComTipo
  <2>. HIDE DEF paga
  <2>. DEFINE x == [paga[v] EXCEPT !.saldo = paga[v].saldo + pr]
              U == [paga EXCEPT ![v] = x]
  <2>4. Ficam(U, T, notas)
    OBVIOUS
  <2>5. v \in DOMAIN paga /\ paga[v] \in Utilizador
    BY <2>3
  <2>6. x \in Utilizador /\ x.nome = paga[v].nome
    <3>1. /\ paga[v] \in [nome : Nomes, saldo : Int, avisos : Nat, acesso : Nat]
          /\ paga[v].saldo + pr \in Int
      BY <2>1, <2>5 DEF Utilizador
    <3>. QED BY <3>1 DEF Utilizador
  <2>. HIDE DEF x
  <2>7. Users(U)
    BY <2>3, <2>5, <2>6, UmUtilizador
  <2>. HIDE DEF U
  <2>. QED BY <2>2, <2>3, <2>4, <2>7, Ficando, FicamListas
<1>6. ASSUME NEW i \in DOMAIN utilizadores, NEW k \in DOMAIN topicos,
             NEW j \in DOMAIN topicos[k], ApagarIdeia(i, k, j)
      PROVE  Listas(memoria') /\ Antes(memoria, memoria')
  <2>. DEFINE T == ComTopico(k, RemoveAt(topicos[k], j))
  <2>1. Ficam(utilizadores, T, notas)
    BY <1>6 DEF ApagarIdeia
  <2>2. RemoveAt(topicos[k], j) \in Seq(Ideia)
    BY IdeiaTipo, SemIdeiaTipo
  <2>3. Temas(T)
    BY <2>2, ComTopicoTipo
  <2>. HIDE DEF T
  <2>. QED BY <2>1, <2>3, Ficando, FicamListas
<1>7. ASSUME NEW k \in DOMAIN topicos, NEW j \in DOMAIN topicos[k], Takeover(k, j)
      PROVE  Listas(memoria') /\ Antes(memoria, memoria')
  <2>. DEFINE pr == topicos[k][j].preco
              U == Com({topicos[k][j].dono}, pr, 0)
              T == ComIdeia(k, j, Root, -1, topicos[k][j].respostas)
  <2>1. Ficam(U, T, notas)
    BY <1>7 DEF Takeover
  <2>3. Temas(T)
    BY IdeiaTipo, ComIdeiaTipo
  <2>4. pr \in Int
    BY IdeiaTipo
  <2>. HIDE DEF pr
  <2>2. Users(U)
    BY <2>4, ComTipo
  <2>. HIDE DEF U, T
  <2>. QED BY <2>1, <2>2, <2>3, Ficando, FicamListas
<1>8. ASSUME NEW k \in DOMAIN topicos, NEW j \in DOMAIN topicos[k], NEW p \in Precos,
             EditarAccao(k, j, p)
      PROVE  Listas(memoria') /\ Antes(memoria, memoria')
  <2>. DEFINE T == ComIdeia(k, j, topicos[k][j].dono, p, topicos[k][j].respostas)
  <2>1. Ficam(utilizadores, T, notas)
    BY <1>8 DEF EditarAccao
  <2>2. p \in Int
    BY ConstantesAssumption
  <2>3. Temas(T)
    BY <2>2, IdeiaTipo, ComIdeiaTipo
  <2>. HIDE DEF T
  <2>. QED BY <2>1, <2>3, Ficando, FicamListas
<1>9. ASSUME NEW k \in DOMAIN topicos, NEW j \in DOMAIN topicos[k], ResponderIdeia(k, j)
      PROVE  Listas(memoria') /\ Antes(memoria, memoria')
  <2>. DEFINE r == topicos[k][j].respostas + 1
              T == ComIdeia(k, j, topicos[k][j].dono, topicos[k][j].preco, r)
  <2>1. Ficam(utilizadores, T, notas)
    BY <1>9 DEF ResponderIdeia
  <2>2. r \in Nat
    BY IdeiaTipo
  <2>. HIDE DEF r
  <2>3. Temas(T)
    BY <2>2, IdeiaTipo, ComIdeiaTipo
  <2>. HIDE DEF T
  <2>. QED BY <2>1, <2>3, Ficando, FicamListas
<1>10. ASSUME NEW i \in DOMAIN utilizadores, AdicionaToken(i)
      PROVE  Listas(memoria') /\ Antes(memoria, memoria')
  <2>. DEFINE x == [utilizadores[i] EXCEPT !.acesso = utilizadores[i].acesso + 1]
              U == [utilizadores EXCEPT ![i] = x]
  <2>1. Ficam(U, topicos, notas)
    BY <1>10 DEF AdicionaToken
  <2>2. x \in Utilizador /\ x.nome = utilizadores[i].nome
    <3>1. /\ utilizadores[i] \in [nome : Nomes, saldo : Int, avisos : Nat, acesso : Nat]
          /\ utilizadores[i].acesso + 1 \in Nat
      BY <1>a DEF Utilizador
    <3>. QED BY <3>1 DEF Utilizador
  <2>. HIDE DEF x
  <2>3. Users(U)
    BY <2>2, Ficando, UmUtilizador
  <2>. HIDE DEF U
  <2>. QED BY <2>1, <2>3, Ficando, FicamListas
<1>11. ASSUME NEW i \in DOMAIN notas, NotificacaoVista(i)
      PROVE  Listas(memoria') /\ Antes(memoria, memoria')
  <2>. DEFINE N == [j \in DOMAIN notas |-> IF j = i
                      THEN [para |-> notas[j].para, vista |-> TRUE] ELSE notas[j]]
  <2>1. \A j \in DOMAIN notas : notas[j] \in Nota
    OBVIOUS
  <2>2. \A j \in DOMAIN notas : [para |-> notas[j].para, vista |-> TRUE] \in Nota
    BY <2>1 DEF Nota
  <2>3. DOMAIN notas = 1..Len(notas) /\ Len(notas) \in Nat
    OBVIOUS
  <2>4. N \in Seq(Nota)
    BY <2>1, <2>2, <2>3
  <2>5. Ficam(utilizadores, topicos, N)
    BY <1>11 DEF NotificacaoVista
  <2>. HIDE DEF N
  <2>. QED BY <2>4, <2>5, Ficando, FicamListas
<1>12. Fim
  <2>1. Gravar => \E n \in SUBSET Nomes : GravarEAvisar(n)
    BY DEF Gravar
  <2>2. \A i \in DOMAIN utilizadores : GravarEAvisar({utilizadores[i].nome})
           => \E n \in SUBSET Nomes : GravarEAvisar(n)
    BY <1>b
  <2>. QED BY <2>1, <2>2 DEF Operacao, Registar, AdicionarNota, AdicionarTopico,
          CriarIdeia, EfectuarCompra, ApagarIdeia, Takeover, EditarAccao, ResponderIdeia,
          AdicionaToken, NotificacaoVista
<1>13. Listas(memoria') /\ Antes(memoria, memoria')
  BY <1>1, <1>2, <1>3, <1>4, <1>5, <1>6, <1>7, <1>8, <1>9, <1>10, <1>11
     DEF Operacao
<1>. QED BY <1>12, <1>13, ContagemTipo DEF Chamada

\* The end of savedados leaves lists too, perhaps with a notice more.
LEMMA SeguinteTipo ==
  ASSUME TypeOK, Seguinte
  PROVE  /\ Listas(memoria') /\ Antes(memoria, memoria') /\ Listas(confirmado')
         /\ avisar' \subseteq Nomes
<1>1. CASE ficheiro # 3
  <2>1. UNCHANGED <<memoria, avisar, confirmado>>
    BY <1>1 DEF Seguinte
  <2>2. Len(memoria["utilizadores"]) \in Nat /\ Len(memoria["topicos"]) \in Nat
    BY DEF TypeOK, Listas
  <2>. QED BY <2>1, <2>2 DEF TypeOK, Antes
<1>2. CASE ficheiro = 3
  <2>. DEFINE U == Com(avisar, 0, 1)
  <2>1. /\ Ficam(U, topicos, notas) /\ avisar' = {} /\ confirmado' = memoria'
    BY <1>2 DEF Seguinte
  <2>2. /\ utilizadores \in Seq(Utilizador) /\ topicos \in Seq(Seq(Ideia))
        /\ notas \in Seq(Nota)
    BY MemoriaTipo
  <2>3. Users(U)
    BY <2>2, ComTipo
  <2>. HIDE DEF U
  <2>4. Len(utilizadores) \in Nat /\ Len(topicos) \in Nat
    BY <2>2
  <2>. QED BY <2>1, <2>2, <2>3, <2>4, Ficando, FicamListas
<1>. QED BY <1>1, <1>2

\* With nobody to notify the lists stay as they are.
LEMMA SeguinteIgual ==
  ASSUME TypeOK, Seguinte, ficheiro = 3 => avisar = {}
  PROVE  memoria' = memoria
<1>1. CASE ficheiro # 3
  BY <1>1 DEF Seguinte
<1>2. CASE ficheiro = 3
  <2>1. Ficam(Com({}, 0, 1), topicos, notas)
    BY <1>2 DEF Seguinte
  <2>2. utilizadores \in Seq(Utilizador)
    BY MemoriaTipo
  <2>3. Com({}, 0, 1) = utilizadores
    BY <2>2 DEF Com
  <2>4. Ficam(utilizadores, topicos, notas)
    BY <2>1, <2>3
  <2>. QED BY <2>4 DEF Ficam, Ficheiros, utilizadores, topicos, notas, TypeOK, Listas
<1>. QED BY <1>1, <1>2

\* Writing the next record of the open file.
LEMMA EscreverTipo ==
  ASSUME TypeOK, Escrever
  PROVE  /\ Listas(disco') /\ ficheiro \in 1..3
         /\ disco' = [disco EXCEPT ![actual] =
                        Append(disco[actual], memoria[actual][Len(disco[actual]) + 1])]
<1>1. ficheiro \in 1..3
  BY DEF TypeOK, Escrever
<1>2. disco' = [disco EXCEPT ![actual] =
                  Append(disco[actual], memoria[actual][Len(disco[actual]) + 1])]
  BY DEF Escrever
<1>3. Len(disco[actual]) < Len(memoria[actual])
  BY DEF Escrever
<1>4. CASE actual = "utilizadores"
  <2>1. /\ disco["utilizadores"] \in Seq(Utilizador)
        /\ memoria["utilizadores"] \in Seq(Utilizador)
    BY DEF TypeOK, Listas
  <2>. DEFINE r == memoria[actual][Len(disco[actual]) + 1]
  <2>2. r \in Utilizador
    BY <1>3, <1>4, <2>1
  <2>3. disco' = [disco EXCEPT !["utilizadores"] = Append(disco["utilizadores"], r)]
    BY <1>2, <1>4
  <2>. HIDE DEF r
  <2>4. Append(disco["utilizadores"], r) \in Seq(Utilizador)
    BY <2>1, <2>2
  <2>. QED BY <1>1, <1>2, <1>4, <2>1, <2>3, <2>4 DEF TypeOK, Listas, Ficheiros
<1>5. CASE actual = "topicos"
  <2>1. /\ disco["topicos"] \in Seq(Seq(Ideia))
        /\ memoria["topicos"] \in Seq(Seq(Ideia))
    BY DEF TypeOK, Listas
  <2>. DEFINE r == memoria[actual][Len(disco[actual]) + 1]
  <2>2. r \in Seq(Ideia)
    BY <1>3, <1>5, <2>1
  <2>3. disco' = [disco EXCEPT !["topicos"] = Append(disco["topicos"], r)]
    BY <1>2, <1>5
  <2>. HIDE DEF r
  <2>4. Append(disco["topicos"], r) \in Seq(Seq(Ideia))
    BY <2>1, <2>2
  <2>. QED BY <1>1, <1>2, <1>5, <2>1, <2>3, <2>4 DEF TypeOK, Listas, Ficheiros
<1>6. CASE actual = "notas"
  <2>1. disco["notas"] \in Seq(Nota) /\ memoria["notas"] \in Seq(Nota)
    BY DEF TypeOK, Listas
  <2>. DEFINE r == memoria[actual][Len(disco[actual]) + 1]
  <2>2. r \in Nota
    BY <1>3, <1>6, <2>1
  <2>3. disco' = [disco EXCEPT !["notas"] = Append(disco["notas"], r)]
    BY <1>2, <1>6
  <2>. HIDE DEF r
  <2>4. Append(disco["notas"], r) \in Seq(Nota)
    BY <2>1, <2>2
  <2>. QED BY <1>1, <1>2, <1>6, <2>1, <2>3, <2>4 DEF TypeOK, Listas, Ficheiros
<1>. QED BY <1>1, <1>4, <1>5, <1>6, OrdemFicheiros DEF actual

LEMMA AbrirTipo ==
  ASSUME TypeOK, Abrir
  PROVE  /\ Listas(disco') /\ ficheiro \in 1..3
         /\ disco' = [disco EXCEPT ![actual] = <<>>]
<1>1. ficheiro \in 1..3 /\ disco' = [disco EXCEPT ![actual] = <<>>]
  BY DEF TypeOK, Abrir
<1>2. actual \in Ficheiros
  BY <1>1, OrdemFicheiros DEF actual
<1>3. <<>> \in Seq(Utilizador) /\ <<>> \in Seq(Seq(Ideia)) /\ <<>> \in Seq(Nota)
  OBVIOUS
<1>4. disco' = [f \in Ficheiros |-> IF f = actual THEN <<>> ELSE disco[f]]
  BY <1>1, <1>2 DEF TypeOK, Listas
<1>5. /\ disco' = [f \in Ficheiros |-> disco'[f]]
      /\ \A f \in Ficheiros : disco'[f] = <<>> \/ disco'[f] = disco[f]
  BY <1>4
<1>. QED BY <1>1, <1>3, <1>5 DEF TypeOK, Listas, Ficheiros

\* TypeOK is inductive: operations, writing, stopping and reading back keep the
\* lists and the files what they are.
THEOREM TypeCorrect == Spec => []TypeOK
<1>1. Init => TypeOK
  <2>1. Listas(Vazio)
    <3>1. <<>> \in Seq(Utilizador) /\ <<>> \in Seq(Seq(Ideia)) /\ <<>> \in Seq(Nota)
      OBVIOUS
    <3>2. /\ Vazio["utilizadores"] = <<>> /\ Vazio["topicos"] = <<>>
          /\ Vazio["notas"] = <<>> /\ Vazio = [f \in Ficheiros |-> Vazio[f]]
      BY DEF Vazio, Ficheiros
    <3>. QED BY <3>1, <3>2 DEF Listas
  <2>2. ASSUME Init
        PROVE  /\ Listas(memoria) /\ Listas(disco) /\ Listas(confirmado)
               /\ ligado \in BOOLEAN /\ aberto \in BOOLEAN /\ intacto \in BOOLEAN
    BY <2>1, <2>2 DEF Init
  <2>3. ASSUME Init
        PROVE  ficheiro \in 0..3 /\ operacoes \in 0..MaxOperacoes
               /\ paragens \in 0..MaxParagens /\ avisar \subseteq Nomes
    BY <2>3, ConstantesAssumption DEF Init
  <2>. QED BY <2>2, <2>3 DEF TypeOK
<1>2. TypeOK /\ [Next]_vars => TypeOK'
  <2>. SUFFICES ASSUME TypeOK, [Next]_vars PROVE TypeOK'
    OBVIOUS
  <2>1. CASE Operacao
    <3>1. /\ Listas(memoria') /\ operacoes' \in 0..MaxOperacoes
          /\ UNCHANGED <<disco, ligado, paragens>>
          /\ (\E n \in SUBSET Nomes : GravarEAvisar(n)) \/ NaoGravar
       BY <2>1, OperacaoTipo
    <3>2. /\ aberto' \in BOOLEAN /\ intacto' \in BOOLEAN
          /\ confirmado' \in {confirmado, memoria'}
      BY <3>1 DEF TypeOK, GravarEAvisar, NaoGravar
    <3>3. ficheiro' \in 0..3 /\ avisar' \subseteq Nomes
      BY <3>1 DEF TypeOK, GravarEAvisar, NaoGravar
    <3>4. Listas(confirmado')
      BY <3>1, <3>2 DEF TypeOK
    <3>. QED BY <3>1, <3>2, <3>3, <3>4 DEF TypeOK
  <2>2. CASE Abrir
    BY <2>2, AbrirTipo DEF TypeOK, Abrir
  <2>3. CASE Escrever
    BY <2>3, EscreverTipo DEF TypeOK, Escrever
  <2>4. CASE Fechar \/ EscreverFalha
    <3>1. /\ Seguinte /\ intacto' \in BOOLEAN
      BY <2>4 DEF TypeOK, Fechar, EscreverFalha
    <3>2. /\ Listas(memoria') /\ Listas(confirmado') /\ avisar' \subseteq Nomes
      BY <3>1, SeguinteTipo
    <3>3. /\ UNCHANGED <<disco, ligado, operacoes, paragens>>
          /\ aberto' = FALSE
      BY <3>1 DEF Seguinte
    <3>4. ficheiro' \in 0..3
      BY <3>1 DEF Seguinte, TypeOK
    <3>. QED BY <3>1, <3>2, <3>3, <3>4 DEF TypeOK
  <2>5. CASE Parar
    <3>1. ligado' \in BOOLEAN /\ aberto' \in BOOLEAN /\ intacto' \in BOOLEAN
      BY <2>5 DEF TypeOK, Parar
    <3>2. ficheiro' \in 0..3 /\ paragens' \in 0..MaxParagens /\ avisar' \subseteq Nomes
      BY <2>5, ConstantesAssumption DEF TypeOK, Parar
    <3>. QED BY <2>5, <3>1, <3>2 DEF TypeOK, Parar
  <2>6. CASE Reiniciar
    <3>1. \A f \in Ficheiros : memoria'[f] = disco[f]
      BY <2>6 DEF Reiniciar, Lido
    <3>. QED BY <2>6, <3>1 DEF TypeOK, Reiniciar, Lido, Listas, Ficheiros
  <2>7. CASE UNCHANGED vars
    BY <2>7 DEF TypeOK, vars
  <2>. QED BY <2>1, <2>2, <2>3, <2>4, <2>5, <2>6, <2>7 DEF Next
<1>. QED BY <1>1, <1>2, PTL DEF Spec

-----------------------------------------------------------------------------
\* What was answered is found again.

\* Until the first file is opened the disk has what was last answered; from then
\* on the files before the open one are complete, and the open one has the first
\* records of its list.
Completos == \A k \in 1..3 : k < ficheiro => disco[Ordem[k]] = memoria[Ordem[k]]
PrimeirosRegistos ==
  aberto => /\ ficheiro \in 1..3
            /\ Len(disco[actual]) <= Len(memoria[actual])
            /\ \A i \in 1..Len(disco[actual]) : disco[actual][i] = memoria[actual][i]
Inv ==
  /\ TypeOK
  /\ ~Meio => disco = confirmado
  /\ ligado /\ ficheiro = 0 => memoria = confirmado
  /\ ~ligado => ficheiro = 0 /\ ~aberto
  /\ Completos /\ PrimeirosRegistos

\* The values of lists are sequences of something, file by file.
LEMMA ListasSeq ==
  ASSUME NEW m, Listas(m), NEW f \in Ficheiros
  PROVE  \E S : m[f] \in Seq(S)
BY DEF Listas, Ficheiros

LEMMA ListasIguais ==
  ASSUME NEW m, NEW n, Listas(m), Listas(n), \A k \in 1..3 : m[Ordem[k]] = n[Ordem[k]]
  PROVE  m = n
<1>1. \A f \in Ficheiros : m[f] = n[f]
  BY OrdemFicheiros DEF Ficheiros
<1>. QED BY <1>1 DEF Listas

\* An operation that leaves the promise as it was ends by calling savedados.
LEMMA OperacaoGrava ==
  ASSUME TypeOK, Operacao, intacto'
  PROVE  intacto /\ \E n \in SUBSET Nomes : GravarEAvisar(n)
BY OperacaoTipo DEF NaoGravar, GravarEAvisar

\* A complete file equals its list.
LEMMA FicheiroCompleto ==
  ASSUME Inv, Fechar
  PROVE  ficheiro \in 1..3 /\ disco[actual] = memoria[actual]
<1>1. ficheiro \in 1..3 /\ aberto
  BY DEF Inv, TypeOK, Fechar
<1>2. actual \in Ficheiros
  BY <1>1, OrdemFicheiros DEF actual
<1>3. PICK S : disco[actual] \in Seq(S)
  BY <1>2, ListasSeq DEF Inv, TypeOK
<1>4. PICK T : memoria[actual] \in Seq(T)
  BY <1>2, ListasSeq DEF Inv, TypeOK
<1>. DEFINE d == disco[actual]
            m == memoria[actual]
<1>5. /\ Len(d) <= Len(m) /\ Len(d) >= Len(m)
      /\ \A i \in 1..Len(d) : d[i] = m[i]
  BY <1>1 DEF Inv, PrimeirosRegistos, Fechar
<1>6. d \in Seq(S) /\ m \in Seq(T)
  BY <1>3, <1>4
<1>. HIDE DEF d, m
<1>7. Len(d) = Len(m)
  BY <1>5, <1>6
<1>8. d = m
  BY <1>5, <1>6, <1>7
<1>. QED BY <1>1, <1>8 DEF d, m

\* Inv is inductive, and every step is one of Duravel or changes nothing it sees.
LEMMA PassoDuravel ==
  ASSUME Inv, intacto, intacto', TypeOK', [Next]_vars
  PROVE  /\ Inv'
         /\ \/ D!Operar \/ D!Responder \/ D!Parar \/ D!Reiniciar
            \/ UNCHANGED <<memoria, confirmado, ligado, intacto>>
<1>1. CASE Operacao
  <2>. PICK n \in SUBSET Nomes : GravarEAvisar(n)
    BY <1>1, OperacaoGrava DEF Inv
  <2>1. GravarEAvisar(n) /\ ligado /\ UNCHANGED <<disco, ligado>>
    BY <1>1, OperacaoTipo DEF Inv
  <2>2. ficheiro = 0 /\ ficheiro' = 1 /\ ~aberto' /\ confirmado' = confirmado
    BY <2>1 DEF GravarEAvisar
  <2>3. memoria = confirmado /\ ~aberto /\ disco = confirmado
    BY <2>1, <2>2 DEF Inv, PrimeirosRegistos, Meio
  <2>4. D!Operar
    BY <2>1, <2>2, <2>3 DEF D!Operar
  <2>5. Completos' /\ PrimeirosRegistos'
    BY <2>2 DEF Completos, PrimeirosRegistos
  <2>6. disco' = confirmado' /\ ligado' /\ ficheiro' # 0
    BY <2>1, <2>2, <2>3
  <2>. QED BY <2>4, <2>5, <2>6 DEF Inv
<1>2. CASE Abrir
  <2>1. /\ ficheiro \in 1..3 /\ disco' = [disco EXCEPT ![actual] = <<>>]
        /\ ligado /\ aberto'
        /\ UNCHANGED <<memoria, ligado, ficheiro, confirmado>>
    BY <1>2, AbrirTipo DEF Inv, Abrir
  <2>2. actual' = actual /\ actual \in DOMAIN disco
    BY <2>1, OrdemFicheiros DEF actual, Inv, TypeOK, Listas
  <2>3. disco'[actual] = <<>>
    BY <2>1, <2>2
  <2>4. PrimeirosRegistos'
    <3>1. PICK S : memoria[actual] \in Seq(S)
      BY <2>1, ListasSeq, OrdemFicheiros DEF Inv, TypeOK, actual
    <3>2. Len(<<>>) = 0 /\ Len(memoria[actual]) \in Nat
      BY <3>1
    <3>. QED BY <2>1, <2>2, <2>3, <3>2 DEF PrimeirosRegistos
  <2>5. Completos'
    <3>. SUFFICES ASSUME NEW k \in 1..3, k < ficheiro
                  PROVE  disco'[Ordem[k]] = memoria[Ordem[k]]
      BY <2>1 DEF Completos
    <3>1. Ordem[k] # actual
      BY <2>1, OrdemFicheiros DEF actual
    <3>2. disco'[Ordem[k]] = disco[Ordem[k]]
      BY <2>1, <2>2, <3>1, OrdemFicheiros DEF Inv, TypeOK, Listas
    <3>. QED BY <3>2 DEF Inv, Completos
  <2>. QED BY <2>1, <2>4, <2>5 DEF Inv, Meio
<1>3. CASE Escrever
  <2>1. /\ ficheiro \in 1..3 /\ Len(disco[actual]) < Len(memoria[actual])
        /\ disco' = [disco EXCEPT ![actual] =
                       Append(disco[actual], memoria[actual][Len(disco[actual]) + 1])]
        /\ UNCHANGED <<memoria, ligado, ficheiro, aberto, confirmado>>
        /\ ligado /\ aberto
    BY <1>3, EscreverTipo DEF Inv, Escrever
  <2>2. actual' = actual /\ actual \in Ficheiros /\ actual \in DOMAIN disco
    BY <2>1, OrdemFicheiros DEF actual, Inv, TypeOK, Listas
  <2>3. PICK S : disco[actual] \in Seq(S)
    BY <2>2, ListasSeq DEF Inv, TypeOK
  <2>4. PICK T : memoria[actual] \in Seq(T)
    BY <2>2, ListasSeq DEF Inv, TypeOK
  <2>. DEFINE d == disco[actual]
              m == memoria[actual]
              e == Append(d, m[Len(d) + 1])
  <2>5. /\ d \in Seq(S \cup T) /\ m \in Seq(S \cup T) /\ Len(d) < Len(m)
        /\ \A i \in 1..Len(d) : d[i] = m[i]
    BY <2>1, <2>3, <2>4 DEF Inv, PrimeirosRegistos
  <2>6. disco'[actual] = e
    BY <2>1, <2>2
  <2>. HIDE DEF d, m
  <2>7. Len(e) <= Len(m) /\ \A i \in 1..Len(e) : e[i] = m[i]
    <3>1. m[Len(d) + 1] \in S \cup T
      BY <2>5
    <3>. QED BY <2>5, <3>1, AppendProperties
  <2>. HIDE DEF e
  <2>8. PrimeirosRegistos'
    BY <2>1, <2>2, <2>6, <2>7 DEF PrimeirosRegistos, m
  <2>9. Completos'
    <3>. SUFFICES ASSUME NEW k \in 1..3, k < ficheiro
                  PROVE  disco'[Ordem[k]] = memoria[Ordem[k]]
      BY <2>1 DEF Completos
    <3>1. Ordem[k] # actual
      BY <2>1, OrdemFicheiros DEF actual
    <3>2. disco'[Ordem[k]] = disco[Ordem[k]]
      BY <2>1, <2>2, <3>1, OrdemFicheiros DEF Inv, TypeOK, Listas
    <3>. QED BY <3>2 DEF Inv, Completos
  <2>. QED BY <2>1, <2>8, <2>9 DEF Inv, Meio
<1>4. CASE Fechar
  <2>1. ficheiro \in 1..3 /\ disco[actual] = memoria[actual]
    BY <1>4, FicheiroCompleto
  <2>a. /\ ligado /\ ~aberto' /\ UNCHANGED <<disco, ligado>>
        /\ ficheiro' = (IF ficheiro = 3 THEN 0 ELSE ficheiro + 1)
        /\ confirmado' = (IF ficheiro = 3 THEN memoria' ELSE confirmado)
        /\ Seguinte /\ (ficheiro = 3 => avisar = {})
    BY <1>4 DEF Fechar, Seguinte
  <2>2. /\ ligado /\ ~aberto' /\ UNCHANGED <<memoria, disco, ligado>>
        /\ ficheiro' = (IF ficheiro = 3 THEN 0 ELSE ficheiro + 1)
        /\ confirmado' = (IF ficheiro = 3 THEN memoria ELSE confirmado)
    BY <2>a, SeguinteIgual DEF Inv
  <2>3. \A k \in 1..3 : k <= ficheiro => disco[Ordem[k]] = memoria[Ordem[k]]
    BY <2>1 DEF Inv, Completos, actual
  <2>4. PrimeirosRegistos'
    BY <2>2 DEF PrimeirosRegistos
  <2>5. CASE ficheiro = 3
    <3>1. disco = memoria
      BY <2>3, <2>5, ListasIguais DEF Inv, TypeOK
    <3>2. Completos'
      BY <2>2, <2>5 DEF Completos
    <3>3. D!Responder
      BY <2>2, <2>5 DEF D!Responder
    <3>. QED BY <2>2, <2>4, <2>5, <3>1, <3>2, <3>3 DEF Inv
  <2>6. CASE ficheiro # 3
    <3>1. ficheiro' = ficheiro + 1 /\ confirmado' = confirmado
      BY <2>2, <2>6
    <3>2. Completos'
      BY <2>1, <2>2, <2>3, <3>1 DEF Completos
    <3>3. ficheiro' > 1
      BY <2>1, <3>1
    <3>. QED BY <2>1, <2>2, <2>4, <3>1, <3>2, <3>3 DEF Inv, Meio
  <2>. QED BY <2>5, <2>6
<1>5. CASE EscreverFalha
  BY <1>5 DEF EscreverFalha
<1>6. CASE Parar
  <2>1. /\ ligado /\ ~ligado' /\ ~aberto' /\ ficheiro' = 0 /\ ~Meio
        /\ UNCHANGED <<memoria, disco, confirmado>>
    BY <1>6 DEF Parar
  <2>2. disco' = confirmado' /\ Completos' /\ PrimeirosRegistos'
    BY <2>1 DEF Inv, Completos, PrimeirosRegistos
  <2>3. D!Parar
    BY <2>1 DEF D!Parar
  <2>. QED BY <2>1, <2>2, <2>3 DEF Inv
<1>7. CASE Reiniciar
  <2>1. /\ ~ligado /\ ligado' /\ UNCHANGED <<disco, ficheiro, aberto>>
        /\ memoria' = [f \in Ficheiros |-> disco[f]] /\ confirmado' = memoria'
    BY <1>7 DEF Reiniciar, Lido
  <2>2. ficheiro = 0 /\ ~aberto
    BY <2>1 DEF Inv
  <2>3. disco = confirmado
    BY <2>2 DEF Inv, Meio
  <2>4. memoria' = disco
    BY <2>1 DEF Inv, TypeOK, Listas
  <2>5. Completos' /\ PrimeirosRegistos'
    BY <2>1, <2>2 DEF Completos, PrimeirosRegistos
  <2>6. D!Reiniciar
    BY <2>1, <2>3, <2>4 DEF D!Reiniciar
  <2>. QED BY <2>1, <2>2, <2>3, <2>4, <2>5, <2>6 DEF Inv
<1>8. CASE UNCHANGED vars
  BY <1>8 DEF vars, Inv, Meio, Completos, PrimeirosRegistos, actual
<1>. QED BY <1>1, <1>2, <1>3, <1>4, <1>5, <1>6, <1>7, <1>8 DEF Next

\* Either the promise has ended, or Inv holds and the step is one of Duravel.
LEMMA PassoImplementa ==
  ASSUME intacto => Inv, TypeOK, TypeOK', [Next]_vars
  PROVE  /\ intacto' => Inv'
         /\ [D!Next]_<<memoria, confirmado, ligado, intacto>>
<1>1. ASSUME intacto' PROVE intacto
  <2>1. CASE Operacao
    BY <1>1, <2>1, OperacaoGrava
  <2>2. CASE Abrir \/ Escrever \/ Fechar \/ EscreverFalha \/ Parar \/ Reiniciar
    BY <1>1, <2>2 DEF Abrir, Escrever, Fechar, EscreverFalha, Parar, Reiniciar
  <2>3. CASE UNCHANGED vars
    BY <1>1, <2>3 DEF vars
  <2>. QED BY <2>1, <2>2, <2>3 DEF Next
<1>2. CASE intacto'
  <2>1. /\ Inv'
        /\ \/ D!Operar \/ D!Responder \/ D!Parar \/ D!Reiniciar
           \/ UNCHANGED <<memoria, confirmado, ligado, intacto>>
    BY <1>1, <1>2, PassoDuravel
  <2>. QED BY <1>1, <1>2, <2>1 DEF D!Next
<1>3. CASE ~intacto'
  BY <1>3 DEF D!Next
<1>. QED BY <1>2, <1>3

\* What savedados writes, one file at a time, is what loaddados finds: until
\* something escapes the files the server keeps every answer it gave, for any
\* number of users, topics and restarts.
THEOREM GuardaOQueRespondeu == Spec => RecuperaConfirmado
<1>1. Init => D!Init
  BY DEF Init, D!Init
<1>2. Init /\ TypeOK => (intacto => Inv)
  BY DEF Init, Inv, Completos, PrimeirosRegistos
<1>3. (intacto => Inv) /\ TypeOK /\ TypeOK' /\ [Next]_vars
        => (intacto => Inv)' /\ [D!Next]_<<memoria, confirmado, ligado, intacto>>
  BY PassoImplementa
<1>. QED BY <1>1, <1>2, <1>3, TypeCorrect, PTL DEF Spec, RecuperaConfirmado, D!Spec
-----------------------------------------------------------------------------
(***************************************************************************)
(* Whatever fails, identifiers keep their meaning.  The completeness of    *)
(* Inv is lost with the first failure; what is never lost is that lists    *)
(* only grow: the files may be old, cut short or of different ages, and    *)
(* still have the first users there were, and no topic of their own.       *)
(***************************************************************************)

\* The files never have more than the lists, or something else.
DiscoAntes == Antes(disco, memoria)

LEMMA AntesTransitiva ==
  ASSUME NEW m, NEW n, NEW o, Listas(m), Listas(n), Listas(o), Antes(m, n), Antes(n, o)
  PROVE  Antes(m, o)
<1>. DEFINE a == Len(m["utilizadores"])
            b == Len(n["utilizadores"])
            c == Len(o["utilizadores"])
<1>1. /\ a \in Nat /\ b \in Nat /\ c \in Nat
      /\ Len(m["topicos"]) \in Nat /\ Len(n["topicos"]) \in Nat /\ Len(o["topicos"]) \in Nat
  BY LenProperties DEF Listas
<1>2. a <= b /\ b <= c /\ Len(m["topicos"]) <= Len(o["topicos"])
  BY <1>1 DEF Antes
<1>3. /\ \A i \in 1..a : m["utilizadores"][i].nome = n["utilizadores"][i].nome
      /\ \A i \in 1..b : n["utilizadores"][i].nome = o["utilizadores"][i].nome
  BY DEF Antes
<1>4. a <= c /\ \A i \in 1..a : i \in 1..b
  BY <1>1, <1>2
<1>. QED BY <1>2, <1>3, <1>4 DEF Antes

\* An empty file and one more record of the list are again the first ones.
LEMMA EscritaAntes ==
  ASSUME TypeOK, DiscoAntes, Abrir \/ Escrever
  PROVE  DiscoAntes'
<1>. DEFINE du == disco["utilizadores"]
            mu == memoria["utilizadores"]
            dt == disco["topicos"]
            mt == memoria["topicos"]
<1>1. /\ du \in Seq(Utilizador) /\ mu \in Seq(Utilizador)
      /\ dt \in Seq(Seq(Ideia)) /\ mt \in Seq(Seq(Ideia))
  BY DEF TypeOK, Listas
<1>2. /\ Len(du) <= Len(mu) /\ \A i \in 1..Len(du) : du[i].nome = mu[i].nome
      /\ Len(dt) <= Len(mt)
  BY DEF DiscoAntes, Antes
<1>3. memoria' = memoria /\ actual \in Ficheiros /\ disco = [f \in Ficheiros |-> disco[f]]
  BY AbrirTipo, EscreverTipo, OrdemFicheiros DEF Abrir, Escrever, TypeOK, Listas, actual
<1>4. CASE Abrir
  <2>1. disco' = [disco EXCEPT ![actual] = <<>>]
    BY <1>4, AbrirTipo
  <2>2. /\ disco'["utilizadores"] \in {du, <<>>} /\ disco'["topicos"] \in {dt, <<>>}
    BY <1>3, <2>1 DEF Ficheiros
  <2>3. Len(<<>>) = 0 /\ Len(mu) \in Nat /\ Len(mt) \in Nat
    BY <1>1
  <2>. HIDE DEF du, dt
  <2>4. /\ Len(disco'["utilizadores"]) <= Len(mu) /\ Len(disco'["topicos"]) <= Len(mt)
        /\ \A i \in 1..Len(disco'["utilizadores"]) : disco'["utilizadores"][i].nome = mu[i].nome
    BY <1>2, <2>2, <2>3
  <2>. QED BY <1>3, <2>4 DEF DiscoAntes, Antes
<1>5. CASE Escrever
  <2>1. /\ disco' = [disco EXCEPT ![actual] =
                       Append(disco[actual], memoria[actual][Len(disco[actual]) + 1])]
        /\ Len(disco[actual]) < Len(memoria[actual])
    BY <1>5, EscreverTipo DEF Escrever
  <2>2. CASE actual = "utilizadores"
    <3>. DEFINE r == mu[Len(du) + 1]
                e == Append(du, r)
    <3>1. disco'["utilizadores"] = e /\ disco'["topicos"] = dt /\ Len(du) < Len(mu)
      BY <1>3, <2>1, <2>2 DEF Ficheiros
    <3>. HIDE DEF du, mu, dt, mt
    <3>2. r \in Utilizador
      BY <1>1, <3>1
    <3>3. /\ Len(e) = Len(du) + 1 /\ e[Len(du) + 1] = r
          /\ \A i \in 1..Len(du) : e[i] = du[i]
      BY <1>1, <3>2, AppendProperties
    <3>. HIDE DEF e
    <3>4. Len(du) \in Nat /\ Len(mu) \in Nat
      BY <1>1
    <3>5. ASSUME NEW i \in 1..Len(e) PROVE e[i].nome = mu[i].nome
      <4>1. CASE i = Len(du) + 1
        BY <3>3, <4>1
      <4>2. CASE i # Len(du) + 1
        BY <1>2, <3>3, <3>4, <4>2
      <4>. QED BY <4>1, <4>2
    <3>6. Len(e) <= Len(mu)
      BY <3>1, <3>3, <3>4
    <3>. QED BY <1>2, <1>3, <3>1, <3>5, <3>6 DEF DiscoAntes, Antes, mu, mt
  <2>3. CASE actual = "topicos"
    <3>. DEFINE r == mt[Len(dt) + 1]
                e == Append(dt, r)
    <3>1. disco'["topicos"] = e /\ disco'["utilizadores"] = du /\ Len(dt) < Len(mt)
      BY <1>3, <2>1, <2>3 DEF Ficheiros
    <3>. HIDE DEF du, mu, dt, mt
    <3>2. Len(e) <= Len(mt)
      BY <1>1, <3>1
    <3>. HIDE DEF e
    <3>. QED BY <1>2, <1>3, <3>1, <3>2 DEF DiscoAntes, Antes, mu, mt
  <2>4. CASE actual = "notas"
    <3>1. disco'["topicos"] = dt /\ disco'["utilizadores"] = du
      BY <1>3, <2>1, <2>4 DEF Ficheiros
    <3>. QED BY <1>2, <1>3, <3>1 DEF DiscoAntes, Antes
  <2>. QED BY <1>3, <2>2, <2>3, <2>4 DEF Ficheiros
<1>. QED BY <1>4, <1>5

LEMMA DiscoAntesPasso ==
  ASSUME TypeOK, TypeOK', DiscoAntes, [Next]_vars
  PROVE  DiscoAntes'
<1>1. CASE Operacao
  <2>1. disco' = disco /\ Antes(memoria, memoria')
    BY <1>1, OperacaoTipo
  <2>2. Listas(disco) /\ Listas(memoria) /\ Listas(memoria')
    BY DEF TypeOK
  <2>. QED BY <2>1, <2>2, AntesTransitiva DEF DiscoAntes
<1>2. CASE Abrir \/ Escrever
  BY <1>2, EscritaAntes
<1>3. CASE Parar \/ UNCHANGED vars
  BY <1>3 DEF Parar, vars, DiscoAntes
<1>5. CASE Fechar \/ EscreverFalha
  <2>1. Seguinte /\ disco' = disco
    BY <1>5 DEF Fechar, EscreverFalha, Seguinte
  <2>2. Antes(memoria, memoria')
    BY <2>1, SeguinteTipo
  <2>3. Listas(disco) /\ Listas(memoria) /\ Listas(memoria')
    BY DEF TypeOK
  <2>. QED BY <2>1, <2>2, <2>3, AntesTransitiva DEF DiscoAntes
<1>4. CASE Reiniciar
  <2>1. memoria' = disco /\ disco' = disco
    BY <1>4 DEF Reiniciar, Lido, TypeOK, Listas
  <2>. QED BY <2>1 DEF DiscoAntes, Antes, TypeOK, Listas
<1>. QED BY <1>1, <1>2, <1>3, <1>4, <1>5 DEF Next

LEMMA NomesDeTipo ==
  ASSUME NEW U \in Seq(Utilizador)
  PROVE  /\ NomesDe(U) \in Seq(Nomes) /\ Len(NomesDe(U)) = Len(U)
         /\ \A i \in 1..Len(U) : NomesDe(U)[i] = U[i].nome
<1>1. DOMAIN U = 1..Len(U) /\ Len(U) \in Nat /\ \A i \in 1..Len(U) : U[i] \in Utilizador
  OBVIOUS
<1>. DEFINE n(i) == U[i].nome
<1>2. \A i \in 1..Len(U) : n(i) \in Nomes
  BY <1>1 DEF Utilizador
<1>3. NomesDe(U) = [i \in 1..Len(U) |-> n(i)]
  BY <1>1 DEF NomesDe
<1>4. \A i \in 1..Len(U) : n(i) = U[i].nome
  OBVIOUS
<1>. HIDE DEF n
<1>. QED BY <1>1, <1>2, <1>3, <1>4

\* What a restart finds is what the files had.
LEMMA ReencontraPasso ==
  ASSUME TypeOK, DiscoAntes, [Next]_vars
  PROVE  Reencontra
<1>. SUFFICES ASSUME ~ligado, ligado'
              PROVE  /\ IsPrefix(NomesDe(memoria'["utilizadores"]), NomesDe(utilizadores))
                     /\ Len(memoria'["topicos"]) <= Len(topicos)
  BY DEF Reencontra
<1>1. Reiniciar
  BY OperacaoTipo DEF Next, vars, Abrir, Escrever, Fechar, EscreverFalha, Parar
<1>2. memoria' = disco
  BY <1>1 DEF Reiniciar, Lido, TypeOK, Listas
<1>. DEFINE d == disco["utilizadores"]
            m == memoria["utilizadores"]
<1>3. /\ d \in Seq(Utilizador) /\ m \in Seq(Utilizador)
      /\ Len(d) <= Len(m) /\ \A i \in 1..Len(d) : d[i].nome = m[i].nome
  BY DEF TypeOK, Listas, DiscoAntes, Antes
<1>. HIDE DEF d, m
<1>4. /\ NomesDe(d) \in Seq(Nomes) /\ Len(NomesDe(d)) = Len(d)
      /\ \A i \in 1..Len(d) : NomesDe(d)[i] = d[i].nome
  BY <1>3, NomesDeTipo
<1>5. /\ NomesDe(m) \in Seq(Nomes) /\ Len(NomesDe(m)) = Len(m)
      /\ \A i \in 1..Len(m) : NomesDe(m)[i] = m[i].nome
  BY <1>3, NomesDeTipo
<1>6. IsPrefix(NomesDe(d), NomesDe(m))
  <2>1. /\ Len(d) \in Nat /\ Len(m) \in Nat
        /\ \A i \in 1..Len(d) : NomesDe(d)[i] = NomesDe(m)[i]
    BY <1>3, <1>4, <1>5
  <2>. QED BY <1>3, <1>4, <1>5, <2>1 DEF IsPrefix
<1>. QED BY <1>2, <1>6 DEF d, m, utilizadores, topicos, DiscoAntes, Antes

\* Whenever the server stops and whatever fails to be written, loaddados
\* (IdeiaImpl.java:1176) finds the first users there were, in their order, and
\* no topic that was not there: the positions that are used as identifiers
\* never come to mean somebody else.
THEOREM PosicoesValem == Spec => IdentificadoresValem
<1>1. Init => DiscoAntes
  BY DEF Init, Vazio, Ficheiros, DiscoAntes, Antes
<1>2. TypeOK /\ TypeOK' /\ DiscoAntes /\ [Next]_vars => DiscoAntes'
  BY DiscoAntesPasso
<1>3. TypeOK /\ DiscoAntes /\ [Next]_vars => [Reencontra]_vars
  BY ReencontraPasso
<1>. QED BY <1>1, <1>2, <1>3, TypeCorrect, PTL DEF Spec, IdentificadoresValem
=============================================================================
