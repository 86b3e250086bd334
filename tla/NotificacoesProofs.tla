------------------------- MODULE NotificacoesProofs -------------------------
(***************************************************************************)
(* Proofs about Notificacoes.  The invariant follows a purchase through    *)
(* its two loops: who has been told at each position of the cursor, how    *)
(* often, and what keeps the loops from ending with an exception.          *)
(***************************************************************************)
EXTENDS Notificacoes, SequenceTheorems, FiniteSetTheorems, TLAPS

Fases == {"livre", "tcp", "web", "preco", "respondida", "erro"}
Compra == [fase : Fases, notas : Seq(Utilizadores), nota : 0..MaxNotas, proximo : Nat,
           tamanho : Nat, escritas : SUBSET (1..MaxNotas)]

Tipos ==
  /\ vivos \subseteq Processos
  /\ sessoes \in Seq(Sessao) /\ ligacoes \in Seq(Processos)
  /\ Len(sessoes) <= MaxSessoes
  /\ web \in {"nenhum", "responde", "morto"}
  /\ abertas \subseteq guardadas /\ guardadas \subseteq Utilizadores
  /\ compra \in Compra
  /\ devidos \in [tcp : SUBSET (DOMAIN sessoes), web : SUBSET abertas]
  /\ calma \in BOOLEAN

\* Each stub was registered for a session of its own.
Registos ==
  \E f \in [DOMAIN ligacoes -> DOMAIN sessoes] :
    /\ \A i, j \in DOMAIN ligacoes : f[i] = f[j] => i = j
    /\ \A i \in DOMAIN ligacoes : sessoes[f[i]].processo = ligacoes[i]

ACaminho == {"tcp", "web", "preco"}

\* The two counters of the purchase are inside their lists.
Contadores ==
  /\ Len(compra.notas) <= MaxNotas
  /\ compra.fase = "livre" => compra.nota = 0 /\ compra.notas = <<>>
  /\ compra.fase # "livre" => compra.nota \in DOMAIN compra.notas
  /\ compra.fase = "respondida" => compra.nota = Len(compra.notas)
  /\ compra.proximo >= 1 /\ compra.proximo <= compra.tamanho + 1
  /\ compra.tamanho <= Len(ligacoes)

\* What a quiet purchase can count on.
Calma ==
  calma =>
    /\ vivos = Processos /\ web # "morto" /\ abertas = {}
    /\ compra.fase # "livre" => \A k \in DOMAIN sessoes : sessoes[k].nome # Ninguem
    /\ compra.fase = "tcp" => compra.tamanho = Len(ligacoes)

\* Those who should be told are still there, on a server that has a stub.
Devidos ==
  \A k \in devidos.tcp :
    /\ sessoes[k].aberta /\ sessoes[k].nome # Ninguem
    /\ \E i \in DOMAIN ligacoes : ligacoes[i] = sessoes[k].processo

Recebeu(k, n) == \E i \in DOMAIN sessoes[k].recebeu : sessoes[k].recebeu[i] = n

\* The notices that are over reached everybody who should be told; the current one
\* reached those whose stub the cursor has passed.
Entregues ==
  compra.fase \notin {"livre", "erro"} =>
    \A n \in DOMAIN compra.notas :
      /\ \A k \in devidos.tcp :
           sessoes[k].nome = compra.notas[n] =>
             \/ n > compra.nota
             \/ n = compra.nota /\ compra.fase = "tcp" /\
                  \A i \in 1..(compra.proximo - 1) : ligacoes[i] # sessoes[k].processo
             \/ Recebeu(k, n)
      /\ compra.notas[n] \in devidos.web =>
             \/ n > compra.nota
             \/ n = compra.nota /\ compra.fase \in {"tcp", "web"}
             \/ n \in compra.escritas

\* How many stubs of a server the cursor has passed.
Passadas(p) == Cardinality({i \in 1..(compra.proximo - 1) : ligacoes[i] = p})

\* A later notice reached nobody, and the current one came once for each stub that
\* the cursor has passed.
Repetidas ==
  \A k \in DOMAIN sessoes : \A n \in 1..MaxNotas :
    /\ n > compra.nota => ~Recebeu(k, n)
    /\ n = compra.nota /\ compra.fase = "tcp" => Vezes(k, n) <= Passadas(sessoes[k].processo)

IInv ==
  /\ Tipos /\ Registos /\ Contadores /\ Calma /\ Devidos /\ Entregues /\ Repetidas
  /\ CompraRespondida /\ AvisosPorLigacao

-----------------------------------------------------------------------------
(* Counting. *)

\* The sessions and stubs have their types.
LEMMA SessaoTipo ==
  ASSUME Tipos
  PROVE  /\ Len(sessoes) \in Nat /\ DOMAIN sessoes = 1..Len(sessoes)
         /\ Len(ligacoes) \in Nat /\ DOMAIN ligacoes = 1..Len(ligacoes)
         /\ \A i \in DOMAIN ligacoes : ligacoes[i] \in Processos
         /\ \A k \in DOMAIN sessoes :
              /\ sessoes[k] \in Sessao /\ sessoes[k].processo \in Processos
              /\ sessoes[k].nome \in Utilizadores \cup {Ninguem}
              /\ sessoes[k].aberta \in BOOLEAN /\ sessoes[k].presa \in BOOLEAN
              /\ sessoes[k].recebeu \in Seq(1..MaxNotas)
<1>1. /\ sessoes \in [1..Len(sessoes) -> Sessao] /\ Len(sessoes) \in Nat
      /\ ligacoes \in [1..Len(ligacoes) -> Processos] /\ Len(ligacoes) \in Nat
  BY LenProperties DEF Tipos
<1>2. \A s \in Sessao : /\ s.processo \in Processos /\ s.nome \in Utilizadores \cup {Ninguem}
                        /\ s.aberta \in BOOLEAN /\ s.presa \in BOOLEAN
                        /\ s.recebeu \in Seq(1..MaxNotas)
  BY DEF Sessao
<1>. QED BY <1>1, <1>2

\* The numbers up to n are n, and so are parts of them counted.
LEMMA Intervalo ==
  ASSUME NEW n \in Nat
  PROVE  IsFiniteSet(1..n) /\ Cardinality(1..n) = n
  BY FS_Interval

\* Counting positions: a part counts no more, and nothing counts zero.
LEMMA Contar ==
  ASSUME NEW n \in Nat, NEW S \in SUBSET (1..n)
  PROVE  /\ IsFiniteSet(S) /\ Cardinality(S) \in Nat
         /\ (Cardinality(S) > 0 <=> S # {})
         /\ \A T \in SUBSET S : Cardinality(T) \in Nat /\ Cardinality(T) <= Cardinality(S)
         /\ \A x \in 1..n : x \notin S => Cardinality(S \cup {x}) = Cardinality(S) + 1
<1>1. IsFiniteSet(S)
  BY Intervalo, FS_Subset
<1>2. Cardinality(S) \in Nat /\ (Cardinality(S) = 0 <=> S = {})
  BY <1>1, FS_CardinalityType, FS_EmptySet
<1>3. \A T \in SUBSET S : Cardinality(T) \in Nat /\ Cardinality(T) <= Cardinality(S)
  BY <1>1, FS_Subset, FS_CardinalityType
<1>4. \A x \in 1..n : x \notin S => Cardinality(S \cup {x}) = Cardinality(S) + 1
  BY <1>1, FS_AddElement
<1>5. Cardinality(S) > 0 <=> S # {}
  <2>1. \A c \in Nat : c > 0 <=> c # 0
    OBVIOUS
  <2>. QED BY <1>2, <2>1, Zenon
<1>. QED BY <1>1, <1>2, <1>3, <1>4, <1>5

\* The indices up to i with a value are those before i, and i if it has it.
LEMMA ContarAntes ==
  ASSUME NEW c \in Nat, NEW S \in SUBSET (1..(c - 1))
  PROVE  Cardinality(S) \in Nat
<1>1. CASE c = 0
  <2>1. S = {}
    BY <1>1
  <2>. QED BY <2>1, FS_EmptySet
<1>2. CASE c # 0
  BY <1>2, c - 1 \in Nat, Contar
<1>. QED BY <1>1, <1>2

\* A session got a notice if it got it more than zero times.
LEMMA VezesTipo ==
  ASSUME Tipos, NEW k \in DOMAIN sessoes, NEW n
  PROVE  Vezes(k, n) \in Nat /\ (Vezes(k, n) > 0 <=> Recebeu(k, n))
<1>. DEFINE r == sessoes[k].recebeu
            S == {i \in DOMAIN r : r[i] = n}
<1>1. r \in Seq(1..MaxNotas) /\ Len(r) \in Nat /\ DOMAIN r = 1..Len(r)
  BY SessaoTipo, LenProperties
<1>2. S \in SUBSET (1..Len(r))
  BY <1>1
<1>. HIDE DEF r
<1>3. Cardinality(S) \in Nat /\ (Cardinality(S) > 0 <=> S # {})
  BY <1>1, <1>2, Contar
<1>. QED BY <1>3 DEF Vezes, Recebeu, r

\* The stubs of a server are counted by position; the cursor passes some of them.
LEMMA LigacoesTipo ==
  ASSUME Tipos, NEW p
  PROVE  /\ Ligacoes(p) \in Nat
         /\ Ligacoes(p) > 0 <=> \E i \in DOMAIN ligacoes : ligacoes[i] = p
         /\ compra.proximo - 1 <= Len(ligacoes) => Passadas(p) <= Ligacoes(p)
         /\ Passadas(p) \in Nat
<1>. DEFINE S == {i \in DOMAIN ligacoes : ligacoes[i] = p}
            T == {i \in 1..(compra.proximo - 1) : ligacoes[i] = p}
<1>1. /\ Len(ligacoes) \in Nat /\ S \in SUBSET (1..Len(ligacoes)) /\ compra.proximo \in Nat
  BY SessaoTipo DEF Tipos, Compra
<1>2. /\ Cardinality(S) \in Nat /\ (Cardinality(S) > 0 <=> S # {})
      /\ \A U \in SUBSET S : Cardinality(U) <= Cardinality(S)
  BY <1>1, Contar
<1>3. compra.proximo - 1 <= Len(ligacoes) => T \in SUBSET S
  BY <1>1, SessaoTipo
<1>4. Cardinality(T) \in Nat
  <2>1. T \in SUBSET (1..(compra.proximo - 1))
    OBVIOUS
  <2>. HIDE DEF T
  <2>. QED BY <1>1, <2>1, ContarAntes
<1>. QED BY <1>2, <1>3, <1>4 DEF Ligacoes, Passadas

\* There are no more stubs than sessions.
LEMMA PoucasLigacoes ==
  ASSUME Tipos, Registos
  PROVE  Len(ligacoes) <= Len(sessoes)
<1>1. PICK f \in [DOMAIN ligacoes -> DOMAIN sessoes] :
        \A i, j \in DOMAIN ligacoes : f[i] = f[j] => i = j
  BY DEF Registos
<1>2. /\ Len(sessoes) \in Nat /\ DOMAIN sessoes = 1..Len(sessoes)
      /\ Len(ligacoes) \in Nat /\ DOMAIN ligacoes = 1..Len(ligacoes)
  BY SessaoTipo
<1>3. f \in Injection(DOMAIN ligacoes, DOMAIN sessoes)
  BY <1>1 DEF Injection, IsInjective
<1>4. /\ IsFiniteSet(1..Len(sessoes)) /\ Cardinality(1..Len(sessoes)) = Len(sessoes)
      /\ Cardinality(1..Len(ligacoes)) = Len(ligacoes)
  BY <1>2, Intervalo
<1>5. Cardinality(DOMAIN ligacoes) <= Cardinality(DOMAIN sessoes)
  BY <1>2, <1>3, <1>4, FS_Injection
<1>. QED BY <1>2, <1>4, <1>5

-----------------------------------------------------------------------------
(* What happens around the purchase. *)

\* A step of clients or of the web application: sessions keep their servers and
\* what they got, and a name once there stays.
LEMMA PassoAmbiente ==
  ASSUME IInv, UNCHANGED <<compra, ligacoes>>,
         sessoes' \in Seq(Sessao), Len(sessoes') <= MaxSessoes,
         DOMAIN sessoes \subseteq DOMAIN sessoes',
         \A k \in DOMAIN sessoes :
           /\ sessoes'[k].processo = sessoes[k].processo
           /\ sessoes'[k].recebeu = sessoes[k].recebeu
           /\ sessoes[k].nome # Ninguem => sessoes'[k].nome = sessoes[k].nome,
         \A k \in DOMAIN sessoes' \ DOMAIN sessoes : sessoes'[k].recebeu = <<>>,
         devidos' \in [tcp : SUBSET devidos.tcp, web : SUBSET devidos.web],
         devidos'.web \subseteq abertas',
         \A k \in devidos'.tcp : sessoes'[k].aberta,
         vivos' \subseteq Processos, web' \in {"nenhum", "responde", "morto"},
         abertas' \subseteq guardadas', guardadas' \subseteq Utilizadores,
         calma' \in BOOLEAN,
         calma' => /\ calma /\ vivos' = vivos /\ web' # "morto" /\ abertas' = {}
                   /\ compra.fase # "livre" => DOMAIN sessoes' = DOMAIN sessoes
  PROVE  IInv'
<1>1. /\ devidos \in [tcp : SUBSET (DOMAIN sessoes), web : SUBSET abertas]
      /\ devidos'.tcp \subseteq devidos.tcp /\ devidos'.web \subseteq devidos.web
  BY DEF IInv, Tipos
<1>2. Tipos'
  BY <1>1 DEF IInv, Tipos
<1>3. Registos'
  <2>1. PICK f \in [DOMAIN ligacoes -> DOMAIN sessoes] :
          /\ \A i, j \in DOMAIN ligacoes : f[i] = f[j] => i = j
          /\ \A i \in DOMAIN ligacoes : sessoes[f[i]].processo = ligacoes[i]
    BY DEF IInv, Registos
  <2>2. f \in [DOMAIN ligacoes' -> DOMAIN sessoes']
    BY <2>1
  <2>3. \A i \in DOMAIN ligacoes' : sessoes'[f[i]].processo = ligacoes'[i]
    BY <2>1
  <2>. QED BY <2>1, <2>2, <2>3 DEF Registos
<1>4. Contadores' /\ CompraRespondida'
  BY DEF IInv, Contadores, CompraRespondida
<1>5. Calma'
  BY DEF IInv, Calma
<1>6. Devidos'
  BY <1>1 DEF IInv, Devidos
<1>7. \A k \in DOMAIN sessoes : \A n :
       Recebeu(k, n)' = Recebeu(k, n) /\ Vezes(k, n)' = Vezes(k, n)
  BY DEF Recebeu, Vezes
<1>8. \A k \in DOMAIN sessoes' \ DOMAIN sessoes : \A n : ~Recebeu(k, n)' /\ Vezes(k, n)' = 0
  <2>1. DOMAIN <<>> = {} /\ Cardinality({}) = 0
    BY FS_EmptySet
  <2>2. ASSUME NEW k \in DOMAIN sessoes' \ DOMAIN sessoes, NEW n
        PROVE  {i \in DOMAIN sessoes'[k].recebeu : sessoes'[k].recebeu[i] = n} = {}
    BY <2>1
  <2>. QED BY <2>1, <2>2 DEF Recebeu, Vezes
<1>9. \A p : Ligacoes(p)' = Ligacoes(p) /\ Passadas(p)' = Passadas(p)
  BY DEF Ligacoes, Passadas
<1>10. Entregues'
  <2>1. \A k \in devidos'.tcp :
          k \in DOMAIN sessoes /\ k \in devidos.tcp /\ sessoes'[k].nome = sessoes[k].nome
    BY <1>1 DEF IInv, Devidos
  <2>. QED BY <1>1, <1>7, <2>1 DEF IInv, Entregues
<1>11. \A p : Ligacoes(p) \in Nat /\ Passadas(p) \in Nat
  BY LigacoesTipo DEF IInv
<1>12. Repetidas'
  <2>1. ASSUME NEW k \in DOMAIN sessoes', NEW n \in 1..MaxNotas
        PROVE  /\ n > compra.nota => ~Recebeu(k, n)'
               /\ n = compra.nota /\ compra.fase = "tcp" =>
                    Vezes(k, n)' <= Passadas(sessoes[k].processo)'
    <3>1. CASE k \in DOMAIN sessoes
      BY <1>7, <1>9, <3>1 DEF IInv, Repetidas
    <3>2. CASE k \notin DOMAIN sessoes
      <4>1. PICK p : p = sessoes[k].processo'
        OBVIOUS
      <4>2. ~Recebeu(k, n)' /\ Vezes(k, n)' = 0
        BY <1>8, <3>2
      <4>3. Passadas(sessoes[k].processo)' \in Nat
        BY <1>9, <1>11 DEF Passadas
      <4>. QED BY <4>2, <4>3
    <3>. QED BY <3>1, <3>2
  <2>. QED BY <2>1 DEF Repetidas
<1>13. AvisosPorLigacao'
  <2>1. ASSUME NEW k \in DOMAIN sessoes', NEW n \in 1..MaxNotas
        PROVE  Vezes(k, n)' <= Ligacoes(sessoes[k].processo)'
    <3>1. CASE k \in DOMAIN sessoes
      BY <1>7, <1>9, <3>1 DEF IInv, AvisosPorLigacao
    <3>2. CASE k \notin DOMAIN sessoes
      <4>1. Vezes(k, n)' = 0
        BY <1>8, <3>2
      <4>2. Ligacoes(sessoes[k].processo)' \in Nat
        BY <1>9, <1>11 DEF Ligacoes
      <4>. QED BY <4>1, <4>2
    <3>. QED BY <3>1, <3>2
  <2>. QED BY <2>1 DEF AvisosPorLigacao
<1>. QED BY <1>2, <1>3, <1>4, <1>5, <1>6, <1>10, <1>12, <1>13 DEF IInv

\* One session of the list changes.
LEMMA MudarSessao ==
  ASSUME Tipos, NEW k \in DOMAIN sessoes, NEW s \in Sessao,
         s.processo = sessoes[k].processo, s.recebeu = sessoes[k].recebeu,
         sessoes[k].nome # Ninguem => s.nome = sessoes[k].nome,
         sessoes' = [sessoes EXCEPT ![k] = s]
  PROVE  /\ sessoes' \in Seq(Sessao) /\ Len(sessoes') <= MaxSessoes
         /\ DOMAIN sessoes' = DOMAIN sessoes
         /\ sessoes'[k] = s /\ \A j \in DOMAIN sessoes \ {k} : sessoes'[j] = sessoes[j]
         /\ \A j \in DOMAIN sessoes :
              /\ sessoes'[j].processo = sessoes[j].processo
              /\ sessoes'[j].recebeu = sessoes[j].recebeu
              /\ sessoes[j].nome # Ninguem => sessoes'[j].nome = sessoes[j].nome
<1>1. sessoes \in Seq(Sessao) /\ Len(sessoes) <= MaxSessoes
  BY DEF Tipos
<1>2. /\ sessoes' \in Seq(Sessao) /\ Len(sessoes') = Len(sessoes)
      /\ DOMAIN sessoes' = DOMAIN sessoes
  BY <1>1, ExceptSeq, LenProperties
<1>3. sessoes'[k] = s /\ \A j \in DOMAIN sessoes \ {k} : sessoes'[j] = sessoes[j]
  BY <1>1
<1>. QED BY <1>1, <1>2, <1>3

\* What a step that leaves pages, servers and history to themselves keeps.
LEMMA Resto ==
  ASSUME IInv
  PROVE  /\ sessoes \in Seq(Sessao) /\ Len(sessoes) <= MaxSessoes
         /\ devidos \in [tcp : SUBSET (DOMAIN sessoes), web : SUBSET abertas]
         /\ devidos \in [tcp : SUBSET devidos.tcp, web : SUBSET devidos.web]
         /\ devidos.web \subseteq abertas /\ \A k \in devidos.tcp : sessoes[k].aberta
         /\ vivos \subseteq Processos /\ web \in {"nenhum", "responde", "morto"}
         /\ abertas \subseteq guardadas /\ guardadas \subseteq Utilizadores
         /\ calma \in BOOLEAN /\ (calma => web # "morto" /\ abertas = {})
  BY DEF IInv, Tipos, Devidos, Calma

\* A connection lists a thread without a name.
LEMMA MantemLigar ==
  ASSUME IInv, NEW p \in Processos, Ligar(p)
  PROVE  IInv'
<1>. DEFINE s == [processo |-> p, nome |-> Ninguem, aberta |-> TRUE,
                  presa |-> FALSE, recebeu |-> <<>>]
<1>1. /\ Len(sessoes) < MaxSessoes /\ sessoes' = Append(sessoes, s)
      /\ calma' = (calma /\ compra.fase = "livre")
      /\ UNCHANGED <<vivos, ligacoes, web, abertas, guardadas, compra, devidos>>
  BY DEF Ligar, CalmaSe, pagina, mercado
<1>2. s \in Sessao /\ s.recebeu = <<>>
  BY DEF Sessao
<1>. HIDE DEF s
<1>3. /\ Len(sessoes) \in Nat /\ DOMAIN sessoes = 1..Len(sessoes) /\ MaxSessoes \in Nat
  BY SessaoTipo, ConstantesAssumption DEF IInv
<1>4. /\ sessoes' \in Seq(Sessao) /\ Len(sessoes') = Len(sessoes) + 1
      /\ \A k \in DOMAIN sessoes : sessoes'[k] = sessoes[k]
      /\ sessoes'[Len(sessoes) + 1] = s
      /\ DOMAIN sessoes' = DOMAIN sessoes \cup {Len(sessoes) + 1}
  BY <1>1, <1>2, <1>3, Resto, AppendProperties
<1>5. Len(sessoes') <= MaxSessoes
  BY <1>1, <1>3, <1>4
<1>6. \A k \in DOMAIN sessoes' \ DOMAIN sessoes : sessoes'[k].recebeu = <<>>
  BY <1>2, <1>4
<1>7. \A k \in devidos'.tcp : sessoes'[k].aberta
  BY <1>1, <1>4, Resto
<1>8. /\ calma' \in BOOLEAN
      /\ calma' => /\ calma /\ vivos' = vivos /\ web' # "morto" /\ abertas' = {}
                   /\ compra.fase # "livre" => DOMAIN sessoes' = DOMAIN sessoes
  BY <1>1, Resto
<1>. QED BY <1>1, <1>4, <1>5, <1>6, <1>7, <1>8, Resto, PassoAmbiente

\* Who logs in had no name: nobody who is due changes.
LEMMA MantemEntrar ==
  ASSUME IInv, NEW k \in DOMAIN sessoes, NEW u \in Utilizadores, Entrar(k, u)
  PROVE  IInv'
<1>. DEFINE s == [sessoes[k] EXCEPT !.nome = u]
<1>1. /\ sessoes[k].nome = Ninguem /\ sessoes' = [sessoes EXCEPT ![k] = s]
      /\ UNCHANGED <<vivos, ligacoes, web, abertas, guardadas, compra, devidos, calma>>
  BY DEF Entrar, pagina, mercado
<1>2. sessoes[k] \in Sessao
  BY SessaoTipo DEF IInv
<1>3. /\ s \in Sessao /\ s.processo = sessoes[k].processo
      /\ s.recebeu = sessoes[k].recebeu /\ s.aberta = sessoes[k].aberta
  BY <1>2 DEF Sessao
<1>. HIDE DEF s
<1>4. /\ sessoes' \in Seq(Sessao) /\ Len(sessoes') <= MaxSessoes
      /\ DOMAIN sessoes' = DOMAIN sessoes
      /\ sessoes'[k] = s /\ \A j \in DOMAIN sessoes \ {k} : sessoes'[j] = sessoes[j]
      /\ \A j \in DOMAIN sessoes :
           /\ sessoes'[j].processo = sessoes[j].processo
           /\ sessoes'[j].recebeu = sessoes[j].recebeu
           /\ sessoes[j].nome # Ninguem => sessoes'[j].nome = sessoes[j].nome
  BY <1>1, <1>3, MudarSessao DEF IInv
<1>5. \A j \in devidos'.tcp : sessoes'[j].aberta
  BY <1>1, <1>3, <1>4, Resto
<1>. QED BY <1>1, <1>4, <1>5, Resto, PassoAmbiente

\* A thread that ends, or whose client stops to read, stays in the list.
LEMMA MantemSair ==
  ASSUME IInv, NEW k \in DOMAIN sessoes, Sair(k)
  PROVE  IInv'
<1>. DEFINE s == [sessoes[k] EXCEPT !.aberta = FALSE, !.presa = FALSE]
<1>1. /\ sessoes' = [sessoes EXCEPT ![k] = s]
      /\ devidos' = [devidos EXCEPT !.tcp = devidos.tcp \ {k}]
      /\ UNCHANGED <<vivos, ligacoes, web, abertas, guardadas, compra, calma>>
  BY DEF Sair, pagina
<1>2. sessoes[k] \in Sessao
  BY SessaoTipo DEF IInv
<1>3. /\ s \in Sessao /\ s.processo = sessoes[k].processo
      /\ s.recebeu = sessoes[k].recebeu /\ s.nome = sessoes[k].nome
  BY <1>2 DEF Sessao
<1>. HIDE DEF s
<1>4. /\ sessoes' \in Seq(Sessao) /\ Len(sessoes') <= MaxSessoes
      /\ DOMAIN sessoes' = DOMAIN sessoes
      /\ sessoes'[k] = s /\ \A j \in DOMAIN sessoes \ {k} : sessoes'[j] = sessoes[j]
      /\ \A j \in DOMAIN sessoes :
           /\ sessoes'[j].processo = sessoes[j].processo
           /\ sessoes'[j].recebeu = sessoes[j].recebeu
           /\ sessoes[j].nome # Ninguem => sessoes'[j].nome = sessoes[j].nome
  BY <1>1, <1>3, MudarSessao DEF IInv
<1>5. /\ devidos'.tcp = devidos.tcp \ {k} /\ devidos'.web = devidos.web
      /\ devidos' \in [tcp : SUBSET devidos.tcp, web : SUBSET devidos.web]
  BY <1>1, Resto
<1>6. \A j \in devidos'.tcp : sessoes'[j].aberta
  BY <1>4, <1>5, Resto
<1>. QED BY <1>1, <1>4, <1>5, <1>6, Resto, PassoAmbiente

\* A client that stops to read keeps what it has.
LEMMA MantemPrender ==
  ASSUME IInv, NEW k \in DOMAIN sessoes, Prender(k)
  PROVE  IInv'
<1>. DEFINE s == [sessoes[k] EXCEPT !.presa = TRUE]
<1>1. /\ sessoes' = [sessoes EXCEPT ![k] = s]
      /\ UNCHANGED <<vivos, ligacoes, web, abertas, guardadas, compra, devidos, calma>>
  BY DEF Prender, pagina, mercado
<1>2. sessoes[k] \in Sessao
  BY SessaoTipo DEF IInv
<1>3. /\ s \in Sessao /\ s.processo = sessoes[k].processo /\ s.aberta = sessoes[k].aberta
      /\ s.recebeu = sessoes[k].recebeu /\ s.nome = sessoes[k].nome
  BY <1>2 DEF Sessao
<1>. HIDE DEF s
<1>4. /\ sessoes' \in Seq(Sessao) /\ Len(sessoes') <= MaxSessoes
      /\ DOMAIN sessoes' = DOMAIN sessoes
      /\ sessoes'[k] = s /\ \A j \in DOMAIN sessoes \ {k} : sessoes'[j] = sessoes[j]
      /\ \A j \in DOMAIN sessoes :
           /\ sessoes'[j].processo = sessoes[j].processo
           /\ sessoes'[j].recebeu = sessoes[j].recebeu
           /\ sessoes[j].nome # Ninguem => sessoes'[j].nome = sessoes[j].nome
  BY <1>1, <1>3, MudarSessao DEF IInv
<1>5. \A j \in devidos'.tcp : sessoes'[j].aberta
  BY <1>1, <1>3, <1>4, Resto
<1>. QED BY <1>1, <1>4, <1>5, Resto, PassoAmbiente

\* A server that stops closes its sessions.
LEMMA MantemCair ==
  ASSUME IInv, NEW p \in Processos, Cair(p)
  PROVE  IInv'
<1>1. /\ vivos' = vivos \ {p} /\ ~calma' /\ calma' \in BOOLEAN
      /\ sessoes' = [k \in DOMAIN sessoes |->
                       IF sessoes[k].processo = p
                       THEN [sessoes[k] EXCEPT !.aberta = FALSE, !.presa = FALSE]
                       ELSE sessoes[k]]
      /\ devidos' = [devidos EXCEPT !.tcp = {k \in devidos.tcp : sessoes[k].processo # p}]
      /\ UNCHANGED <<ligacoes, web, abertas, guardadas, compra>>
  BY DEF Cair, pagina
<1>2. /\ \A k \in DOMAIN sessoes : sessoes[k] \in Sessao
      /\ DOMAIN sessoes = 1..Len(sessoes) /\ Len(sessoes) \in Nat
  BY SessaoTipo DEF IInv
<1>3. \A k \in DOMAIN sessoes :
        /\ sessoes'[k] \in Sessao /\ sessoes'[k].processo = sessoes[k].processo
        /\ sessoes'[k].recebeu = sessoes[k].recebeu /\ sessoes'[k].nome = sessoes[k].nome
        /\ sessoes[k].processo # p => sessoes'[k].aberta = sessoes[k].aberta
  BY <1>1, <1>2 DEF Sessao
<1>4. DOMAIN sessoes' = DOMAIN sessoes
  BY <1>1
<1>5. sessoes' \in Seq(Sessao) /\ Len(sessoes') = Len(sessoes)
  <2>1. sessoes' \in [1..Len(sessoes) -> Sessao]
    BY <1>1, <1>2, <1>3
  <2>. QED BY <1>2, <2>1, SeqDef, LenProperties
<1>6. /\ devidos'.tcp \subseteq {k \in devidos.tcp : sessoes[k].processo # p}
      /\ devidos'.web = devidos.web
      /\ devidos' \in [tcp : SUBSET devidos.tcp, web : SUBSET devidos.web]
  BY <1>1, Resto
<1>7. \A k \in devidos'.tcp : sessoes'[k].aberta
  BY <1>3, <1>6, Resto
<1>8. Len(sessoes') <= MaxSessoes /\ vivos' \subseteq Processos
  BY <1>1, <1>5, Resto
<1>. QED BY <1>1, <1>3, <1>4, <1>5, <1>6, <1>7, <1>8, Resto, PassoAmbiente

\* Steps of the web application.
LEMMA MantemWeb ==
  ASSUME IInv,
         \/ WebCliente \/ CairWeb \/ PrenderTabela \/ LargarTabela
         \/ \E u \in Utilizadores : AbrirPagina(u) \/ FecharPagina(u) \/ PrenderPagina(u)
  PROVE  IInv'
<1>1. CASE WebCliente
  BY <1>1, Resto, PassoAmbiente DEF WebCliente, mercado
<1>2. CASE CairWeb
  <2>1. /\ web' = "morto" /\ abertas' = {} /\ guardadas' = {} /\ ~calma'
        /\ devidos' = [devidos EXCEPT !.web = {}] /\ calma' \in BOOLEAN
        /\ UNCHANGED <<vivos, sessoes, ligacoes, compra>>
    BY <1>2 DEF CairWeb
  <2>2. /\ devidos'.tcp = devidos.tcp /\ devidos'.web = {}
        /\ devidos' \in [tcp : SUBSET devidos.tcp, web : SUBSET devidos.web]
    BY <2>1, Resto
  <2>. QED BY <2>1, <2>2, Resto, PassoAmbiente
<1>3. ASSUME NEW u \in Utilizadores, AbrirPagina(u) PROVE IInv'
  BY <1>3, Resto, PassoAmbiente DEF AbrirPagina, mercado
<1>4. ASSUME NEW u \in Utilizadores, FecharPagina(u) PROVE IInv'
  <2>1. /\ abertas' = abertas \ {u} /\ devidos' = [devidos EXCEPT !.web = devidos.web \ {u}]
        /\ UNCHANGED <<web, guardadas, vivos, sessoes, ligacoes, compra, calma>>
    BY <1>4 DEF FecharPagina
  <2>2. /\ devidos'.tcp = devidos.tcp /\ devidos'.web = devidos.web \ {u}
        /\ devidos' \in [tcp : SUBSET devidos.tcp, web : SUBSET devidos.web]
    BY <2>1, Resto
  <2>. QED BY <2>1, <2>2, Resto, PassoAmbiente
<1>5. CASE PrenderTabela \/ LargarTabela
  BY <1>5, Resto, PassoAmbiente DEF PrenderTabela, LargarTabela, mercado
<1>6. ASSUME NEW u \in Utilizadores, PrenderPagina(u) PROVE IInv'
  BY <1>6, Resto, PassoAmbiente DEF PrenderPagina, mercado
<1>. QED BY <1>1, <1>2, <1>3, <1>4, <1>5, <1>6

\* A server registers one more stub: it has a session that none of its stubs was
\* registered for.
LEMMA MantemAdicionaCliente ==
  ASSUME IInv, NEW p \in Processos, AdicionaCliente(p)
  PROVE  IInv'
<1>1. /\ Ligacoes(p) < Sessoes(p) /\ ligacoes' = Append(ligacoes, p)
      /\ calma' = (calma /\ compra.fase = "livre") /\ calma' \in BOOLEAN
      /\ UNCHANGED <<vivos, sessoes, web, abertas, guardadas, compra, devidos>>
  BY DEF AdicionaCliente, CalmaSe, pagina, mercado
<1>. DEFINE L == Len(ligacoes)
<1>2. /\ L \in Nat /\ DOMAIN ligacoes = 1..L /\ ligacoes \in Seq(Processos)
      /\ Len(sessoes) \in Nat /\ DOMAIN sessoes = 1..Len(sessoes)
  BY SessaoTipo DEF IInv, Tipos
<1>3. /\ ligacoes' \in Seq(Processos) /\ Len(ligacoes') = L + 1 /\ ligacoes'[L + 1] = p
      /\ DOMAIN ligacoes' = DOMAIN ligacoes \cup {L + 1} /\ L + 1 \notin DOMAIN ligacoes
      /\ \A i \in DOMAIN ligacoes : ligacoes'[i] = ligacoes[i]
  BY <1>1, <1>2, AppendProperties
<1>4. Tipos'
  BY <1>1, <1>3 DEF IInv, Tipos
<1>5. Registos'
  <2>1. PICK f \in [DOMAIN ligacoes -> DOMAIN sessoes] :
          /\ \A i, j \in DOMAIN ligacoes : f[i] = f[j] => i = j
          /\ \A i \in DOMAIN ligacoes : sessoes[f[i]].processo = ligacoes[i]
    BY DEF IInv, Registos
  <2>. DEFINE I == {i \in DOMAIN ligacoes : ligacoes[i] = p}
              K == {k \in DOMAIN sessoes : sessoes[k].processo = p}
  <2>2. PICK k \in K : \A i \in I : f[i] # k
    <3>. SUFFICES ASSUME \A k \in K : \E i \in I : f[i] = k PROVE FALSE
      OBVIOUS
    <3>. DEFINE g == [k \in K |-> CHOOSE i \in I : f[i] = k]
    <3>1. \A k \in K : g[k] \in I /\ f[g[k]] = k
      OBVIOUS
    <3>2. g \in [K -> I] /\ \A j, k \in K : g[j] = g[k] => j = k
      BY <3>1
    <3>. HIDE DEF g
    <3>3. g \in Injection(K, I)
      BY <3>2 DEF Injection, IsInjective
    <3>4. I \in SUBSET (1..L) /\ K \in SUBSET (1..Len(sessoes))
      BY <1>2
    <3>. HIDE DEF I, K
    <3>5. IsFiniteSet(I) /\ Cardinality(I) \in Nat /\ Cardinality(K) \in Nat
      BY <1>2, <3>4, Contar
    <3>6. Cardinality(K) <= Cardinality(I)
      BY <3>3, <3>5, FS_Injection
    <3>. QED BY <1>1, <3>5, <3>6 DEF I, K, Ligacoes, Sessoes
  <2>. DEFINE h == [i \in DOMAIN ligacoes' |-> IF i = L + 1 THEN k ELSE f[i]]
  <2>3. h \in [DOMAIN ligacoes' -> DOMAIN sessoes']
    BY <1>1, <1>3, <2>1
  <2>4. h[L + 1] = k /\ \A i \in DOMAIN ligacoes : h[i] = f[i]
    BY <1>3
  <2>. HIDE DEF h
  <2>5. \A i \in DOMAIN ligacoes : f[i] # k
    BY <2>1, <2>2
  <2>6. \A i, j \in DOMAIN ligacoes' : h[i] = h[j] => i = j
    BY <1>3, <2>1, <2>4, <2>5
  <2>7. \A i \in DOMAIN ligacoes' : sessoes'[h[i]].processo = ligacoes'[i]
    BY <1>1, <1>3, <2>1, <2>4
  <2>. QED BY <2>3, <2>6, <2>7 DEF Registos
<1>6. Contadores'
  BY <1>1, <1>2, <1>3 DEF IInv, Contadores, Tipos, Compra
<1>7. Calma' /\ CompraRespondida'
  BY <1>1 DEF IInv, Calma, CompraRespondida
<1>8. Devidos'
  BY <1>1, <1>3, Resto DEF IInv, Devidos
<1>9. /\ compra.proximo - 1 <= L /\ compra.proximo \in Nat
      /\ \A i \in 1..(compra.proximo - 1) : i \in DOMAIN ligacoes /\ ligacoes'[i] = ligacoes[i]
  <2>1. compra.proximo \in Nat /\ compra.tamanho \in Nat
    BY DEF IInv, Tipos, Compra
  <2>2. compra.proximo - 1 <= L
    BY <1>2, <2>1 DEF IInv, Contadores
  <2>. QED BY <1>2, <1>3, <2>1, <2>2
<1>10. \A k, n : (Recebeu(k, n)' <=> Recebeu(k, n)) /\ Vezes(k, n)' = Vezes(k, n)
  BY <1>1 DEF Recebeu, Vezes
<1>11. Entregues'
  BY <1>1, <1>9, <1>10 DEF IInv, Entregues
<1>12. \A q : Passadas(q)' = Passadas(q)
  <2>1. \A q : {i \in 1..(compra.proximo - 1) : ligacoes'[i] = q}
             = {i \in 1..(compra.proximo - 1) : ligacoes[i] = q}
    BY <1>9
  <2>. QED BY <1>1, <2>1 DEF Passadas
<1>13. Repetidas'
  BY <1>1, <1>10, <1>12 DEF IInv, Repetidas
<1>14. ASSUME NEW q PROVE Ligacoes(q) \in Nat /\ Ligacoes(q)' \in Nat /\ Ligacoes(q) <= Ligacoes(q)'
  <2>. DEFINE S == {i \in DOMAIN ligacoes' : ligacoes'[i] = q}
              T == {i \in DOMAIN ligacoes : ligacoes[i] = q}
  <2>1. S \in SUBSET (1..(L + 1)) /\ T \in SUBSET S /\ L + 1 \in Nat
    BY <1>2, <1>3
  <2>. HIDE DEF S, T, L
  <2>2. /\ Cardinality(T) \in Nat /\ Cardinality(S) \in Nat
        /\ Cardinality(T) <= Cardinality(S)
    BY <2>1, Contar
  <2>. QED BY <2>2 DEF S, T, Ligacoes
<1>15. AvisosPorLigacao'
  <2>1. ASSUME NEW k \in DOMAIN sessoes, NEW n \in 1..MaxNotas
        PROVE  Vezes(k, n) <= Ligacoes(sessoes[k].processo)'
    <3>. DEFINE q == sessoes[k].processo
    <3>1. Vezes(k, n) \in Nat /\ Vezes(k, n) <= Ligacoes(q)
      BY VezesTipo DEF IInv, AvisosPorLigacao
    <3>2. PICK r : r = q
      OBVIOUS
    <3>3. Ligacoes(r) \in Nat /\ Ligacoes(r) <= Ligacoes(r)'
      BY <1>14
    <3>4. Ligacoes(r)' = Ligacoes(sessoes[k].processo)'
      BY <1>1, <3>2 DEF Ligacoes
    <3>5. Ligacoes(r)' \in Nat
      BY <1>14
    <3>. QED BY <3>1, <3>2, <3>3, <3>4, <3>5
  <2>. QED BY <1>1, <1>10, <2>1 DEF AvisosPorLigacao
<1>. QED BY <1>4, <1>5, <1>6, <1>7, <1>8, <1>11, <1>13, <1>15 DEF IInv

-----------------------------------------------------------------------------
(* The purchase. *)

\* The fields of the purchase, and what is known of them before its end.
LEMMA CompraTipo ==
  ASSUME IInv
  PROVE  /\ compra \in Compra /\ compra.fase \in Fases
         /\ compra.notas \in Seq(Utilizadores) /\ Len(compra.notas) \in Nat
         /\ DOMAIN compra.notas = 1..Len(compra.notas) /\ Len(compra.notas) <= MaxNotas
         /\ compra.nota \in 0..MaxNotas /\ MaxNotas \in Nat /\ compra.nota \in Nat
         /\ compra.proximo \in Nat /\ compra.tamanho \in Nat
         /\ compra.proximo >= 1 /\ compra.proximo - 1 <= Len(ligacoes)
         /\ compra.tamanho <= Len(ligacoes) /\ compra.escritas \subseteq 1..MaxNotas
<1>1. compra \in Compra
  BY DEF IInv, Tipos
<1>2. /\ compra.fase \in Fases /\ compra.notas \in Seq(Utilizadores)
      /\ compra.nota \in 0..MaxNotas /\ compra.proximo \in Nat /\ compra.tamanho \in Nat
      /\ compra.escritas \subseteq 1..MaxNotas
  BY <1>1 DEF Compra
<1>3. Len(compra.notas) \in Nat /\ DOMAIN compra.notas = 1..Len(compra.notas)
  BY <1>2, LenProperties
<1>4. /\ Len(compra.notas) <= MaxNotas /\ compra.proximo >= 1
      /\ compra.proximo <= compra.tamanho + 1 /\ compra.tamanho <= Len(ligacoes)
  BY DEF IInv, Contadores
<1>5. compra.proximo - 1 <= Len(ligacoes) /\ compra.nota \in Nat /\ MaxNotas \in Nat
  BY <1>2, <1>4, SessaoTipo, ConstantesAssumption DEF IInv
<1>. QED BY <1>1, <1>2, <1>3, <1>4, <1>5

\* A step of the purchase that calls no TCP server: what it has to show of the
\* counters and of the current notice.
LEMMA PassoDaCompra ==
  ASSUME IInv, compra' \in Compra, Contadores',
         UNCHANGED <<vivos, sessoes, ligacoes, web, abertas, guardadas, devidos, calma>>,
         compra'.notas = compra.notas, compra.fase # "livre",
         compra.nota <= compra'.nota, compra'.fase = "erro" => ~calma,
         compra'.fase = "tcp" => compra.nota # compra'.nota /\ compra'.tamanho = Len(ligacoes),
         Entregues'
  PROVE  IInv'
<1>1. Tipos' /\ Registos'
  BY DEF IInv, Tipos, Registos
<1>2. Calma' /\ CompraRespondida' /\ Devidos'
  BY DEF IInv, Calma, CompraRespondida, Devidos
<1>3. /\ \A k, n : (Recebeu(k, n)' <=> Recebeu(k, n)) /\ Vezes(k, n)' = Vezes(k, n)
      /\ \A q : Ligacoes(q)' = Ligacoes(q)
  BY DEF Recebeu, Vezes, Ligacoes
<1>4. AvisosPorLigacao'
  BY <1>3 DEF IInv, AvisosPorLigacao
<1>5. compra.nota \in Nat /\ compra'.nota \in Nat
  BY CompraTipo, ConstantesAssumption DEF Compra
<1>6. ASSUME NEW k \in DOMAIN sessoes, NEW n \in 1..MaxNotas, n > compra.nota
      PROVE  ~Recebeu(k, n)' /\ Vezes(k, n)' = 0
  <2>1. ~Recebeu(k, n)
    BY <1>6 DEF IInv, Repetidas
  <2>2. Vezes(k, n) \in Nat /\ ~(Vezes(k, n) > 0)
    BY <2>1, VezesTipo DEF IInv
  <2>. QED BY <1>3, <2>1, <2>2
<1>7. Repetidas'
  <2>1. ASSUME NEW k \in DOMAIN sessoes, NEW n \in 1..MaxNotas, n > compra'.nota
        PROVE  ~Recebeu(k, n)'
    BY <1>5, <1>6, <2>1
  <2>2. ASSUME NEW k \in DOMAIN sessoes, NEW n \in 1..MaxNotas,
               n = compra'.nota, compra'.fase = "tcp"
        PROVE  Vezes(k, n)' <= Passadas(sessoes[k].processo)'
    <3>1. Vezes(k, n)' = 0
      BY <1>5, <1>6, <2>2
    <3>2. PICK q : q = sessoes'[k].processo
      OBVIOUS
    <3>3. Passadas(q)' \in Nat
      <4>1. compra'.proximo \in Nat
        BY DEF Compra
      <4>2. {i \in 1..(compra'.proximo - 1) : ligacoes'[i] = q} \in SUBSET (1..(compra'.proximo - 1))
        OBVIOUS
      <4>. QED BY <4>1, <4>2, ContarAntes DEF Passadas
    <3>4. Passadas(q)' = Passadas(sessoes[k].processo)'
      BY <3>2 DEF Passadas
    <3>. QED BY <3>1, <3>3, <3>4
  <2>. QED BY <2>1, <2>2 DEF Repetidas
<1>. QED BY <1>1, <1>2, <1>4, <1>7 DEF IInv

\* A purchase that fails was not quiet.
LEMMA PassoErro ==
  ASSUME IInv, compra.fase \in ACaminho, Fase("erro"), ~calma,
         UNCHANGED <<vivos, sessoes, ligacoes, pagina, devidos, calma>>
  PROVE  IInv'
<1>1. /\ compra' \in Compra /\ compra'.fase = "erro" /\ compra'.notas = compra.notas
      /\ compra'.nota = compra.nota /\ compra'.proximo = compra.proximo
      /\ compra'.tamanho = compra.tamanho
  BY CompraTipo DEF Fase, Compra, Fases
<1>2. Contadores' /\ Entregues'
  BY <1>1 DEF IInv, Contadores, Entregues, ACaminho
<1>. QED BY <1>1, <1>2, CompraTipo, PassoDaCompra DEF ACaminho, pagina

\* The sale begins to tell: nobody has got a notice yet.
LEMMA MantemTerminar ==
  ASSUME IInv, NEW m \in 1..MaxNotas, NEW notas \in [1..m -> Utilizadores], Terminar(notas)
  PROVE  IInv'
<1>1. /\ compra.fase = "livre" /\ devidos' = Presentes
      /\ compra' = [fase |-> "tcp", notas |-> notas, nota |-> 1, proximo |-> 1,
                    tamanho |-> Len(ligacoes), escritas |-> {}]
      /\ UNCHANGED <<vivos, sessoes, ligacoes, web, abertas, guardadas>>
      /\ calma' \in BOOLEAN
      /\ calma' => calma /\ \A k \in DOMAIN sessoes : sessoes[k].nome # Ninguem
  BY DEF Terminar, CalmaSe, pagina, IInv, Tipos
<1>2. /\ notas \in Seq(Utilizadores) /\ Len(notas) = m /\ DOMAIN notas = 1..m /\ m \in Nat
      /\ m <= MaxNotas /\ MaxNotas \in Nat /\ 1 \in 1..m /\ 1 \in 0..MaxNotas
  BY ConstantesAssumption
<1>3. Len(ligacoes) \in Nat
  BY SessaoTipo DEF IInv
<1>4. compra' \in Compra
  BY <1>1, <1>2, <1>3 DEF Compra, Fases
<1>5. devidos' \in [tcp : SUBSET (DOMAIN sessoes), web : SUBSET abertas]
  BY <1>1 DEF Presentes
<1>6. Tipos' /\ Registos'
  BY <1>1, <1>4, <1>5 DEF IInv, Tipos, Registos
<1>7. Contadores'
  BY <1>1, <1>2, <1>3 DEF Contadores
<1>8. Calma' /\ CompraRespondida'
  BY <1>1 DEF IInv, Calma, CompraRespondida
<1>9. Devidos'
  <2>1. ASSUME NEW k \in devidos'.tcp
        PROVE  /\ sessoes[k].aberta /\ sessoes[k].nome # Ninguem
               /\ Ligacoes(sessoes[k].processo) > 0
    BY <1>1 DEF Presentes
  <2>2. ASSUME NEW k \in devidos'.tcp
        PROVE  \E i \in DOMAIN ligacoes : ligacoes[i] = sessoes[k].processo
    BY <2>1, LigacoesTipo DEF IInv
  <2>. QED BY <1>1, <2>1, <2>2 DEF Devidos
<1>10. Entregues'
  BY <1>1, <1>2 DEF Entregues
<1>11. /\ \A k, n : (Recebeu(k, n)' <=> Recebeu(k, n)) /\ Vezes(k, n)' = Vezes(k, n)
       /\ \A q : Ligacoes(q)' = Ligacoes(q)
  BY <1>1 DEF Recebeu, Vezes, Ligacoes
<1>12. ASSUME NEW k \in DOMAIN sessoes, NEW n \in 1..MaxNotas
       PROVE  ~Recebeu(k, n) /\ Vezes(k, n) = 0
  <2>1. n > compra.nota
    BY <1>1, <1>2 DEF IInv, Contadores
  <2>2. ~Recebeu(k, n)
    BY <2>1 DEF IInv, Repetidas
  <2>. QED BY <2>2, VezesTipo DEF IInv
<1>13. Repetidas'
  <2>1. ASSUME NEW k \in DOMAIN sessoes
        PROVE  Passadas(sessoes[k].processo)' \in Nat
    <3>1. PICK q : q = sessoes'[k].processo
      OBVIOUS
    <3>2. Passadas(q)' \in Nat
      <4>1. compra'.proximo = 1 /\ 1 \in Nat
        BY <1>1
      <4>2. {i \in 1..(compra'.proximo - 1) : ligacoes'[i] = q} \in SUBSET (1..(compra'.proximo - 1))
        OBVIOUS
      <4>. QED BY <4>1, <4>2, ContarAntes DEF Passadas
    <3>. QED BY <3>1, <3>2 DEF Passadas
  <2>. QED BY <1>1, <1>11, <1>12, <2>1 DEF Repetidas
<1>14. AvisosPorLigacao'
  BY <1>1, <1>11 DEF IInv, AvisosPorLigacao
<1>. QED BY <1>6, <1>7, <1>8, <1>9, <1>10, <1>13, <1>14 DEF IInv

\* The loop over the stubs ends: the cursor has passed all of them.
LEMMA MantemAvisarFim ==
  ASSUME IInv, AvisarFim
  PROVE  IInv'
<1>1. /\ compra.fase = "tcp" /\ compra.proximo - 1 = Len(ligacoes)
      /\ compra' = [compra EXCEPT !.fase = "web"]
      /\ UNCHANGED <<vivos, sessoes, ligacoes, web, abertas, guardadas, devidos, calma>>
  BY DEF AvisarFim, NoFim, Fase, pagina
<1>2. /\ compra' \in Compra /\ compra'.fase = "web" /\ compra'.notas = compra.notas
      /\ compra'.nota = compra.nota /\ compra'.proximo = compra.proximo
      /\ compra'.tamanho = compra.tamanho /\ compra'.escritas = compra.escritas
  BY <1>1, CompraTipo DEF Compra, Fases
<1>3. Contadores'
  BY <1>1, <1>2 DEF IInv, Contadores
<1>4. Entregues'
  <2>1. \A k \in devidos.tcp : \E i \in 1..(compra.proximo - 1) : ligacoes[i] = sessoes[k].processo
    BY <1>1, SessaoTipo DEF IInv, Devidos
  <2>2. \A k, n : Recebeu(k, n)' <=> Recebeu(k, n)
    BY <1>1 DEF Recebeu
  <2>. QED BY <1>1, <1>2, <2>1, <2>2 DEF IInv, Entregues
<1>. QED BY <1>1, <1>2, <1>3, <1>4, CompraTipo, PassoDaCompra

\* The page is written to, or the purchase fails for the lack of it.
LEMMA MantemAvisarWeb ==
  ASSUME IInv, AvisarWeb
  PROVE  IInv'
<1>1. /\ compra.fase = "web"
      /\ UNCHANGED <<vivos, sessoes, ligacoes, pagina, devidos, calma>>
  BY DEF AvisarWeb
<1>2. CASE web = "responde" /\ SemPagina
  <2>1. Fase("erro") /\ ~calma
    BY <1>2 DEF AvisarWeb, SemPagina, IInv, Calma
  <2>. QED BY <1>1, <2>1, PassoErro DEF ACaminho
<1>3. CASE ~(web = "responde" /\ SemPagina)
  <2>. DEFINE E == IF Vendedor \in abertas THEN compra.escritas \cup {compra.nota}
                   ELSE compra.escritas
  <2>1. compra' = [compra EXCEPT !.fase = "preco", !.escritas = E]
    BY <1>3 DEF AvisarWeb
  <2>2. compra.nota \in DOMAIN compra.notas /\ compra.nota \in 1..MaxNotas
    BY <1>1, CompraTipo DEF IInv, Contadores
  <2>3. E \in SUBSET (1..MaxNotas)
    BY <2>2, CompraTipo
  <2>4. compra.escritas \subseteq E /\ (Vendedor \in abertas => compra.nota \in E)
    OBVIOUS
  <2>. HIDE DEF E
  <2>5. /\ compra' \in Compra /\ compra'.fase = "preco" /\ compra'.notas = compra.notas
        /\ compra'.nota = compra.nota /\ compra'.proximo = compra.proximo
        /\ compra'.tamanho = compra.tamanho /\ compra'.escritas = E
    BY <2>1, <2>3, CompraTipo DEF Compra, Fases
  <2>6. Contadores'
    BY <1>1, <2>5 DEF IInv, Contadores
  <2>7. Entregues'
    <3>1. \A k, n : Recebeu(k, n)' <=> Recebeu(k, n)
      BY <1>1 DEF Recebeu
    <3>2. devidos.web \subseteq abertas
      BY Resto
    <3>. QED BY <1>1, <2>4, <2>5, <3>1, <3>2 DEF IInv, Entregues, Vendedor
  <2>. QED BY <1>1, <2>5, <2>6, <2>7, CompraTipo, PassoDaCompra DEF pagina
<1>. QED BY <1>2, <1>3

\* The next notice begins with its own loop, or the purchase is answered.
LEMMA MantemActualizarPrecos ==
  ASSUME IInv, ActualizarPrecos
  PROVE  IInv'
<1>1. /\ compra.fase = "preco"
      /\ UNCHANGED <<vivos, sessoes, ligacoes, pagina, devidos, calma>>
  BY DEF ActualizarPrecos
<1>2. compra.nota \in DOMAIN compra.notas /\ compra.nota \in 1..Len(compra.notas)
  BY <1>1, CompraTipo DEF IInv, Contadores
<1>3. CASE web = "morto"
  <2>1. Fase("erro") /\ ~calma
    BY <1>3 DEF ActualizarPrecos, IInv, Calma
  <2>. QED BY <1>1, <2>1, PassoErro DEF ACaminho
<1>4. \A k, n : Recebeu(k, n)' <=> Recebeu(k, n)
  BY <1>1 DEF Recebeu
<1>5. CASE web # "morto" /\ compra.nota = Len(compra.notas)
  <2>1. compra' = [compra EXCEPT !.fase = "respondida"]
    BY <1>5 DEF ActualizarPrecos, Seguinte
  <2>2. /\ compra' \in Compra /\ compra'.fase = "respondida" /\ compra'.notas = compra.notas
        /\ compra'.nota = compra.nota /\ compra'.proximo = compra.proximo
        /\ compra'.tamanho = compra.tamanho /\ compra'.escritas = compra.escritas
    BY <2>1, CompraTipo DEF Compra, Fases
  <2>3. Contadores'
    BY <1>1, <1>2, <1>5, <2>2 DEF IInv, Contadores
  <2>4. Entregues'
    BY <1>1, <1>4, <2>2 DEF IInv, Entregues
  <2>. QED BY <1>1, <2>2, <2>3, <2>4, CompraTipo, PassoDaCompra DEF pagina
<1>6. CASE web # "morto" /\ compra.nota # Len(compra.notas)
  <2>1. compra' = [compra EXCEPT !.fase = "tcp", !.nota = compra.nota + 1, !.proximo = 1,
                                 !.tamanho = Len(ligacoes)]
    BY <1>6 DEF ActualizarPrecos, Seguinte
  <2>2. /\ compra.nota + 1 \in DOMAIN compra.notas /\ compra.nota + 1 \in 0..MaxNotas
        /\ Len(ligacoes) \in Nat /\ 1 \in Nat /\ 1 <= Len(ligacoes) + 1
        /\ \A n \in DOMAIN compra.notas : n <= compra.nota \/ n = compra.nota + 1
                                                            \/ n > compra.nota + 1
    BY <1>2, <1>6, CompraTipo, SessaoTipo DEF IInv
  <2>3. /\ compra' \in Compra /\ compra'.fase = "tcp" /\ compra'.notas = compra.notas
        /\ compra'.nota = compra.nota + 1 /\ compra'.proximo = 1
        /\ compra'.tamanho = Len(ligacoes) /\ compra'.escritas = compra.escritas
    BY <2>1, <2>2, CompraTipo DEF Compra, Fases
  <2>4. Contadores'
    BY <1>1, <2>2, <2>3 DEF IInv, Contadores
  <2>5. Entregues'
    <3>. SUFFICES ASSUME NEW n \in DOMAIN compra.notas, n <= compra.nota
         PROVE  /\ \A k \in devidos.tcp : sessoes[k].nome = compra.notas[n] => Recebeu(k, n)
                /\ compra.notas[n] \in devidos.web => n \in compra.escritas
      BY <1>1, <1>4, <2>2, <2>3 DEF Entregues
    <3>1. ~(n > compra.nota)
      BY CompraTipo
    <3>. QED BY <1>1, <3>1 DEF IInv, Entregues
  <2>. QED BY <1>1, <2>2, <2>3, <2>4, <2>5, CompraTipo, PassoDaCompra DEF pagina
<1>. QED BY <1>3, <1>5, <1>6

\* The positions of a notice in what a session got.
Onde(r, n) == {i \in DOMAIN r : r[i] = n}

\* What one more notice changes in what a session got.
LEMMA MaisUm ==
  ASSUME NEW U, NEW r \in Seq(U), NEW m \in U, NEW n
  PROVE  /\ n # m => Onde(Append(r, m), n) = Onde(r, n)
         /\ n = m => /\ Onde(Append(r, m), n) # {}
                     /\ Cardinality(Onde(Append(r, m), n)) = Cardinality(Onde(r, n)) + 1
<1>. DEFINE q == Append(r, m)
            S == Onde(r, n)
            T == Onde(q, n)
            L == Len(r)
<1>1. L \in Nat /\ DOMAIN r = 1..L
  BY LenProperties
<1>2. /\ DOMAIN q = DOMAIN r \cup {L + 1} /\ q[L + 1] = m /\ L + 1 \notin DOMAIN r
      /\ \A i \in DOMAIN r : q[i] = r[i]
  BY <1>1, AppendProperties
<1>. HIDE DEF q
<1>3. n # m => T = S
  BY <1>2 DEF Onde
<1>4. ASSUME n = m PROVE T = S \cup {L + 1} /\ L + 1 \notin S
  BY <1>2, <1>4 DEF Onde
<1>5. S \in SUBSET (1..(L + 1)) /\ L + 1 \in 1..(L + 1) /\ L + 1 \in Nat
  BY <1>1 DEF Onde
<1>. HIDE DEF S, T, L
<1>6. \A x \in 1..(L + 1) : x \notin S => Cardinality(S \cup {x}) = Cardinality(S) + 1
  BY <1>5, Contar
<1>7. n = m => T # {} /\ Cardinality(T) = Cardinality(S) + 1
  BY <1>4, <1>5, <1>6
<1>. QED BY <1>3, <1>7 DEF S, T, q

\* One call of a server: each of its threads of the seller gets the notice once.
LEMMA MantemAvisarServidor ==
  ASSUME IInv, AvisarServidor
  PROVE  IInv'
<1>. DEFINE p == Servidor
            c == compra.proximo
            v == compra.nota
            A(k) == k \in Destinos(p) /\ sessoes[k].aberta
<1>1. /\ compra.fase = "tcp" /\ c - 1 # Len(ligacoes) /\ compra.tamanho = Len(ligacoes)
      /\ sessoes' = [k \in DOMAIN sessoes |->
                       IF A(k)
                       THEN [sessoes[k] EXCEPT !.recebeu = Append(sessoes[k].recebeu, v)]
                       ELSE sessoes[k]]
      /\ compra' = [compra EXCEPT !.fase = IF Rebenta(p) THEN "erro" ELSE "tcp",
                                  !.proximo = c + 1]
      /\ UNCHANGED <<vivos, ligacoes, web, abertas, guardadas, devidos, calma>>
  BY DEF AvisarServidor, NoFim, Cresceu, pagina
<1>2. /\ c \in Nat /\ c >= 1 /\ c - 1 <= Len(ligacoes) /\ v \in Nat
      /\ v \in DOMAIN compra.notas /\ v \in 1..MaxNotas /\ v <= Len(compra.notas)
  BY <1>1, CompraTipo DEF IInv, Contadores
<1>3. c \in DOMAIN ligacoes /\ p = ligacoes[c] /\ Len(ligacoes) \in Nat
  BY <1>1, <1>2, SessaoTipo DEF IInv, Servidor
<1>4. \A k : A(k) => /\ k \in DOMAIN sessoes /\ sessoes[k].processo = p
                     /\ sessoes[k].nome = compra.notas[v]
  BY DEF Destinos, Alcance, Vendedor
<1>5. \A k \in DOMAIN sessoes :
        /\ sessoes[k].processo = p /\ sessoes[k].nome = compra.notas[v] /\ sessoes[k].aberta
        /\ ~Rebenta(p)
        => A(k)
  BY SessaoTipo DEF Destinos, Alcance, Rebenta, Vendedor, IInv
<1>. HIDE DEF A, p
<1>6. \A k \in DOMAIN sessoes : sessoes[k] \in Sessao /\ sessoes[k].recebeu \in Seq(1..MaxNotas)
  BY SessaoTipo DEF IInv
<1>7. ASSUME NEW k \in DOMAIN sessoes
      PROVE  /\ sessoes'[k] \in Sessao
             /\ sessoes'[k].processo = sessoes[k].processo /\ sessoes'[k].nome = sessoes[k].nome
             /\ sessoes'[k].aberta = sessoes[k].aberta
             /\ sessoes'[k].recebeu = IF A(k) THEN Append(sessoes[k].recebeu, v)
                                      ELSE sessoes[k].recebeu
  <2>1. Append(sessoes[k].recebeu, v) \in Seq(1..MaxNotas)
    BY <1>2, <1>6, AppendProperties
  <2>. QED BY <1>1, <1>6, <2>1 DEF Sessao
<1>8. DOMAIN sessoes' = DOMAIN sessoes /\ sessoes' \in Seq(Sessao) /\ Len(sessoes') = Len(sessoes)
  <2>1. DOMAIN sessoes = 1..Len(sessoes) /\ Len(sessoes) \in Nat
    BY SessaoTipo DEF IInv
  <2>2. DOMAIN sessoes' = DOMAIN sessoes
    BY <1>1
  <2>3. sessoes' \in [1..Len(sessoes) -> Sessao]
    BY <1>1, <1>7, <2>1
  <2>. QED BY <2>1, <2>2, <2>3, SeqDef, LenProperties
<1>9. /\ compra' \in Compra /\ compra'.fase = (IF Rebenta(p) THEN "erro" ELSE "tcp")
      /\ compra'.notas = compra.notas /\ compra'.nota = v /\ compra'.proximo = c + 1
      /\ compra'.tamanho = compra.tamanho /\ compra'.escritas = compra.escritas
  <2>. DEFINE F == IF Rebenta(p) THEN "erro" ELSE "tcp"
  <2>1. F \in Fases /\ c + 1 \in Nat /\ compra' = [compra EXCEPT !.fase = F, !.proximo = c + 1]
    BY <1>1, <1>2 DEF Fases
  <2>. HIDE DEF F
  <2>2. /\ compra' \in Compra /\ compra'.fase = F /\ compra'.notas = compra.notas
        /\ compra'.nota = v /\ compra'.proximo = c + 1
        /\ compra'.tamanho = compra.tamanho /\ compra'.escritas = compra.escritas
    BY <2>1, CompraTipo DEF Compra
  <2>. QED BY <2>2 DEF F
<1>10. Tipos'
  BY <1>1, <1>8, <1>9 DEF IInv, Tipos
<1>11. Registos'
  <2>1. PICK f \in [DOMAIN ligacoes -> DOMAIN sessoes] :
          /\ \A i, j \in DOMAIN ligacoes : f[i] = f[j] => i = j
          /\ \A i \in DOMAIN ligacoes : sessoes[f[i]].processo = ligacoes[i]
    BY DEF IInv, Registos
  <2>. QED BY <1>1, <1>7, <1>8, <2>1 DEF Registos
<1>12. Contadores'
  <2>1. c + 1 >= 1 /\ c + 1 <= compra.tamanho + 1
    BY <1>1, <1>2, <1>3
  <2>. QED BY <1>1, <1>9, <2>1 DEF IInv, Contadores
<1>13. calma => ~Rebenta(p)
  BY <1>1 DEF IInv, Calma, Rebenta
<1>14. Calma' /\ CompraRespondida' /\ Devidos'
  BY <1>1, <1>7, <1>8, <1>9, <1>13, Resto DEF IInv, Calma, CompraRespondida, Devidos
<1>15. ASSUME NEW k \in DOMAIN sessoes, NEW n
       PROVE  /\ ~(A(k) /\ n = v) => Vezes(k, n)' = Vezes(k, n) /\ (Recebeu(k, n)' <=> Recebeu(k, n))
              /\ A(k) /\ n = v => Vezes(k, n)' = Vezes(k, n) + 1 /\ Recebeu(k, n)'
  <2>1. CASE ~A(k)
    <3>1. sessoes'[k].recebeu = sessoes[k].recebeu
      BY <1>7, <2>1
    <3>. QED BY <2>1, <3>1 DEF Vezes, Recebeu
  <2>2. CASE A(k)
    <3>. DEFINE r == sessoes[k].recebeu
    <3>1. sessoes'[k].recebeu = Append(r, v)
      BY <1>7, <2>2
    <3>2. r \in Seq(1..MaxNotas)
      BY <1>6
    <3>. DEFINE S == Onde(r, n)
                T == Onde(Append(r, v), n)
    <3>. HIDE DEF r
    <3>3. (n # v => T = S) /\ (n = v => T # {} /\ Cardinality(T) = Cardinality(S) + 1)
      BY <1>2, <3>2, MaisUm
    <3>4. /\ Vezes(k, n)' = Cardinality(T) /\ (Recebeu(k, n)' <=> T # {})
          /\ Vezes(k, n) = Cardinality(S) /\ (Recebeu(k, n) <=> S # {})
      BY <3>1 DEF Vezes, Recebeu, Onde, r
    <3>. HIDE DEF S, T
    <3>. QED BY <2>2, <3>3, <3>4
  <2>. QED BY <2>1, <2>2
<1>16. Entregues'
  <2>. SUFFICES ASSUME ~Rebenta(p) PROVE Entregues'
    BY <1>9 DEF Entregues
  <2>1. compra'.fase = "tcp" /\ compra'.proximo - 1 = c
    BY <1>2, <1>9
  <2>2. \A n \in DOMAIN compra.notas : n \in Nat /\ (n > v \/ n = v \/ ~(n >= v))
    BY <1>2, CompraTipo
  <2>3. ASSUME NEW n \in DOMAIN compra.notas, compra.notas[n] \in devidos.web
        PROVE  n > v \/ n = v \/ n \in compra.escritas
    BY <1>1, <2>3 DEF IInv, Entregues
  <2>4. ASSUME NEW n \in DOMAIN compra.notas,
               NEW k \in devidos.tcp, sessoes[k].nome = compra.notas[n], ~(n > v),
               ~(n = v /\ \A i \in 1..c : ligacoes[i] # sessoes[k].processo)
        PROVE  Recebeu(k, n)'
    <3>1. k \in DOMAIN sessoes /\ sessoes[k].aberta
      BY Resto
    <3>2. CASE Recebeu(k, n)
      BY <1>15, <3>1, <3>2
    <3>3. CASE ~Recebeu(k, n)
      <4>1. n = v /\ \A i \in 1..(c - 1) : ligacoes[i] # sessoes[k].processo
        BY <1>1, <2>4, <3>3 DEF IInv, Entregues
      <4>2. PICK i \in 1..c : ligacoes[i] = sessoes[k].processo
        BY <2>4, <4>1
      <4>3. i = c
        BY <1>2, <4>1, <4>2
      <4>4. A(k)
        BY <1>3, <1>5, <2>4, <3>1, <4>1, <4>2, <4>3
      <4>. QED BY <1>15, <3>1, <4>1, <4>4
    <3>. QED BY <3>2, <3>3
  <2>5. \A k \in devidos.tcp : /\ k \in DOMAIN sessoes
                              /\ sessoes'[k].nome = sessoes[k].nome
                              /\ sessoes'[k].processo = sessoes[k].processo
    BY <1>7, Resto
  <2>. HIDE DEF c, v
  <2>. QED BY <1>1, <1>9, <2>1, <2>3, <2>4, <2>5 DEF Entregues
<1>17. ASSUME NEW q
       PROVE  /\ Passadas(q)' = IF q = p THEN Passadas(q) + 1 ELSE Passadas(q)
              /\ Passadas(q)' <= Ligacoes(q) /\ Ligacoes(q)' = Ligacoes(q)
              /\ Passadas(q) \in Nat /\ Ligacoes(q) \in Nat
  <2>. DEFINE I == {i \in 1..(c - 1) : ligacoes[i] = q}
              J == {i \in 1..c : ligacoes[i] = q}
              K == {i \in DOMAIN ligacoes : ligacoes[i] = q}
  <2>1. /\ c \in 1..c /\ c \notin I /\ I \in SUBSET (1..c) /\ J \in SUBSET K
        /\ K \in SUBSET (1..Len(ligacoes))
    BY <1>2, <1>3, SessaoTipo DEF IInv
  <2>2. J = IF q = p THEN I \cup {c} ELSE I
    BY <1>2, <1>3
  <2>3. Passadas(q) = Cardinality(I) /\ Passadas(q)' = Cardinality(J) /\ Ligacoes(q) = Cardinality(K)
    <3>1. (c + 1) - 1 = c
      BY <1>2
    <3>. QED BY <1>1, <1>9, <3>1 DEF Passadas, Ligacoes
  <2>. HIDE DEF I, J, K
  <2>4. Cardinality(I) \in Nat /\ Cardinality(I \cup {c}) = Cardinality(I) + 1
    BY <1>2, <2>1, Contar
  <2>5. Cardinality(K) \in Nat /\ Cardinality(J) <= Cardinality(K)
    BY <1>3, <2>1, Contar
  <2>6. Ligacoes(q)' = Ligacoes(q)
    BY <1>1 DEF Ligacoes
  <2>. QED BY <2>2, <2>3, <2>4, <2>5, <2>6
<1>18. ASSUME NEW k \in DOMAIN sessoes
       PROVE  Vezes(k, v)' <= Passadas(sessoes[k].processo)'
  <2>1. PICK q : q = sessoes[k].processo
    OBVIOUS
  <2>2. Vezes(k, v) \in Nat /\ Vezes(k, v) <= Passadas(q)
    BY <1>1, <1>2, <2>1, VezesTipo DEF IInv, Repetidas
  <2>3. Passadas(q)' = Passadas(sessoes[k].processo)'
    BY <1>7, <2>1 DEF Passadas
  <2>4. CASE A(k)
    <3>1. q = p
      BY <1>4, <2>1, <2>4
    <3>2. PICK w : w = v
      OBVIOUS
    <3>3. Vezes(k, w)' = Vezes(k, w) + 1
      BY <1>15, <2>4, <3>2
    <3>4. Vezes(k, w)' = Vezes(k, v)'
      BY <1>9, <3>2 DEF Vezes
    <3>. QED BY <1>17, <2>2, <2>3, <3>1, <3>2, <3>3, <3>4
  <2>5. CASE ~A(k)
    <3>1. Vezes(k, v)' = Vezes(k, v)
      BY <1>7, <1>9, <2>5 DEF Vezes
    <3>. QED BY <1>17, <2>2, <2>3, <3>1
  <2>. QED BY <2>4, <2>5
<1>19. Repetidas'
  <2>1. ASSUME NEW k \in DOMAIN sessoes, NEW n \in 1..MaxNotas, n > v
        PROVE  ~Recebeu(k, n)'
    <3>1. n # v
      BY <1>2, <2>1
    <3>. QED BY <1>15, <2>1, <3>1 DEF IInv, Repetidas
  <2>2. ASSUME NEW k \in DOMAIN sessoes, NEW n \in 1..MaxNotas, n = compra'.nota
        PROVE  Vezes(k, n)' <= Passadas(sessoes[k].processo)'
    <3>1. Vezes(k, n)' = Vezes(k, v)'
      BY <1>9, <2>2 DEF Vezes
    <3>. QED BY <1>18, <3>1
  <2>. QED BY <1>8, <1>9, <2>1, <2>2 DEF Repetidas
<1>20. AvisosPorLigacao'
  <2>1. ASSUME NEW k \in DOMAIN sessoes, NEW n \in 1..MaxNotas
        PROVE  Vezes(k, n)' <= Ligacoes(sessoes[k].processo)'
    <3>1. PICK q : q = sessoes[k].processo
      OBVIOUS
    <3>2. /\ Ligacoes(q)' = Ligacoes(sessoes[k].processo)'
          /\ Passadas(q)' = Passadas(sessoes[k].processo)'
      BY <1>7, <3>1 DEF Ligacoes, Passadas
    <3>3. CASE n = v
      <4>1. Vezes(k, n)' = Vezes(k, v)'
        BY <1>9, <3>3 DEF Vezes
      <4>2. Passadas(q)' \in Nat /\ Passadas(q)' <= Ligacoes(q)'
        BY <1>17
      <4>3. Vezes(k, n) \in Nat /\ Vezes(k, n)' \in Nat
        <5>1. Vezes(k, n) \in Nat
          BY VezesTipo DEF IInv
        <5>. QED BY <1>15, <5>1
      <4>4. Ligacoes(q)' \in Nat
        BY <1>17
      <4>. QED BY <1>18, <3>2, <4>1, <4>2, <4>3, <4>4
    <3>4. CASE n # v
      <4>1. Vezes(k, n)' = Vezes(k, n) /\ Vezes(k, n) <= Ligacoes(q)
        BY <1>15, <3>1, <3>4 DEF IInv, AvisosPorLigacao
      <4>. QED BY <1>17, <3>2, <4>1
    <3>. QED BY <3>3, <3>4
  <2>. QED BY <1>8, <2>1 DEF AvisosPorLigacao
<1>. QED BY <1>10, <1>11, <1>12, <1>14, <1>16, <1>19, <1>20 DEF IInv

\* The iterator fails when the list grew, or when a server is gone.
LEMMA MantemAvisarFalha ==
  ASSUME IInv, AvisarFalha
  PROVE  IInv'
<1>1. /\ compra.fase = "tcp" /\ compra.proximo - 1 # Len(ligacoes) /\ Fase("erro")
      /\ compra.tamanho # Len(ligacoes) \/ ligacoes[compra.proximo] \notin vivos
      /\ UNCHANGED <<vivos, sessoes, ligacoes, pagina, devidos, calma>>
  BY DEF AvisarFalha, NoFim, Cresceu, Servidor
<1>2. ligacoes[compra.proximo] \in Processos
  BY <1>1, CompraTipo, SessaoTipo DEF IInv
<1>3. ~calma
  BY <1>1, <1>2 DEF IInv, Calma
<1>. QED BY <1>1, <1>3, PassoErro DEF ACaminho

-----------------------------------------------------------------------------
\* At the start nobody is connected and nothing is sold.
LEMMA Inicio == Init => IInv
<1>. SUFFICES ASSUME Init PROVE IInv
  OBVIOUS
<1>1. /\ sessoes = <<>> /\ ligacoes = <<>> /\ DOMAIN sessoes = {} /\ DOMAIN ligacoes = {}
      /\ Len(sessoes) = 0 /\ Len(ligacoes) = 0 /\ sessoes \in Seq(Sessao)
      /\ ligacoes \in Seq(Processos) /\ MaxSessoes \in Nat /\ MaxNotas \in Nat
      /\ vivos = Processos /\ web = "nenhum" /\ abertas = {} /\ guardadas = {}
      /\ devidos = [tcp |-> {}, web |-> {}] /\ calma = TRUE
  BY ConstantesAssumption DEF Init
<1>2. /\ compra = [fase |-> "livre", notas |-> <<>>, nota |-> 0, proximo |-> 1,
                   tamanho |-> 0, escritas |-> {}]
      /\ <<>> \in Seq(Utilizadores) /\ Len(<<>>) = 0
  BY DEF Init
<1>3. compra \in Compra /\ compra.fase = "livre"
  BY <1>1, <1>2 DEF Compra, Fases
<1>4. Tipos
  BY <1>1, <1>3 DEF Tipos
<1>5. Registos
  <2>1. [i \in {} |-> i] \in [{} -> {}]
    OBVIOUS
  <2>. QED BY <1>1, <2>1 DEF Registos
<1>6. Contadores
  BY <1>1, <1>2 DEF Contadores
<1>7. Calma /\ Devidos /\ Entregues /\ Repetidas /\ CompraRespondida /\ AvisosPorLigacao
  BY <1>1, <1>3 DEF Calma, Devidos, Entregues, Repetidas, CompraRespondida, AvisosPorLigacao
<1>. QED BY <1>4, <1>5, <1>6, <1>7 DEF IInv

\* Every step keeps the invariant.
LEMMA PassoMantem ==
  ASSUME IInv, [Next]_vars
  PROVE  IInv'
<1>1. CASE UNCHANGED vars
  BY <1>1, Resto, PassoAmbiente DEF vars
<1>2. CASE Ambiente
  BY <1>2, MantemLigar, MantemAdicionaCliente, MantemCair, MantemSair, MantemPrender,
     MantemEntrar, MantemWeb DEF Ambiente
<1>3. ASSUME NEW n \in 1..MaxNotas, NEW notas \in [1..n -> Utilizadores], Terminar(notas)
      PROVE  IInv'
  BY <1>3, MantemTerminar
<1>4. CASE PassoCompra
  BY <1>4, MantemAvisarServidor, MantemAvisarFalha, MantemAvisarFim, MantemAvisarWeb,
     MantemActualizarPrecos DEF PassoCompra
<1>. QED BY <1>1, <1>2, <1>3, <1>4 DEF Next

\* The invariant holds always.
LEMMA Invariante == Spec => []IInv
  BY Inicio, PassoMantem, PTL DEF Spec

\* Only an open page keeps its writer waiting.
Presos == presas \subseteq abertas /\ tabelaPresa \in BOOLEAN

\* A page that closes, or whose container stops, lets go.
LEMMA PresosPasso ==
  ASSUME Presos, [Next]_vars
  PROVE  Presos'
<1>. USE DEF Presos
<1>1. CASE UNCHANGED vars
  BY <1>1 DEF vars
<1>2. CASE Ambiente
  <2>1. ASSUME NEW p \in Processos, Ligar(p) \/ AdicionaCliente(p) \/ Cair(p)
        PROVE  Presos'
    BY <2>1 DEF Ligar, AdicionaCliente, Cair, pagina, presos
  <2>2. ASSUME NEW k \in DOMAIN sessoes,
               Sair(k) \/ Prender(k) \/ \E u \in Utilizadores : Entrar(k, u)
        PROVE  Presos'
    BY <2>2 DEF Sair, Prender, Entrar, pagina, presos
  <2>3. CASE WebCliente \/ CairWeb \/ PrenderTabela \/ LargarTabela
    BY <2>3 DEF WebCliente, CairWeb, PrenderTabela, LargarTabela, presos
  <2>4. ASSUME NEW u \in Utilizadores,
               AbrirPagina(u) \/ FecharPagina(u) \/ PrenderPagina(u)
        PROVE  Presos'
    BY <2>4 DEF AbrirPagina, FecharPagina, PrenderPagina, presos
  <2>. QED BY <1>2, <2>1, <2>2, <2>3, <2>4 DEF Ambiente
<1>3. ASSUME NEW n \in 1..MaxNotas, NEW notas \in [1..n -> Utilizadores], Terminar(notas)
      PROVE  Presos'
  BY <1>3 DEF Terminar, pagina, presos
<1>4. CASE PassoCompra
  BY <1>4 DEF PassoCompra, AvisarServidor, AvisarFalha, AvisarFim, AvisarWeb,
              ActualizarPrecos, pagina, presos
<1>. QED BY <1>1, <1>2, <1>3, <1>4 DEF Next

LEMMA PresosSempre == Spec => []Presos
<1>1. Init => Presos
  BY DEF Init, Presos
<1>. QED BY <1>1, PresosPasso, PTL DEF Spec

\* The type invariant of the runs.
LEMMA TiposCertos ==
  ASSUME IInv, Presos
  PROVE  TypeOK
<1>1. Len(ligacoes) <= Len(sessoes) /\ Len(sessoes) <= MaxSessoes /\ MaxSessoes \in Nat
  BY PoucasLigacoes, ConstantesAssumption DEF IInv, Tipos
<1>2. Len(ligacoes) \in Nat /\ Len(sessoes) \in Nat /\ DOMAIN sessoes = 1..Len(sessoes)
  BY SessaoTipo DEF IInv
<1>3. compra.proximo \in 1..(MaxSessoes + 1) /\ compra.tamanho \in 0..MaxSessoes
  BY <1>1, <1>2, CompraTipo
<1>4. DOMAIN sessoes \subseteq 1..MaxSessoes
  BY <1>1, <1>2
<1>5. devidos.tcp \subseteq 1..MaxSessoes /\ devidos.web \subseteq Utilizadores
  BY <1>4, Resto
<1>. QED BY <1>1, <1>3, <1>5, CompraTipo, Resto DEF IInv, Tipos, TypeOK, Fases, Presos

\* When the purchase is answered no notice is to come.
LEMMA TodosReceberam ==
  ASSUME IInv
  PROVE  RespondidaEntaoAvisados
<1>. SUFFICES ASSUME compra.fase = "respondida", NEW n \in DOMAIN compra.notas
     PROVE  /\ \A k \in devidos.tcp : sessoes[k].nome = compra.notas[n] => Vezes(k, n) > 0
            /\ compra.notas[n] \in devidos.web => n \in compra.escritas
  BY DEF RespondidaEntaoAvisados
<1>1. ~(n > compra.nota)
  BY CompraTipo DEF IInv, Contadores
<1>2. ASSUME NEW k \in devidos.tcp, sessoes[k].nome = compra.notas[n]
      PROVE  Vezes(k, n) > 0
  <2>1. k \in DOMAIN sessoes
    BY Resto
  <2>2. Recebeu(k, n)
    BY <1>1, <1>2 DEF IInv, Entregues
  <2>. QED BY <2>1, <2>2, VezesTipo DEF IInv
<1>3. compra.notas[n] \in devidos.web => n \in compra.escritas
  BY <1>1 DEF IInv, Entregues
<1>. QED BY <1>2, <1>3

\* A server registers itself once for each connection (line 655 of IdeiaImpl walks
\* what was registered), the cursors of the loops stay inside their lists, and the
\* rest have their types.
THEOREM TypeCorrect == Spec => []TypeOK
<1>1. IInv /\ Presos => TypeOK
  BY TiposCertos
<1>. QED BY <1>1, Invariante, PresosSempre, PTL

\* An answer 1 means that every seller who was there, and stayed, was told of every
\* lot, however many servers, sessions and notices there are (line 1010 and line
\* 159 of the TCP server).
THEOREM TodosAvisados == Spec => []RespondidaEntaoAvisados
<1>1. IInv => RespondidaEntaoAvisados
  BY TodosReceberam
<1>. QED BY <1>1, Invariante, PTL

\* A quiet purchase does not fail (lines 1033 and 1034 of IdeiaImpl).
THEOREM CalmaResponde == Spec => []CompraRespondida
<1>1. IInv => CompraRespondida
  BY DEF IInv
<1>. QED BY <1>1, Invariante, PTL

\* A notice comes at most once for each connection that its server registered (line
\* 658 of IdeiaImpl).
THEOREM AvisosLimitados == Spec => []AvisosPorLigacao
<1>1. IInv => AvisosPorLigacao
  BY DEF IInv
<1>. QED BY <1>1, Invariante, PTL
=============================================================================
