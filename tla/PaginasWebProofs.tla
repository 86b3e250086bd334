-------------------------- MODULE PaginasWebProofs --------------------------
(***************************************************************************)
(* Proofs about PaginasWeb.  Identifiers come back after a deletion and    *)
(* numbers do not: the invariant says which numbers are in use, where the  *)
(* post of each number is, and what a request knows at each phase.         *)
(***************************************************************************)
EXTENDS PaginasWeb, SequenceTheorems, FiniteSetTheorems, TLAPS

Pedido == [fase : Fases, num : 0..MaxIdeias, id : -1..MaxIdeias,
           vista : 0..MaxIdeias, post : 0..MaxIdeias]
Pagina == [id : -1..MaxIdeias, num : 0..MaxIdeias, lida : -1..MaxIdeias,
           dono : Utilizadores \cup {Ninguem}]

Tipos ==
  /\ ideias \in Seq(Ideia)
  /\ saldo \in [Utilizadores -> 0..Saldo]
  /\ criadas \in 0..MaxIdeias /\ posts \subseteq 1..criadas
  /\ pagina \in Pagina /\ pedido \in [Utilizadores -> Pedido]
  /\ apagadas \in Seq(Numeros \X Numeros)
  /\ aVez \in BOOLEAN /\ seguidas \in BOOLEAN /\ completas \in BOOLEAN

\* The numbers of ideas that exist, and of ideas deleted.
Viva(n) == \E k \in DOMAIN ideias : ideias[k].num = n
Ida(n) == \E i \in DOMAIN apagadas : apagadas[i][2] = n
Usados == {n \in Numeros : Viva(n) \/ Ida(n)}

\* Numbers name one idea; there are more numbers in use than the largest identifier
\* says.
Contagem ==
  /\ \A n \in Usados : n <= criadas
  /\ \A n \in Numeros : ~(Viva(n) /\ Ida(n))
  /\ \A j, k \in DOMAIN ideias :
       j # k => ideias[j].num # ideias[k].num
  /\ \A k \in DOMAIN ideias : ideias[k].id < Cardinality(Usados)

\* Creations: of a post, with its identifier taken, and all that hold a post.
Novos == {"publicado", "criar"}
Posse == {"publicado", "criar", "publicacao"}

\* An identifier that was taken is not too large; while creations follow each other
\* it is greater than all, and identifiers name one idea.
Identificadores ==
  /\ aVez => seguidas
  /\ \A u \in Utilizadores :
       pedido[u].fase = "criar" => pedido[u].id >= 0 /\ pedido[u].id <= Cardinality(Usados)
  /\ seguidas =>
       /\ \A j, k \in DOMAIN ideias : j # k => ideias[j].id # ideias[k].id
       /\ \A u \in Utilizadores :
            pedido[u].fase = "criar" =>
              /\ \A k \in DOMAIN ideias : ideias[k].id < pedido[u].id
              /\ \A v \in Utilizadores \ {u} : pedido[v].fase # "criar"

Conhece == {"pagina", "lida", "formulario", "apagar", "publicacao"}

\* A number is new until its idea exists; the page only knows numbers in use.
Pedidos ==
  /\ \A u \in Utilizadores :
       pedido[u].fase \in Novos =>
         /\ pedido[u].num \in 1..criadas /\ pedido[u].num \notin Usados
         /\ \A v \in Utilizadores \ {u} :
              pedido[v].fase \in Novos => pedido[v].num # pedido[u].num
  /\ \A u \in Utilizadores : pedido[u].fase \in Conhece => pedido[u].num \in Usados

\* Until the first deletion an identifier is a position, if creations follow each
\* other.
Posicoes ==
  apagadas = <<>> =>
    /\ seguidas => /\ \A k \in DOMAIN ideias : ideias[k].id = k - 1
                   /\ \A u \in Utilizadores :
                        pedido[u].fase = "criar" => DOMAIN ideias = 1..pedido[u].id
    /\ \A u \in Utilizadores :
         pedido[u].fase = "apagar" =>
           \E k \in DOMAIN ideias : ideias[k].num = pedido[u].num /\ pedido[u].id = k - 1

\* While requests take turns the fields of the page are those of the request.
Turnos ==
  aVez =>
    /\ \A u, v \in Utilizadores : EmCurso(u) /\ EmCurso(v) => u = v
    /\ \A u \in Utilizadores :
         /\ pedido[u].fase = "pagina" =>
              \E k \in DOMAIN ideias :
                ideias[k].num = pedido[u].num /\ ideias[k].id = pagina.id
         /\ pedido[u].fase = "lida" => pagina.num = pedido[u].num

\* The post of a number has that number; a request takes the post of an idea that
\* was deleted, and knows it.
Publicacoes ==
  /\ \A k \in DOMAIN ideias : ideias[k].post \in {0, ideias[k].num}
  /\ \A u \in Utilizadores :
       /\ pedido[u].fase \in Novos \cup {"apagar"} => pedido[u].post \in {0, pedido[u].num}
       /\ pedido[u].fase = "apagar" =>
            \A k \in DOMAIN ideias :
              ideias[k].num = pedido[u].num => pedido[u].post = ideias[k].post
       /\ pedido[u].fase = "publicacao" => pedido[u].post = pedido[u].num
       /\ Certas => /\ pedido[u].fase \in Novos => pedido[u].post \in posts \cup {0}
                    /\ pedido[u].fase = "publicacao" => Ida(pedido[u].num)

\* While no request lost its post, a post has an idea, or a request that will create
\* it or remove the post.
Cobertura ==
  completas /\ Certas =>
    \A p \in posts :
      \/ \E k \in DOMAIN ideias : ideias[k].post = p
      \/ \E u \in Utilizadores : pedido[u].fase \in Posse /\ pedido[u].post = p

IInv ==
  /\ Tipos /\ Contagem /\ Identificadores /\ Pedidos /\ Posicoes /\ Turnos
  /\ Publicacoes /\ Cobertura
  /\ ApagaAPedida /\ MostraAPedida /\ PublicacaoFica

-----------------------------------------------------------------------------
(* Extremes of sets of numbers, and a list without one element. *)

\* The least-number principle, for sets.
LEMMA MenorElemento ==
  ASSUME NEW T \in SUBSET Nat, T # {}
  PROVE  \E n \in T : \A m \in T : n <= m
<1>. DEFINE R == OpToRel(<, Nat)
<1>1. IsWellFoundedOn(R, Nat)
  BY NatLessThanWellFounded, Zenon
<1>2. R = {ss \in Nat \X Nat : ss[1] < ss[2]}
  BY Zenon DEF OpToRel
<1>. HIDE DEF R
<1>3. PICK x \in T : \A y \in T : <<y, x>> \notin R
  BY <1>1, WFMin
<1>4. \A y \in T : ~(y < x)
  BY <1>2, <1>3
<1>. QED BY <1>4

\* Min is the least number of a set that has one.
LEMMA MinimoDe ==
  ASSUME NEW S \in SUBSET Nat, S # {}
  PROVE  Min(S) \in S /\ \A n \in S : Min(S) <= n
<1>1. \E n \in S : \A m \in S : n <= m
  BY MenorElemento
<1>. QED BY <1>1 DEF Min

\* Max is the greatest number of a bounded set that has one.
LEMMA MaximoDe ==
  ASSUME NEW b \in Nat, NEW S \in SUBSET (-1..b), S # {}
  PROVE  Max(S) \in S /\ \A n \in S : Max(S) >= n
<1>. DEFINE T == {b - n : n \in S}
<1>1. T \in SUBSET Nat /\ T # {}
  <2>1. \A n \in S : b - n \in Nat
    OBVIOUS
  <2>. QED BY <2>1
<1>2. PICK x \in T : \A y \in T : x <= y
  BY <1>1, MenorElemento
<1>3. PICK n \in S : x = b - n
  BY <1>2
<1>4. ASSUME NEW m \in S PROVE n >= m
  <2>1. b - n <= b - m
    BY <1>2, <1>3
  <2>. QED BY <2>1
<1>. QED BY <1>4 DEF Max

\* Deleting one element of a list moves the later ones down by one.
LEMMA RemoveAtLista ==
  ASSUME NEW S, NEW s \in Seq(S), NEW i \in 1..Len(s)
  PROVE  /\ RemoveAt(s, i) \in Seq(S)
         /\ Len(RemoveAt(s, i)) = Len(s) - 1
         /\ \A j \in 1..(Len(s) - 1) :
              RemoveAt(s, i)[j] = IF j < i THEN s[j] ELSE s[j + 1]
<1>. DEFINE a == SubSeq(s, 1, i - 1)
            b == SubSeq(s, i + 1, Len(s))
<1>1. /\ a \in Seq(S) /\ Len(a) = i - 1
      /\ \A j \in 1..(i - 1) : a[j] = s[j]
  OBVIOUS
<1>2. /\ b \in Seq(S) /\ Len(b) = Len(s) - i
      /\ \A j \in 1..(Len(s) - i) : b[j] = s[i + j]
  OBVIOUS
<1>. HIDE DEF a, b
<1>3. /\ a \o b \in Seq(S) /\ Len(a \o b) = Len(a) + Len(b)
      /\ \A j \in 1..(Len(a) + Len(b)) :
           (a \o b)[j] = IF j <= Len(a) THEN a[j] ELSE b[j - Len(a)]
  BY <1>1, <1>2, ConcatProperties
<1>4. RemoveAt(s, i) = a \o b
  BY DEF RemoveAt, a, b
<1>5. Len(a) + Len(b) = Len(s) - 1
  BY <1>1, <1>2
<1>6. ASSUME NEW j \in 1..(Len(s) - 1)
      PROVE  (a \o b)[j] = IF j < i THEN s[j] ELSE s[j + 1]
  <2>1. CASE j < i
    BY <1>1, <1>3, <1>5, <2>1
  <2>2. CASE ~(j < i)
    <3>1. (a \o b)[j] = b[j - (i - 1)]
      BY <1>1, <1>3, <1>5, <2>2
    <3>2. j - (i - 1) \in 1..(Len(s) - i) /\ i + (j - (i - 1)) = j + 1
      BY <2>2
    <3>. QED BY <1>2, <2>2, <3>1, <3>2
  <2>. QED BY <2>1, <2>2
<1>. QED BY <1>3, <1>4, <1>5, <1>6

\* The elements of the list are ideas, and their fields have their types.
LEMMA IdeiaTipo ==
  ASSUME Tipos
  PROVE  /\ MaxIdeias \in Nat /\ Len(ideias) \in Nat /\ DOMAIN ideias = 1..Len(ideias)
         /\ \A k \in DOMAIN ideias :
              /\ ideias[k] \in Ideia /\ ideias[k].num \in Numeros
              /\ ideias[k].num \in 0..MaxIdeias /\ ideias[k].id \in 0..MaxIdeias
              /\ ideias[k].id \in -1..MaxIdeias
              /\ ideias[k].post \in 0..MaxIdeias /\ ideias[k].dono \in Utilizadores
<1>1. MaxIdeias \in Nat /\ ideias \in [1..Len(ideias) -> Ideia] /\ Len(ideias) \in Nat
  BY ConstantesAssumption, LenProperties DEF Tipos
<1>2. \A i \in Ideia : /\ i.num \in Numeros /\ i.id \in 0..MaxIdeias
                       /\ i.post \in 0..MaxIdeias /\ i.dono \in Utilizadores
  BY DEF Ideia
<1>. QED BY <1>1, <1>2 DEF Numeros

\* The next identifier is greater than all, and one more than the greatest.
LEMMA ProximoId ==
  ASSUME Tipos
  PROVE  /\ geraridideia \in Nat
         /\ \A k \in DOMAIN ideias : ideias[k].id < geraridideia
         /\ geraridideia = 0 \/ \E k \in DOMAIN ideias : geraridideia = ideias[k].id + 1
<1>. DEFINE S == Ids \cup {-1}
<1>1. MaxIdeias \in Nat /\ ideias \in [1..Len(ideias) -> Ideia]
  BY ConstantesAssumption, LenProperties DEF Tipos
<1>2. S \in SUBSET (-1..MaxIdeias) /\ S # {}
  BY <1>1 DEF Ids, Ideia
<1>3. Max(S) \in S /\ \A n \in S : Max(S) >= n
  BY <1>1, <1>2, MaximoDe
<1>4. /\ geraridideia = Max(S) + 1
      /\ \A k \in DOMAIN ideias : ideias[k].id \in S /\ ideias[k].id \in Nat
      /\ \A n \in S : n = -1 \/ \E k \in DOMAIN ideias : n = ideias[k].id
  BY <1>1 DEF geraridideia, Ids, Ideia
<1>5. Max(S) \in -1..MaxIdeias
  BY <1>2, <1>3
<1>. HIDE DEF S
<1>6. \A k \in DOMAIN ideias : ideias[k].id < geraridideia
  BY <1>3, <1>4, <1>5
<1>7. geraridideia = 0 \/ \E k \in DOMAIN ideias : geraridideia = ideias[k].id + 1
  BY <1>3, <1>4, <1>5
<1>. QED BY <1>4, <1>5, <1>6, <1>7

\* The numbers up to n are n.
LEMMA Intervalo ==
  ASSUME NEW n \in Nat
  PROVE  IsFiniteSet(1..n) /\ Cardinality(1..n) = n
  BY FS_Interval

\* The numbers in use are finitely many.
LEMMA UsadosFinito ==
  ASSUME Tipos, Contagem
  PROVE  /\ IsFiniteSet(Usados) /\ Usados \subseteq 1..criadas
         /\ Cardinality(Usados) \in Nat /\ Cardinality(Usados) <= criadas
<1>1. criadas \in Nat /\ MaxIdeias \in Nat
  BY ConstantesAssumption DEF Tipos
<1>2. Usados \subseteq 1..criadas
  BY <1>1 DEF Contagem, Usados, Numeros
<1>3. IsFiniteSet(1..criadas) /\ Cardinality(1..criadas) = criadas
  BY <1>1, Intervalo
<1>. QED BY <1>1, <1>2, <1>3, FS_Subset, FS_CardinalityType

\* Every idea of the list has a number of its own.
LEMMA PoucasIdeias ==
  ASSUME Tipos, Contagem
  PROVE  Len(ideias) <= MaxIdeias
<1>. DEFINE f == [k \in 1..Len(ideias) |-> ideias[k].num]
<1>1. /\ MaxIdeias \in Nat /\ Len(ideias) \in Nat /\ DOMAIN ideias = 1..Len(ideias)
      /\ \A k \in 1..Len(ideias) : ideias[k].num \in Numeros
  BY IdeiaTipo
<1>2. f \in [1..Len(ideias) -> Numeros]
  BY <1>1
<1>3. \A j, k \in 1..Len(ideias) : f[j] = f[k] => j = k
  BY <1>1 DEF Contagem
<1>. HIDE DEF f
<1>4. f \in Injection(1..Len(ideias), Numeros)
  BY <1>2, <1>3 DEF Injection, IsInjective
<1>5. /\ IsFiniteSet(Numeros) /\ Cardinality(Numeros) = MaxIdeias
      /\ Cardinality(1..Len(ideias)) = Len(ideias)
  BY <1>1, Intervalo DEF Numeros
<1>6. Cardinality(1..Len(ideias)) <= Cardinality(Numeros)
  BY <1>4, <1>5, FS_Injection
<1>. QED BY <1>5, <1>6

-----------------------------------------------------------------------------
(* Steps that create no idea and delete none. *)

\* The ideas stay, except for their owners.
MesmasIdeias ==
  /\ DOMAIN ideias' = DOMAIN ideias /\ UNCHANGED <<apagadas, criadas>>
  /\ \A k \in DOMAIN ideias :
       /\ ideias'[k].id = ideias[k].id /\ ideias'[k].num = ideias[k].num
       /\ ideias'[k].post = ideias[k].post

\* What is said of numbers and deletions stays with them.
LEMMA Quadro ==
  ASSUME MesmasIdeias
  PROVE  /\ \A n : (Viva(n)' <=> Viva(n)) /\ (Ida(n)' <=> Ida(n))
         /\ Usados' = Usados /\ (Certas' <=> Certas)
         /\ Contagem => Contagem'
         /\ (seguidas' => seguidas) /\ ApagaAPedida => ApagaAPedida'
<1>1. \A n : (Viva(n)' <=> Viva(n)) /\ (Ida(n)' <=> Ida(n))
  BY DEF MesmasIdeias, Viva, Ida
<1>2. Usados' = Usados
  BY <1>1 DEF Usados
<1>3. /\ Certas' <=> Certas
      /\ (seguidas' => seguidas) /\ ApagaAPedida => ApagaAPedida'
  BY DEF MesmasIdeias, Certas, Certa, ApagaAPedida
<1>4. Contagem => Contagem'
  BY <1>1, <1>2 DEF MesmasIdeias, Contagem
<1>. QED BY <1>1, <1>2, <1>3, <1>4

\* A step of one user that leaves ideas and posts: what has to be seen of its
\* request in each phase.
LEMMA PassoDePagina ==
  ASSUME IInv, MesmasIdeias, ideias' \in Seq(Ideia),
         NEW u \in Utilizadores, NEW p \in Pedido, Passar(u, p),
         pagina' \in Pagina, aVez' \in BOOLEAN, aVez' => aVez,
         UNCHANGED <<saldo, posts, seguidas, completas>>,
         p.fase \notin Posse, pedido[u].fase \notin Posse,
         p.fase \in Conhece => p.num \in Usados,
         p.fase = "apagar" =>
           /\ p.post \in {0, p.num}
           /\ \A k \in DOMAIN ideias : ideias[k].num = p.num => p.post = ideias[k].post
           /\ apagadas = <<>> =>
                \E k \in DOMAIN ideias : ideias[k].num = p.num /\ p.id = k - 1,
         aVez' => /\ p.fase \notin {"livre", "formulario"} =>
                       \A v \in Utilizadores \ {u} : ~EmCurso(v)
                  /\ p.fase = "pagina" =>
                       \E k \in DOMAIN ideias : ideias[k].num = p.num /\ ideias[k].id = pagina'.id
                  /\ p.fase = "lida" => pagina'.num = p.num
                  /\ p.fase = "formulario" => p.vista = p.num
                  /\ \A v \in Utilizadores \ {u} : EmCurso(v) => pagina' = pagina
  PROVE  IInv'
<1>1. /\ pedido' = [pedido EXCEPT ![u] = p] /\ pedido \in [Utilizadores -> Pedido]
      /\ pedido' \in [Utilizadores -> Pedido] /\ pedido'[u] = p
      /\ \A v \in Utilizadores \ {u} : pedido'[v] = pedido[v]
  BY DEF Passar, IInv, Tipos
<1>2. Tipos'
  BY <1>1 DEF IInv, Tipos, MesmasIdeias
<1>3. Contagem' /\ ApagaAPedida'
  BY Quadro DEF IInv
<1>4. Pedidos' /\ Identificadores'
  <2>1. \A v \in Utilizadores : pedido'[v].fase \in Posse => v # u
    BY <1>1
  <2>2. Pedidos'
    BY <1>1, <2>1, Quadro DEF IInv, Pedidos, Conhece, Novos, Posse, MesmasIdeias
  <2>3. Identificadores'
    BY <1>1, <2>1, Quadro DEF IInv, Identificadores, Posse, MesmasIdeias
  <2>. QED BY <2>2, <2>3
<1>5. Posicoes'
  BY <1>1 DEF IInv, Posicoes, Posse, MesmasIdeias
<1>6. Turnos'
  <2>. SUFFICES ASSUME aVez' PROVE Turnos'
    BY DEF Turnos
  <2>1. \A v, w \in Utilizadores : EmCurso(v)' /\ EmCurso(w)' => v = w
    BY <1>1 DEF IInv, Turnos, EmCurso
  <2>2. ASSUME NEW v \in Utilizadores, pedido'[v].fase = "pagina"
        PROVE  \E k \in DOMAIN ideias :
                 ideias[k].num = pedido'[v].num /\ ideias[k].id = pagina'.id
    BY <1>1, <2>2 DEF IInv, Turnos, EmCurso
  <2>3. ASSUME NEW v \in Utilizadores, pedido'[v].fase = "lida"
        PROVE  pagina'.num = pedido'[v].num
    BY <1>1, <2>3 DEF IInv, Turnos, EmCurso
  <2>. QED BY <2>1, <2>2, <2>3 DEF Turnos, MesmasIdeias
<1>7. Publicacoes'
  BY <1>1, Quadro DEF IInv, Publicacoes, Novos, Posse, MesmasIdeias
<1>8. Cobertura'
  BY <1>1, Quadro DEF IInv, Cobertura, MesmasIdeias
<1>9. MostraAPedida'
  BY <1>1 DEF IInv, MostraAPedida
<1>10. PublicacaoFica'
  BY Quadro DEF IInv, PublicacaoFica, MesmasIdeias
<1>. QED BY <1>2, <1>3, <1>4, <1>5, <1>6, <1>7, <1>8, <1>9, <1>10 DEF IInv

\* No request is a request.
LEMMA SemPedidoTipo == SemPedido \in Pedido /\ SemPedido.fase = "livre"
  BY ConstantesAssumption DEF SemPedido, Pedido, Fases

\* A purchase changes an owner, and may end the turns.
LEMMA MantemComprar ==
  ASSUME IInv, NEW u \in Utilizadores, NEW k \in DOMAIN ideias, Comprar(u, k)
  PROVE  IInv'
<1>1. /\ ideias' = [ideias EXCEPT ![k].dono = u] /\ ideias \in Seq(Ideia)
      /\ UNCHANGED <<saldo, posts, pagina, pedido, criadas, apagadas, seguidas, completas>>
      /\ aVez' \in BOOLEAN /\ (aVez' => aVez)
  BY DEF Comprar, Comecar, IInv, Tipos
<1>2. ideias[k] \in Ideia /\ [ideias[k] EXCEPT !.dono = u] \in Ideia
  <2>1. ideias[k] \in Ideia
    BY IdeiaTipo DEF IInv
  <2>. QED BY <2>1 DEF Ideia
<1>3. MesmasIdeias
  BY <1>1, <1>2 DEF MesmasIdeias, Ideia
<1>4. ideias' \in Seq(Ideia)
  BY <1>1, <1>2, ExceptSeq
<1>5. Tipos'
  BY <1>1, <1>4 DEF IInv, Tipos
<1>6. Contagem' /\ ApagaAPedida'
  BY <1>1, <1>3, Quadro DEF IInv
<1>7. Pedidos' /\ Posicoes' /\ Identificadores'
  BY <1>1, <1>3, Quadro DEF IInv, Pedidos, Posicoes, Identificadores, MesmasIdeias
<1>8. Turnos' /\ MostraAPedida'
  BY <1>1, <1>3 DEF IInv, Turnos, EmCurso, MostraAPedida, MesmasIdeias
<1>9. Publicacoes' /\ Cobertura' /\ PublicacaoFica'
  BY <1>1, <1>3, Quadro DEF IInv, Publicacoes, Cobertura, PublicacaoFica, MesmasIdeias
<1>. QED BY <1>5, <1>6, <1>7, <1>8, <1>9 DEF IInv

\* The page opens with the identifier and the number of one idea.
LEMMA MantemAbrir ==
  ASSUME IInv, NEW u \in Utilizadores, NEW k \in DOMAIN ideias, AbrirPagina(u, k)
  PROVE  IInv'
<1>. DEFINE p == [SemPedido EXCEPT !.fase = "pagina", !.num = ideias[k].num]
<1>1. /\ pedido[u].fase = "livre" /\ Comecar(u) /\ Passar(u, p)
      /\ pagina' = [pagina EXCEPT !.id = ideias[k].id]
      /\ UNCHANGED <<ideias, saldo, posts, criadas, apagadas, seguidas, completas>>
  BY DEF AbrirPagina
<1>2. /\ ideias \in Seq(Ideia) /\ pagina \in Pagina /\ aVez \in BOOLEAN
      /\ ideias[k].num \in Numeros /\ ideias[k].num \in 0..MaxIdeias
      /\ ideias[k].id \in -1..MaxIdeias /\ ideias[k].dono \in Utilizadores
  BY IdeiaTipo DEF IInv, Tipos
<1>3. p \in Pedido /\ p.fase = "pagina" /\ p.num = ideias[k].num
  BY <1>2, SemPedidoTipo DEF Pedido, Fases, SemPedido
<1>4. pagina' \in Pagina /\ pagina'.id = ideias[k].id
  BY <1>1, <1>2 DEF Pagina
<1>5. ideias[k].num \in Usados
  BY <1>2 DEF Usados, Viva
<1>6. MesmasIdeias /\ ideias' \in Seq(Ideia)
  BY <1>1, <1>2 DEF MesmasIdeias
<1>7. /\ aVez' \in BOOLEAN /\ (aVez' => aVez)
      /\ aVez' => \A v \in Utilizadores \ {u} : ~EmCurso(v)
  BY <1>1, <1>2 DEF Comecar
<1>. HIDE DEF p
<1>. QED BY <1>1, <1>3, <1>4, <1>5, <1>6, <1>7, PassoDePagina DEF Posse

\* The fields take the idea whose identifier they hold: the one of the request, if
\* requests take turns.
LEMMA MantemLer ==
  ASSUME IInv, NEW u \in Utilizadores, LerIdeia(u)
  PROVE  IInv'
<1>1. /\ pedido[u].fase = "pagina"
      /\ UNCHANGED <<ideias, saldo, posts, criadas, apagadas, aVez, seguidas, completas>>
  BY DEF LerIdeia
<1>2. /\ ideias \in Seq(Ideia) /\ pagina \in Pagina /\ aVez \in BOOLEAN
      /\ pedido[u] \in Pedido /\ pedido[u].num \in Usados
  BY <1>1 DEF IInv, Tipos, Pedidos, Conhece
<1>3. MesmasIdeias /\ ideias' \in Seq(Ideia)
  BY <1>1, <1>2 DEF MesmasIdeias
<1>4. aVez => \A v \in Utilizadores \ {u} : ~EmCurso(v)
  BY <1>1 DEF IInv, Turnos, EmCurso
<1>5. CASE pagina.id \in Ids
  <2>1. PICK k \in DOMAIN ideias :
          /\ ideias[k].id = pagina.id
          /\ pagina' = [pagina EXCEPT !.num = ideias[k].num, !.lida = pagina.id,
                                      !.dono = ideias[k].dono]
          /\ Passar(u, [pedido[u] EXCEPT !.fase = "lida"])
    BY <1>5 DEF LerIdeia
  <2>. DEFINE p == [pedido[u] EXCEPT !.fase = "lida"]
  <2>2. p \in Pedido /\ p.fase = "lida" /\ p.num = pedido[u].num
    BY <1>2 DEF Pedido, Pagina, Fases
  <2>3. ideias[k].num \in 0..MaxIdeias /\ ideias[k].dono \in Utilizadores
    BY IdeiaTipo DEF IInv
  <2>4. pagina' \in Pagina /\ pagina'.num = ideias[k].num
    BY <1>2, <2>1, <2>3 DEF Pagina
  <2>5. aVez => ideias[k].num = pedido[u].num
    BY <1>1, <2>1 DEF IInv, Turnos, Identificadores
  <2>. HIDE DEF p
  <2>6. Passar(u, p)
    BY <2>1 DEF p
  <2>. QED BY <1>1, <1>2, <1>3, <1>4, <2>2, <2>4, <2>5, <2>6, PassoDePagina DEF Posse
<1>6. CASE pagina.id \notin Ids
  <2>1. Passar(u, SemPedido) /\ pagina' = pagina
    BY <1>6 DEF LerIdeia
  <2>. QED BY <1>1, <1>2, <1>3, <2>1, SemPedidoTipo, PassoDePagina DEF Conhece, Posse
<1>. QED BY <1>5, <1>6

\* The form shows what the field holds.
LEMMA MantemMostrar ==
  ASSUME IInv, NEW u \in Utilizadores, MostrarFormulario(u)
  PROVE  IInv'
<1>1. /\ pedido[u].fase = "lida"
      /\ UNCHANGED <<ideias, saldo, posts, pagina, criadas, apagadas, aVez, seguidas, completas>>
  BY DEF MostrarFormulario
<1>2. /\ ideias \in Seq(Ideia) /\ pagina \in Pagina /\ aVez \in BOOLEAN
      /\ pedido[u] \in Pedido /\ pedido[u].num \in Usados
      /\ aVez => pagina.num = pedido[u].num
  BY <1>1 DEF IInv, Tipos, Pedidos, Conhece, Turnos
<1>3. MesmasIdeias /\ ideias' \in Seq(Ideia)
  BY <1>1, <1>2 DEF MesmasIdeias
<1>. DEFINE p == [pedido[u] EXCEPT !.fase = "formulario", !.id = pagina.lida,
                                   !.vista = pagina.num]
<1>4. p \in Pedido /\ p.fase = "formulario" /\ p.num = pedido[u].num /\ p.vista = pagina.num
  BY <1>2 DEF Pedido, Pagina, Fases
<1>5. Passar(u, p) \/ Passar(u, SemPedido)
  BY DEF MostrarFormulario
<1>. HIDE DEF p
<1>6. CASE Passar(u, p)
  BY <1>1, <1>2, <1>3, <1>4, <1>6, PassoDePagina DEF Posse
<1>7. CASE Passar(u, SemPedido)
  BY <1>1, <1>2, <1>3, <1>7, SemPedidoTipo, PassoDePagina DEF Conhece, Posse
<1>. QED BY <1>5, <1>6, <1>7

\* A form that is left is forgotten.
LEMMA MantemDesistir ==
  ASSUME IInv, NEW u \in Utilizadores, Desistir(u)
  PROVE  IInv'
<1>1. /\ pedido[u].fase = "formulario" /\ Passar(u, SemPedido)
      /\ UNCHANGED <<ideias, saldo, posts, pagina, criadas, apagadas, aVez, seguidas, completas>>
  BY DEF Desistir
<1>2. ideias \in Seq(Ideia) /\ pagina \in Pagina /\ aVez \in BOOLEAN
  BY DEF IInv, Tipos
<1>3. MesmasIdeias /\ ideias' \in Seq(Ideia)
  BY <1>1, <1>2 DEF MesmasIdeias
<1>. QED BY <1>1, <1>2, <1>3, SemPedidoTipo, PassoDePagina DEF Conhece, Posse

\* The bean looks for the number: the position where it is, and its post.
LEMMA ProcuraPosicao ==
  ASSUME IInv, NEW n \in Usados
  PROVE  /\ PosicaoDe(n) \in 0..MaxIdeias /\ PostDe(n) \in {0, n}
         /\ \A k \in DOMAIN ideias :
              ideias[k].num = n => PostDe(n) = ideias[k].post /\ PosicaoDe(n) = k - 1
<1>. DEFINE S == {k \in DOMAIN ideias : ideias[k].num = n}
<1>1. /\ ideias \in Seq(Ideia) /\ DOMAIN ideias = 1..Len(ideias) /\ Len(ideias) \in Nat
      /\ MaxIdeias \in Nat /\ n \in Nat
  BY ConstantesAssumption, LenProperties DEF IInv, Tipos, Usados, Numeros
<1>2. CASE S = {}
  BY <1>1, <1>2 DEF PosicaoDe, PostDe
<1>3. CASE S # {}
  <2>1. S \in SUBSET Nat
    BY <1>1
  <2>2. Min(S) \in S
    BY <1>3, <2>1, MinimoDe
  <2>3. PosicaoDe(n) = Min(S) - 1 /\ PostDe(n) = ideias[Min(S)].post
    BY <1>3 DEF PosicaoDe, PostDe
  <2>4. \A k \in S : k = Min(S)
    BY <2>2 DEF IInv, Contagem
  <2>5. Min(S) \in 1..Len(ideias) /\ ideias[Min(S)].num = n
    BY <1>1, <2>2
  <2>6. PostDe(n) \in {0, n}
    BY <1>1, <2>3, <2>5 DEF IInv, Publicacoes
  <2>7. Len(ideias) <= MaxIdeias
    BY PoucasIdeias DEF IInv
  <2>. QED BY <1>1, <2>3, <2>4, <2>5, <2>6, <2>7
<1>. QED BY <1>2, <1>3

\* A confirmation ends in a position and a post, those of the idea if it exists.
LEMMA MantemConfirmar ==
  ASSUME IInv, NEW u \in Utilizadores, Confirmar(u)
  PROVE  IInv'
<1>1. /\ pedido[u].fase = "formulario" /\ Comecar(u)
      /\ UNCHANGED <<ideias, saldo, posts, pagina, criadas, apagadas, seguidas, completas>>
  BY DEF Confirmar
<1>. DEFINE n == pedido[u].num
<1>2. /\ ideias \in Seq(Ideia) /\ pagina \in Pagina /\ aVez \in BOOLEAN
      /\ pedido[u] \in Pedido /\ n \in Usados /\ n \in Numeros
  BY <1>1 DEF IInv, Tipos, Pedidos, Conhece, Usados
<1>3. MesmasIdeias /\ ideias' \in Seq(Ideia)
  BY <1>1, <1>2 DEF MesmasIdeias
<1>4. /\ aVez' \in BOOLEAN /\ (aVez' => aVez)
      /\ aVez' => \A v \in Utilizadores \ {u} : ~EmCurso(v)
  BY <1>1, <1>2 DEF Comecar
<1>. DEFINE p == [SemPedido EXCEPT !.fase = "apagar", !.num = n, !.id = PosicaoDe(n),
                                   !.post = PostDe(n)]
<1>5. Passar(u, p) \/ Passar(u, SemPedido)
  BY DEF Confirmar
<1>6. /\ PosicaoDe(n) \in 0..MaxIdeias /\ PostDe(n) \in {0, n}
      /\ \A k \in DOMAIN ideias :
           ideias[k].num = n => PostDe(n) = ideias[k].post /\ PosicaoDe(n) = k - 1
  BY <1>2, ProcuraPosicao
<1>7. PosicaoDe(n) \in -1..MaxIdeias /\ PostDe(n) \in 0..MaxIdeias
  BY <1>2, <1>6, ConstantesAssumption DEF Numeros
<1>8. /\ p \in Pedido /\ p.fase = "apagar" /\ p.num = n
      /\ p.id = PosicaoDe(n) /\ p.post = PostDe(n)
  <2>1. n \in 0..MaxIdeias /\ 0 \in 0..MaxIdeias
    BY <1>2, ConstantesAssumption DEF Numeros
  <2>. HIDE DEF n
  <2>. QED BY <1>7, <2>1 DEF Pedido, Fases, SemPedido
<1>9. apagadas = <<>> => \E k \in DOMAIN ideias : ideias[k].num = n
  BY <1>2 DEF Usados, Viva, Ida
<1>. HIDE DEF p, n
<1>10. CASE Passar(u, p)
  BY <1>1, <1>2, <1>3, <1>4, <1>6, <1>8, <1>9, <1>10, PassoDePagina DEF Posse
<1>11. CASE Passar(u, SemPedido)
  BY <1>1, <1>2, <1>3, <1>4, <1>11, SemPedidoTipo, PassoDePagina DEF Conhece, Posse
<1>. QED BY <1>5, <1>10, <1>11

-----------------------------------------------------------------------------
(* Steps that change posts, numbers or the list. *)

\* A request that ends without creating or removing may lose its post.
LEMMA PedidoPerdido ==
  ASSUME IInv, NEW u \in Utilizadores, Passar(u, SemPedido),
         UNCHANGED <<ideias, saldo, posts, pagina, criadas, apagadas, aVez, seguidas>>,
         completas' \in BOOLEAN, completas' => completas,
         completas' /\ pedido[u].fase \in Posse => pedido[u].post = 0
  PROVE  IInv'
<1>1. /\ pedido' \in [Utilizadores -> Pedido] /\ pedido'[u] = SemPedido
      /\ \A v \in Utilizadores \ {u} : pedido'[v] = pedido[v]
      /\ SemPedido.fase = "livre"
  BY SemPedidoTipo DEF Passar, IInv, Tipos
<1>2. MesmasIdeias
  BY DEF MesmasIdeias
<1>3. Tipos' /\ Contagem' /\ ApagaAPedida'
  BY <1>1, <1>2, Quadro DEF IInv, Tipos, ApagaAPedida
<1>4. Pedidos' /\ Identificadores'
  BY <1>1, <1>2, Quadro DEF IInv, Pedidos, Identificadores, Conhece, Novos
<1>5. Posicoes' /\ Turnos' /\ MostraAPedida'
  BY <1>1 DEF IInv, Posicoes, Turnos, EmCurso, MostraAPedida
<1>6. Publicacoes' /\ PublicacaoFica'
  BY <1>1, <1>2, Quadro DEF IInv, Publicacoes, Novos, PublicacaoFica
<1>7. Cobertura'
  <2>. SUFFICES ASSUME completas', Certas, NEW q \in posts
       PROVE  \/ \E k \in DOMAIN ideias : ideias[k].post = q
              \/ \E v \in Utilizadores : pedido'[v].fase \in Posse /\ pedido'[v].post = q
    BY <1>2, Quadro DEF Cobertura
  <2>1. q # 0
    <3>1. q \in 1..criadas
      BY DEF IInv, Tipos
    <3>. QED BY <3>1
  <2>2. \/ \E k \in DOMAIN ideias : ideias[k].post = q
        \/ \E v \in Utilizadores : pedido[v].fase \in Posse /\ pedido[v].post = q
    BY DEF IInv, Cobertura
  <2>3. CASE \E v \in Utilizadores : pedido[v].fase \in Posse /\ pedido[v].post = q
    BY <1>1, <2>1, <2>3
  <2>. QED BY <2>2, <2>3
<1>. QED BY <1>3, <1>4, <1>5, <1>6, <1>7 DEF IInv

\* A request only removes the post of an idea that was deleted, or leaves it.
LEMMA MantemRetirar ==
  ASSUME IInv, NEW u \in Utilizadores, RetirarPublicacao(u)
  PROVE  IInv'
<1>. DEFINE n == pedido[u].post
<1>1. /\ pedido[u].fase = "publicacao" /\ Passar(u, SemPedido)
      /\ UNCHANGED <<ideias, saldo, pagina, criadas, apagadas, aVez, seguidas>>
      /\ \/ posts' = posts \ {n} /\ completas' = completas
         \/ posts' = posts /\ completas' = FALSE
  BY DEF RetirarPublicacao, IInv, Tipos
<1>2. /\ pedido' \in [Utilizadores -> Pedido] /\ pedido'[u] = SemPedido
      /\ \A v \in Utilizadores \ {u} : pedido'[v] = pedido[v]
  BY SemPedidoTipo DEF RetirarPublicacao, Passar, IInv, Tipos
<1>3. SemPedido.fase = "livre"
  BY SemPedidoTipo
<1>4. /\ n = pedido[u].num /\ n \in Usados /\ n \in Numeros /\ n # 0
      /\ Certas => Ida(n) /\ ~Viva(n)
  BY <1>1 DEF IInv, Publicacoes, Pedidos, Contagem, Conhece, Usados, Numeros
<1>. HIDE DEF n
<1>5. MesmasIdeias
  BY <1>1 DEF MesmasIdeias
<1>6. CASE posts' = posts /\ completas' = FALSE
  BY <1>1, <1>6, PedidoPerdido
<1>7. CASE posts' = posts \ {n} /\ completas' = completas
  <2>1. Tipos'
    BY <1>1, <1>2, <1>7 DEF IInv, Tipos
  <2>2. Contagem' /\ ApagaAPedida'
    BY <1>1, <1>5, Quadro DEF IInv, ApagaAPedida
  <2>3. Pedidos' /\ Identificadores'
    BY <1>1, <1>2, <1>3, <1>5, Quadro DEF IInv, Pedidos, Identificadores, Conhece, Novos
  <2>4. Posicoes' /\ Turnos' /\ MostraAPedida'
    BY <1>1, <1>2, <1>3 DEF IInv, Posicoes, Turnos, EmCurso, MostraAPedida
  <2>5. Certas => \A v \in Utilizadores :
          pedido'[v].fase \in Novos => pedido[v].post \in posts' \cup {0}
    BY <1>1, <1>2, <1>3, <1>4, <1>7 DEF IInv, Publicacoes, Pedidos, Novos
  <2>6. Publicacoes'
    BY <1>1, <1>2, <1>3, <1>5, <2>5, Quadro DEF IInv, Publicacoes, Novos
  <2>7. Cobertura'
    BY <1>1, <1>2, <1>5, <1>7, Quadro DEF IInv, Cobertura, n
  <2>8. PublicacaoFica'
    <3>. SUFFICES ASSUME Certas, NEW k \in DOMAIN ideias
         PROVE  ideias[k].post \in posts' \cup {0}
      BY <1>1, <1>5, Quadro DEF PublicacaoFica
    <3>1. ideias[k].num # n
      BY <1>4 DEF Viva
    <3>. QED BY <1>4, <1>7, <3>1 DEF IInv, Publicacoes, PublicacaoFica
  <2>. QED BY <2>1, <2>2, <2>3, <2>4, <2>6, <2>7, <2>8 DEF IInv
<1>. QED BY <1>1, <1>6, <1>7

\* The number of a new idea is greater than all numbers in use.
LEMMA MantemPublicar ==
  ASSUME IInv, NEW u \in Utilizadores, Publicar(u)
  PROVE  IInv'
<1>. DEFINE n == criadas + 1
<1>1. /\ pedido[u].fase = "livre" /\ Comecar(u) /\ n \in Numeros /\ n # 0
      /\ criadas' = n /\ criadas \in Nat /\ MaxIdeias \in Nat /\ n > criadas
      /\ n \in Nat /\ n \in 1..n /\ \A m \in 1..criadas : m \in 1..n /\ m # n
      /\ UNCHANGED <<ideias, saldo, pagina, apagadas, seguidas>>
  BY ConstantesAssumption DEF Publicar, IInv, Tipos, Numeros
<1>2. PICK aceite \in BOOLEAN, lida \in BOOLEAN :
        /\ posts' = IF aceite THEN posts \cup {n} ELSE posts
        /\ completas' = (completas /\ (aceite => lida))
        /\ Passar(u, [SemPedido EXCEPT !.fase = "publicado", !.num = n,
                                       !.post = IF aceite /\ lida THEN n ELSE 0])
  BY DEF Publicar
<1>. DEFINE p == [SemPedido EXCEPT !.fase = "publicado", !.num = n,
                                   !.post = IF aceite /\ lida THEN n ELSE 0]
<1>3. n \in 0..MaxIdeias /\ 0 \in 0..MaxIdeias /\ -1 \in -1..MaxIdeias
  BY <1>1 DEF Numeros
<1>4. /\ p \in Pedido /\ p.fase = "publicado" /\ p.num = n
      /\ p.post = (IF aceite /\ lida THEN n ELSE 0) /\ p.post \in {0, n}
      /\ p.post \in posts' \cup {0}
      /\ completas' => \A q \in posts' : q \in posts \/ q = p.post
  BY <1>2, <1>3 DEF Pedido, Fases, SemPedido
<1>5. /\ posts \subseteq posts' /\ posts' \subseteq 1..n
      /\ completas' \in BOOLEAN /\ (completas' => completas)
  BY <1>1, <1>2 DEF IInv, Tipos
<1>6. /\ pedido' \in [Utilizadores -> Pedido] /\ pedido'[u] = p
      /\ \A v \in Utilizadores \ {u} : pedido'[v] = pedido[v]
  BY <1>2, <1>4 DEF Passar, IInv, Tipos
<1>7. /\ aVez' \in BOOLEAN /\ (aVez' => aVez)
      /\ aVez' => \A v \in Utilizadores \ {u} : ~EmCurso(v)
  BY DEF Comecar, IInv, Tipos, Publicar
<1>. HIDE DEF p, n
<1>8. /\ \A m : (Viva(m)' <=> Viva(m)) /\ (Ida(m)' <=> Ida(m))
      /\ Usados' = Usados /\ (Certas' <=> Certas)
  BY <1>1 DEF Viva, Ida, Usados, Certas, Certa
<1>9. \A m \in Usados : m \in Nat /\ m <= criadas /\ m <= n /\ m # n
  BY <1>1 DEF IInv, Contagem, Usados, Numeros
<1>10. Tipos'
  BY <1>1, <1>3, <1>5, <1>6, <1>7 DEF IInv, Tipos
<1>11. Contagem' /\ ApagaAPedida'
  BY <1>1, <1>8, <1>9 DEF IInv, Contagem, ApagaAPedida, Certa
<1>12. Pedidos'
  <2>1. ASSUME NEW v \in Utilizadores \ {u}, pedido[v].fase \in Novos
        PROVE  pedido[v].num \in 1..n /\ pedido[v].num # n
    BY <1>1, <2>1 DEF IInv, Pedidos
  <2>. QED BY <1>1, <1>4, <1>6, <1>8, <1>9, <2>1 DEF IInv, Pedidos, Conhece, Novos
<1>13. Posicoes' /\ MostraAPedida' /\ Identificadores'
  BY <1>1, <1>4, <1>6, <1>7, <1>8 DEF IInv, Posicoes, MostraAPedida, Identificadores
<1>14. Turnos'
  BY <1>1, <1>4, <1>6, <1>7 DEF IInv, Turnos, EmCurso
<1>15. Publicacoes'
  <2>1. ASSUME NEW v \in Utilizadores \ {u}, Certas, pedido[v].fase \in Novos
        PROVE  pedido[v].post \in posts' \cup {0}
    BY <1>5, <2>1 DEF IInv, Publicacoes
  <2>. QED BY <1>1, <1>4, <1>6, <1>8, <2>1 DEF IInv, Publicacoes, Novos
<1>16. Cobertura' /\ PublicacaoFica'
  BY <1>1, <1>4, <1>5, <1>6, <1>8 DEF IInv, Cobertura, PublicacaoFica, Posse
<1>. QED BY <1>10, <1>11, <1>12, <1>13, <1>14, <1>15, <1>16 DEF IInv

\* While identifiers are positions, the next identifier is the number of ideas.
LEMMA ProximaPosicao ==
  ASSUME IInv, apagadas = <<>>, seguidas
  PROVE  DOMAIN ideias = 1..geraridideia
<1>. DEFINE g == geraridideia
<1>1. Len(ideias) \in Nat /\ DOMAIN ideias = 1..Len(ideias)
  BY IdeiaTipo DEF IInv
<1>2. /\ g \in Nat /\ \A k \in DOMAIN ideias : ideias[k].id < g
      /\ g = 0 \/ \E k \in DOMAIN ideias : g = ideias[k].id + 1
  BY ProximoId DEF IInv
<1>. HIDE DEF g
<1>3. \A k \in 1..Len(ideias) : ideias[k].id = k - 1 /\ k - 1 < g
  BY <1>1, <1>2 DEF IInv, Posicoes
<1>4. g = 0 \/ \E k \in 1..Len(ideias) : g = k
  BY <1>1, <1>2, <1>3
<1>5. g = Len(ideias)
  <2>1. CASE Len(ideias) = 0
    BY <1>4, <2>1
  <2>2. CASE Len(ideias) # 0
    <3>1. Len(ideias) \in 1..Len(ideias)
      BY <1>1, <2>2
    <3>2. Len(ideias) - 1 < g
      BY <1>3, <3>1
    <3>3. g # 0 /\ g >= Len(ideias)
      BY <1>1, <1>2, <3>1, <3>2
    <3>. QED BY <1>1, <1>4, <3>3
  <2>. QED BY <2>1, <2>2
<1>. QED BY <1>1, <1>5 DEF g

\* A creation that is paid takes an identifier that is not too large, greater than
\* all; one that is not paid, or fails, may lose its post.
LEMMA MantemPagar ==
  ASSUME IInv, NEW u \in Utilizadores, Pagar(u)
  PROVE  IInv'
<1>1. /\ pedido[u].fase = "publicado"
      /\ UNCHANGED <<ideias, posts, pagina, criadas, apagadas, aVez>>
  BY DEF Pagar
<1>2. CASE ~(saldo[u] > 0)
  <2>1. /\ Passar(u, SemPedido) /\ UNCHANGED <<saldo, seguidas>>
        /\ completas' = (completas /\ pedido[u].post = 0)
    BY <1>2 DEF Pagar
  <2>2. completas' \in BOOLEAN /\ (completas' => completas /\ pedido[u].post = 0)
    BY <2>1
  <2>. QED BY <1>1, <2>1, <2>2, PedidoPerdido
<1>3. CASE saldo[u] > 0
  <2>. DEFINE g == geraridideia
              n == pedido[u].num
              p == [pedido[u] EXCEPT !.fase = "criar", !.id = g]
  <2>1. /\ saldo' = [saldo EXCEPT ![u] = @ - 1] /\ completas' = completas /\ Passar(u, p)
        /\ seguidas' = (seguidas /\ \A v \in Utilizadores : pedido[v].fase # "criar")
    BY <1>3 DEF Pagar
  <2>2. /\ MaxIdeias \in Nat /\ criadas \in Nat /\ criadas <= MaxIdeias
        /\ n \in 1..criadas /\ n \notin Usados /\ pedido[u] \in Pedido
        /\ saldo \in [Utilizadores -> 0..Saldo] /\ seguidas \in BOOLEAN
    BY <1>1, ConstantesAssumption DEF IInv, Tipos, Pedidos, Novos
  <2>3. saldo' \in [Utilizadores -> 0..Saldo]
    <3>1. saldo[u] \in 0..Saldo /\ Saldo \in Nat
      BY <2>2, ConstantesAssumption
    <3>2. saldo[u] - 1 \in 0..Saldo
      BY <1>3, <3>1
    <3>. QED BY <2>1, <2>2, <3>2
  <2>4. /\ g \in Nat /\ \A k \in DOMAIN ideias : ideias[k].id < g
        /\ g = 0 \/ \E k \in DOMAIN ideias : g = ideias[k].id + 1
    BY ProximoId DEF IInv
  <2>5. /\ IsFiniteSet(Usados) /\ Cardinality(Usados) \in Nat
        /\ Cardinality(Usados \cup {n}) = Cardinality(Usados) + 1
    BY <2>2, UsadosFinito, FS_AddElement DEF IInv
  <2>6. g <= Cardinality(Usados)
    BY <2>4, <2>5, IdeiaTipo DEF IInv, Contagem
  <2>7. Cardinality(Usados \cup {n}) <= criadas
    <3>1. Usados \cup {n} \subseteq 1..criadas
      BY <2>2, UsadosFinito DEF IInv
    <3>2. IsFiniteSet(1..criadas) /\ Cardinality(1..criadas) = criadas
      BY <2>2, Intervalo
    <3>. QED BY <3>1, <3>2, FS_Subset
  <2>8. g \in -1..MaxIdeias
    BY <2>2, <2>4, <2>5, <2>6, <2>7
  <2>. HIDE DEF g
  <2>9. /\ p \in Pedido /\ p.fase = "criar" /\ p.id = g /\ p.num = n
        /\ p.post = pedido[u].post
    BY <2>2, <2>8 DEF Pedido, Fases
  <2>. HIDE DEF p, n
  <2>10. /\ pedido' \in [Utilizadores -> Pedido] /\ pedido'[u] = p
         /\ \A v \in Utilizadores \ {u} : pedido'[v] = pedido[v]
    BY <2>1, <2>9 DEF Passar, IInv, Tipos
  <2>11. MesmasIdeias
    BY <1>1 DEF MesmasIdeias
  <2>12. /\ seguidas' \in BOOLEAN /\ (seguidas' => seguidas)
         /\ seguidas' => \A v \in Utilizadores : pedido[v].fase # "criar"
    BY <2>1
  <2>13. Tipos'
    BY <1>1, <2>1, <2>3, <2>10, <2>12 DEF IInv, Tipos
  <2>14. Contagem' /\ ApagaAPedida'
    BY <2>11, <2>12, Quadro DEF IInv, ApagaAPedida
  <2>15. Pedidos'
    BY <1>1, <2>9, <2>10, <2>11, Quadro DEF IInv, Pedidos, Conhece, Novos, n
  <2>16. Identificadores'
    <3>1. aVez => seguidas'
      <4>1. aVez => \A v \in Utilizadores : v # u => ~EmCurso(v)
        BY <1>1 DEF IInv, Turnos, EmCurso
      <4>2. aVez => \A v \in Utilizadores : pedido[v].fase # "criar"
        BY <1>1, <4>1 DEF EmCurso
      <4>3. aVez => seguidas
        BY DEF IInv, Identificadores
      <4>. QED BY <2>1, <4>2, <4>3
    <3>2. ASSUME NEW v \in Utilizadores, pedido'[v].fase = "criar"
          PROVE  pedido'[v].id >= 0 /\ pedido'[v].id <= Cardinality(Usados)
      <4>1. CASE v = u
        BY <2>4, <2>6, <2>9, <2>10, <4>1
      <4>2. CASE v # u
        BY <2>10, <3>2, <4>2 DEF IInv, Identificadores
      <4>. QED BY <4>1, <4>2
    <3>3. ASSUME seguidas', NEW v \in Utilizadores, pedido'[v].fase = "criar"
          PROVE  v = u
      BY <2>10, <2>12, <3>3
    <3>. QED BY <1>1, <2>4, <2>9, <2>10, <2>11, <2>12, <3>1, <3>2, <3>3, Quadro
         DEF IInv, Identificadores
  <2>17. Posicoes'
    <3>. SUFFICES ASSUME apagadas = <<>> PROVE Posicoes'
      BY <1>1 DEF Posicoes
    <3>1. ASSUME seguidas' PROVE DOMAIN ideias = 1..g
      BY <2>12, <3>1, ProximaPosicao DEF g
    <3>2. ASSUME seguidas', NEW v \in Utilizadores, pedido'[v].fase = "criar"
          PROVE  DOMAIN ideias = 1..pedido'[v].id
      BY <2>9, <2>10, <2>12, <3>1, <3>2
    <3>. QED BY <1>1, <2>9, <2>10, <2>12, <3>2 DEF IInv, Posicoes
  <2>18. Turnos' /\ MostraAPedida'
    BY <1>1, <2>9, <2>10 DEF IInv, Turnos, EmCurso, MostraAPedida
  <2>19. Publicacoes' /\ PublicacaoFica'
    BY <1>1, <2>9, <2>10, <2>11, Quadro
       DEF IInv, Publicacoes, PublicacaoFica, Novos, n
  <2>20. Cobertura'
    BY <1>1, <2>1, <2>9, <2>10, <2>11, Quadro DEF IInv, Cobertura, Posse
  <2>. QED BY <2>13, <2>14, <2>15, <2>16, <2>17, <2>18, <2>19, <2>20 DEF IInv
<1>. QED BY <1>2, <1>3

\* A creation that fails may lose its post.
LEMMA MantemFalha ==
  ASSUME IInv, NEW u \in Utilizadores, CriarFalha(u)
  PROVE  IInv'
<1>1. completas' \in BOOLEAN /\ (completas' => completas /\ pedido[u].post = 0)
  BY DEF CriarFalha
<1>. QED BY <1>1, PedidoPerdido DEF CriarFalha

\* The idea is added with the number, the identifier and the post of the request.
LEMMA MantemCriar ==
  ASSUME IInv, NEW u \in Utilizadores, Criar(u)
  PROVE  IInv'
<1>1. /\ pedido[u].fase = "criar"
      /\ UNCHANGED <<saldo, posts, pagina, criadas, apagadas, aVez, seguidas, completas>>
  BY DEF Criar
<1>2. /\ pedido' \in [Utilizadores -> Pedido] /\ pedido'[u] = SemPedido
      /\ SemPedido.fase = "livre"
      /\ \A v \in Utilizadores \ {u} : pedido'[v] = pedido[v]
  BY SemPedidoTipo DEF Criar, Passar, IInv, Tipos
<1>. DEFINE n == pedido[u].num
            g == pedido[u].id
            d == [id |-> g, num |-> n, post |-> pedido[u].post, dono |-> u]
<1>3. /\ n \in 1..criadas /\ n \in Numeros /\ n \notin Usados /\ n # 0
      /\ pedido[u].post \in {0, n} /\ criadas \in Nat
      /\ Certas => pedido[u].post \in posts \cup {0}
      /\ pedido[u].post \in 0..MaxIdeias
  BY <1>1, ConstantesAssumption DEF IInv, Pedidos, Publicacoes, Tipos, Numeros, Novos
<1>4. g >= 0 /\ g <= Cardinality(Usados) /\ pedido[u] \in Pedido
  BY <1>1 DEF IInv, Identificadores, Tipos
<1>5. g \in 0..MaxIdeias
  BY <1>4, ConstantesAssumption DEF Pedido
<1>6. ideias' = Append(ideias, d)
  BY DEF Criar
<1>7. /\ ideias \in Seq(Ideia) /\ Len(ideias) \in Nat /\ MaxIdeias \in Nat
      /\ DOMAIN ideias = 1..Len(ideias)
  BY IdeiaTipo DEF IInv, Tipos
<1>. HIDE DEF n, g
<1>8. /\ IsFiniteSet(Usados) /\ Cardinality(Usados) \in Nat
      /\ Cardinality(Usados \cup {n}) = Cardinality(Usados) + 1
  BY <1>3, UsadosFinito, FS_AddElement DEF IInv
<1>9. /\ d \in Ideia /\ d.id = g /\ d.num = n /\ d.post = pedido[u].post
  BY <1>3, <1>5 DEF Ideia
<1>. DEFINE m == Len(ideias) + 1
<1>. HIDE DEF d
<1>10. /\ ideias' \in Seq(Ideia) /\ Len(ideias') = m /\ ideias'[m] = d
       /\ \A k \in DOMAIN ideias : ideias'[k] = ideias[k] /\ k # m
       /\ DOMAIN ideias' = DOMAIN ideias \cup {m} /\ m \in Nat
  BY <1>6, <1>7, <1>9, AppendProperties
<1>. HIDE DEF m
<1>11. /\ \A q : (Viva(q)' <=> Viva(q) \/ q = n) /\ (Ida(q)' <=> Ida(q))
       /\ Usados' = Usados \cup {n} /\ (Certas' <=> Certas)
  <2>1. \A q : (Viva(q)' <=> Viva(q) \/ q = n) /\ (Ida(q)' <=> Ida(q))
    BY <1>1, <1>9, <1>10 DEF Viva, Ida
  <2>2. Usados' = Usados \cup {n}
    BY <1>3, <2>1 DEF Usados
  <2>. QED BY <1>1, <2>1, <2>2 DEF Certas, Certa
<1>12. \A k \in DOMAIN ideias : ideias[k].num # n
  BY <1>3 DEF Usados, Viva
<1>13. Tipos'
  BY <1>1, <1>2, <1>10 DEF IInv, Tipos
<1>14. Contagem'
  <2>1. \A q \in Usados' : q <= criadas'
    BY <1>1, <1>3, <1>11 DEF IInv, Contagem
  <2>2. \A q \in Numeros : ~(Viva(q)' /\ Ida(q)')
    BY <1>3, <1>11 DEF IInv, Contagem, Usados
  <2>3. \A j, k \in DOMAIN ideias' : j # k => ideias'[j].num # ideias'[k].num
    BY <1>9, <1>10, <1>12 DEF IInv, Contagem
  <2>4. \A k \in DOMAIN ideias' : ideias'[k].id < Cardinality(Usados')
    <3>1. \A k \in DOMAIN ideias : ideias[k].id < Cardinality(Usados) + 1
      BY <1>8, IdeiaTipo DEF IInv, Contagem
    <3>2. g < Cardinality(Usados) + 1
      BY <1>4, <1>5, <1>8
    <3>. QED BY <1>8, <1>9, <1>10, <1>11, <3>1, <3>2
  <2>. QED BY <2>1, <2>2, <2>3, <2>4 DEF Contagem
<1>15. Pedidos'
  BY <1>1, <1>2, <1>11 DEF IInv, Pedidos, Conhece, Novos, n
<1>16. Identificadores'
  <2>1. ASSUME NEW v \in Utilizadores, pedido'[v].fase = "criar"
        PROVE  /\ pedido'[v].id >= 0 /\ pedido'[v].id <= Cardinality(Usados')
    <3>1. /\ pedido[v] \in Pedido /\ pedido'[v] = pedido[v]
          /\ pedido[v].id >= 0 /\ pedido[v].id <= Cardinality(Usados)
      BY <1>2, <2>1 DEF IInv, Identificadores, Tipos
    <3>2. pedido[v].id \in Int
      BY <3>1, <1>7 DEF Pedido
    <3>. QED BY <1>8, <1>11, <3>1, <3>2
  <2>2. ASSUME seguidas
        PROVE  /\ \A j, k \in DOMAIN ideias' : j # k => ideias'[j].id # ideias'[k].id
               /\ \A v \in Utilizadores : pedido'[v].fase # "criar"
    <3>1. \A k \in DOMAIN ideias : ideias[k].id < g
      BY <1>1, <2>2 DEF IInv, Identificadores, g
    <3>2. \A k \in DOMAIN ideias : ideias[k].id # g
      BY <1>5, <3>1, IdeiaTipo DEF IInv
    <3>. QED BY <1>1, <1>2, <1>9, <1>10, <2>2, <3>2 DEF IInv, Identificadores
  <2>. QED BY <1>1, <2>1, <2>2 DEF IInv, Identificadores
<1>17. Posicoes'
  <2>. SUFFICES ASSUME apagadas = <<>> PROVE Posicoes'
    BY <1>1 DEF Posicoes
  <2>1. ASSUME seguidas PROVE \A k \in DOMAIN ideias' : ideias'[k].id = k - 1
    <3>1. DOMAIN ideias = 1..g
      BY <1>1, <2>1 DEF IInv, Posicoes, g
    <3>2. g = Len(ideias)
      <4>1. g \in Nat /\ \A i \in Nat : i \in 1..g <=> i \in 1..Len(ideias)
        BY <1>5, <1>7, <3>1
      <4>2. (g >= 1 => g <= Len(ideias)) /\ (Len(ideias) >= 1 => Len(ideias) <= g)
        BY <1>7, <4>1
      <4>3. Len(ideias) \in Nat
        BY <1>7
      <4>. QED BY <4>1, <4>2, <4>3
    <3>. QED BY <1>7, <1>9, <1>10, <2>1, <3>2 DEF IInv, Posicoes, m
  <2>2. ASSUME seguidas PROVE \A v \in Utilizadores : pedido'[v].fase # "criar"
    BY <1>1, <1>2, <2>2 DEF IInv, Identificadores
  <2>. QED BY <1>1, <1>2, <1>10, <2>1, <2>2 DEF IInv, Posicoes
<1>18. Turnos' /\ MostraAPedida'
  BY <1>1, <1>2, <1>10 DEF IInv, Turnos, EmCurso, MostraAPedida
<1>19. \A v \in Utilizadores : pedido'[v].fase = "apagar" => pedido'[v].num # n
  BY <1>2, <1>3 DEF IInv, Pedidos, Conhece
<1>20. Publicacoes'
  <2>1. \A k \in DOMAIN ideias' : ideias'[k].post \in {0, ideias'[k].num}
    BY <1>3, <1>9, <1>10 DEF IInv, Publicacoes
  <2>2. ASSUME NEW v \in Utilizadores, pedido'[v].fase = "apagar",
               NEW k \in DOMAIN ideias', ideias'[k].num = pedido'[v].num
        PROVE  pedido'[v].post = ideias'[k].post
    BY <1>2, <1>9, <1>10, <1>19, <2>2 DEF IInv, Publicacoes
  <2>3. \A v \in Utilizadores :
          /\ pedido'[v].fase \in Novos \cup {"apagar"} =>
               pedido'[v].post \in {0, pedido'[v].num}
          /\ pedido'[v].fase = "publicacao" => pedido'[v].post = pedido'[v].num
    BY <1>2 DEF IInv, Publicacoes, Novos
  <2>4. \A v \in Utilizadores : Certas' =>
          /\ pedido'[v].fase \in Novos => pedido'[v].post \in posts' \cup {0}
          /\ pedido'[v].fase = "publicacao" => Ida(pedido[v].num)'
    BY <1>1, <1>2, <1>11 DEF IInv, Publicacoes, Novos
  <2>. QED BY <2>1, <2>2, <2>3, <2>4 DEF Publicacoes
<1>21. Cobertura'
  <2>. SUFFICES ASSUME completas, Certas, NEW q \in posts
       PROVE  \/ \E k \in DOMAIN ideias' : ideias'[k].post = q
              \/ \E v \in Utilizadores : pedido'[v].fase \in Posse /\ pedido'[v].post = q
    BY <1>1, <1>11 DEF Cobertura
  <2>1. CASE \E k \in DOMAIN ideias : ideias[k].post = q
    BY <1>10, <2>1
  <2>2. CASE pedido[u].post = q
    BY <1>9, <1>10, <2>2
  <2>3. CASE \E v \in Utilizadores \ {u} : pedido[v].fase \in Posse /\ pedido[v].post = q
    BY <1>2, <2>3
  <2>. QED BY <2>1, <2>2, <2>3 DEF IInv, Cobertura
<1>22. PublicacaoFica' /\ ApagaAPedida'
  BY <1>1, <1>3, <1>9, <1>10, <1>11 DEF IInv, PublicacaoFica, ApagaAPedida, Certa
<1>. QED BY <1>13, <1>14, <1>15, <1>16, <1>17, <1>18, <1>20, <1>21, <1>22 DEF IInv

\* ApagarIdeia found an idea with the identifier that was a position: the list, the
\* history and the request after it.
LEMMA DepoisDeApagar ==
  ASSUME IInv, NEW u \in Utilizadores, Apagar(u), Alvo(u) # {}
  PROVE  \E k \in DOMAIN ideias, p \in Pedido :
           /\ ideias[k].id = pedido[u].id
           /\ ideias' = RemoveAt(ideias, k)
           /\ apagadas' = Append(apagadas, <<pedido[u].num, ideias[k].num>>)
           /\ pedido' \in [Utilizadores -> Pedido] /\ pedido'[u] = p
           /\ \A v \in Utilizadores \ {u} : pedido'[v] = pedido[v]
           /\ p.fase \in {"livre", "publicacao"} /\ p.num \in {0, pedido[u].num}
           /\ p.fase = "publicacao" =>
                p.num = pedido[u].num /\ p.post = pedido[u].post /\ p.post # 0
           /\ p.fase = "livre" => pedido[u].post = 0 \/ ~completas'
           /\ completas' \in BOOLEAN /\ (completas' => completas)
<1>1. Alvo(u) \in SUBSET Nat
  BY IdeiaTipo DEF Alvo, IInv
<1>2. Min(Alvo(u)) \in Alvo(u)
  BY <1>1, MinimoDe
<1>0. PICK ok \in BOOLEAN :
        Passar(u, Depois(u, ok)) /\ completas' = (completas /\ ok)
  BY DEF Apagar
<1>. DEFINE k == Min(Alvo(u))
            p == Depois(u, ok)
<1>3. k \in DOMAIN ideias /\ ideias[k].id = pedido[u].id
  BY <1>2 DEF Alvo
<1>4. /\ ideias' = RemoveAt(ideias, k)
      /\ apagadas' = Append(apagadas, <<pedido[u].num, ideias[k].num>>)
      /\ pedido' = [pedido EXCEPT ![u] = p]
  BY <1>0 DEF Apagar, Passar
<1>5. pedido[u] \in Pedido /\ pedido \in [Utilizadores -> Pedido]
  BY DEF IInv, Tipos
<1>6. /\ p \in Pedido /\ p.fase \in {"livre", "publicacao"} /\ p.num \in {0, pedido[u].num}
      /\ p.fase = "publicacao" =>
           p.num = pedido[u].num /\ p.post = pedido[u].post /\ p.post # 0
      /\ p.fase = "livre" => pedido[u].post = 0 \/ ~ok
  <2>1. CASE ok /\ pedido[u].post # 0
    <3>1. p = [pedido[u] EXCEPT !.fase = "publicacao", !.id = -1]
      BY <2>1 DEF Depois
    <3>2. -1 \in -1..MaxIdeias
      BY ConstantesAssumption
    <3>. HIDE DEF p
    <3>. QED BY <1>5, <2>1, <3>1, <3>2 DEF Pedido, Fases
  <2>2. CASE ~(ok /\ pedido[u].post # 0)
    <3>1. p = SemPedido
      BY <2>2 DEF Depois
    <3>. HIDE DEF p
    <3>. QED BY <2>2, <3>1, SemPedidoTipo DEF SemPedido
  <2>. QED BY <2>1, <2>2
<1>7. completas' \in BOOLEAN /\ (completas' => completas /\ ok)
  BY <1>0
<1>. HIDE DEF k, p
<1>. QED BY <1>3, <1>4, <1>5, <1>6, <1>7

\* The number of an idea that is deleted stays in use.
LEMMA NumerosDepoisDeApagar ==
  ASSUME IInv, NEW k \in DOMAIN ideias, NEW n \in Numeros,
         ideias' = RemoveAt(ideias, k),
         apagadas' = Append(apagadas, <<n, ideias[k].num>>)
  PROVE  /\ ideias' \in Seq(Ideia) /\ apagadas' \in Seq(Numeros \X Numeros)
         /\ DOMAIN ideias' = 1..(Len(ideias) - 1)
         /\ \A j \in DOMAIN ideias' :
              /\ ideias'[j] = IF j < k THEN ideias[j] ELSE ideias[j + 1]
              /\ \E i \in DOMAIN ideias \ {k} : ideias'[j] = ideias[i]
         /\ \A i \in DOMAIN ideias \ {k} : \E j \in DOMAIN ideias' : ideias'[j] = ideias[i]
         /\ \A m : /\ Viva(m)' <=> Viva(m) /\ m # ideias[k].num
                   /\ Ida(m)' <=> Ida(m) \/ m = ideias[k].num
         /\ Usados' = Usados
         /\ apagadas' # <<>> /\ (Certas' <=> Certas /\ n = ideias[k].num)
         /\ apagadas'[1] = IF apagadas = <<>> THEN <<n, ideias[k].num>> ELSE apagadas[1]
<1>. DEFINE L == Len(ideias)
            m == ideias[k].num
            par == <<n, m>>
<1>1. /\ ideias \in Seq(Ideia) /\ L \in Nat /\ DOMAIN ideias = 1..L /\ k \in 1..L
      /\ m \in Numeros /\ apagadas \in Seq(Numeros \X Numeros)
      /\ par \in Numeros \X Numeros /\ par[1] = n /\ par[2] = m
  BY IdeiaTipo DEF IInv, Tipos
<1>2. /\ ideias' \in Seq(Ideia) /\ Len(ideias') = L - 1
      /\ \A j \in 1..(L - 1) : ideias'[j] = IF j < k THEN ideias[j] ELSE ideias[j + 1]
  BY <1>1, RemoveAtLista
<1>3. DOMAIN ideias' = 1..(L - 1)
  BY <1>2, LenProperties
<1>4. \A j \in 1..(L - 1) :
        /\ j < k => j \in 1..L \ {k}
        /\ ~(j < k) => j + 1 \in 1..L \ {k}
  BY <1>1
<1>5. \A j \in DOMAIN ideias' : \E i \in DOMAIN ideias \ {k} : ideias'[j] = ideias[i]
  BY <1>1, <1>2, <1>3, <1>4
<1>6. \A i \in DOMAIN ideias \ {k} : \E j \in DOMAIN ideias' : ideias'[j] = ideias[i]
  <2>. SUFFICES ASSUME NEW i \in 1..L, i # k
       PROVE  \E j \in 1..(L - 1) : ideias'[j] = ideias[i]
    BY <1>1, <1>3
  <2>1. CASE i < k
    <3>1. i \in 1..(L - 1)
      BY <1>1, <2>1
    <3>. QED BY <1>2, <2>1, <3>1
  <2>2. CASE i > k
    <3>1. i - 1 \in 1..(L - 1) /\ ~(i - 1 < k) /\ (i - 1) + 1 = i
      BY <1>1, <2>2
    <3>. QED BY <1>2, <3>1
  <2>3. i \in Nat /\ k \in Nat
    BY <1>1
  <2>. QED BY <2>1, <2>2, <2>3
<1>. DEFINE h == Len(apagadas)
<1>7. h \in Nat /\ DOMAIN apagadas = 1..h
  BY <1>1, LenProperties
<1>. HIDE DEF par
<1>8. /\ apagadas' \in Seq(Numeros \X Numeros) /\ Len(apagadas') = h + 1
      /\ DOMAIN apagadas' = 1..(h + 1) /\ apagadas'[h + 1] = par
      /\ \A i \in 1..h : apagadas'[i] = apagadas[i]
  BY <1>1, <1>7, AppendProperties, LenProperties DEF par
<1>9. DOMAIN apagadas' = DOMAIN apagadas \cup {h + 1}
  BY <1>7, <1>8
<1>10. \A q : Viva(q)' <=> Viva(q) /\ q # m
  <2>1. \A i \in DOMAIN ideias \ {k} : ideias[i].num # m
    BY DEF IInv, Contagem
  <2>. QED BY <1>5, <1>6, <2>1 DEF Viva
<1>11. \A q : Ida(q)' <=> Ida(q) \/ q = m
  BY <1>1, <1>7, <1>8, <1>9 DEF Ida
<1>12. Usados' = Usados
  BY <1>1, <1>10, <1>11 DEF Usados, Viva
<1>13. Certas' <=> Certas /\ n = m
  BY <1>1, <1>7, <1>8, <1>9 DEF Certas, Certa
<1>14. apagadas' # <<>>
  BY <1>7, <1>8
<1>15. apagadas'[1] = IF apagadas = <<>> THEN par ELSE apagadas[1]
  <2>1. CASE apagadas = <<>>
    BY <1>8, <2>1
  <2>2. CASE apagadas # <<>>
    <3>1. h # 0
      BY <1>1, <2>2, EmptySeq
    <3>2. 1 \in 1..h
      BY <1>7, <3>1
    <3>. QED BY <1>8, <2>2, <3>2
  <2>. QED BY <2>1, <2>2
<1>. QED BY <1>2, <1>3, <1>5, <1>6, <1>8, <1>10, <1>11, <1>12, <1>13, <1>14, <1>15
     DEF par

\* A deletion moves a number from the list to the history; the request goes on with
\* the post of the number that it asked for.
LEMMA MantemApagar ==
  ASSUME IInv, NEW u \in Utilizadores, Apagar(u)
  PROVE  IInv'
<1>1. /\ pedido[u].fase = "apagar"
      /\ UNCHANGED <<saldo, posts, pagina, criadas, aVez, seguidas>>
  BY DEF Apagar
<1>. DEFINE n == pedido[u].num
<1>2. n \in Usados /\ n \in Numeros /\ n # 0 /\ pedido[u].post \in {0, n}
  BY <1>1 DEF IInv, Pedidos, Conhece, Usados, Numeros, Publicacoes
<1>3. CASE Alvo(u) = {}
  <2>1. UNCHANGED <<ideias, apagadas, completas>> /\ Passar(u, SemPedido)
    BY <1>3 DEF Apagar, Depois
  <2>2. /\ MesmasIdeias /\ ideias' \in Seq(Ideia) /\ pagina' \in Pagina
        /\ aVez' \in BOOLEAN /\ (aVez' => aVez)
    BY <1>1, <2>1 DEF MesmasIdeias, IInv, Tipos
  <2>. QED BY <1>1, <2>1, <2>2, SemPedidoTipo, PassoDePagina DEF Conhece, Posse
<1>4. CASE Alvo(u) # {}
  <2>1. PICK k \in DOMAIN ideias, p \in Pedido :
          /\ ideias[k].id = pedido[u].id
          /\ ideias' = RemoveAt(ideias, k)
          /\ apagadas' = Append(apagadas, <<n, ideias[k].num>>)
          /\ pedido' \in [Utilizadores -> Pedido] /\ pedido'[u] = p
          /\ \A v \in Utilizadores \ {u} : pedido'[v] = pedido[v]
          /\ p.fase \in {"livre", "publicacao"} /\ p.num \in {0, n}
          /\ p.fase = "publicacao" => p.num = n /\ p.post = pedido[u].post /\ p.post # 0
          /\ p.fase = "livre" => pedido[u].post = 0 \/ ~completas'
          /\ completas' \in BOOLEAN /\ (completas' => completas)
    BY <1>4, DepoisDeApagar
  <2>. DEFINE m == ideias[k].num
  <2>. HIDE DEF n
  <2>2. /\ ideias' \in Seq(Ideia) /\ apagadas' \in Seq(Numeros \X Numeros)
        /\ DOMAIN ideias' = 1..(Len(ideias) - 1)
        /\ \A j \in DOMAIN ideias' :
             /\ ideias'[j] = IF j < k THEN ideias[j] ELSE ideias[j + 1]
             /\ \E i \in DOMAIN ideias \ {k} : ideias'[j] = ideias[i]
        /\ \A i \in DOMAIN ideias \ {k} : \E j \in DOMAIN ideias' : ideias'[j] = ideias[i]
        /\ \A q : (Viva(q)' <=> Viva(q) /\ q # m) /\ (Ida(q)' <=> Ida(q) \/ q = m)
        /\ Usados' = Usados
        /\ apagadas' # <<>> /\ (Certas' <=> Certas /\ n = m)
        /\ apagadas'[1] = IF apagadas = <<>> THEN <<n, m>> ELSE apagadas[1]
    BY <1>2, <2>1, NumerosDepoisDeApagar
  <2>3. Tipos'
    BY <1>1, <2>1, <2>2 DEF IInv, Tipos
  <2>4. Contagem' /\ Identificadores'
    <3>1. /\ \A q \in Usados' : q <= criadas'
          /\ \A q \in Numeros : ~(Viva(q)' /\ Ida(q)')
      BY <1>1, <2>2 DEF IInv, Contagem
    <3>2. \A j \in DOMAIN ideias' : ideias'[j].id < Cardinality(Usados')
      BY <2>2 DEF IInv, Contagem
    <3>3. ASSUME NEW i \in DOMAIN ideias', NEW j \in DOMAIN ideias', i # j
          PROVE  /\ ideias'[i].num # ideias'[j].num
                 /\ seguidas => ideias'[i].id # ideias'[j].id
      <4>. DEFINE f(l) == IF l < k THEN l ELSE l + 1
      <4>1. /\ f(i) \in DOMAIN ideias /\ f(j) \in DOMAIN ideias /\ f(i) # f(j)
            /\ ideias'[i] = ideias[f(i)] /\ ideias'[j] = ideias[f(j)]
        <5>1. /\ Len(ideias) \in Nat /\ DOMAIN ideias = 1..Len(ideias) /\ k \in Nat
              /\ i \in 1..(Len(ideias) - 1) /\ j \in 1..(Len(ideias) - 1)
          BY <2>2, IdeiaTipo DEF IInv
        <5>2. f(i) \in DOMAIN ideias /\ f(j) \in DOMAIN ideias
          BY <5>1
        <5>3. f(i) # f(j)
          BY <3>3, <5>1
        <5>4. ideias'[i] = ideias[f(i)] /\ ideias'[j] = ideias[f(j)]
          BY <2>2
        <5>. QED BY <5>2, <5>3, <5>4
      <4>. HIDE DEF f
      <4>. QED BY <4>1 DEF IInv, Contagem, Identificadores
    <3>4. ASSUME NEW v \in Utilizadores, pedido'[v].fase = "criar" PROVE v # u
      BY <2>1, <3>4
    <3>5. Identificadores'
      <4>1. ASSUME NEW v \in Utilizadores, pedido'[v].fase = "criar"
            PROVE  /\ pedido'[v] = pedido[v]
                   /\ pedido[v].id >= 0 /\ pedido[v].id <= Cardinality(Usados')
                   /\ seguidas => \A j \in DOMAIN ideias' : ideias'[j].id < pedido[v].id
                   /\ seguidas => \A w \in Utilizadores \ {v} : pedido'[w].fase # "criar"
        <5>1. /\ v # u /\ pedido'[v] = pedido[v] /\ pedido[v].fase = "criar"
              /\ p.fase # "criar"
          BY <2>1, <3>4, <4>1
        <5>2. /\ pedido[v].id >= 0 /\ pedido[v].id <= Cardinality(Usados)
              /\ seguidas => \A j \in DOMAIN ideias : ideias[j].id < pedido[v].id
              /\ seguidas => \A w \in Utilizadores \ {v} : pedido[w].fase # "criar"
          BY <5>1 DEF IInv, Identificadores
        <5>3. seguidas => \A j \in DOMAIN ideias' : ideias'[j].id < pedido[v].id
          BY <2>2, <5>2
        <5>4. seguidas => \A w \in Utilizadores \ {v} : pedido'[w].fase # "criar"
          BY <2>1, <5>1, <5>2
        <5>. QED BY <2>2, <5>1, <5>2, <5>3, <5>4
      <4>2. aVez => seguidas
        BY DEF IInv, Identificadores
      <4>. QED BY <1>1, <3>3, <4>1, <4>2 DEF Identificadores
    <3>. QED BY <3>1, <3>2, <3>3, <3>5 DEF Contagem
  <2>5. Pedidos'
    BY <1>1, <1>2, <2>1, <2>2 DEF IInv, Pedidos, Conhece, Novos
  <2>6. Posicoes'
    BY <2>2 DEF Posicoes
  <2>7. Turnos' /\ MostraAPedida'
    <3>1. aVez => \A v \in Utilizadores \ {u} : pedido[v].fase # "pagina"
      BY <1>1 DEF IInv, Turnos, EmCurso
    <3>. QED BY <1>1, <2>1, <3>1 DEF IInv, Turnos, EmCurso, MostraAPedida
  <2>8. ApagaAPedida'
    <3>1. ASSUME seguidas, apagadas = <<>> PROVE n = m
      <4>1. PICK i \in DOMAIN ideias : ideias[i].num = n /\ pedido[u].id = i - 1
        BY <1>1, <3>1 DEF IInv, Posicoes, n
      <4>2. i = k
        BY <2>1, <3>1, <4>1, IdeiaTipo DEF IInv, Posicoes
      <4>. QED BY <4>1, <4>2
    <3>. QED BY <1>1, <2>2, <3>1 DEF IInv, ApagaAPedida, Certa
  <2>9. Publicacoes'
    <3>1. \A j \in DOMAIN ideias' : ideias'[j].post \in {0, ideias'[j].num}
      BY <2>2 DEF IInv, Publicacoes
    <3>2. ASSUME NEW v \in Utilizadores \ {u}, pedido[v].fase = "apagar",
                 NEW j \in DOMAIN ideias', ideias'[j].num = pedido[v].num
          PROVE  pedido[v].post = ideias'[j].post
      BY <2>2, <3>2 DEF IInv, Publicacoes
    <3>3. p.fase = "publicacao" => p.post = p.num
      BY <1>2, <2>1
    <3>4. ASSUME Certas', p.fase = "publicacao" PROVE Ida(p.num)'
      BY <2>1, <2>2, <3>4
    <3>5. ASSUME NEW v \in Utilizadores \ {u}, Certas'
          PROVE  /\ pedido[v].fase \in Novos => pedido[v].post \in posts' \cup {0}
                 /\ pedido[v].fase = "publicacao" => \E i \in DOMAIN apagadas' :
                                                       apagadas'[i][2] = pedido[v].num
      BY <1>1, <2>2, <3>5 DEF IInv, Publicacoes, Ida
    <3>. QED BY <2>1, <3>1, <3>2, <3>3, <3>4, <3>5 DEF IInv, Publicacoes, Ida, Novos
  <2>10. Cobertura'
    <3>. SUFFICES ASSUME completas', Certas', NEW q \in posts
         PROVE  \/ \E j \in DOMAIN ideias' : ideias'[j].post = q
                \/ \E v \in Utilizadores : pedido'[v].fase \in Posse /\ pedido'[v].post = q
      BY <1>1 DEF Cobertura
    <3>1. /\ Certas /\ m = n /\ ideias[k].post = pedido[u].post
      BY <1>1, <2>2 DEF IInv, Publicacoes, n
    <3>2. q # 0
      <4>1. q \in 1..criadas
        BY DEF IInv, Tipos
      <4>. QED BY <4>1
    <3>3. CASE \E i \in DOMAIN ideias \ {k} : ideias[i].post = q
      BY <2>2, <3>3
    <3>4. CASE ideias[k].post = q
      BY <2>1, <3>1, <3>2, <3>4 DEF Posse
    <3>5. CASE \E v \in Utilizadores \ {u} : pedido[v].fase \in Posse /\ pedido[v].post = q
      BY <2>1, <3>5
    <3>. QED BY <1>1, <2>1, <3>1, <3>3, <3>4, <3>5 DEF IInv, Cobertura, Posse
  <2>11. PublicacaoFica'
    BY <1>1, <2>2 DEF IInv, PublicacaoFica
  <2>. QED BY <2>3, <2>4, <2>5, <2>6, <2>7, <2>8, <2>9, <2>10, <2>11 DEF IInv
<1>. QED BY <1>3, <1>4

-----------------------------------------------------------------------------
\* At the start there is nothing.
LEMMA Inicio == Init => IInv
<1>. SUFFICES ASSUME Init PROVE IInv
  OBVIOUS
<1>1. /\ ideias = <<>> /\ DOMAIN ideias = {} /\ apagadas = <<>> /\ DOMAIN apagadas = {}
      /\ ideias \in Seq(Ideia) /\ apagadas \in Seq(Numeros \X Numeros)
      /\ posts = {} /\ criadas = 0 /\ \A u \in Utilizadores : pedido[u] = SemPedido
      /\ SemPedido.fase = "livre"
  BY SemPedidoTipo DEF Init
<1>2. Tipos
  BY <1>1, ConstantesAssumption, SemPedidoTipo DEF Init, Tipos, Pagina
<1>3. Contagem
  BY <1>1 DEF Contagem, Usados, Viva, Ida
<1>4. Pedidos /\ Posicoes /\ Turnos /\ Publicacoes /\ Cobertura
  BY <1>1 DEF Pedidos, Conhece, Novos, Posicoes, Turnos, EmCurso, Publicacoes, Cobertura
<1>6. Identificadores
  BY <1>1 DEF Init, Identificadores
<1>5. ApagaAPedida /\ MostraAPedida /\ PublicacaoFica
  BY <1>1 DEF ApagaAPedida, MostraAPedida, PublicacaoFica
<1>. QED BY <1>2, <1>3, <1>4, <1>5, <1>6 DEF IInv

\* Every step keeps the invariant.
LEMMA PassoMantem ==
  ASSUME IInv, [Next]_vars
  PROVE  IInv'
<1>1. CASE UNCHANGED vars
  <2>1. MesmasIdeias
    BY <1>1 DEF vars, MesmasIdeias
  <2>2. Tipos' /\ Pedidos' /\ Posicoes' /\ Identificadores'
    BY <1>1, <2>1, Quadro DEF vars, IInv, Tipos, Pedidos, Posicoes, Identificadores
  <2>3. Turnos' /\ MostraAPedida'
    BY <1>1 DEF vars, IInv, Turnos, EmCurso, MostraAPedida
  <2>4. Publicacoes' /\ Cobertura' /\ PublicacaoFica'
    BY <1>1, <2>1, Quadro DEF vars, IInv, Publicacoes, Cobertura, PublicacaoFica
  <2>. QED BY <1>1, <2>1, <2>2, <2>3, <2>4, Quadro DEF IInv, vars
<1>2. CASE Next
  <2>1. PICK u \in Utilizadores :
          \/ Publicar(u) \/ Pagar(u) \/ Criar(u) \/ CriarFalha(u)
          \/ \E k \in DOMAIN ideias : Comprar(u, k) \/ AbrirPagina(u, k)
          \/ LerIdeia(u) \/ MostrarFormulario(u) \/ Desistir(u)
          \/ Confirmar(u) \/ Apagar(u) \/ RetirarPublicacao(u)
    BY <1>2 DEF Next
  <2>. QED BY <2>1, MantemPublicar, MantemPagar, MantemCriar, MantemFalha, MantemComprar, MantemAbrir, MantemLer,
       MantemMostrar, MantemDesistir, MantemConfirmar, MantemApagar, MantemRetirar
<1>. QED BY <1>1, <1>2

\* The invariant holds always.
LEMMA Invariante == Spec => []IInv
  BY Inicio, PassoMantem, PTL DEF Spec

\* The type invariant of the runs.
LEMMA TiposCertos ==
  ASSUME IInv
  PROVE  TypeOK
<1>1. Len(ideias) <= MaxIdeias
  BY PoucasIdeias DEF IInv
<1>2. posts \subseteq Numeros
  BY ConstantesAssumption DEF IInv, Tipos, Numeros
<1>3. \A u \in Utilizadores : pedido[u] \in Pedido
  BY DEF IInv, Tipos
<1>. QED BY <1>1, <1>2, <1>3
     DEF IInv, Tipos, Contagem, Identificadores, TypeOK, Pedido, Pagina

\* There are no more ideas than publications, their numbers name one idea each, their
\* identifiers too if no two creations computed them together (geraridideia, line 1508
\* of IdeiaImpl), and the fields of page and requests have their types.
THEOREM TypeCorrect == Spec => []TypeOK
<1>1. IInv => TypeOK
  BY TiposCertos
<1>. QED BY <1>1, Invariante, PTL

\* The first deletion takes the idea whose page was confirmed, if no two creations
\* computed their identifiers together: until then the position that the bean passes
\* (line 604 of IdeaBrokerBean) is the identifier that the server looks for (line 1555
\* of IdeiaImpl).
THEOREM PrimeiraCerta == Spec => []ApagaAPedida
<1>1. IInv => ApagaAPedida
  BY DEF IInv
<1>. QED BY <1>1, Invariante, PTL

\* If requests take turns, the form shows the idea of the link (lines 14 and 109 of
\* ApagarIdeia.jsp).
THEOREM FormularioDaPedida == Spec => []MostraAPedida
<1>1. IInv => MostraAPedida
  BY DEF IInv
<1>. QED BY <1>1, Invariante, PTL

\* As long as deletions take the idea meant, no idea loses its post (lines 613 to
\* 630 of IdeaBrokerBean).
THEOREM PublicacaoPreservada == Spec => []PublicacaoFica
<1>1. IInv => PublicacaoFica
  BY DEF IInv
<1>. QED BY <1>1, Invariante, PTL

\* Between requests no post is left without its idea, if no creation failed after its
\* post, no deletion before the removal, and deletions took the idea meant (lines 456
\* to 503 and 613 to 642 of IdeaBrokerBean).
THEOREM SemPublicacoesSoltas == Spec => []PublicacaoTemIdeia
<1>1. IInv => PublicacaoTemIdeia
  BY DEF IInv, Cobertura, PublicacaoTemIdeia, EmCurso, Posse
<1>. QED BY <1>1, Invariante, PTL
=============================================================================
