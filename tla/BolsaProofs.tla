---------------------------- MODULE BolsaProofs ----------------------------
(***************************************************************************)
(* Theorems about Bolsa, for every number of users, ideas and requests, up  *)
(* to its refinement of Mercado.                                           *)
(***************************************************************************)
EXTENDS BolsaRefina, SequenceTheorems, FiniteSetTheorems, TLAPS

\* Deleting one element of a list moves the later ones down by one.
LEMMA RemoveAtLista ==
  ASSUME NEW S, NEW s \in Seq(S), NEW i \in 1..Len(s)
  PROVE  /\ RemoveAt(s, i) \in Seq(S)
         /\ Len(RemoveAt(s, i)) = Len(s) - 1
         /\ \A j \in 1..(Len(s) - 1) :
              RemoveAt(s, i)[j] = IF j < i THEN s[j] ELSE s[j + 1]
<1>. DEFINE a == SubSeq(s, 1, i - 1)
            b == SubSeq(s, i + 1, Len(s))
<1>1. /\ a \in Seq(S) /\ Len(a) = i - 1
      /\ \A j \in 1..(i - 1) : a[j] = s[j]
  OBVIOUS
<1>2. /\ b \in Seq(S) /\ Len(b) = Len(s) - i
      /\ \A j \in 1..(Len(s) - i) : b[j] = s[i + j]
  OBVIOUS
<1>. HIDE DEF a, b
<1>3. /\ a \o b \in Seq(S) /\ Len(a \o b) = Len(a) + Len(b)
      /\ \A j \in 1..(Len(a) + Len(b)) :
           (a \o b)[j] = IF j <= Len(a) THEN a[j] ELSE b[j - Len(a)]
  BY <1>1, <1>2, ConcatProperties
<1>4. RemoveAt(s, i) = a \o b
  BY DEF RemoveAt, a, b
<1>5. Len(a) + Len(b) = Len(s) - 1
  BY <1>1, <1>2
<1>6. ASSUME NEW j \in 1..(Len(s) - 1)
      PROVE  (a \o b)[j] = IF j < i THEN s[j] ELSE s[j + 1]
  <2>1. CASE j < i
    BY <1>1, <1>3, <1>5, <2>1
  <2>2. CASE ~(j < i)
    <3>1. (a \o b)[j] = b[j - (i - 1)]
      BY <1>1, <1>3, <1>5, <2>2
    <3>2. j - (i - 1) \in 1..(Len(s) - i) /\ i + (j - (i - 1)) = j + 1
      BY <2>2
    <3>. QED BY <1>2, <2>2, <3>1, <3>2
  <2>. QED BY <2>1, <2>2
<1>. QED BY <1>3, <1>4, <1>5, <1>6

-----------------------------------------------------------------------------
\* Type correctness.

\* Prices per share can be compared and multiplied: a denominator is natural.
LEMMA NumDenTipo ==
  ASSUME NEW a \in Accao
  PROVE  Num(a) \in Int /\ Den(a) \in Nat /\ a.perc \in Int /\ a.preco \in Int
BY DEF Accao, Num, Den

\* The cost of part of a lot is an amount of money.
LEMMA CustoTipo ==
  ASSUME NEW a \in Accao, NEW q \in Int
  PROVE  Custo(q, a) \in Int
<1>. DEFINE n == Num(a)
            d == Den(a)
<1>1. n \in Int /\ d \in Nat
  BY NumDenTipo
<1>2. q * n \in Int /\ Tecto * q * n \in Int
  BY <1>1, NumerosAssumption
<1>. DEFINE t == q * n
<1>. HIDE DEF n, d, t
<1>3. d # 0 => t \div d \in Int
  BY <1>1, <1>2 DEF t
<1>. QED BY <1>2, <1>3 DEF Custo, n, d, t

\* The holdings of an idea in the list are a list of holdings.
LEMMA LotesTipo ==
  ASSUME ideias \in Seq(Ideia), NEW k \in DOMAIN ideias
  PROVE  /\ ideias[k] \in Ideia /\ ideias[k].id \in Nat
         /\ ideias[k].accoes \in Seq(Accao)
         /\ \A i \in DOMAIN ideias[k].accoes : ideias[k].accoes[i] \in Accao
<1>1. ideias[k] \in Ideia
  OBVIOUS
<1>. DEFINE x == ideias[k]
<1>. HIDE DEF x
<1>2. x \in Ideia => x.id \in Nat /\ x.accoes \in Seq(Accao)
  BY DEF Ideia
<1>3. ideias[k].id \in Nat /\ ideias[k].accoes \in Seq(Accao)
  BY <1>1, <1>2 DEF x
<1>. DEFINE A == ideias[k].accoes
<1>. HIDE DEF A
<1>4. A \in Seq(Accao) => \A i \in DOMAIN A : A[i] \in Accao
  OBVIOUS
<1>. QED BY <1>1, <1>3, <1>4 DEF A

\* Changing one field of a record keeps its type and the other fields.
LEMMA CampoTipo ==
  ASSUME NEW a \in Accao, NEW x \in Int
  PROVE  /\ [a EXCEPT !.perc = x] \in Accao /\ [a EXCEPT !.perc = x].dono = a.dono
         /\ [a EXCEPT !.preco = x] \in Accao /\ [a EXCEPT !.preco = x].dono = a.dono
BY DEF Accao

\* An idea with other holdings is an idea.
LEMMA CampoAccoesTipo ==
  ASSUME NEW y \in Ideia, NEW A \in Seq(Accao)
  PROVE  [y EXCEPT !.accoes = A] \in Ideia /\ [y EXCEPT !.accoes = A].accoes = A
BY DEF Ideia

\* Replacing one holding by another of the same owner.
LEMMA MudarAccao ==
  ASSUME NEW A \in Seq(Accao), NEW i \in DOMAIN A,
         NEW b \in Accao, b.dono = A[i].dono
  PROVE  LET B == [A EXCEPT ![i] = b]
         IN  /\ B \in Seq(Accao) /\ Len(B) = Len(A)
             /\ \A j \in DOMAIN A : B[j].dono = A[j].dono
<1>1. i \in 1..Len(A) /\ DOMAIN A = 1..Len(A)
  OBVIOUS
<1>. QED BY <1>1, ExceptSeq

\* The methods of Accao change neither the owners nor the number of holdings.
LEMMA retiraraccaoTipo ==
  ASSUME NEW A \in Seq(Accao), NEW i \in DOMAIN A, NEW q \in Int
  PROVE  /\ retiraraccao(A, i, q) \in Seq(Accao)
         /\ Len(retiraraccao(A, i, q)) = Len(A)
         /\ \A j \in DOMAIN A : retiraraccao(A, i, q)[j].dono = A[j].dono
<1>. DEFINE b == [A[i] EXCEPT !.perc = A[i].perc - q]
<1>1. A[i] \in Accao /\ A[i].perc - q \in Int
  BY NumDenTipo
<1>2. retiraraccao(A, i, q) = [A EXCEPT ![i] = b]
  BY DEF retiraraccao
<1>3. b \in Accao /\ b.dono = A[i].dono
  BY <1>1, CampoTipo
<1>. HIDE DEF b
<1>. QED BY <1>2, <1>3, MudarAccao

\* adicionaraccao, in the same way.
LEMMA adicionaraccaoTipo ==
  ASSUME NEW A \in Seq(Accao), NEW i \in DOMAIN A, NEW q \in Int
  PROVE  /\ adicionaraccao(A, i, q) \in Seq(Accao)
         /\ Len(adicionaraccao(A, i, q)) = Len(A)
         /\ \A j \in DOMAIN A : adicionaraccao(A, i, q)[j].dono = A[j].dono
<1>. DEFINE b == [A[i] EXCEPT !.perc = A[i].perc + q]
<1>1. A[i] \in Accao /\ A[i].perc + q \in Int
  BY NumDenTipo
<1>2. adicionaraccao(A, i, q) = [A EXCEPT ![i] = b]
  BY DEF adicionaraccao
<1>3. b \in Accao /\ b.dono = A[i].dono
  BY <1>1, CampoTipo
<1>. HIDE DEF b
<1>. QED BY <1>2, <1>3, MudarAccao

\* setprecoaccao, in the same way.
LEMMA setprecoaccaoTipo ==
  ASSUME NEW A \in Seq(Accao), NEW i \in DOMAIN A, NEW p \in Int
  PROVE  /\ setprecoaccao(A, i, p) \in Seq(Accao)
         /\ Len(setprecoaccao(A, i, p)) = Len(A)
         /\ \A j \in DOMAIN A : setprecoaccao(A, i, p)[j].dono = A[j].dono
<1>. DEFINE b == [A[i] EXCEPT !.preco = p]
<1>1. A[i] \in Accao /\ p \in Int
  BY NumDenTipo
<1>2. setprecoaccao(A, i, p) = [A EXCEPT ![i] = b]
  BY DEF setprecoaccao
<1>3. b \in Accao /\ b.dono = A[i].dono
  BY <1>1, CampoTipo
<1>. HIDE DEF b
<1>. QED BY <1>2, <1>3, MudarAccao

\* Replacing the holdings of one idea changes no other idea.
LEMMA ComAccoesTipo ==
  ASSUME ideias \in Seq(Ideia), NEW k \in DOMAIN ideias, NEW A \in Seq(Accao)
  PROVE  /\ ComAccoes(k, A) \in Seq(Ideia)
         /\ Len(ComAccoes(k, A)) = Len(ideias)
         /\ ComAccoes(k, A)[k].accoes = A
         /\ \A l \in DOMAIN ideias : l # k => ComAccoes(k, A)[l] = ideias[l]
<1>. DEFINE y == [ideias[k] EXCEPT !.accoes = A]
<1>1. ideias[k] \in Ideia
  OBVIOUS
<1>2. ComAccoes(k, A) = [ideias EXCEPT ![k] = y]
  BY DEF ComAccoes
<1>3. y \in Ideia /\ y.accoes = A
  BY <1>1, CampoAccoesTipo
<1>. HIDE DEF y
<1>4. k \in 1..Len(ideias) /\ DOMAIN ideias = 1..Len(ideias)
  OBVIOUS
<1>. QED BY <1>2, <1>3, <1>4, ExceptSeq

\* Looking at the market keeps the type of the history.
LEMMA OlharTipo ==
  ASSUME TypeOK, Olhar, saldo' \in [Utilizadores -> Int], ideias' \in Seq(Ideia)
  PROVE  visto' \in [saldo : [Utilizadores -> Int], ideias : Seq(Ideia)]
BY DEF TypeOK, Olhar

\* The types hold when the server starts.
LEMMA TypeInit == Init => TypeOK
<1>. SUFFICES ASSUME Init PROVE TypeOK
  OBVIOUS
<1>1. ideias \in Seq(Ideia)
  BY CarregadosAssumption DEF Init, ListaValida
<1>2. saldo \in [Utilizadores -> Int]
  BY NumerosAssumption DEF Init
<1>3. pedido \in [Utilizadores -> Pedido]
  BY DEF Init, Pedido, SemPedido
<1>4. compra \in Compra
  BY DEF Init, Compra, SemCompra, Donos
<1>. QED BY <1>1, <1>2, <1>3, <1>4, NumerosAssumption
         DEF Init, TypeOK, Fases, SemTomada

\* What an action has to establish.
LEMMA TypeMontar ==
  ASSUME TypeOK, Olhar,
         saldo' \in [Utilizadores -> Int], ideias' \in Seq(Ideia),
         pedido' \in [Utilizadores -> Pedido], fase' \in Fases,
         compra' \in Compra,
         fase' = "livre" => compra' = SemCompra,
         fase' # "livre" => compra'.quem \in Utilizadores,
         tomada' \in [pos : Nat, titular : Nat], pedidos' \in 0..MaxPedidos
  PROVE  TypeOK'
BY OlharTipo DEF TypeOK

\* Leaving the monitor.
LEMMA SairTipo ==
  ASSUME TypeOK, fase # "livre", Sair, Olhar,
         saldo' \in [Utilizadores -> Int], ideias' \in Seq(Ideia)
  PROVE  TypeOK'
<1>1. SemPedido \in Pedido
  BY DEF SemPedido, Pedido
<1>2. pedido' \in [Utilizadores -> Pedido]
  BY <1>1 DEF TypeOK, Sair
<1>3. compra' \in Compra
  BY DEF Sair, SemCompra, Compra, Donos
<1>4. fase' = "livre" /\ tomada' = tomada /\ pedidos' = pedidos
  BY DEF Sair
<1>5. compra' = SemCompra
  BY DEF Sair
<1>. QED BY <1>2, <1>3, <1>4, <1>5, TypeMontar DEF TypeOK, Fases

\* The steps that leave the monitor and change neither money nor shares.
LEMMA SairSemEfeitoTipo ==
  ASSUME TypeOK, fase # "livre", Sair, UNCHANGED mercado, Olhar
  PROVE  TypeOK'
<1>1. saldo' \in [Utilizadores -> Int] /\ ideias' \in Seq(Ideia)
  BY DEF TypeOK, mercado
<1>. QED BY <1>1, SairTipo

\* The parts of a request.
LEMMA PedidoTipo ==
  ASSUME TypeOK, NEW u \in Utilizadores
  PROVE  /\ pedido[u] \in Pedido
         /\ pedido[u].pos \in Nat /\ pedido[u].perc \in Int
         /\ pedido[u].revenda \in Int /\ pedido[u].investimento \in Int
<1>1. pedido[u] \in Pedido
  BY DEF TypeOK
<1>2. \A p \in Pedido : p.pos \in Nat /\ p.perc \in Int /\ p.revenda \in Int
                        /\ p.investimento \in Int
  BY DEF Pedido
<1>. QED BY <1>1, <1>2

\* The local variables of a purchase.
LEMMA CompraTipo ==
  ASSUME TypeOK
  PROVE  /\ compra.transacoes \in Seq(Nat) /\ compra.naccoes \in Nat
         /\ compra.actual \in Int /\ compra.apagar \in Int
         /\ compra.feitas \in Nat /\ compra.meu \in Nat
         /\ compra.quantidade \in Int /\ compra.valor \in Int
         /\ compra.inteiro \in BOOLEAN
         /\ fase # "livre" => compra.quem \in Utilizadores
BY DEF TypeOK, Compra

\* Each action keeps the types.  A client asks for a purchase.
LEMMA PedirCompraTipo ==
  ASSUME TypeOK, NEW u \in Utilizadores, NEW id \in Nat, NEW pos \in Nat,
         NEW perc \in Int, NEW revenda \in Int, NEW inv \in Int,
         PedirCompra(u, id, pos, perc, revenda, inv)
  PROVE  TypeOK'
<1>. DEFINE novo == [activo |-> TRUE, alvo |-> id, pos |-> pos, perc |-> perc,
                     revenda |-> revenda, investimento |-> inv]
<1>1. novo \in Pedido
  BY DEF Pedido
<1>. HIDE DEF novo
<1>2. pedido' = [pedido EXCEPT ![u] = novo]
  BY DEF PedirCompra, novo
<1>3. pedido' \in [Utilizadores -> Pedido]
  BY <1>1, <1>2 DEF TypeOK
<1>4. pedidos' \in 0..MaxPedidos
  BY NumerosAssumption DEF TypeOK, PedirCompra, Contar
<1>. QED BY <1>3, <1>4, TypeMontar DEF TypeOK, PedirCompra

\* A purchase begins.
LEMMA IniciarCompraTipo ==
  ASSUME TypeOK, NEW u \in Utilizadores, RecusarCompra(u) \/ IniciarCompra(u)
  PROVE  TypeOK'
<1>1. CASE RecusarCompra(u)
  <2>1. pedido' \in [Utilizadores -> Pedido]
    BY <1>1 DEF RecusarCompra, SemPedido, Pedido, TypeOK
  <2>. QED BY <1>1, <2>1, TypeMontar DEF TypeOK, RecusarCompra
<1>2. CASE IniciarCompra(u)
  <2>. DEFINE n == Len(ideias[pedido[u].pos].accoes)
  <2>1. pedido[u].pos \in DOMAIN ideias
    BY <1>2 DEF IniciarCompra
  <2>2. n \in Nat
    BY <2>1, LotesTipo, LenProperties DEF TypeOK
  <2>. HIDE DEF n
  <2>3. compra' = [SemCompra EXCEPT !.quem = u, !.naccoes = n]
    BY <1>2 DEF IniciarCompra, n
  <2>4. SemCompra \in Compra /\ u \in Donos
    BY DEF SemCompra, Compra, Donos
  <2>5. \A c \in Compra : /\ [c EXCEPT !.quem = u, !.naccoes = n] \in Compra
                          /\ [c EXCEPT !.quem = u, !.naccoes = n].quem = u
    BY <2>2, <2>4 DEF Compra
  <2>6. compra' \in Compra /\ compra'.quem = u
    BY <2>3, <2>4, <2>5
  <2>. QED BY <1>2, <2>6, TypeMontar DEF TypeOK, IniciarCompra, Fases
<1>. QED BY <1>1, <1>2

\* A lot is selected.
LEMMA SelecionarTipo ==
  ASSUME TypeOK, NEW i \in Nat, Selecionar(i)
  PROVE  TypeOK'
<1>1. fase = "selecionar" /\ compra.quem \in Utilizadores
  BY DEF Selecionar, TypeOK
<1>2. PedidoActual.pos \in DOMAIN ideias /\ i \in DOMAIN Lotes
  BY DEF Selecionar, IdeiaExiste, Escolhido, Candidatos
<1>3. Lotes[i] \in Accao
  BY <1>2, LotesTipo DEF Lotes, TypeOK
<1>4. PICK q \in Int, v \in Int :
        compra' = [compra EXCEPT !.transacoes = Append(compra.transacoes, i),
                     !.actual = compra.actual + q, !.apagar = compra.apagar + v]
  <2>. DEFINE a == Lotes[i]
              cabe == compra.actual + a.perc <= PedidoActual.perc
              q == IF cabe THEN a.perc ELSE PedidoActual.perc - compra.actual
              v == IF cabe THEN a.preco ELSE Custo(q, a)
  <2>1. PedidoActual.perc \in Int /\ compra.actual \in Int
    BY <1>1, PedidoTipo, CompraTipo DEF PedidoActual
  <2>2. q \in Int
    BY <1>3, <2>1, NumDenTipo
  <2>3. v \in Int
    <3>. HIDE DEF q
    <3>. QED BY <1>3, <2>2, NumDenTipo, CustoTipo
  <2>4. compra' = [compra EXCEPT !.transacoes = Append(compra.transacoes, i),
                     !.actual = compra.actual + q, !.apagar = compra.apagar + v]
    BY DEF Selecionar
  <2>. HIDE DEF q, v
  <2>. QED BY <2>2, <2>3, <2>4
<1>. DEFINE t == Append(compra.transacoes, i)
            n == compra.actual + q
            p == compra.apagar + v
<1>5. t \in Seq(Nat) /\ n \in Int /\ p \in Int
  BY CompraTipo, AppendProperties
<1>. HIDE DEF t, n, p
<1>6. compra' = [compra EXCEPT !.transacoes = t, !.actual = n, !.apagar = p]
  BY <1>4 DEF t, n, p
<1>7. \A c \in Compra :
        /\ [c EXCEPT !.transacoes = t, !.actual = n, !.apagar = p] \in Compra
        /\ [c EXCEPT !.transacoes = t, !.actual = n, !.apagar = p].quem = c.quem
  BY <1>5 DEF Compra
<1>8. compra' \in Compra /\ compra'.quem = compra.quem
  BY <1>6, <1>7 DEF TypeOK
<1>. QED BY <1>1, <1>8, TypeMontar DEF TypeOK, Selecionar

\* The investment is checked.
LEMMA VerificarTipo ==
  ASSUME TypeOK, VerificarInvestimento
  PROVE  TypeOK'
<1>1. \A n \in Int, c \in Compra : /\ [c EXCEPT !.actual = n] \in Compra
                                   /\ [c EXCEPT !.actual = n].quem = c.quem
  BY DEF Compra
<1>. 0 \in Int
  OBVIOUS
<1>2. compra' \in Compra /\ compra'.quem = compra.quem
  BY <1>1 DEF TypeOK, VerificarInvestimento
<1>. QED BY <1>2, TypeMontar DEF TypeOK, VerificarInvestimento, Fases

\* A seller is paid.
LEMMA PagarTipo ==
  ASSUME TypeOK, Pagar
  PROVE  TypeOK'
<1>. DEFINE a == Lotes[LoteActual]
            q == IF LoteInteiro(a) THEN a.perc ELSE PedidoActual.perc - compra.actual
            v == IF LoteInteiro(a) THEN a.preco ELSE Custo(q, a)
            m == IF Ultima THEN 0 ELSE compra.meu
            w == LoteInteiro(a)
<1>1. fase = "pagar" /\ compra.quem \in Utilizadores
  BY DEF Pagar, TypeOK
<1>2. a \in Accao /\ a.dono \in Utilizadores
  BY LotesTipo DEF Pagar, Lotes, IdeiaExiste, TypeOK, encontraruser
<1>3. q \in Int
  <2>1. PedidoActual.perc \in Int /\ compra.actual \in Int
    BY <1>1, PedidoTipo, CompraTipo DEF PedidoActual
  <2>. QED BY <1>2, <2>1, NumDenTipo
<1>4. v \in Int
  <2>. HIDE DEF q
  <2>. QED BY <1>2, <1>3, NumDenTipo, CustoTipo
<1>5. m \in Nat
  BY CompraTipo
<1>6. w \in BOOLEAN
  BY DEF LoteInteiro
<1>7. /\ saldo' = [saldo EXCEPT ![compra.quem] = @ - v, ![a.dono] = @ + v]
      /\ compra' = [compra EXCEPT !.quantidade = q, !.valor = v,
                                  !.inteiro = w, !.meu = m]
  BY DEF Pagar, MudarSaldos
<1>. HIDE DEF a, q, v, m, w
<1>8. saldo' \in [Utilizadores -> Int]
  BY <1>1, <1>2, <1>4, <1>7 DEF TypeOK
<1>9. compra' \in Compra /\ compra'.quem = compra.quem
  BY <1>3, <1>4, <1>5, <1>6, <1>7 DEF TypeOK, Compra
<1>. QED BY <1>1, <1>8, <1>9, TypeMontar DEF TypeOK, Pagar, Fases

\* The holdings when temaccoes returned: they were there, or an empty one of
\* the buyer's, who had none, was added at the end.
LEMMA ComCompradorTipo ==
  ASSUME TypeOK, IdeiaExiste, compra.quem \in Utilizadores, NEW m, TemAccoes(m)
  PROVE  /\ Lotes \in Seq(Accao) /\ PedidoActual.pos \in DOMAIN ideias
         /\ ComComprador(m) \in Seq(Accao)
         /\ \/ ComComprador(m) = Lotes
            \/ /\ \A j \in DOMAIN Lotes : Lotes[j].dono # compra.quem
               /\ \E a \in Accao : /\ a.dono = compra.quem
                                   /\ ComComprador(m) = Append(Lotes, a)
<1>1. PedidoActual.pos \in DOMAIN ideias /\ Lotes \in Seq(Accao)
  BY LotesTipo DEF IdeiaExiste, Lotes, TypeOK
<1>. DEFINE a == [dono |-> compra.quem, perc |-> 0, preco |-> PedidoActual.revenda]
<1>2. a \in Accao /\ a.dono = compra.quem
  BY PedidoTipo DEF Accao, Donos, PedidoActual
<1>3. CASE compra.meu = 0 /\ m = Len(Lotes) + 1
  <2>1. ComComprador(m) = Append(Lotes, a)
    BY <1>3 DEF ComComprador
  <2>2. ~(Len(Lotes) + 1 \in DOMAIN Lotes)
    BY <1>1, LenProperties
  <2>3. \A j \in DOMAIN Lotes : Lotes[j].dono # compra.quem
    BY <1>3, <2>2 DEF TemAccoes
  <2>. HIDE DEF a
  <2>. QED BY <1>1, <1>2, <2>1, <2>3, AppendProperties
<1>4. CASE ~(compra.meu = 0 /\ m = Len(Lotes) + 1)
  BY <1>1, <1>4 DEF ComComprador
<1>. QED BY <1>3, <1>4

\* The shares change hands.
LEMMA TransferirTipo ==
  ASSUME TypeOK, NEW m \in Nat, Transferir(m)
  PROVE  TypeOK'
<1>. DEFINE A == ComComprador(m)
            B == retiraraccao(A, LoteActual, compra.quantidade)
            C == adicionaraccao(B, m, compra.quantidade)
            D == setprecoaccao(C, LoteActual, C[LoteActual].preco - compra.valor)
<1>1. fase = "transferir" /\ compra.quem \in Utilizadores
  BY DEF Transferir, TypeOK
<1>2. A \in Seq(Accao) /\ PedidoActual.pos \in DOMAIN ideias
  BY <1>1, ComCompradorTipo DEF Transferir
<1>3. LoteActual \in DOMAIN A /\ m \in DOMAIN A
  BY DEF Transferir
<1>4. ideias' = ComAccoes(PedidoActual.pos, IF compra.inteiro THEN C ELSE D)
  BY DEF Transferir
<1>. HIDE DEF A
<1>5. B \in Seq(Accao) /\ Len(B) = Len(A)
  BY <1>2, <1>3, retiraraccaoTipo, CompraTipo
<1>6. LoteActual \in DOMAIN B /\ m \in DOMAIN B
  BY <1>2, <1>3, <1>5, LenProperties
<1>. HIDE DEF B
<1>7. C \in Seq(Accao) /\ Len(C) = Len(B)
  BY <1>5, <1>6, adicionaraccaoTipo, CompraTipo
<1>8. LoteActual \in DOMAIN C
  BY <1>5, <1>6, <1>7, LenProperties
<1>. HIDE DEF C
<1>9. D \in Seq(Accao)
  <2>1. C[LoteActual] \in Accao
    BY <1>7, <1>8
  <2>2. C[LoteActual].preco - compra.valor \in Int
    BY <2>1, NumDenTipo, CompraTipo
  <2>. QED BY <1>7, <1>8, <2>2, setprecoaccaoTipo
<1>. HIDE DEF D
<1>10. ideias' \in Seq(Ideia)
  BY <1>2, <1>4, <1>7, <1>9, ComAccoesTipo DEF TypeOK
<1>11. compra' \in Compra /\ compra'.quem = compra.quem
  <2>. DEFINE f == compra.feitas + 1
              n == compra.actual + compra.quantidade
  <2>1. f \in Nat /\ n \in Int
    BY CompraTipo
  <2>2. compra' = [compra EXCEPT !.feitas = f, !.meu = m, !.actual = n]
    BY DEF Transferir
  <2>. HIDE DEF f, n
  <2>3. \A c \in Compra :
          /\ [c EXCEPT !.feitas = f, !.meu = m, !.actual = n] \in Compra
          /\ [c EXCEPT !.feitas = f, !.meu = m, !.actual = n].quem = c.quem
    BY <2>1 DEF Compra
  <2>. QED BY <2>2, <2>3 DEF TypeOK
<1>. QED BY <1>1, <1>10, <1>11, TypeMontar DEF TypeOK, Transferir, Fases

\* The list changed meanwhile, and part of that is done.
LEMMA TransferirFalhaTipo ==
  ASSUME TypeOK, NEW m \in Nat, TransferirFalha(m)
  PROVE  TypeOK'
<1>. DEFINE A == ComComprador(m)
            B == retiraraccao(A, LoteActual, compra.quantidade)
<1>1. fase = "transferir" /\ compra.quem \in Utilizadores
  BY DEF TransferirFalha, TypeOK
<1>2. A \in Seq(Accao) /\ PedidoActual.pos \in DOMAIN ideias
  BY <1>1, ComCompradorTipo DEF TransferirFalha
<1>3. ideias' = ComAccoes(PedidoActual.pos,
                          IF LoteActual \in DOMAIN A THEN B ELSE A)
  BY DEF TransferirFalha
<1>. HIDE DEF A
<1>4. LoteActual \in DOMAIN A => B \in Seq(Accao)
  BY <1>2, retiraraccaoTipo, CompraTipo
<1>. HIDE DEF B
<1>5. ideias' \in Seq(Ideia)
  BY <1>2, <1>3, <1>4, ComAccoesTipo DEF TypeOK
<1>. QED BY <1>1, <1>5, SairTipo DEF TypeOK, TransferirFalha

\* An empty holding is deleted.
LEMMA EliminarAccaoTipo ==
  ASSUME TypeOK, NEW i \in Nat, EliminarAccao(i)
  PROVE  TypeOK'
<1>1. /\ PedidoActual.pos \in DOMAIN ideias /\ i \in DOMAIN Lotes
      /\ ideias' = ComAccoes(PedidoActual.pos, RemoveAt(Lotes, i))
  BY DEF EliminarAccao, PrimeiraInvalida, IdeiaExiste
<1>2. Lotes \in Seq(Accao)
  BY <1>1, LotesTipo DEF Lotes, TypeOK
<1>3. RemoveAt(Lotes, i) \in Seq(Accao)
  BY <1>1, <1>2, RemoveAtLista
<1>4. ideias' \in Seq(Ideia)
  BY <1>1, <1>3, ComAccoesTipo DEF TypeOK
<1>. QED BY <1>4, TypeMontar DEF TypeOK, EliminarAccao

\* An idea is created.
LEMMA CriarIdeiaTipo ==
  ASSUME TypeOK, NEW u \in Utilizadores, NEW id \in Nat, NEW inv \in Int,
         CriarIdeia(u, id, inv)
  PROVE  TypeOK'
<1>. DEFINE nova == [id |-> id, accoes |->
                       <<[dono |-> u, perc |-> Total, preco |-> inv]>>]
<1>1. nova \in Ideia
  BY TotalAssumption DEF Ideia, Accao, Donos
<1>. HIDE DEF nova
<1>2. ideias' = Append(ideias, nova)
  BY DEF CriarIdeia, nova
<1>3. ideias' \in Seq(Ideia)
  BY <1>1, <1>2, AppendProperties DEF TypeOK
<1>4. saldo' \in [Utilizadores -> Int]
  BY DEF CriarIdeia, TypeOK
<1>5. pedidos' \in 0..MaxPedidos
  BY NumerosAssumption DEF TypeOK, CriarIdeia, Contar
<1>. QED BY <1>3, <1>4, <1>5, TypeMontar DEF TypeOK, CriarIdeia

\* A price is edited.
LEMMA EditarAccaoTipo ==
  ASSUME TypeOK, NEW u \in Utilizadores, NEW k \in DOMAIN ideias,
         NEW j \in DOMAIN ideias[k].accoes, NEW preco \in Int,
         EditarAccao(u, k, j, preco)
  PROVE  TypeOK'
<1>. DEFINE A == setprecoaccao(ideias[k].accoes, j, preco)
<1>1. A \in Seq(Accao)
  BY LotesTipo, setprecoaccaoTipo DEF TypeOK
<1>. HIDE DEF A
<1>2. ideias' = ComAccoes(k, A)
  BY DEF EditarAccao, A
<1>3. ideias' \in Seq(Ideia)
  BY <1>1, <1>2, ComAccoesTipo DEF TypeOK
<1>4. pedidos' \in 0..MaxPedidos
  BY NumerosAssumption DEF TypeOK, EditarAccao, Contar
<1>. QED BY <1>3, <1>4, TypeMontar DEF TypeOK, EditarAccao

\* An idea is deleted.
LEMMA ApagarIdeiaTipo ==
  ASSUME TypeOK, NEW u \in Utilizadores, NEW k \in DOMAIN ideias,
         NEW j \in DOMAIN ideias[k].accoes, ApagarIdeia(u, k, j)
  PROVE  TypeOK'
<1>1. ideias' \in Seq(Ideia)
  BY RemoveAtLista DEF ApagarIdeia, TypeOK
<1>2. pedidos' \in 0..MaxPedidos
  BY NumerosAssumption DEF TypeOK, ApagarIdeia, Contar
<1>. QED BY <1>1, <1>2, TypeMontar DEF TypeOK, ApagarIdeia

\* A takeover begins.
LEMMA TomarTipo ==
  ASSUME TypeOK, NEW k \in DOMAIN ideias, IniciarTomada(k)
  PROVE  TypeOK'
<1>1. k \in Nat
  BY DEF TypeOK
<1>2. tomada' \in [pos : Nat, titular : Nat]
  BY <1>1 DEF IniciarTomada
<1>3. pedidos' \in 0..MaxPedidos
  BY NumerosAssumption DEF TypeOK, IniciarTomada, Contar
<1>. QED BY <1>2, <1>3, TypeMontar DEF TypeOK, IniciarTomada

\* A takeover goes on.
LEMMA PassoTomadaTipo ==
  ASSUME TypeOK, PassoTomada
  PROVE  TypeOK'
<1>1. CASE PagarTitular
  <2>. DEFINE a == AccoesTomadas[tomada.titular]
              p == a.preco
  <2>1. a \in Accao /\ a.dono \in Utilizadores
    BY <1>1, LotesTipo DEF PagarTitular, EmTomada, AccoesTomadas, TypeOK, encontraruser
  <2>2. p \in Int
    BY <2>1, NumDenTipo
  <2>3. saldo' = [saldo EXCEPT ![a.dono] = @ + p]
    BY <1>1 DEF PagarTitular
  <2>. HIDE DEF a, p
  <2>4. saldo' \in [Utilizadores -> Int]
    BY <2>1, <2>2, <2>3 DEF TypeOK
  <2>5. tomada' \in [pos : Nat, titular : Nat]
    <3>. DEFINE n == tomada.titular + 1
    <3>1. n \in Nat
      BY DEF TypeOK
    <3>2. tomada' = [tomada EXCEPT !.titular = n]
      BY <1>1 DEF PagarTitular
    <3>. HIDE DEF n
    <3>. QED BY <3>1, <3>2 DEF TypeOK
  <2>. QED BY <1>1, <2>4, <2>5, TypeMontar DEF TypeOK, PagarTitular
<1>2. CASE ConcluirTomada
  <2>. DEFINE A == <<[dono |-> Root, perc |-> Total, preco |-> -Moeda]>>
  <2>1. A \in Seq(Accao)
    BY TotalAssumption, NumerosAssumption DEF Accao, Donos
  <2>. HIDE DEF A
  <2>2. tomada.pos \in DOMAIN ideias /\ ideias' = ComAccoes(tomada.pos, A)
    BY <1>2 DEF ConcluirTomada, EmTomada, A
  <2>3. ideias' \in Seq(Ideia)
    BY <2>1, <2>2, ComAccoesTipo DEF TypeOK
  <2>4. tomada' \in [pos : Nat, titular : Nat]
    BY <1>2 DEF ConcluirTomada, SemTomada
  <2>. QED BY <1>2, <2>3, <2>4, TypeMontar DEF TypeOK, ConcluirTomada
<1>3. CASE TomadaFalha
  <2>1. tomada' \in [pos : Nat, titular : Nat]
    BY <1>3 DEF TomadaFalha, SemTomada
  <2>. QED BY <1>3, <2>1, TypeMontar DEF TypeOK, TomadaFalha
<1>. QED BY <1>1, <1>2, <1>3 DEF PassoTomada

\* The positions a purchase may try.
LEMMA PosicoesTipo == TypeOK => Posicoes \subseteq Nat
<1>. SUFFICES ASSUME TypeOK PROVE Posicoes \subseteq Nat
  OBVIOUS
<1>1. CASE fase \in {"transferir", "eliminar"} /\ IdeiaExiste
  <2>1. Len(Lotes) \in Nat /\ compra.meu \in Nat
    BY <1>1, LotesTipo, LenProperties, CompraTipo
       DEF IdeiaExiste, Lotes, TypeOK
  <2>. QED BY <2>1 DEF Posicoes
<1>2. CASE ~(fase \in {"transferir", "eliminar"} /\ IdeiaExiste)
  BY <1>2 DEF Posicoes
<1>. QED BY <1>1, <1>2

\* Every step of a purchase keeps the types.
LEMMA PassoCompraTipo ==
  ASSUME TypeOK, PassoCompra
  PROVE  TypeOK'
<1>1. ASSUME NEW u \in Utilizadores, RecusarCompra(u) \/ IniciarCompra(u)
      PROVE  TypeOK'
  BY <1>1, IniciarCompraTipo
<1>2. ASSUME NEW i \in 1..compra.naccoes, Selecionar(i)
      PROVE  TypeOK'
  BY <1>2, SelecionarTipo
<1>3. CASE \/ SelecionarFalha \/ InvestimentoInsuficiente \/ PagarFalha
           \/ EliminarFalha \/ IdeiaPerdida \/ TerminarCompra
  BY <1>3, SairSemEfeitoTipo
     DEF SelecionarFalha, InvestimentoInsuficiente, PagarFalha, EliminarFalha,
         IdeiaPerdida, TerminarCompra
<1>4. CASE VerificarInvestimento
  BY <1>4, VerificarTipo
<1>5. CASE Pagar
  BY <1>5, PagarTipo
<1>7. ASSUME NEW m \in Posicoes,
             Transferir(m) \/ TransferirFalha(m) \/ EliminarAccao(m)
      PROVE  TypeOK'
  BY <1>7, PosicoesTipo, TransferirTipo, TransferirFalhaTipo, EliminarAccaoTipo
<1>8. CASE EliminarFim
  BY <1>8, TypeMontar DEF TypeOK, EliminarFim, Fases
<1>. QED BY <1>1, <1>2, <1>3, <1>4, <1>5, <1>7, <1>8 DEF PassoCompra

\* Every step keeps the types.
LEMMA TypeNext == TypeOK /\ [Next]_vars => TypeOK'
<1>. SUFFICES ASSUME TypeOK, [Next]_vars PROVE TypeOK'
  OBVIOUS
<1>1. CASE Pedir
  BY <1>1, PedirCompraTipo, NumerosAssumption DEF Pedir
<1>2. CASE PassoCompra
  BY <1>2, PassoCompraTipo
<1>3. CASE Editar
  BY <1>3, EditarAccaoTipo, NumerosAssumption DEF Editar
<1>4. CASE CriarApagar
  BY <1>4, CriarIdeiaTipo, ApagarIdeiaTipo, NumerosAssumption DEF CriarApagar
<1>5. CASE Tomar
  BY <1>5, TomarTipo DEF Tomar
<1>6. CASE PassoTomada
  BY <1>6, PassoTomadaTipo
<1>7. CASE UNCHANGED vars
  BY <1>7 DEF TypeOK, vars
<1>. QED BY <1>1, <1>2, <1>3, <1>4, <1>5, <1>6, <1>7 DEF Next

\* Whatever the operations do, alone or overlapping, balances stay numbers of
\* known users, lists stay lists of ideas and a running purchase is a user's.
THEOREM TypeCorrect == Spec => []TypeOK
<1>. QED BY TypeInit, TypeNext, PTL DEF Spec

-----------------------------------------------------------------------------
\* One holding per owner.

Unicos(A) == \A i, j \in DOMAIN A : A[i].dono = A[j].dono => i = j

\* A step that replaces the holdings of one idea.
LEMMA UnicosTrocar ==
  ASSUME TypeOK, UmaAccaoPorDono, NEW k \in DOMAIN ideias, NEW A \in Seq(Accao),
         Unicos(A), ideias' = ComAccoes(k, A)
  PROVE  UmaAccaoPorDono'
<1>1. /\ Len(ideias') = Len(ideias) /\ ideias' \in Seq(Ideia)
      /\ ideias'[k].accoes = A
      /\ \A l \in DOMAIN ideias : l # k => ideias'[l] = ideias[l]
  BY ComAccoesTipo DEF TypeOK
<1>2. DOMAIN ideias' = DOMAIN ideias
  BY <1>1, LenProperties DEF TypeOK
<1>. SUFFICES ASSUME NEW l \in DOMAIN ideias' PROVE Unicos(ideias'[l].accoes)
  BY DEF UmaAccaoPorDono, Unicos
<1>3. CASE l = k
  BY <1>1, <1>3
<1>4. CASE l # k
  BY <1>1, <1>2, <1>4 DEF UmaAccaoPorDono, Unicos
<1>. QED BY <1>3, <1>4

\* Lists with the same owners in the same places.
LEMMA UnicosMesmos ==
  ASSUME NEW A \in Seq(Accao), NEW B \in Seq(Accao), Len(A) = Len(B),
         \A j \in DOMAIN A : B[j].dono = A[j].dono, Unicos(A)
  PROVE  Unicos(B)
<1>1. DOMAIN A = DOMAIN B
  BY LenProperties
<1>. QED BY <1>1 DEF Unicos

\* The methods of Accao.
LEMMA UnicosMetodos ==
  ASSUME NEW A \in Seq(Accao), NEW i \in DOMAIN A, NEW q \in Int, Unicos(A)
  PROVE  /\ retiraraccao(A, i, q) \in Seq(Accao) /\ Unicos(retiraraccao(A, i, q))
         /\ adicionaraccao(A, i, q) \in Seq(Accao) /\ Unicos(adicionaraccao(A, i, q))
         /\ setprecoaccao(A, i, q) \in Seq(Accao) /\ Unicos(setprecoaccao(A, i, q))
         /\ Len(retiraraccao(A, i, q)) = Len(A)
         /\ Len(adicionaraccao(A, i, q)) = Len(A)
         /\ Len(setprecoaccao(A, i, q)) = Len(A)
<1>. DEFINE R == retiraraccao(A, i, q)
            D == adicionaraccao(A, i, q)
            P == setprecoaccao(A, i, q)
<1>1. R \in Seq(Accao) /\ Len(R) = Len(A) /\ \A j \in DOMAIN A : R[j].dono = A[j].dono
  BY retiraraccaoTipo
<1>2. D \in Seq(Accao) /\ Len(D) = Len(A) /\ \A j \in DOMAIN A : D[j].dono = A[j].dono
  BY adicionaraccaoTipo
<1>3. P \in Seq(Accao) /\ Len(P) = Len(A) /\ \A j \in DOMAIN A : P[j].dono = A[j].dono
  BY setprecoaccaoTipo
<1>. HIDE DEF R, D, P
<1>4. Unicos(R) /\ Unicos(D) /\ Unicos(P)
  BY <1>1, <1>2, <1>3, UnicosMesmos
<1>. QED BY <1>1, <1>2, <1>3, <1>4 DEF R, D, P

\* Holdings with one deleted.
LEMMA UnicosRemover ==
  ASSUME NEW A \in Seq(Accao), NEW i \in DOMAIN A, Unicos(A)
  PROVE  Unicos(RemoveAt(A, i))
<1>. DEFINE B == RemoveAt(A, i)
<1>1. DOMAIN A = 1..Len(A)
  OBVIOUS
<1>2. /\ B \in Seq(Accao) /\ Len(B) = Len(A) - 1
      /\ \A j \in 1..(Len(A) - 1) : B[j] = IF j < i THEN A[j] ELSE A[j + 1]
  BY <1>1, RemoveAtLista
<1>. HIDE DEF B
<1>. SUFFICES ASSUME NEW j \in DOMAIN B, NEW l \in DOMAIN B, B[j].dono = B[l].dono
              PROVE  j = l
  BY DEF Unicos, B
<1>3. j \in 1..(Len(A) - 1) /\ l \in 1..(Len(A) - 1)
  BY <1>2, LenProperties
<1>. DEFINE f(n) == IF n < i THEN n ELSE n + 1
<1>4. f(j) \in DOMAIN A /\ f(l) \in DOMAIN A /\ B[j] = A[f(j)] /\ B[l] = A[f(l)]
  BY <1>1, <1>2, <1>3
<1>5. f(j) = f(l)
  BY <1>4 DEF Unicos
<1>. QED BY <1>1, <1>3, <1>5

\* What temaccoes returns has one holding per owner: it adds the buyer's only
\* after it looked through the whole list.
LEMMA UnicosComprador ==
  ASSUME TypeOK, UmaAccaoPorDono, IdeiaExiste, compra.quem \in Utilizadores,
         NEW m, TemAccoes(m)
  PROVE  Unicos(ComComprador(m))
<1>1. Unicos(Lotes) /\ Lotes \in Seq(Accao)
  BY ComCompradorTipo DEF UmaAccaoPorDono, Unicos, Lotes, IdeiaExiste
<1>2. CASE ComComprador(m) = Lotes
  BY <1>1, <1>2
<1>3. ASSUME NEW a \in Accao, a.dono = compra.quem,
             \A j \in DOMAIN Lotes : Lotes[j].dono # compra.quem,
             ComComprador(m) = Append(Lotes, a)
      PROVE  Unicos(ComComprador(m))
  <2>. DEFINE A == Lotes
              B == Append(Lotes, a)
  <2>1. /\ DOMAIN B = 1..(Len(A) + 1) /\ DOMAIN A = 1..Len(A)
        /\ \A j \in 1..Len(A) : B[j] = A[j]
        /\ B[Len(A) + 1] = a
    BY <1>1, AppendProperties, LenProperties
  <2>2. Len(A) \in Nat /\ Unicos(A) /\ \A j \in DOMAIN A : A[j].dono # a.dono
    BY <1>1, <1>3, LenProperties
  <2>. HIDE DEF A, B
  <2>3. Unicos(B)
    BY <2>1, <2>2 DEF Unicos
  <2>. QED BY <1>3, <2>3 DEF B
<1>. QED BY <1>2, <1>3, ComCompradorTipo

\* temaccoes adds a holding only to who has none.
LEMMA UnicosTransferir ==
  ASSUME TypeOK, UmaAccaoPorDono, NEW m \in Nat, Transferir(m)
  PROVE  UmaAccaoPorDono'
<1>. DEFINE A == ComComprador(m)
            B == retiraraccao(A, LoteActual, compra.quantidade)
            C == adicionaraccao(B, m, compra.quantidade)
            D == setprecoaccao(C, LoteActual, C[LoteActual].preco - compra.valor)
<1>1. compra.quem \in Utilizadores
  BY DEF Transferir, TypeOK
<1>2. A \in Seq(Accao) /\ PedidoActual.pos \in DOMAIN ideias /\ Unicos(A)
  BY <1>1, ComCompradorTipo, UnicosComprador DEF Transferir
<1>3. LoteActual \in DOMAIN A /\ m \in DOMAIN A
  BY DEF Transferir
<1>4. ideias' = ComAccoes(PedidoActual.pos, IF compra.inteiro THEN C ELSE D)
  BY DEF Transferir
<1>. HIDE DEF A
<1>5. B \in Seq(Accao) /\ Len(B) = Len(A) /\ Unicos(B)
  BY <1>2, <1>3, CompraTipo, UnicosMetodos
<1>6. LoteActual \in DOMAIN B /\ m \in DOMAIN B
  BY <1>2, <1>3, <1>5, LenProperties
<1>. HIDE DEF B
<1>7. C \in Seq(Accao) /\ Len(C) = Len(B) /\ Unicos(C)
  BY <1>5, <1>6, CompraTipo, UnicosMetodos
<1>8. LoteActual \in DOMAIN C
  BY <1>5, <1>6, <1>7, LenProperties
<1>. HIDE DEF C
<1>9. D \in Seq(Accao) /\ Unicos(D)
  <2>1. C[LoteActual].preco - compra.valor \in Int
    <3>1. C[LoteActual] \in Accao /\ compra.valor \in Int
      BY <1>7, <1>8, CompraTipo
    <3>. QED BY <3>1, NumDenTipo
  <2>. QED BY <1>7, <1>8, <2>1, UnicosMetodos
<1>. HIDE DEF D
<1>. QED BY <1>2, <1>4, <1>7, <1>9, UnicosTrocar

\* Neither does a transaction that breaks off.
LEMMA UnicosTransferirFalha ==
  ASSUME TypeOK, UmaAccaoPorDono, NEW m \in Nat, TransferirFalha(m)
  PROVE  UmaAccaoPorDono'
<1>. DEFINE A == ComComprador(m)
            B == retiraraccao(A, LoteActual, compra.quantidade)
<1>1. compra.quem \in Utilizadores
  BY DEF TransferirFalha, TypeOK
<1>2. A \in Seq(Accao) /\ PedidoActual.pos \in DOMAIN ideias /\ Unicos(A)
  BY <1>1, ComCompradorTipo, UnicosComprador DEF TransferirFalha
<1>3. ideias' = ComAccoes(PedidoActual.pos,
                          IF LoteActual \in DOMAIN A THEN B ELSE A)
  BY DEF TransferirFalha
<1>. HIDE DEF A
<1>4. LoteActual \in DOMAIN A => B \in Seq(Accao) /\ Unicos(B)
  BY <1>2, CompraTipo, UnicosMetodos
<1>. HIDE DEF B
<1>. QED BY <1>2, <1>3, <1>4, UnicosTrocar

\* Deleting a holding gives nobody a second one.
LEMMA UnicosEliminar ==
  ASSUME TypeOK, UmaAccaoPorDono, NEW i \in Nat, EliminarAccao(i)
  PROVE  UmaAccaoPorDono'
<1>1. /\ PedidoActual.pos \in DOMAIN ideias /\ i \in DOMAIN Lotes
      /\ ideias' = ComAccoes(PedidoActual.pos, RemoveAt(Lotes, i))
  BY DEF EliminarAccao, PrimeiraInvalida, IdeiaExiste
<1>2. Lotes \in Seq(Accao) /\ Unicos(Lotes)
  BY <1>1, LotesTipo DEF Lotes, TypeOK, UmaAccaoPorDono, Unicos
<1>3. RemoveAt(Lotes, i) \in Seq(Accao) /\ Unicos(RemoveAt(Lotes, i))
  BY <1>1, <1>2, RemoveAtLista, UnicosRemover
<1>. QED BY <1>1, <1>3, UnicosTrocar

\* A new idea has one holder.
LEMMA UnicosCriar ==
  ASSUME TypeOK, UmaAccaoPorDono, NEW u \in Utilizadores, NEW id \in Nat,
         NEW inv \in Int, CriarIdeia(u, id, inv)
  PROVE  UmaAccaoPorDono'
<1>. DEFINE nova == [id |-> id, accoes |->
                       <<[dono |-> u, perc |-> Total, preco |-> inv]>>]
<1>1. nova \in Ideia
  BY TotalAssumption DEF Ideia, Accao, Donos
<1>2. Unicos(nova.accoes)
  BY DEF Unicos
<1>. HIDE DEF nova
<1>3. ideias' = Append(ideias, nova)
  BY DEF CriarIdeia, nova
<1>4. /\ DOMAIN ideias' = 1..(Len(ideias) + 1) /\ DOMAIN ideias = 1..Len(ideias)
      /\ \A l \in 1..Len(ideias) : ideias'[l] = ideias[l]
      /\ ideias'[Len(ideias) + 1] = nova
  BY <1>1, <1>3, AppendProperties, LenProperties DEF TypeOK
<1>5. \A l \in 1..(Len(ideias) + 1) : l \in 1..Len(ideias) \/ l = Len(ideias) + 1
  BY LenProperties DEF TypeOK
<1>. QED BY <1>2, <1>4, <1>5 DEF UmaAccaoPorDono, Unicos

\* A new price changes no holder.
LEMMA UnicosEditar ==
  ASSUME TypeOK, UmaAccaoPorDono, NEW u \in Utilizadores, NEW k \in DOMAIN ideias,
         NEW j \in DOMAIN ideias[k].accoes, NEW preco \in Int,
         EditarAccao(u, k, j, preco)
  PROVE  UmaAccaoPorDono'
<1>. DEFINE A == ideias[k].accoes
            B == setprecoaccao(A, j, preco)
<1>1. A \in Seq(Accao) /\ Unicos(A)
  BY LotesTipo DEF TypeOK, UmaAccaoPorDono, Unicos
<1>2. ideias' = ComAccoes(k, B) /\ j \in DOMAIN A
  BY DEF EditarAccao
<1>. HIDE DEF A
<1>3. B \in Seq(Accao) /\ Unicos(B)
  BY <1>1, <1>2, UnicosMetodos
<1>. HIDE DEF B
<1>. QED BY <1>2, <1>3, UnicosTrocar

\* Deleting an idea changes no other.
LEMMA UnicosApagar ==
  ASSUME TypeOK, UmaAccaoPorDono, NEW u \in Utilizadores, NEW k \in DOMAIN ideias,
         NEW j \in DOMAIN ideias[k].accoes, ApagarIdeia(u, k, j)
  PROVE  UmaAccaoPorDono'
<1>1. ideias' = RemoveAt(ideias, k) /\ k \in 1..Len(ideias)
  BY DEF ApagarIdeia, TypeOK
<1>2. /\ DOMAIN ideias' = 1..(Len(ideias) - 1) /\ DOMAIN ideias = 1..Len(ideias)
      /\ \A l \in 1..(Len(ideias) - 1) :
           ideias'[l] = IF l < k THEN ideias[l] ELSE ideias[l + 1]
  BY <1>1, RemoveAtLista, LenProperties DEF TypeOK
<1>3. \A l \in 1..(Len(ideias) - 1) : l \in 1..Len(ideias) /\ l + 1 \in 1..Len(ideias)
  BY LenProperties DEF TypeOK
<1>. QED BY <1>2, <1>3 DEF UmaAccaoPorDono

\* An idea taken over has one holder.
LEMMA UnicosTomar ==
  ASSUME TypeOK, UmaAccaoPorDono, ConcluirTomada
  PROVE  UmaAccaoPorDono'
<1>. DEFINE A == <<[dono |-> Root, perc |-> Total, preco |-> -Moeda]>>
<1>1. A \in Seq(Accao)
  BY TotalAssumption, NumerosAssumption DEF Accao, Donos
<1>2. Unicos(A)
  BY DEF Unicos
<1>. HIDE DEF A
<1>3. tomada.pos \in DOMAIN ideias /\ ideias' = ComAccoes(tomada.pos, A)
  BY DEF ConcluirTomada, EmTomada, A
<1>. QED BY <1>1, <1>2, <1>3, UnicosTrocar

\* No step gives anybody a second holding.
LEMMA UnicosNext == TypeOK /\ UmaAccaoPorDono /\ [Next]_vars => UmaAccaoPorDono'
<1>. SUFFICES ASSUME TypeOK, UmaAccaoPorDono, [Next]_vars PROVE UmaAccaoPorDono'
  OBVIOUS
<1>0. ASSUME UNCHANGED ideias PROVE UmaAccaoPorDono'
  BY <1>0 DEF UmaAccaoPorDono
<1>1. CASE Pedir
  BY <1>0, <1>1 DEF Pedir, PedirCompra
<1>2. CASE PassoCompra
  <2>1. ASSUME NEW m \in Posicoes,
               Transferir(m) \/ TransferirFalha(m) \/ EliminarAccao(m)
        PROVE  UmaAccaoPorDono'
    BY <2>1, PosicoesTipo, UnicosTransferir, UnicosTransferirFalha, UnicosEliminar
  <2>2. ASSUME ~\E m \in Posicoes :
                 Transferir(m) \/ TransferirFalha(m) \/ EliminarAccao(m)
        PROVE  UNCHANGED ideias
    BY <1>2, <2>2
       DEF PassoCompra, RecusarCompra, IniciarCompra, Selecionar, SelecionarFalha,
           VerificarInvestimento, InvestimentoInsuficiente, Pagar, PagarFalha,
           EliminarFim, EliminarFalha, IdeiaPerdida, TerminarCompra, mercado
  <2>. QED BY <1>0, <2>1, <2>2
<1>3. CASE Editar
  BY <1>3, UnicosEditar, NumerosAssumption DEF Editar
<1>4. CASE CriarApagar
  BY <1>4, UnicosCriar, UnicosApagar, NumerosAssumption DEF CriarApagar
<1>5. CASE Tomar
  BY <1>0, <1>5 DEF Tomar, IniciarTomada
<1>6. CASE PassoTomada
  BY <1>0, <1>6, UnicosTomar DEF PassoTomada, PagarTitular, TomadaFalha
<1>7. CASE UNCHANGED vars
  BY <1>0, <1>7 DEF vars
<1>. QED BY <1>1, <1>2, <1>3, <1>4, <1>5, <1>6, <1>7 DEF Next

\* Nobody ever has two holdings in an idea, with operations overlapping or
\* not: temaccoes, EditarAccao and ApagarIdeia may stop at the first they find.
THEOREM UmaAccaoPorDonoSempre == Spec => []UmaAccaoPorDono
<1>1. Init => UmaAccaoPorDono
  BY CarregadosAssumption DEF Init, ListaValida, UmaAccaoPorDono
<1>. QED BY <1>1, TypeCorrect, UnicosNext, PTL DEF Spec

-----------------------------------------------------------------------------
\* The positions a purchase keeps, when operations reach the server one at a
\* time.

Selecionando == fase \in {"selecionar", "pagar", "transferir"}

\* The running purchase is the one its user asked for, and it runs alone.
Sozinha == fase # "livre" => PedidoActual.activo /\ tomada = SemTomada

\* The lots selected are some of those the idea had when the purchase began,
\* each once and none of the buyer's; temaccoes may add the buyer's after them.
PosicoesCertas ==
  Selecionando =>
    /\ IdeiaExiste
    /\ compra.naccoes <= Len(Lotes)
    /\ \A i \in DOMAIN compra.transacoes :
         /\ compra.transacoes[i] \in 1..compra.naccoes
         /\ Lotes[compra.transacoes[i]].dono # compra.quem
    /\ \A i, j \in DOMAIN compra.transacoes :
         compra.transacoes[i] = compra.transacoes[j] => i = j

SelecaoInv == Sozinha /\ PosicoesCertas

\* The strengthening says what the runs check.
LEMMA SelecaoInvBasta == TypeOK /\ SelecaoInv => SelecaoValida
<1>. SUFFICES ASSUME TypeOK, SelecaoInv, Selecionando PROVE SelecaoValida
  BY DEF SelecaoValida, Selecionando
<1>1. DOMAIN Lotes = 1..Len(Lotes) /\ Len(Lotes) \in Nat
  BY LotesTipo, LenProperties
     DEF SelecaoInv, PosicoesCertas, IdeiaExiste, Lotes, TypeOK
<1>2. 1..compra.naccoes \subseteq DOMAIN Lotes
  BY <1>1, CompraTipo DEF SelecaoInv, PosicoesCertas
<1>. QED BY <1>2 DEF SelecaoInv, PosicoesCertas, SelecaoValida

\* Steps that change nothing a purchase in its selection or settlement reads.
LEMMA SelecaoManter ==
  ASSUME TypeOK, SelecaoInv, UNCHANGED <<ideias, fase, compra, tomada>>,
         fase # "livre" => pedido'[compra.quem] = pedido[compra.quem]
  PROVE  SelecaoInv'
<1>1. Sozinha'
  BY DEF SelecaoInv, Sozinha, PedidoActual
<1>2. PosicoesCertas'
  BY DEF SelecaoInv, PosicoesCertas, Selecionando, PedidoActual, IdeiaExiste, Lotes
<1>. QED BY <1>1, <1>2 DEF SelecaoInv

\* Steps after which no purchase runs.
LEMMA SelecaoLivre == fase' = "livre" => SelecaoInv'
BY DEF SelecaoInv, Sozinha, PosicoesCertas, Selecionando

\* A purchase begins with no position kept.
LEMMA SelecaoIniciar ==
  ASSUME TypeOK, SelecaoInv, ~Concorrente, NEW u \in Utilizadores, IniciarCompra(u)
  PROVE  SelecaoInv'
<1>. DEFINE n == Len(ideias[pedido[u].pos].accoes)
<1>1. /\ tomada' = SemTomada /\ pedido' = pedido /\ ideias' = ideias
      /\ pedido[u].activo /\ pedido[u].pos \in DOMAIN ideias
      /\ fase' = "selecionar"
      /\ compra' = [SemCompra EXCEPT !.quem = u, !.naccoes = n]
  BY DEF IniciarCompra, Vez, Sossego
<1>2. compra'.quem = u /\ compra'.naccoes = n /\ compra'.transacoes = <<>>
  BY <1>1 DEF SemCompra
<1>3. Sozinha'
  BY <1>1, <1>2 DEF Sozinha, PedidoActual
<1>4. IdeiaExiste' /\ Lotes' = ideias[pedido[u].pos].accoes
  BY <1>1, <1>2 DEF IdeiaExiste, Lotes, PedidoActual
<1>5. n \in Nat
  BY <1>1, LotesTipo, LenProperties DEF TypeOK
<1>6. compra'.naccoes <= Len(Lotes')
  BY <1>2, <1>4, <1>5
<1>7. DOMAIN compra'.transacoes = {}
  BY <1>2
<1>. QED BY <1>3, <1>4, <1>6, <1>7 DEF SelecaoInv, PosicoesCertas

\* The lot selected is none of those kept, and not the buyer's.
LEMMA SelecaoSelecionar ==
  ASSUME TypeOK, SelecaoInv, NEW i \in 1..compra.naccoes, Selecionar(i)
  PROVE  SelecaoInv'
<1>. DEFINE T == compra.transacoes
<1>1. /\ fase = "selecionar" /\ UNCHANGED <<ideias, pedido, fase, tomada>>
      /\ i \notin ToSet(T) /\ Lotes[i].dono # compra.quem
  BY DEF Selecionar, Escolhido, Candidatos, PorEscolher
<1>2. /\ compra'.transacoes = Append(T, i) /\ compra'.quem = compra.quem
      /\ compra'.naccoes = compra.naccoes
  BY DEF Selecionar, TypeOK, Compra
<1>3. Sozinha'
  BY <1>1, <1>2 DEF SelecaoInv, Sozinha, PedidoActual
<1>4. IdeiaExiste' = IdeiaExiste /\ Lotes' = Lotes
  BY <1>1, <1>2 DEF IdeiaExiste, Lotes, PedidoActual
<1>5. /\ IdeiaExiste /\ compra.naccoes <= Len(Lotes)
      /\ \A k \in DOMAIN T : T[k] \in 1..compra.naccoes /\ Lotes[T[k]].dono # compra.quem
      /\ \A k, l \in DOMAIN T : T[k] = T[l] => k = l
  BY <1>1 DEF SelecaoInv, PosicoesCertas, Selecionando
<1>6. T \in Seq(Nat) /\ i \in Nat /\ compra.naccoes \in Nat
  BY CompraTipo
<1>. HIDE DEF T
<1>. DEFINE U == Append(T, i)
<1>7. /\ DOMAIN U = 1..(Len(T) + 1) /\ DOMAIN T = 1..Len(T) /\ Len(T) \in Nat
      /\ \A k \in 1..Len(T) : U[k] = T[k]
      /\ U[Len(T) + 1] = i
  BY <1>6, AppendProperties, LenProperties
<1>8. \A k \in DOMAIN T : T[k] # i
  BY <1>1 DEF ToSet
<1>. HIDE DEF U
<1>9. \A k \in DOMAIN U : U[k] \in 1..compra.naccoes /\ Lotes[U[k]].dono # compra.quem
  BY <1>1, <1>5, <1>7
<1>10. \A k, l \in DOMAIN U : U[k] = U[l] => k = l
  BY <1>5, <1>7, <1>8
<1>11. compra'.transacoes = U
  BY <1>2 DEF U, T
<1>. QED BY <1>2, <1>3, <1>4, <1>5, <1>9, <1>10, <1>11 DEF SelecaoInv, PosicoesCertas

\* Between the selection and the transactions, and the first half of one.
LEMMA SelecaoPagar ==
  ASSUME TypeOK, SelecaoInv, VerificarInvestimento \/ Pagar
  PROVE  SelecaoInv'
<1>1. /\ fase \in {"selecionar", "pagar"}
      /\ UNCHANGED <<ideias, pedido, tomada>>
  BY DEF VerificarInvestimento, Pagar
<1>2. /\ compra'.transacoes = compra.transacoes /\ compra'.quem = compra.quem
      /\ compra'.naccoes = compra.naccoes
  BY DEF VerificarInvestimento, Pagar, TypeOK, Compra
<1>3. Sozinha'
  BY <1>1, <1>2 DEF SelecaoInv, Sozinha, PedidoActual
<1>4. IdeiaExiste' = IdeiaExiste /\ Lotes' = Lotes
  BY <1>1, <1>2 DEF IdeiaExiste, Lotes, PedidoActual
<1>. QED BY <1>1, <1>2, <1>3, <1>4 DEF SelecaoInv, PosicoesCertas, Selecionando

\* A transaction adds the buyer's holding at the end at most, and changes no
\* owner, so the positions of the next transactions are still right.
LEMMA SelecaoTransferir ==
  ASSUME TypeOK, SelecaoInv, NEW m \in Nat, Transferir(m)
  PROVE  SelecaoInv'
<1>. DEFINE A == ComComprador(m)
            B == retiraraccao(A, LoteActual, compra.quantidade)
            C == adicionaraccao(B, m, compra.quantidade)
            D == setprecoaccao(C, LoteActual, C[LoteActual].preco - compra.valor)
            E == IF compra.inteiro THEN C ELSE D
<1>1. /\ fase = "transferir" /\ compra.quem \in Utilizadores
      /\ UNCHANGED <<pedido, tomada>>
  BY DEF Transferir, TypeOK
<1>2. /\ compra'.transacoes = compra.transacoes /\ compra'.quem = compra.quem
      /\ compra'.naccoes = compra.naccoes
  BY DEF Transferir, TypeOK, Compra
<1>3. Sozinha'
  BY <1>1, <1>2 DEF SelecaoInv, Sozinha, PedidoActual
<1>4. /\ A \in Seq(Accao) /\ Lotes \in Seq(Accao)
      /\ PedidoActual.pos \in DOMAIN ideias
  BY <1>1, ComCompradorTipo DEF Transferir
<1>5. Len(Lotes) <= Len(A) /\ \A j \in 1..Len(Lotes) : A[j].dono = Lotes[j].dono
  <2>1. A = Lotes \/ \E a \in Accao : A = Append(Lotes, a)
    BY <1>1, ComCompradorTipo DEF Transferir
  <2>. HIDE DEF A
  <2>. QED BY <1>4, <2>1, AppendProperties, LenProperties
<1>6. LoteActual \in DOMAIN A /\ m \in DOMAIN A
  BY DEF Transferir
<1>7. ideias' = ComAccoes(PedidoActual.pos, E)
  BY DEF Transferir
<1>. HIDE DEF A
<1>8. /\ B \in Seq(Accao) /\ Len(B) = Len(A)
      /\ \A j \in DOMAIN A : B[j].dono = A[j].dono
  BY <1>4, <1>6, retiraraccaoTipo, CompraTipo
<1>9. DOMAIN B = DOMAIN A
  BY <1>4, <1>8, LenProperties
<1>. HIDE DEF B
<1>10. /\ C \in Seq(Accao) /\ Len(C) = Len(A)
       /\ \A j \in DOMAIN A : C[j].dono = A[j].dono
  <2>1. LoteActual \in DOMAIN B /\ m \in DOMAIN B /\ compra.quantidade \in Int
    BY <1>6, <1>9, CompraTipo
  <2>2. /\ C \in Seq(Accao) /\ Len(C) = Len(B)
        /\ \A j \in DOMAIN B : C[j].dono = B[j].dono
    BY <1>8, <2>1, adicionaraccaoTipo
  <2>. HIDE DEF C
  <2>. QED BY <1>8, <1>9, <2>2
<1>11. DOMAIN C = DOMAIN A
  BY <1>4, <1>10, LenProperties
<1>. HIDE DEF C
<1>12. /\ D \in Seq(Accao) /\ Len(D) = Len(A)
       /\ \A j \in DOMAIN A : D[j].dono = A[j].dono
  <2>1. C[LoteActual].preco - compra.valor \in Int
    <3>1. C[LoteActual] \in Accao /\ compra.valor \in Int
      BY <1>6, <1>10, <1>11, CompraTipo
    <3>. QED BY <3>1, NumDenTipo
  <2>2. LoteActual \in DOMAIN C
    BY <1>6, <1>11
  <2>3. /\ D \in Seq(Accao) /\ Len(D) = Len(C)
        /\ \A j \in DOMAIN C : D[j].dono = C[j].dono
    BY <1>10, <2>1, <2>2, setprecoaccaoTipo
  <2>. HIDE DEF D
  <2>. QED BY <1>10, <1>11, <2>3
<1>. HIDE DEF D
<1>13. /\ E \in Seq(Accao) /\ Len(E) = Len(A)
       /\ \A j \in DOMAIN A : E[j].dono = A[j].dono
  BY <1>10, <1>12
<1>. HIDE DEF E
<1>14. /\ Lotes' = E /\ IdeiaExiste'
  <2>1. PedidoActual' = PedidoActual
    BY <1>1, <1>2 DEF PedidoActual
  <2>2. ideias'[PedidoActual.pos].accoes = E
        /\ ideias' \in Seq(Ideia) /\ Len(ideias') = Len(ideias)
    BY <1>4, <1>7, <1>13, ComAccoesTipo DEF TypeOK
  <2>3. DOMAIN ideias' = DOMAIN ideias
    BY <2>2, LenProperties DEF TypeOK
  <2>. QED BY <1>4, <2>1, <2>2, <2>3 DEF Lotes, IdeiaExiste
<1>15. /\ compra.naccoes <= Len(Lotes) /\ compra.naccoes \in Nat
       /\ \A i \in DOMAIN compra.transacoes :
            /\ compra.transacoes[i] \in 1..compra.naccoes
            /\ Lotes[compra.transacoes[i]].dono # compra.quem
       /\ \A i, j \in DOMAIN compra.transacoes :
            compra.transacoes[i] = compra.transacoes[j] => i = j
  BY <1>1, CompraTipo DEF SelecaoInv, PosicoesCertas, Selecionando
<1>16. /\ Len(Lotes) \in Nat /\ Len(A) \in Nat /\ DOMAIN A = 1..Len(A)
  BY <1>4, LenProperties
<1>17. compra.naccoes <= Len(E)
       /\ \A n \in 1..compra.naccoes : E[n].dono = Lotes[n].dono
  BY <1>5, <1>13, <1>15, <1>16
<1>. QED BY <1>2, <1>3, <1>14, <1>15, <1>17 DEF SelecaoInv, PosicoesCertas

\* Every step of a purchase keeps the positions right.
LEMMA SelecaoPassoCompra ==
  ASSUME TypeOK, SelecaoInv, ~Concorrente, PassoCompra
  PROVE  SelecaoInv'
<1>1. ASSUME NEW u \in Utilizadores, RecusarCompra(u)
      PROVE  SelecaoInv'
  BY <1>1, SelecaoLivre DEF RecusarCompra
<1>2. ASSUME NEW u \in Utilizadores, IniciarCompra(u)
      PROVE  SelecaoInv'
  BY <1>2, SelecaoIniciar
<1>3. ASSUME NEW i \in 1..compra.naccoes, Selecionar(i)
      PROVE  SelecaoInv'
  BY <1>3, SelecaoSelecionar
<1>4. CASE \/ SelecionarFalha \/ InvestimentoInsuficiente \/ PagarFalha
           \/ EliminarFalha \/ IdeiaPerdida \/ TerminarCompra
  BY <1>4, SelecaoLivre
     DEF SelecionarFalha, InvestimentoInsuficiente, PagarFalha, EliminarFalha,
         IdeiaPerdida, TerminarCompra, Sair
<1>5. CASE VerificarInvestimento \/ Pagar
  BY <1>5, SelecaoPagar
<1>6. ASSUME NEW m \in Posicoes, Transferir(m)
      PROVE  SelecaoInv'
  BY <1>6, PosicoesTipo, SelecaoTransferir
<1>7. ASSUME NEW m \in Posicoes, TransferirFalha(m)
      PROVE  SelecaoInv'
  BY <1>7, SelecaoLivre DEF TransferirFalha, Sair
<1>8. ASSUME fase \in {"eliminar"}, fase' \in {"eliminar", "terminar"},
             UNCHANGED <<pedido, compra, tomada>>
      PROVE  SelecaoInv'
  BY <1>8 DEF SelecaoInv, Sozinha, PosicoesCertas, Selecionando, PedidoActual
<1>9. ASSUME NEW m \in Posicoes, EliminarAccao(m)
      PROVE  SelecaoInv'
  BY <1>8, <1>9 DEF EliminarAccao
<1>10. CASE EliminarFim
  BY <1>8, <1>10 DEF EliminarFim
<1>. QED BY <1>1, <1>2, <1>3, <1>4, <1>5, <1>6, <1>7, <1>9, <1>10 DEF PassoCompra

\* So does every step of a server that takes one call at a time.
LEMMA SelecaoNext ==
  ASSUME ~Concorrente
  PROVE  TypeOK /\ SelecaoInv /\ [Next]_vars => SelecaoInv'
<1>. SUFFICES ASSUME TypeOK, SelecaoInv, [Next]_vars PROVE SelecaoInv'
  OBVIOUS
<1>1. CASE Pedir
  <2>1. PICK u \in Utilizadores, id \in 1..MaxIdeias, pos \in 0..MaxIdeias,
             perc \in Percentagens, revenda \in Precos, inv \in Investimentos :
               PedirCompra(u, id, pos, perc, revenda, inv)
    BY <1>1 DEF Pedir
  <2>2. fase # "livre" => pedido[compra.quem].activo /\ compra.quem \in Utilizadores
    BY DEF SelecaoInv, Sozinha, PedidoActual, TypeOK
  <2>3. ~pedido[u].activo
    BY <2>1 DEF PedirCompra
  <2>4. fase # "livre" => pedido'[compra.quem] = pedido[compra.quem]
    BY <2>1, <2>2, <2>3 DEF PedirCompra, TypeOK
  <2>. QED BY <2>1, <2>4, SelecaoManter DEF PedirCompra
<1>2. CASE PassoCompra
  BY <1>2, SelecaoPassoCompra
\* The operations of one step, and a takeover's first, find no purchase running.
<1>3. CASE Editar \/ CriarApagar \/ Tomar
  <2>1. fase' = "livre"
    BY <1>3 DEF Editar, CriarApagar, Tomar, EditarAccao, CriarIdeia, ApagarIdeia,
                IniciarTomada, Vez, Sossego
  <2>. QED BY <2>1, SelecaoLivre
<1>4. CASE PassoTomada
  <2>1. tomada # SemTomada
    <3>1. tomada = SemTomada => tomada.pos = 0
      BY DEF SemTomada
    <3>2. ~(0 \in DOMAIN ideias)
      BY LenProperties DEF TypeOK
    <3>. QED BY <1>4, <3>1, <3>2
             DEF PassoTomada, PagarTitular, ConcluirTomada, TomadaFalha, EmTomada
  <2>2. fase = "livre"
    BY <2>1 DEF SelecaoInv, Sozinha
  <2>3. fase' = "livre"
    BY <1>4, <2>2 DEF PassoTomada, PagarTitular, ConcluirTomada, TomadaFalha
  <2>. QED BY <2>3, SelecaoLivre
<1>5. CASE UNCHANGED vars
  BY <1>5, SelecaoManter DEF vars
<1>. QED BY <1>1, <1>2, <1>3, <1>4, <1>5 DEF Next

\* With operations reaching the server one at a time, the positions selected
\* name the same lots until the last transaction: the buyer's new holding goes
\* after them, and empty lots are deleted only at the end.
THEOREM SelecaoValidaEmSerie ==
  ASSUME ~Concorrente
  PROVE  Spec => []SelecaoValida
<1>1. Init => SelecaoInv
  BY DEF Init, SelecaoInv, Sozinha, PosicoesCertas, Selecionando
<1>2. TypeOK /\ SelecaoInv /\ [Next]_vars => SelecaoInv'
  BY SelecaoNext
<1>. QED BY <1>1, <1>2, TypeCorrect, SelecaoInvBasta, PTL DEF Spec

-----------------------------------------------------------------------------
(* Shares and money when calls reach the server one at a time (~Concorrente):
   purchases lose and create neither. *)

\* Sums.  Soma is recursive; what it adds up to is shown by its partial sums, a
\* function that starts at 0 and grows by one term at a time.

Parciais(S, s) ==
  /\ S \in [0..Len(s) -> Int] /\ S[0] = 0
  /\ \A i \in 1..Len(s) : S[i] = S[i - 1] + s[i]

\* The least-number principle, for sets: what the inductions below rest on.
LEMMA MenorElemento ==
  ASSUME NEW T \in SUBSET Nat, T # {}
  PROVE  \E n \in T : \A m \in T : n <= m
<1>. DEFINE R == OpToRel(<, Nat)
<1>1. IsWellFoundedOn(R, Nat)
  BY NatLessThanWellFounded, Zenon
<1>2. R = {ss \in Nat \X Nat : ss[1] < ss[2]}
  BY Zenon DEF OpToRel
<1>. HIDE DEF R
<1>3. PICK x \in T : \A y \in T : <<y, x>> \notin R
  BY <1>1, WFMin
<1>4. \A y \in T : ~(y < x)
  BY <1>2, <1>3
<1>. QED BY <1>4

\* Soma is the last of the partial sums.
LEMMA SomaDeParciais ==
  ASSUME NEW s \in Seq(Int), NEW S, Parciais(S, s)
  PROVE  Soma(s) = S[Len(s)]
<1>. DEFINE n == Len(s)
            E(f) == [i \in 0..n |-> IF i = 0 THEN 0 ELSE f[i - 1] + s[i]]
            ate == CHOOSE f : f = E(f)
<1>1. n \in Nat
  OBVIOUS
<1>. HIDE DEF n
<1>2. S \in [0..n -> Int] /\ S[0] = 0 /\ \A i \in 1..n : S[i] = S[i - 1] + s[i]
  BY DEF Parciais, n
<1>3. S = E(S)
  <2>1. \A i \in 0..n : S[i] = E(S)[i]
    BY <1>1, <1>2
  <2>. QED BY <1>2, <2>1
<1>4. ate = E(ate)
  <2>. HIDE DEF E
  <2>. QED BY <1>3
<1>5. /\ ate[0] = 0 /\ \A i \in 1..n : ate[i] = ate[i - 1] + s[i]
  <2>1. \A i \in 0..n : E(ate)[i] = IF i = 0 THEN 0 ELSE ate[i - 1] + s[i]
    OBVIOUS
  <2>. HIDE DEF ate, E
  <2>2. \A i \in 0..n : ate[i] = IF i = 0 THEN 0 ELSE ate[i - 1] + s[i]
    BY <1>4, <2>1
  <2>. QED BY <1>1, <2>2
<1>6. Soma(s) = ate[n]
  BY DEF Soma, n
<1>. HIDE DEF ate
<1>. DEFINE T == {i \in 0..n : ate[i] # S[i]}
<1>7. T = {}
  <2>. SUFFICES ASSUME T # {} PROVE FALSE
    OBVIOUS
  <2>1. T \in SUBSET Nat
    BY <1>1
  <2>2. PICK m \in T : \A i \in T : m <= i
    BY <2>1, MenorElemento
  <2>3. m \in 1..n /\ m - 1 \in 0..n /\ m - 1 \notin T
    BY <1>1, <1>2, <1>5, <2>2
  <2>4. ate[m - 1] = S[m - 1]
    BY <2>3
  <2>. QED BY <1>2, <1>5, <2>2, <2>3, <2>4
<1>. QED BY <1>1, <1>6, <1>7 DEF n

\* There are partial sums of every list of numbers.
LEMMA HaParciais ==
  ASSUME NEW s \in Seq(Int)
  PROVE  \E S : Parciais(S, s)
<1>. DEFINE n == Len(s)
            P(k) == \E S \in [0..k -> Int] :
                      S[0] = 0 /\ \A i \in 1..k : S[i] = S[i - 1] + s[i]
            T == {k \in 0..n : ~P(k)}
<1>1. n \in Nat /\ \A i \in 1..n : s[i] \in Int
  OBVIOUS
<1>. HIDE DEF n
<1>2. T = {}
  <2>. SUFFICES ASSUME T # {} PROVE FALSE
    OBVIOUS
  <2>1. T \in SUBSET Nat
    BY <1>1
  <2>. HIDE DEF T
  <2>2. PICK m \in T : \A i \in T : m <= i
    BY <2>1, MenorElemento
  <2>3. m \in 0..n /\ ~P(m)
    BY <2>2 DEF T
  <2>4. m # 0
    <3>. DEFINE Z == [i \in 0..0 |-> 0]
    <3>1. Z \in [0..0 -> Int] /\ Z[0] = 0 /\ 1..0 = {}
      OBVIOUS
    <3>. HIDE DEF Z
    <3>2. P(0)
      BY <3>1
    <3>. QED BY <2>3, <3>2
  <2>5. m - 1 \in 0..n /\ ~(m - 1 \in T)
    BY <1>1, <2>2, <2>3, <2>4
  <2>6. P(m - 1)
    BY <2>5 DEF T
  <2>7. PICK S \in [0..(m - 1) -> Int] :
          S[0] = 0 /\ \A i \in 1..(m - 1) : S[i] = S[i - 1] + s[i]
    BY <2>6
  <2>. DEFINE U == [i \in 0..m |-> IF i = m THEN S[m - 1] + s[m] ELSE S[i]]
  <2>8. S[m - 1] + s[m] \in Int
    BY <1>1, <2>3, <2>4, <2>7
  <2>9. U \in [0..m -> Int] /\ U[0] = 0
    BY <1>1, <2>3, <2>4, <2>7, <2>8
  <2>10. ASSUME NEW i \in 1..m PROVE U[i] = U[i - 1] + s[i]
    <3>1. CASE i = m
      BY <1>1, <2>3, <2>4, <3>1
    <3>2. CASE i # m
      BY <1>1, <2>3, <2>4, <2>7, <3>2
    <3>. QED BY <3>1, <3>2
  <2>. HIDE DEF U
  <2>11. P(m)
    BY <2>9, <2>10
  <2>. QED BY <2>3, <2>11
<1>3. P(n)
  <2>. HIDE DEF P
  <2>1. n \in 0..n
    BY <1>1
  <2>. QED BY <1>2, <2>1
<1>4. PICK S \in [0..n -> Int] : S[0] = 0 /\ \A i \in 1..n : S[i] = S[i - 1] + s[i]
  BY <1>3
<1>5. Parciais(S, s)
  BY <1>4 DEF n, Parciais
<1>. QED BY <1>5

\* Any partial sums will do.
LEMMA SomaTipo ==
  ASSUME NEW s \in Seq(Int)
  PROVE  Soma(s) \in Int
<1>1. PICK S : Parciais(S, s)
  BY HaParciais
<1>2. Len(s) \in Nat
  OBVIOUS
<1>. QED BY <1>1, <1>2, SomaDeParciais DEF Parciais

\* One term changes: from there on the partial sums change by as much.
LEMMA SomaMudar ==
  ASSUME NEW s \in Seq(Int), NEW t \in Seq(Int), Len(t) = Len(s),
         NEW k \in 1..Len(s), NEW d \in Int, t[k] = s[k] + d,
         \A i \in 1..Len(s) : i # k => t[i] = s[i]
  PROVE  Soma(t) = Soma(s) + d
<1>. DEFINE n == Len(s)
<1>1. n \in Nat /\ \A i \in 1..n : s[i] \in Int
  OBVIOUS
<1>2. PICK S : Parciais(S, s)
  BY HaParciais
<1>. DEFINE U == [i \in 0..n |-> IF i < k THEN S[i] ELSE S[i] + d]
<1>3. /\ S \in [0..n -> Int] /\ S[0] = 0 /\ Len(t) = n /\ k \in 1..n
      /\ \A i \in 1..n : S[i] = S[i - 1] + s[i]
  BY <1>2 DEF Parciais
<1>. HIDE DEF n
<1>4. U \in [0..n -> Int] /\ U[0] = 0 /\ U[n] = S[n] + d
  BY <1>1, <1>3
<1>5. ASSUME NEW i \in 1..n PROVE U[i] = U[i - 1] + t[i]
  <2>1. CASE i = k
    <3>1. /\ S[i - 1] \in Int /\ s[i] \in Int /\ S[i] = S[i - 1] + s[i]
          /\ t[i] = s[i] + d
      BY <1>1, <1>3, <2>1
    <3>2. U[i] = S[i] + d /\ U[i - 1] = S[i - 1]
      BY <1>1, <1>3, <2>1
    <3>3. S[i - 1] + s[i] + d = S[i - 1] + (s[i] + d)
      BY <1>1, <3>1
    <3>. HIDE DEF U
    <3>. QED BY <3>1, <3>2, <3>3
  <2>2. CASE i # k
    <3>1. t[i] = s[i]
      BY <2>2 DEF n
    <3>2. S[i - 1] \in Int /\ s[i] \in Int /\ S[i] = S[i - 1] + s[i]
      BY <1>1, <1>3
    <3>3. CASE i < k
      BY <1>1, <1>3, <3>1, <3>2, <3>3
    <3>4. CASE i > k
      <4>0. i \in 0..n /\ i - 1 \in 0..n /\ ~(i < k) /\ ~(i - 1 < k)
        BY <1>1, <1>3, <3>4
      <4>1. U[i] = S[i] + d /\ U[i - 1] = S[i - 1] + d
        BY <4>0
      <4>. HIDE DEF U
      <4>. QED BY <3>1, <3>2, <4>1
    <3>. QED BY <1>1, <1>3, <2>2, <3>3, <3>4
  <2>. QED BY <2>1, <2>2
<1>. HIDE DEF U
<1>6. Parciais(U, t)
  BY <1>3, <1>4, <1>5 DEF Parciais
<1>7. Soma(t) = U[n] /\ Soma(s) = S[n]
  BY <1>2, <1>3, <1>6, SomaDeParciais DEF n
<1>. QED BY <1>4, <1>7

\* One more term.
LEMMA SomaAppend ==
  ASSUME NEW s \in Seq(Int), NEW t \in Seq(Int), NEW x \in Int,
         Len(t) = Len(s) + 1, t[Len(s) + 1] = x,
         \A i \in 1..Len(s) : t[i] = s[i]
  PROVE  Soma(t) = Soma(s) + x
<1>. DEFINE n == Len(s)
<1>1. n \in Nat /\ \A i \in 1..n : s[i] \in Int
  OBVIOUS
<1>2. PICK S : Parciais(S, s)
  BY HaParciais
<1>. DEFINE U == [i \in 0..(n + 1) |-> IF i = n + 1 THEN S[n] + x ELSE S[i]]
<1>3. /\ S \in [0..n -> Int] /\ S[0] = 0 /\ Len(t) = n + 1 /\ t[n + 1] = x
      /\ \A i \in 1..n : S[i] = S[i - 1] + s[i]
      /\ \A i \in 1..n : t[i] = s[i]
  BY <1>2 DEF Parciais
<1>. HIDE DEF n
<1>4. U \in [0..(n + 1) -> Int] /\ U[0] = 0 /\ U[n + 1] = S[n] + x
  BY <1>1, <1>3
<1>5. ASSUME NEW i \in 1..(n + 1) PROVE U[i] = U[i - 1] + t[i]
  <2>1. CASE i = n + 1
    BY <1>1, <1>3, <2>1
  <2>2. CASE i # n + 1
    BY <1>1, <1>3, <2>2
  <2>. QED BY <2>1, <2>2
<1>. HIDE DEF U
<1>6. Parciais(U, t)
  BY <1>3, <1>4, <1>5 DEF Parciais
<1>7. Soma(t) = U[n + 1] /\ Soma(s) = S[n]
  BY <1>2, <1>3, <1>6, SomaDeParciais DEF n
<1>. QED BY <1>4, <1>7

\* A term that adds nothing is left out.
LEMMA SomaRemover ==
  ASSUME NEW s \in Seq(Int), NEW t \in Seq(Int), NEW k \in 1..Len(s), s[k] = 0,
         Len(t) = Len(s) - 1,
         \A i \in 1..(Len(s) - 1) : t[i] = IF i < k THEN s[i] ELSE s[i + 1]
  PROVE  Soma(t) = Soma(s)
<1>. DEFINE n == Len(s)
<1>1. n \in Nat /\ \A i \in 1..n : s[i] \in Int
  OBVIOUS
<1>2. PICK S : Parciais(S, s)
  BY HaParciais
<1>. DEFINE U == [i \in 0..(n - 1) |-> IF i < k THEN S[i] ELSE S[i + 1]]
<1>3. /\ S \in [0..n -> Int] /\ S[0] = 0 /\ Len(t) = n - 1 /\ k \in 1..n /\ s[k] = 0
      /\ \A i \in 1..n : S[i] = S[i - 1] + s[i]
      /\ \A i \in 1..(n - 1) : t[i] = IF i < k THEN s[i] ELSE s[i + 1]
  BY <1>2 DEF Parciais
<1>. HIDE DEF n
<1>4. S[k] = S[k - 1]
  BY <1>1, <1>3
<1>5. U \in [0..(n - 1) -> Int] /\ U[0] = 0
  BY <1>1, <1>3
<1>6. U[n - 1] = S[n]
  <2>1. CASE k = n
    BY <1>1, <1>3, <1>4, <2>1
  <2>2. CASE k # n
    BY <1>1, <1>3, <2>2
  <2>. QED BY <2>1, <2>2
<1>7. ASSUME NEW i \in 1..(n - 1) PROVE U[i] = U[i - 1] + t[i]
  <2>1. CASE i < k
    BY <1>1, <1>3, <2>1
  <2>2. CASE i = k
    <3>1. i + 1 \in 1..n /\ (i + 1) - 1 = i /\ t[i] = s[i + 1]
      BY <1>1, <1>3, <2>2
    <3>2. S[i + 1] = S[i] + s[i + 1]
      BY <1>3, <3>1
    <3>3. U[i] = S[i + 1] /\ U[i - 1] = S[i - 1]
      BY <1>1, <1>3, <2>2
    <3>. QED BY <1>4, <2>2, <3>1, <3>2, <3>3
  <2>3. CASE i > k
    <3>1. i + 1 \in 1..n /\ (i + 1) - 1 = i /\ t[i] = s[i + 1]
      BY <1>1, <1>3, <2>3
    <3>2. S[i + 1] = S[i] + s[i + 1]
      BY <1>3, <3>1
    <3>. QED BY <1>1, <1>3, <2>3, <3>1, <3>2
  <2>. QED BY <1>1, <1>3, <2>1, <2>2, <2>3
<1>. HIDE DEF U
<1>8. Parciais(U, t)
  BY <1>3, <1>5, <1>7 DEF Parciais
<1>9. Soma(t) = U[n - 1] /\ Soma(s) = S[n]
  BY <1>2, <1>3, <1>8, SomaDeParciais DEF n
<1>. QED BY <1>6, <1>9

\* The sum of a list of one number.
LEMMA SomaUm ==
  ASSUME NEW s \in Seq(Int), Len(s) = 1
  PROVE  Soma(s) = s[1]
<1>. DEFINE U == [i \in 0..1 |-> IF i = 0 THEN 0 ELSE s[1]]
<1>1. s[1] \in Int
  OBVIOUS
<1>2. U \in [0..1 -> Int] /\ U[0] = 0 /\ U[1] = s[1] /\ \A i \in 1..1 : i = 1
  BY <1>1
<1>. HIDE DEF U
<1>3. U[1] = U[1 - 1] + s[1]
  BY <1>1, <1>2
<1>4. Parciais(U, s)
  BY <1>2, <1>3 DEF Parciais
<1>. QED BY <1>2, <1>4, SomaDeParciais

-----------------------------------------------------------------------------
\* The shares of an idea.

Percs(A) == [i \in 1..Len(A) |-> A[i].perc]

\* The shares of a list of holdings are numbers.
LEMMA PercsTipo ==
  ASSUME NEW A \in Seq(Accao)
  PROVE  /\ Percs(A) \in Seq(Int) /\ Len(Percs(A)) = Len(A) /\ Len(A) \in Nat
         /\ \A i \in 1..Len(A) : Percs(A)[i] = A[i].perc /\ A[i].perc \in Int
         /\ SomaPerc(A) = Soma(Percs(A)) /\ SomaPerc(A) \in Int
<1>. DEFINE n == Len(A)
<1>1. n \in Nat /\ \A i \in 1..n : A[i] \in Accao
  OBVIOUS
<1>2. \A i \in 1..n : A[i].perc \in Int
  BY <1>1, NumDenTipo
<1>. HIDE DEF n
<1>. DEFINE s == [i \in 1..n |-> A[i].perc]
<1>3. s \in Seq(Int) /\ Len(s) = n /\ \A i \in 1..n : s[i] = A[i].perc
  BY <1>1, <1>2
<1>4. Percs(A) = s /\ SomaPerc(A) = Soma(s)
  BY DEF Percs, SomaPerc, n
<1>. HIDE DEF s
<1>5. Soma(s) \in Int
  BY <1>3, SomaTipo
<1>. QED BY <1>1, <1>2, <1>3, <1>4, <1>5 DEF n

\* One holding changes.
LEMMA SomaPercMudar ==
  ASSUME NEW A \in Seq(Accao), NEW B \in Seq(Accao), Len(B) = Len(A),
         NEW k \in 1..Len(A), NEW d \in Int, B[k].perc = A[k].perc + d,
         \A i \in 1..Len(A) : i # k => B[i].perc = A[i].perc
  PROVE  SomaPerc(B) = SomaPerc(A) + d
<1>1. Percs(B)[k] = Percs(A)[k] + d
  BY PercsTipo
<1>2. \A i \in 1..Len(A) : i # k => Percs(B)[i] = Percs(A)[i]
  BY PercsTipo
<1>3. /\ Percs(A) \in Seq(Int) /\ Len(Percs(A)) = Len(A) /\ SomaPerc(A) = Soma(Percs(A))
      /\ Percs(B) \in Seq(Int) /\ Len(Percs(B)) = Len(B) /\ SomaPerc(B) = Soma(Percs(B))
  BY PercsTipo
<1>. QED BY <1>1, <1>2, <1>3, SomaMudar

\* No holding changes.
LEMMA SomaPercIgual ==
  ASSUME NEW A \in Seq(Accao), NEW B \in Seq(Accao), Len(B) = Len(A),
         \A i \in 1..Len(A) : B[i].perc = A[i].perc
  PROVE  SomaPerc(B) = SomaPerc(A)
<1>1. Percs(B) = Percs(A)
  BY DEF Percs
<1>. QED BY <1>1, PercsTipo

\* A holding more.
LEMMA SomaPercAppend ==
  ASSUME NEW A \in Seq(Accao), NEW a \in Accao
  PROVE  SomaPerc(Append(A, a)) = SomaPerc(A) + a.perc
<1>. DEFINE B == Append(A, a)
<1>1. /\ B \in Seq(Accao) /\ Len(B) = Len(A) + 1 /\ B[Len(A) + 1] = a
      /\ \A i \in 1..Len(A) : B[i] = A[i]
  BY AppendProperties
<1>2. a.perc \in Int
  BY NumDenTipo
<1>. HIDE DEF B
<1>3. /\ Percs(A) \in Seq(Int) /\ Len(Percs(A)) = Len(A) /\ SomaPerc(A) = Soma(Percs(A))
      /\ Percs(B) \in Seq(Int) /\ Len(Percs(B)) = Len(B) /\ SomaPerc(B) = Soma(Percs(B))
      /\ Len(A) \in Nat
  BY <1>1, PercsTipo
<1>4. \A i \in 1..Len(A) : Percs(B)[i] = Percs(A)[i]
  <2>1. \A i \in 1..Len(A) : i \in 1..Len(B)
    BY <1>1, <1>3
  <2>. QED BY <1>1, <2>1, PercsTipo
<1>5. Percs(B)[Len(A) + 1] = a.perc
  <2>1. Len(A) + 1 \in 1..Len(B)
    BY <1>1, <1>3
  <2>. QED BY <1>1, <2>1, PercsTipo
<1>6. Soma(Percs(B)) = Soma(Percs(A)) + a.perc
  BY <1>1, <1>2, <1>3, <1>4, <1>5, SomaAppend
<1>. QED BY <1>3, <1>6 DEF B

\* A holding less.
LEMMA SomaPercRemover ==
  ASSUME NEW A \in Seq(Accao), NEW k \in 1..Len(A), A[k].perc = 0
  PROVE  SomaPerc(RemoveAt(A, k)) = SomaPerc(A)
<1>. DEFINE B == RemoveAt(A, k)
<1>1. /\ B \in Seq(Accao) /\ Len(B) = Len(A) - 1
      /\ \A j \in 1..(Len(A) - 1) : B[j] = IF j < k THEN A[j] ELSE A[j + 1]
  BY RemoveAtLista
<1>. HIDE DEF B
<1>2. /\ Percs(A) \in Seq(Int) /\ Len(Percs(A)) = Len(A) /\ SomaPerc(A) = Soma(Percs(A))
      /\ Percs(B) \in Seq(Int) /\ Len(Percs(B)) = Len(B) /\ SomaPerc(B) = Soma(Percs(B))
      /\ Len(A) \in Nat /\ Percs(A)[k] = 0
  BY <1>1, PercsTipo
<1>3. ASSUME NEW j \in 1..(Len(A) - 1)
      PROVE  Percs(B)[j] = IF j < k THEN Percs(A)[j] ELSE Percs(A)[j + 1]
  <2>1. j \in 1..Len(A) /\ j + 1 \in 1..Len(A) /\ j \in 1..Len(B)
    BY <1>1, <1>2
  <2>2. /\ Percs(B)[j] = B[j].perc /\ Percs(A)[j] = A[j].perc
        /\ Percs(A)[j + 1] = A[j + 1].perc
    BY <1>1, <2>1, PercsTipo
  <2>. QED BY <1>1, <2>2
<1>4. Soma(Percs(B)) = Soma(Percs(A))
  BY <1>1, <1>2, <1>3, SomaRemover
<1>. QED BY <1>2, <1>4 DEF B

\* One holding only.
LEMMA SomaPercUm ==
  ASSUME NEW a \in Accao
  PROVE  SomaPerc(<<a>>) = a.perc
<1>. DEFINE A == <<a>>
<1>1. A \in Seq(Accao) /\ Len(A) = 1 /\ A[1] = a
  OBVIOUS
<1>. HIDE DEF A
<1>2. 1 \in 1..Len(A)
  BY <1>1
<1>3. /\ Percs(A) \in Seq(Int) /\ Len(Percs(A)) = 1 /\ SomaPerc(A) = Soma(Percs(A))
      /\ Percs(A)[1] = a.perc
  BY <1>1, <1>2, PercsTipo
<1>. QED BY <1>3, SomaUm DEF A

\* What the methods of Accao do to the holdings.
LEMMA MetodosPerc ==
  ASSUME NEW A \in Seq(Accao), NEW i \in 1..Len(A), NEW q \in Int
  PROVE  /\ \A j \in 1..Len(A) : /\ retiraraccao(A, i, q)[j].perc =
                                      IF j = i THEN A[j].perc - q ELSE A[j].perc
                                 /\ adicionaraccao(A, i, q)[j].perc =
                                      IF j = i THEN A[j].perc + q ELSE A[j].perc
                                 /\ setprecoaccao(A, i, q)[j].perc = A[j].perc
         /\ SomaPerc(retiraraccao(A, i, q)) = SomaPerc(A) - q
         /\ SomaPerc(adicionaraccao(A, i, q)) = SomaPerc(A) + q
         /\ SomaPerc(setprecoaccao(A, i, q)) = SomaPerc(A)
<1>. DEFINE R == retiraraccao(A, i, q)
            D == adicionaraccao(A, i, q)
            P == setprecoaccao(A, i, q)
<1>1. \A j \in 1..Len(A) : A[j] \in Accao
  OBVIOUS
<1>2. DOMAIN A = 1..Len(A)
  OBVIOUS
<1>3. /\ R \in Seq(Accao) /\ Len(R) = Len(A)
      /\ D \in Seq(Accao) /\ Len(D) = Len(A)
      /\ P \in Seq(Accao) /\ Len(P) = Len(A)
  BY <1>2, retiraraccaoTipo, adicionaraccaoTipo, setprecoaccaoTipo
<1>4. \A a \in Accao : \A x : /\ [a EXCEPT !.perc = x].perc = x
                              /\ [a EXCEPT !.preco = x].perc = a.perc
  BY DEF Accao
<1>5. ASSUME NEW j \in 1..Len(A)
      PROVE  /\ R[j].perc = IF j = i THEN A[j].perc - q ELSE A[j].perc
             /\ D[j].perc = IF j = i THEN A[j].perc + q ELSE A[j].perc
             /\ P[j].perc = A[j].perc
  <2>1. R[j] = IF j = i THEN [A[j] EXCEPT !.perc = A[j].perc - q] ELSE A[j]
    BY <1>2 DEF retiraraccao
  <2>2. D[j] = IF j = i THEN [A[j] EXCEPT !.perc = A[j].perc + q] ELSE A[j]
    BY <1>2 DEF adicionaraccao
  <2>3. P[j] = IF j = i THEN [A[j] EXCEPT !.preco = q] ELSE A[j]
    BY <1>2 DEF setprecoaccao
  <2>. HIDE DEF R, D, P
  <2>. QED BY <1>1, <1>4, <2>1, <2>2, <2>3
<1>. HIDE DEF R, D, P
<1>6. SomaPerc(D) = SomaPerc(A) + q
  BY <1>3, <1>5, SomaPercMudar
<1>7. SomaPerc(R) = SomaPerc(A) + (-q)
  <2>1. -q \in Int /\ R[i].perc = A[i].perc + (-q)
    BY <1>5, PercsTipo
  <2>. QED BY <1>3, <1>5, <2>1, SomaPercMudar
<1>8. SomaPerc(P) = SomaPerc(A)
  BY <1>3, <1>5, SomaPercIgual
<1>9. SomaPerc(R) = SomaPerc(A) - q
  BY <1>7, PercsTipo
<1>. QED BY <1>5, <1>6, <1>8, <1>9 DEF R, D, P

-----------------------------------------------------------------------------
\* Everybody's money.

\* Todos names every user once.
LEMMA TodosEnumera ==
  /\ Todos \in Seq(Utilizadores) /\ Len(Todos) \in Nat
  /\ \A i, j \in 1..Len(Todos) : Todos[i] = Todos[j] => i = j
  /\ \A u \in Utilizadores : \E i \in 1..Len(Todos) : Todos[i] = u
<1>. DEFINE n == Cardinality(Utilizadores)
            D == 1..n
<1>1. n \in Nat /\ ExistsBijection(D, Utilizadores)
  BY UtilizadoresAssumption, FS_CardinalityType
<1>2. \E f \in [D -> Utilizadores] : IsInjective(f)
  BY <1>1 DEF ExistsBijection, Bijection, Injection
<1>3. Todos \in [D -> Utilizadores] /\ IsInjective(Todos)
  <2>1. Todos = CHOOSE f \in [D -> Utilizadores] : IsInjective(f)
    BY DEF Todos, SetToSeq
  <2>. QED BY <1>2, <2>1
<1>4. Todos \in Injection(D, Utilizadores)
  BY <1>3 DEF Injection
<1>5. IsFiniteSet(D) /\ Cardinality(D) = n
  BY <1>1, FS_Interval
<1>. HIDE DEF n
<1>6. Todos \in Surjection(D, Utilizadores)
  BY <1>4, <1>5, UtilizadoresAssumption, FS_Injection DEF n
<1>7. Todos \in Seq(Utilizadores) /\ Len(Todos) = n
  BY <1>1, <1>3
<1>8. \A u \in Utilizadores : \E i \in D : Todos[i] = u
  BY <1>6 DEF Surjection
<1>. QED BY <1>1, <1>3, <1>7, <1>8 DEF IsInjective

Saldos(s) == [i \in 1..Len(Todos) |-> s[Todos[i]]]

\* The balances are numbers.
LEMMA SaldosTipo ==
  ASSUME NEW s \in [Utilizadores -> Int]
  PROVE  /\ Saldos(s) \in Seq(Int) /\ Len(Saldos(s)) = Len(Todos)
         /\ \A i \in 1..Len(Todos) : Saldos(s)[i] = s[Todos[i]]
         /\ SomaSaldo(s) = Soma(Saldos(s)) /\ SomaSaldo(s) \in Int
<1>1. Len(Todos) \in Nat /\ \A i \in 1..Len(Todos) : Todos[i] \in Utilizadores
  BY TodosEnumera
<1>2. \A i \in 1..Len(Todos) : s[Todos[i]] \in Int
  BY <1>1
<1>3. /\ Saldos(s) \in Seq(Int) /\ Len(Saldos(s)) = Len(Todos)
      /\ \A i \in 1..Len(Todos) : Saldos(s)[i] = s[Todos[i]]
  BY <1>1, <1>2 DEF Saldos
<1>4. SomaSaldo(s) = Soma(Saldos(s))
  BY DEF SomaSaldo, Saldos
<1>. QED BY <1>3, <1>4, SomaTipo

\* One user gains or loses money.
LEMMA SomaSaldoMudar ==
  ASSUME NEW s \in [Utilizadores -> Int], NEW u \in Utilizadores, NEW v \in Int
  PROVE  SomaSaldo([s EXCEPT ![u] = s[u] + v]) = SomaSaldo(s) + v
<1>. DEFINE t == [s EXCEPT ![u] = s[u] + v]
<1>1. /\ t \in [Utilizadores -> Int] /\ t[u] = s[u] + v
      /\ \A w \in Utilizadores : w # u => t[w] = s[w]
  OBVIOUS
<1>. HIDE DEF t
<1>2. PICK k \in 1..Len(Todos) : Todos[k] = u
  BY TodosEnumera
<1>3. \A i \in 1..Len(Todos) : Todos[i] \in Utilizadores /\ (i # k => Todos[i] # u)
  <2>1. \A i \in 1..Len(Todos) : Todos[i] \in Utilizadores
    BY TodosEnumera
  <2>2. \A i \in 1..Len(Todos) : i # k => Todos[i] # Todos[k]
    BY TodosEnumera
  <2>. QED BY <1>2, <2>1, <2>2
<1>4. \A i \in 1..Len(Todos) : i # k => Saldos(t)[i] = Saldos(s)[i]
  BY <1>1, <1>3, SaldosTipo
<1>5. Saldos(t)[k] = Saldos(s)[k] + v
  BY <1>1, <1>2, SaldosTipo
<1>6. /\ Saldos(s) \in Seq(Int) /\ Len(Saldos(s)) = Len(Todos)
      /\ Saldos(t) \in Seq(Int) /\ Len(Saldos(t)) = Len(Todos)
      /\ SomaSaldo(s) = Soma(Saldos(s)) /\ SomaSaldo(t) = Soma(Saldos(t))
  BY <1>1, SaldosTipo
<1>7. Soma(Saldos(t)) = Soma(Saldos(s)) + v
  BY <1>4, <1>5, <1>6, SomaMudar
<1>. QED BY <1>6, <1>7 DEF t

\* A transaction moves money from one user to another, and makes none.
LEMMA MudarSaldosConserva ==
  ASSUME TypeOK, NEW u \in Utilizadores, NEW w \in Utilizadores, u # w,
         NEW v \in Int
  PROVE  SomaSaldo(MudarSaldos(u, w, v)) = SomaSaldo(saldo)
<1>. DEFINE t == [saldo EXCEPT ![u] = saldo[u] + (-v)]
<1>1. saldo \in [Utilizadores -> Int] /\ -v \in Int
  BY DEF TypeOK
<1>2. SomaSaldo(t) = SomaSaldo(saldo) + (-v)
  BY <1>1, SomaSaldoMudar
<1>3. t \in [Utilizadores -> Int]
  BY <1>1
<1>4. MudarSaldos(u, w, v) = [t EXCEPT ![w] = t[w] + v]
  <2>1. saldo[u] + (-v) = saldo[u] - v /\ t[w] = saldo[w]
    BY <1>1
  <2>. QED BY <2>1 DEF MudarSaldos
<1>. HIDE DEF t
<1>5. SomaSaldo([t EXCEPT ![w] = t[w] + v]) = SomaSaldo(t) + v
  BY <1>3, SomaSaldoMudar
<1>. QED BY <1>1, <1>2, <1>4, <1>5, SaldosTipo

-----------------------------------------------------------------------------
\* The invariant of a server that takes one call at a time.

\* The idea at position k is being settled, at least one lot already: only then
\* may it have holdings of nothing, the lots sold out.
Liquidando(k) ==
  /\ fase \in {"pagar", "transferir", "eliminar"}
  /\ compra.feitas > 0 /\ k = PedidoActual.pos

\* The holdings of an idea are worth all of it, and an idea that somebody
\* outside the list of users holds is held by nobody else.
Sa(A, emCurso) ==
  /\ SomaPerc(A) = Total
  /\ \A i \in 1..Len(A) : A[i].perc >= 0 /\ (A[i].perc = 0 => emCurso)
  /\ Len(A) > 1 => \A i \in 1..Len(A) : A[i].dono \in Utilizadores

Sas == \A k \in DOMAIN ideias : Sa(ideias[k].accoes, Liquidando(k))

IdsUnicos == \A k, l \in DOMAIN ideias : ideias[k].id = ideias[l].id => k = l

Liquidacao == fase \in {"pagar", "transferir"}

\* How far a purchase is.  From its first transaction on, the buyer has a
\* holding in the idea, which temaccoes finds again at the same place.
Progresso ==
  /\ fase # "livre" => PedidoActual.perc \in 1..Total
  /\ fase = "eliminar" => IdeiaExiste
  /\ fase = "selecionar" => compra.feitas = 0 /\ compra.meu = 0
  /\ Liquidacao =>
       /\ compra.feitas < Len(compra.transacoes)
       /\ compra.meu # 0 => /\ compra.meu \in DOMAIN Lotes
                            /\ Lotes[compra.meu].dono = compra.quem
  /\ fase = "pagar" /\ compra.feitas > 0 => compra.meu # 0

\* What a transaction under way moves is in the lot, and all of it if another
\* transaction follows.
EmMaos ==
  fase = "transferir" =>
    /\ Lotes[LoteActual].dono \in Utilizadores
    /\ 0 <= compra.quantidade /\ compra.quantidade <= Lotes[LoteActual].perc
    /\ ~Ultima => compra.quantidade = Lotes[LoteActual].perc

\* S[i] is what the first i lots selected hold, counted from the lot where the
\* purchase is: "actual" follows it, and only the last lot may exceed the
\* percentage wanted.
ContasCom(S, primeiro) ==
  LET T == compra.transacoes
  IN  /\ S \in [0..Len(T) -> Int]
      /\ \A i \in (primeiro + 1)..Len(T) : S[i] = S[i - 1] + Lotes[T[i]].perc

ContasDaSelecao(S) ==
  LET n == Len(compra.transacoes)
  IN  /\ ContasCom(S, 0) /\ S[0] = 0
      /\ compra.actual <= S[n]
      /\ compra.actual < PedidoActual.perc => compra.actual = S[n]
      /\ n > 0 => S[n - 1] < PedidoActual.perc

ContasDaLiquidacao(S) ==
  LET n == Len(compra.transacoes)
  IN  /\ ContasCom(S, compra.feitas) /\ S[compra.feitas] = compra.actual
      /\ S[n - 1] < PedidoActual.perc /\ PedidoActual.perc <= S[n]

Contas ==
  /\ fase = "selecionar" => \E S : ContasDaSelecao(S)
  /\ Liquidacao => \E S : ContasDaLiquidacao(S)

\* The history is the present while nothing runs, and has as much money as the
\* present while a purchase does.
Historia ==
  /\ Sossego => visto = [saldo |-> saldo, ideias |-> ideias]
  /\ fase # "livre" => SomaSaldo(saldo) = SomaSaldo(visto.saldo)

SerieInv == Sas /\ IdsUnicos /\ Progresso /\ EmMaos /\ Contas /\ Historia

\* Steps after which no purchase runs: what is left to show is that the ideas
\* are whole.
LEMMA SerieLivre ==
  ASSUME fase' = "livre", Olhar, IdsUnicos',
         \A k \in DOMAIN ideias' : Sa(ideias'[k].accoes, FALSE)
  PROVE  SerieInv'
<1>1. Sas'
  BY DEF Sas, Sa
<1>2. Progresso' /\ EmMaos' /\ Contas'
  BY DEF Progresso, EmMaos, Contas, Liquidacao
<1>3. Historia'
  BY DEF Historia, Sossego, Olhar
<1>. QED BY <1>1, <1>2, <1>3 DEF SerieInv

\* While no purchase has settled a lot, no idea has a holding of nothing.
LEMMA SasEmRepouso ==
  ASSUME Sas, \/ fase \notin {"pagar", "transferir", "eliminar"}
              \/ ~(compra.feitas > 0)
  PROVE  \A k \in DOMAIN ideias : Sa(ideias[k].accoes, FALSE)
BY DEF Sas, Sa, Liquidando

\* Steps that leave the list of ideas as it is, and no purchase running.
LEMMA SerieLivreManter ==
  ASSUME SerieInv, fase' = "livre", Olhar, ideias' = ideias,
         \/ fase \notin {"pagar", "transferir", "eliminar"}
         \/ ~(compra.feitas > 0)
  PROVE  SerieInv'
<1>1. \A k \in DOMAIN ideias' : Sa(ideias'[k].accoes, FALSE)
  BY SasEmRepouso DEF SerieInv
<1>2. IdsUnicos'
  BY DEF SerieInv, IdsUnicos
<1>. QED BY <1>1, <1>2, SerieLivre

\* Replacing the holdings of one idea leaves the others as they were.
LEMMA SasTrocar ==
  ASSUME TypeOK, NEW k \in DOMAIN ideias, NEW A \in Seq(Accao), NEW emCurso,
         ideias' = ComAccoes(k, A), Sa(A, emCurso),
         \A l \in DOMAIN ideias : l # k => Sa(ideias[l].accoes, FALSE)
  PROVE  \A l \in DOMAIN ideias' : Sa(ideias'[l].accoes, l = k /\ emCurso)
<1>1. /\ Len(ideias') = Len(ideias) /\ ideias' \in Seq(Ideia)
      /\ ideias'[k].accoes = A
      /\ \A l \in DOMAIN ideias : l # k => ideias'[l] = ideias[l]
  BY ComAccoesTipo DEF TypeOK
<1>2. DOMAIN ideias' = DOMAIN ideias
  BY <1>1, LenProperties DEF TypeOK
<1>. SUFFICES ASSUME NEW l \in DOMAIN ideias'
              PROVE  Sa(ideias'[l].accoes, l = k /\ emCurso)
  OBVIOUS
<1>3. CASE l = k
  BY <1>1, <1>3 DEF Sa
<1>4. CASE l # k
  <2>1. ideias'[l].accoes = ideias[l].accoes /\ Sa(ideias[l].accoes, FALSE)
    BY <1>1, <1>2, <1>4
  <2>. QED BY <2>1 DEF Sa
<1>. QED BY <1>3, <1>4

\* Nor does it change any identifier.
LEMMA IdsTrocar ==
  ASSUME TypeOK, NEW k \in DOMAIN ideias, NEW A \in Seq(Accao),
         ideias' = ComAccoes(k, A), IdsUnicos
  PROVE  IdsUnicos'
<1>1. /\ Len(ideias') = Len(ideias) /\ ideias' \in Seq(Ideia)
      /\ \A l \in DOMAIN ideias : l # k => ideias'[l] = ideias[l]
  BY ComAccoesTipo DEF TypeOK
<1>2. DOMAIN ideias' = DOMAIN ideias
  BY <1>1, LenProperties DEF TypeOK
<1>3. ideias'[k].id = ideias[k].id
  <2>1. ideias'[k] = [ideias[k] EXCEPT !.accoes = A] /\ ideias[k] \in Ideia
    BY DEF ComAccoes, TypeOK
  <2>. QED BY <2>1 DEF Ideia
<1>4. \A l \in DOMAIN ideias : ideias'[l].id = ideias[l].id
  BY <1>1, <1>3
<1>. QED BY <1>2, <1>4 DEF IdsUnicos

\* Steps that change nothing a running purchase reads.
LEMMA SerieManter ==
  ASSUME SerieInv, Olhar,
         UNCHANGED <<saldo, ideias, fase, compra, tomada>>,
         fase # "livre" => pedido'[compra.quem] = pedido[compra.quem]
  PROVE  SerieInv'
<1>1. CASE fase = "livre"
  BY <1>1, SerieLivreManter
<1>2. CASE fase # "livre"
  <2>1. PedidoActual' = PedidoActual
    BY <1>2 DEF PedidoActual
  <2>2. Lotes' = Lotes /\ IdeiaExiste' = IdeiaExiste
    BY <2>1 DEF Lotes, IdeiaExiste
  <2>3. \A k : Liquidando(k)' = Liquidando(k)
    BY <2>1 DEF Liquidando
  <2>4. Sas' /\ IdsUnicos'
    BY <2>3 DEF SerieInv, Sas, IdsUnicos
  <2>5. Progresso' /\ EmMaos'
    BY <2>1, <2>2 DEF SerieInv, Progresso, EmMaos, Liquidacao, LoteActual, Ultima
  <2>6. Contas'
    BY <2>1, <2>2 DEF SerieInv, Contas, Liquidacao, ContasDaSelecao,
                      ContasDaLiquidacao, ContasCom
  <2>7. Historia'
    BY <1>2 DEF SerieInv, Historia, Olhar, Sossego
  <2>. QED BY <2>4, <2>5, <2>6, <2>7 DEF SerieInv
<1>. QED BY <1>1, <1>2

-----------------------------------------------------------------------------
\* The operations of one step, and a takeover.

\* A new price changes no share.
LEMMA SerieEditar ==
  ASSUME TypeOK, SerieInv, NEW u \in Utilizadores, NEW k \in DOMAIN ideias,
         NEW j \in DOMAIN ideias[k].accoes, NEW preco \in Int,
         EditarAccao(u, k, j, preco)
  PROVE  SerieInv'
<1>. DEFINE A == ideias[k].accoes
            B == setprecoaccao(A, j, preco)
<1>1. fase = "livre" /\ fase' = "livre" /\ Olhar /\ ideias' = ComAccoes(k, B)
  BY DEF EditarAccao
<1>2. \A l \in DOMAIN ideias : Sa(ideias[l].accoes, FALSE)
  BY <1>1, SasEmRepouso DEF SerieInv
<1>3. A \in Seq(Accao) /\ DOMAIN A = 1..Len(A) /\ j \in 1..Len(A) /\ Sa(A, FALSE)
  BY <1>2, LotesTipo, LenProperties DEF TypeOK
<1>. HIDE DEF A
<1>4. /\ B \in Seq(Accao) /\ Len(B) = Len(A) /\ SomaPerc(B) = SomaPerc(A)
      /\ \A i \in 1..Len(A) : B[i].dono = A[i].dono /\ B[i].perc = A[i].perc
  <2>1. j \in DOMAIN A
    BY <1>3
  <2>2. /\ B \in Seq(Accao) /\ Len(B) = Len(A)
        /\ \A i \in DOMAIN A : B[i].dono = A[i].dono
    BY <1>3, <2>1, setprecoaccaoTipo
  <2>3. SomaPerc(B) = SomaPerc(A) /\ \A i \in 1..Len(A) : B[i].perc = A[i].perc
    BY <1>3, MetodosPerc
  <2>. HIDE DEF B
  <2>. QED BY <1>3, <2>2, <2>3
<1>. HIDE DEF B
<1>5. Sa(B, FALSE)
  BY <1>3, <1>4 DEF Sa
<1>6. \A l \in DOMAIN ideias' : Sa(ideias'[l].accoes, l = k /\ FALSE)
  BY <1>1, <1>2, <1>4, <1>5, SasTrocar
<1>7. IdsUnicos'
  BY <1>1, <1>4, IdsTrocar DEF SerieInv
<1>. QED BY <1>1, <1>6, <1>7, SerieLivre DEF Sa

\* An idea that one holder holds whole.
LEMMA SaUm ==
  ASSUME NEW a \in Accao, a.perc = Total
  PROVE  <<a>> \in Seq(Accao) /\ Sa(<<a>>, FALSE)
<1>. DEFINE A == <<a>>
<1>1. A \in Seq(Accao) /\ Len(A) = 1 /\ A[1] = a /\ 1..1 = {1}
  OBVIOUS
<1>2. SomaPerc(A) = Total
  BY SomaPercUm
<1>. HIDE DEF A
<1>3. Sa(A, FALSE)
  BY <1>1, <1>2, TotalAssumption DEF Sa
<1>. QED BY <1>1, <1>3 DEF A

\* A new idea is whole, and its identifier new.
LEMMA SerieCriar ==
  ASSUME TypeOK, SerieInv, ~Concorrente, NEW u \in Utilizadores, NEW id \in Nat,
         NEW inv \in Int, CriarIdeia(u, id, inv)
  PROVE  SerieInv'
<1>. DEFINE a == [dono |-> u, perc |-> Total, preco |-> inv]
            nova == [id |-> id, accoes |-> <<a>>]
<1>1. a \in Accao /\ a.perc = Total
  BY TotalAssumption DEF Accao, Donos
<1>2. <<a>> \in Seq(Accao) /\ Sa(<<a>>, FALSE)
  BY <1>1, SaUm
<1>3. nova \in Ideia /\ nova.accoes = <<a>> /\ nova.id = id
  BY <1>2 DEF Ideia
<1>4. /\ fase = "livre" /\ fase' = "livre" /\ Olhar
      /\ ideias' = Append(ideias, nova)
      /\ \A k \in DOMAIN ideias : ideias[k].id < id
  BY DEF CriarIdeia, Vez, Sossego, IdSeguinte
<1>. HIDE DEF nova, a
<1>5. \A l \in DOMAIN ideias : Sa(ideias[l].accoes, FALSE)
  BY <1>4, SasEmRepouso DEF SerieInv
<1>6. /\ DOMAIN ideias' = 1..(Len(ideias) + 1) /\ DOMAIN ideias = 1..Len(ideias)
      /\ \A l \in 1..Len(ideias) : ideias'[l] = ideias[l]
      /\ ideias'[Len(ideias) + 1] = nova
      /\ Len(ideias) \in Nat
  BY <1>3, <1>4, AppendProperties, LenProperties DEF TypeOK
<1>7. \A l \in DOMAIN ideias' : l \in DOMAIN ideias \/ l = Len(ideias) + 1
  BY <1>6
<1>8. \A l \in DOMAIN ideias' : Sa(ideias'[l].accoes, FALSE)
  BY <1>2, <1>3, <1>5, <1>6, <1>7
<1>9. IdsUnicos'
  <2>1. \A l \in DOMAIN ideias : ideias[l].id # id /\ ideias'[l].id = ideias[l].id
    BY <1>4, <1>6, LotesTipo DEF TypeOK
  <2>2. \A k, l \in DOMAIN ideias : ideias[k].id = ideias[l].id => k = l
    BY DEF SerieInv, IdsUnicos
  <2>. QED BY <1>3, <1>6, <1>7, <2>1, <2>2 DEF IdsUnicos
<1>. QED BY <1>4, <1>8, <1>9, SerieLivre

\* The ideas that stay are as they were.
LEMMA SerieApagar ==
  ASSUME TypeOK, SerieInv, ~Concorrente, NEW u \in Utilizadores,
         NEW k \in DOMAIN ideias, NEW j \in DOMAIN ideias[k].accoes,
         ApagarIdeia(u, k, j)
  PROVE  SerieInv'
<1>1. /\ fase = "livre" /\ fase' = "livre" /\ Olhar
      /\ ideias' = RemoveAt(ideias, k) /\ k \in 1..Len(ideias)
  BY DEF ApagarIdeia, TypeOK, Vez, Sossego
<1>2. \A l \in DOMAIN ideias : Sa(ideias[l].accoes, FALSE)
  BY <1>1, SasEmRepouso DEF SerieInv
<1>. DEFINE f(l) == IF l < k THEN l ELSE l + 1
<1>3. /\ DOMAIN ideias' = 1..(Len(ideias) - 1) /\ DOMAIN ideias = 1..Len(ideias)
      /\ Len(ideias) \in Nat
      /\ \A l \in 1..(Len(ideias) - 1) :
           ideias'[l] = IF l < k THEN ideias[l] ELSE ideias[l + 1]
  <2>1. ideias \in Seq(Ideia) /\ k \in 1..Len(ideias)
    BY <1>1 DEF TypeOK
  <2>2. /\ ideias' \in Seq(Ideia) /\ Len(ideias') = Len(ideias) - 1
        /\ \A l \in 1..(Len(ideias) - 1) :
             ideias'[l] = IF l < k THEN ideias[l] ELSE ideias[l + 1]
    BY <1>1, <2>1, RemoveAtLista
  <2>. QED BY <2>1, <2>2, LenProperties
<1>4. \A l \in DOMAIN ideias' : f(l) \in DOMAIN ideias /\ ideias'[l] = ideias[f(l)]
  BY <1>1, <1>3
<1>5. \A l \in DOMAIN ideias' : Sa(ideias'[l].accoes, FALSE)
  BY <1>2, <1>4
<1>6. \A l, n \in DOMAIN ideias' : f(l) = f(n) => l = n
  BY <1>1, <1>3
<1>. HIDE DEF f
<1>7. IdsUnicos'
  BY <1>4, <1>6 DEF SerieInv, IdsUnicos
<1>. QED BY <1>1, <1>5, <1>7, SerieLivre

\* A takeover leaves the idea to root, whole.
LEMMA SerieTomada ==
  ASSUME TypeOK, SerieInv, fase = "livre", PassoTomada
  PROVE  SerieInv'
<1>1. CASE PagarTitular \/ TomadaFalha
  <2>1. fase' = "livre" /\ ideias' = ideias /\ Olhar
    BY <1>1 DEF PagarTitular, TomadaFalha
  <2>. QED BY <2>1, SerieLivreManter
<1>2. CASE ConcluirTomada
  <2>. DEFINE a == [dono |-> Root, perc |-> Total, preco |-> -Moeda]
  <2>1. a \in Accao /\ a.perc = Total
    BY TotalAssumption, NumerosAssumption DEF Accao, Donos
  <2>2. /\ fase' = "livre" /\ Olhar /\ tomada.pos \in DOMAIN ideias
        /\ ideias' = ComAccoes(tomada.pos, <<a>>)
    BY <1>2 DEF ConcluirTomada, EmTomada
  <2>. HIDE DEF a
  <2>3. <<a>> \in Seq(Accao) /\ Sa(<<a>>, FALSE)
    BY <2>1, SaUm
  <2>4. \A l \in DOMAIN ideias : Sa(ideias[l].accoes, FALSE)
    BY SasEmRepouso DEF SerieInv
  <2>5. \A l \in DOMAIN ideias' : Sa(ideias'[l].accoes, l = tomada.pos /\ FALSE)
    BY <2>2, <2>3, <2>4, SasTrocar
  <2>6. IdsUnicos'
    BY <2>2, <2>3, IdsTrocar DEF SerieInv
  <2>. QED BY <2>2, <2>5, <2>6, SerieLivre DEF Sa
<1>. QED BY <1>1, <1>2 DEF PassoTomada

-----------------------------------------------------------------------------
\* The steps of a purchase.

\* The ideas while a purchase selects, or where it changes nothing.
LEMMA SasManter ==
  ASSUME Sas, ideias' = ideias,
         \A k \in DOMAIN ideias : Liquidando(k) => Liquidando(k)'
  PROVE  Sas'
BY DEF Sas, Sa

\* A purchase begins with nothing selected and nothing settled.
LEMMA SerieIniciar ==
  ASSUME TypeOK, SerieInv, ~Concorrente, NEW u \in Utilizadores, IniciarCompra(u)
  PROVE  SerieInv'
<1>. DEFINE n == Len(ideias[pedido[u].pos].accoes)
<1>1. /\ Sossego /\ fase = "livre" /\ fase' = "selecionar" /\ Olhar
      /\ pedido[u].perc \in 1..Total
      /\ UNCHANGED <<saldo, ideias, pedido, tomada>>
      /\ compra' = [SemCompra EXCEPT !.quem = u, !.naccoes = n]
  BY DEF IniciarCompra, Vez
<1>. HIDE DEF n
<1>2. /\ compra'.quem = u /\ compra'.transacoes = <<>> /\ compra'.actual = 0
      /\ compra'.feitas = 0 /\ compra'.meu = 0
  BY <1>1 DEF SemCompra
<1>3. Sas' /\ IdsUnicos'
  <2>1. \A k \in DOMAIN ideias : Liquidando(k) => Liquidando(k)'
    BY <1>1 DEF Liquidando
  <2>. QED BY <1>1, <2>1, SasManter DEF SerieInv, IdsUnicos
<1>4. Progresso' /\ EmMaos'
  BY <1>1, <1>2 DEF Progresso, EmMaos, Liquidacao, PedidoActual
<1>5. Contas'
  <2>. DEFINE Z == [i \in 0..0 |-> 0]
  <2>1. Z \in [0..0 -> Int] /\ Z[0] = 0 /\ 1..0 = {} /\ Len(<<>>) = 0
    OBVIOUS
  <2>. HIDE DEF Z
  <2>2. ContasDaSelecao(Z)'
    BY <1>2, <2>1 DEF ContasDaSelecao, ContasCom
  <2>. QED BY <1>1, <2>2 DEF Contas, Liquidacao
<1>6. Historia'
  <2>1. visto' = visto /\ visto.saldo = saldo
    BY <1>1 DEF Olhar, SerieInv, Historia
  <2>. QED BY <1>1, <2>1 DEF Historia, Sossego
<1>. QED BY <1>3, <1>4, <1>5, <1>6 DEF SerieInv

\* The lot selected adds what it holds to the sums.
LEMMA SerieSelecionar ==
  ASSUME TypeOK, SelecaoInv, SerieInv, NEW i \in 1..compra.naccoes, Selecionar(i)
  PROVE  SerieInv'
<1>. DEFINE T == compra.transacoes
            P == PedidoActual.perc
            a == Lotes[i]
            q == IF compra.actual + a.perc <= P THEN a.perc ELSE P - compra.actual
<1>1. /\ fase = "selecionar" /\ Olhar /\ compra.actual < P
      /\ UNCHANGED <<saldo, ideias, pedido, fase, tomada>>
      /\ IdeiaExiste /\ i \in DOMAIN Lotes
  BY DEF Selecionar, Escolhido, Candidatos
<1>2. /\ compra'.quem = compra.quem /\ compra'.transacoes = Append(T, i)
      /\ compra'.actual = compra.actual + q
      /\ compra'.feitas = compra.feitas /\ compra'.meu = compra.meu
  BY DEF Selecionar, TypeOK, Compra
<1>3. PedidoActual' = PedidoActual /\ Lotes' = Lotes
  BY <1>1, <1>2 DEF PedidoActual, Lotes
<1>4. Sas' /\ IdsUnicos'
  <2>1. \A k \in DOMAIN ideias : Liquidando(k) => Liquidando(k)'
    BY <1>1 DEF Liquidando
  <2>. QED BY <1>1, <2>1, SasManter DEF SerieInv, IdsUnicos
<1>5. Progresso' /\ EmMaos'
  BY <1>1, <1>2, <1>3 DEF SerieInv, Progresso, EmMaos, Liquidacao
<1>6. Historia'
  BY <1>1 DEF SerieInv, Historia, Sossego, Olhar
<1>7. /\ T \in Seq(Nat) /\ i \in Nat /\ compra.actual \in Int /\ P \in Int
      /\ a \in Accao /\ a.perc \in Int
  <2>1. P \in Int
    BY <1>1, PedidoTipo, CompraTipo DEF PedidoActual
  <2>2. a \in Accao
    BY <1>1, LotesTipo DEF IdeiaExiste, Lotes, TypeOK
  <2>. QED BY <1>1, <2>1, <2>2, NumDenTipo, CompraTipo
<1>. DEFINE n == Len(T)
            V == Append(T, i)
<1>8. /\ n \in Nat /\ Len(V) = n + 1 /\ V[n + 1] = i
      /\ \A j \in 1..n : V[j] = T[j]
  BY <1>7, AppendProperties, LenProperties
<1>9. PICK S : ContasDaSelecao(S)
  BY <1>1 DEF SerieInv, Contas
<1>10. /\ S \in [0..n -> Int] /\ S[0] = 0 /\ compra.actual = S[n]
       /\ \A j \in 1..n : S[j] = S[j - 1] + Lotes[T[j]].perc
  BY <1>1, <1>9 DEF ContasDaSelecao, ContasCom
<1>. HIDE DEF n, T, V, P, a
<1>. DEFINE U == [j \in 0..(n + 1) |-> IF j = n + 1 THEN S[n] + a.perc ELSE S[j]]
<1>11. /\ U \in [0..(n + 1) -> Int] /\ U[0] = 0 /\ U[n] = S[n]
       /\ U[n + 1] = S[n] + a.perc
  BY <1>7, <1>8, <1>10
<1>12. ASSUME NEW j \in 1..(n + 1) PROVE U[j] = U[j - 1] + Lotes[V[j]].perc
  <2>1. CASE j = n + 1
    BY <1>8, <1>11, <2>1 DEF a
  <2>2. CASE j # n + 1
    <3>1. j \in 1..n /\ j - 1 \in 0..n /\ U[j] = S[j] /\ U[j - 1] = S[j - 1]
      BY <1>8, <2>2
    <3>. QED BY <1>8, <1>10, <3>1
  <2>. QED BY <2>1, <2>2
<1>13. (n + 1) - 1 = n
  BY <1>8
<1>14. /\ compra.actual + q <= U[n + 1]
       /\ compra.actual + q < P => compra.actual + q = U[n + 1]
       /\ U[n] < P
  <2>. HIDE DEF U
  <2>1. CASE compra.actual + a.perc <= P
    BY <1>1, <1>7, <1>10, <1>11, <2>1 DEF P
  <2>2. CASE ~(compra.actual + a.perc <= P)
    <3>1. compra.actual + q = P
      BY <1>7, <2>2
    <3>. HIDE DEF q
    <3>. QED BY <1>1, <1>7, <1>10, <1>11, <2>2, <3>1 DEF P
  <2>. QED BY <2>1, <2>2
<1>. HIDE DEF U, q
<1>15. compra'.transacoes = V
  BY <1>2 DEF V, T
<1>16. PICK W : W = U
  OBVIOUS
<1>17. ContasDaSelecao(W)'
  <2>1. ContasCom(W, 0)'
    <3>1. Len(compra'.transacoes) = n + 1 /\ 0 + 1 = 1
      BY <1>8, <1>15
    <3>. QED BY <1>3, <1>11, <1>12, <1>15, <1>16, <3>1 DEF ContasCom
  <2>2. compra'.actual = compra.actual + q /\ PedidoActual'.perc = P
    BY <1>2, <1>3 DEF P
  <2>. QED BY <1>8, <1>11, <1>13, <1>14, <1>15, <1>16, <2>1, <2>2
           DEF ContasDaSelecao
<1>18. Contas'
  BY <1>1, <1>17 DEF Contas, Liquidacao
<1>. QED BY <1>4, <1>5, <1>6, <1>18 DEF SerieInv

\* What was selected is enough, and the settlement counts from 0.
LEMMA SerieVerificar ==
  ASSUME TypeOK, SelecaoInv, SerieInv, VerificarInvestimento
  PROVE  SerieInv'
<1>. DEFINE T == compra.transacoes
            n == Len(T)
<1>1. /\ fase = "selecionar" /\ fase' = "pagar" /\ Olhar
      /\ compra.actual >= PedidoActual.perc
      /\ UNCHANGED <<saldo, ideias, pedido, tomada>>
  BY DEF VerificarInvestimento
<1>2. /\ compra'.quem = compra.quem /\ compra'.transacoes = T
      /\ compra'.actual = 0
      /\ compra'.feitas = compra.feitas /\ compra'.meu = compra.meu
      /\ compra.feitas = 0 /\ compra.meu = 0
  BY <1>1 DEF VerificarInvestimento, TypeOK, Compra, SerieInv, Progresso
<1>3. PedidoActual' = PedidoActual /\ Lotes' = Lotes
  BY <1>1, <1>2 DEF PedidoActual, Lotes
<1>4. Sas' /\ IdsUnicos'
  <2>1. \A k \in DOMAIN ideias : Liquidando(k) => Liquidando(k)'
    BY <1>1 DEF Liquidando
  <2>. QED BY <1>1, <2>1, SasManter DEF SerieInv, IdsUnicos
<1>5. PICK S : ContasDaSelecao(S)
  BY <1>1 DEF SerieInv, Contas
<1>6. PedidoActual.perc \in 1..Total /\ n \in Nat /\ compra.actual \in Int
  BY <1>1, CompraTipo, LenProperties DEF SerieInv, Progresso
<1>7. /\ ContasCom(S, 0) /\ S[0] = 0 /\ S[n] \in Int
      /\ compra.actual <= S[n]
      /\ n > 0 => S[n - 1] < PedidoActual.perc
  BY <1>5, <1>6 DEF ContasDaSelecao, ContasCom
<1>. HIDE DEF n
<1>8. PedidoActual.perc <= S[n] /\ n > 0
  BY <1>1, <1>6, <1>7, TotalAssumption
<1>9. ContasDaLiquidacao(S)'
  BY <1>2, <1>3, <1>7, <1>8 DEF ContasDaLiquidacao, ContasCom, n
<1>10. Contas'
  BY <1>1, <1>9 DEF Contas
<1>11. Progresso' /\ EmMaos'
  BY <1>1, <1>2, <1>3, <1>6, <1>8 DEF Progresso, EmMaos, Liquidacao, n
<1>12. Historia'
  BY <1>1 DEF SerieInv, Historia, Sossego, Olhar
<1>. QED BY <1>4, <1>10, <1>11, <1>12 DEF SerieInv

\* The lot of the transaction under way: one of those selected, not the
\* buyer's, with what the sums say of it.
LEMMA LoteEmCurso ==
  ASSUME TypeOK, SelecaoInv, SerieInv, Liquidacao
  PROVE  /\ PedidoActual.pos \in DOMAIN ideias /\ Lotes \in Seq(Accao)
         /\ compra.quem \in Utilizadores /\ compra.feitas \in Nat
         /\ LoteActual \in 1..Len(Lotes) /\ Lotes[LoteActual] \in Accao
         /\ Lotes[LoteActual].dono # compra.quem
         /\ Lotes[LoteActual].perc \in Int /\ Lotes[LoteActual].perc >= 0
         /\ PedidoActual.perc \in Int /\ compra.actual \in Int
         /\ Ultima => /\ compra.actual < PedidoActual.perc
                      /\ PedidoActual.perc <= compra.actual + Lotes[LoteActual].perc
<1>. DEFINE T == compra.transacoes
            n == Len(T)
            f == compra.feitas
<1>1. /\ fase \in {"pagar", "transferir"}
      /\ PedidoActual.pos \in DOMAIN ideias /\ compra.quem \in Utilizadores
      /\ compra.naccoes <= Len(Lotes) /\ compra.naccoes \in Nat
      /\ \A j \in DOMAIN T : /\ T[j] \in 1..compra.naccoes
                             /\ Lotes[T[j]].dono # compra.quem
  BY CompraTipo
     DEF Liquidacao, SelecaoInv, PosicoesCertas, Selecionando, IdeiaExiste
<1>2. Lotes \in Seq(Accao) /\ Len(Lotes) \in Nat
  BY <1>1, LotesTipo, LenProperties DEF Lotes, TypeOK
<1>3. /\ f \in Nat /\ n \in Nat /\ f < n /\ DOMAIN T = 1..n
      /\ compra.actual \in Int /\ PedidoActual.perc \in Int
  <2>1. PedidoActual.perc \in Int
    BY <1>1, PedidoTipo DEF PedidoActual
  <2>. QED BY <1>1, <2>1, CompraTipo, LenProperties
           DEF SerieInv, Progresso, Liquidacao
<1>4. f + 1 \in DOMAIN T /\ LoteActual = T[f + 1]
  BY <1>3 DEF LoteActual
<1>5. LoteActual \in 1..Len(Lotes) /\ Lotes[LoteActual].dono # compra.quem
  BY <1>1, <1>2, <1>4
<1>6. Lotes[LoteActual] \in Accao
  BY <1>2, <1>5
<1>7. Lotes[LoteActual].perc \in Int /\ Lotes[LoteActual].perc >= 0
  <2>1. Sa(Lotes, Liquidando(PedidoActual.pos))
    BY <1>1 DEF SerieInv, Sas, Lotes
  <2>. QED BY <1>5, <1>6, <2>1, NumDenTipo DEF Sa
<1>8. ASSUME Ultima
      PROVE  /\ compra.actual < PedidoActual.perc
             /\ PedidoActual.perc <= compra.actual + Lotes[LoteActual].perc
  <2>1. PICK S : ContasDaLiquidacao(S)
    BY <1>1 DEF SerieInv, Contas, Liquidacao
  <2>2. n = f + 1 /\ n - 1 = f /\ n \in (f + 1)..n
    BY <1>3, <1>8 DEF Ultima
  <2>3. /\ S[f] = compra.actual /\ S[n - 1] < PedidoActual.perc
        /\ PedidoActual.perc <= S[n] /\ S[n] = S[n - 1] + Lotes[T[n]].perc
    BY <2>1, <2>2 DEF ContasDaLiquidacao, ContasCom
  <2>. QED BY <1>4, <2>2, <2>3
<1>. QED BY <1>1, <1>2, <1>3, <1>5, <1>6, <1>7, <1>8

\* What leaves the buyer reaches the seller, and the lot has what was bought.
LEMMA SeriePagar ==
  ASSUME TypeOK, SelecaoInv, SerieInv, Pagar
  PROVE  SerieInv'
<1>. DEFINE a == Lotes[LoteActual]
            q == IF LoteInteiro(a) THEN a.perc ELSE PedidoActual.perc - compra.actual
            v == IF LoteInteiro(a) THEN a.preco ELSE Custo(q, a)
<1>1. /\ fase = "pagar" /\ fase' = "transferir" /\ Olhar /\ Liquidacao
      /\ UNCHANGED <<ideias, pedido, tomada>>
      /\ a.dono \in Utilizadores
      /\ saldo' = MudarSaldos(compra.quem, a.dono, v)
  BY DEF Pagar, encontraruser, Liquidacao
<1>2. /\ compra'.quem = compra.quem /\ compra'.transacoes = compra.transacoes
      /\ compra'.actual = compra.actual /\ compra'.feitas = compra.feitas
      /\ compra'.quantidade = q
      /\ compra'.meu = IF Ultima THEN 0 ELSE compra.meu
  BY DEF Pagar, TypeOK, Compra
<1>3. /\ PedidoActual' = PedidoActual /\ Lotes' = Lotes
      /\ LoteActual' = LoteActual /\ Ultima' = Ultima
  BY <1>1, <1>2 DEF PedidoActual, Lotes, LoteActual, Ultima
<1>4. /\ a \in Accao /\ a.perc \in Int /\ a.perc >= 0
      /\ compra.quem \in Utilizadores /\ a.dono # compra.quem
      /\ PedidoActual.perc \in Int /\ compra.actual \in Int
      /\ Ultima => /\ compra.actual < PedidoActual.perc
                   /\ PedidoActual.perc <= compra.actual + a.perc
  BY <1>1, LoteEmCurso
<1>. HIDE DEF a
<1>5. /\ 0 <= q /\ q <= a.perc /\ q \in Int
      /\ ~Ultima => q = a.perc
  BY <1>4 DEF LoteInteiro
<1>6. v \in Int
  <2>. HIDE DEF q
  <2>. QED BY <1>4, <1>5, NumDenTipo, CustoTipo
<1>. HIDE DEF q, v
<1>7. Sas' /\ IdsUnicos'
  <2>1. \A k \in DOMAIN ideias : Liquidando(k) => Liquidando(k)'
    BY <1>1, <1>2, <1>3 DEF Liquidando
  <2>. QED BY <1>1, <2>1, SasManter DEF SerieInv, IdsUnicos
<1>8. Progresso'
  BY <1>1, <1>2, <1>3 DEF SerieInv, Progresso, Liquidacao
<1>9. EmMaos'
  BY <1>1, <1>2, <1>3, <1>5 DEF EmMaos, a
<1>10. Contas'
  <2>1. PICK S : ContasDaLiquidacao(S)
    BY <1>1 DEF SerieInv, Contas
  <2>2. ContasDaLiquidacao(S)'
    BY <1>2, <1>3, <2>1 DEF ContasDaLiquidacao, ContasCom
  <2>. QED BY <1>1, <2>2 DEF Contas
<1>11. Historia'
  <2>1. SomaSaldo(saldo') = SomaSaldo(saldo)
    BY <1>1, <1>4, <1>6, MudarSaldosConserva
  <2>2. visto' = visto /\ SomaSaldo(saldo) = SomaSaldo(visto.saldo)
    BY <1>1 DEF Olhar, SerieInv, Historia
  <2>. QED BY <1>1, <2>1, <2>2 DEF Historia, Sossego
<1>. QED BY <1>7, <1>8, <1>9, <1>10, <1>11 DEF SerieInv

\* Once a lot is settled, the buyer and its owner hold the idea together, and
\* with them only users: no owner is missing any more.
LEMMA SemVendedorPerdido ==
  ASSUME TypeOK, SelecaoInv, SerieInv, fase = "pagar", compra.feitas > 0
  PROVE  Lotes[LoteActual].dono \in Utilizadores
<1>1. Liquidacao
  BY DEF Liquidacao
<1>2. /\ PedidoActual.pos \in DOMAIN ideias /\ Lotes \in Seq(Accao)
      /\ LoteActual \in 1..Len(Lotes) /\ Lotes[LoteActual].dono # compra.quem
  BY <1>1, LoteEmCurso
<1>3. compra.meu \in 1..Len(Lotes) /\ Lotes[compra.meu].dono = compra.quem
  BY <1>1, <1>2, LenProperties DEF SerieInv, Progresso
<1>4. Len(Lotes) > 1
  BY <1>2, <1>3, LenProperties
<1>5. Sa(Lotes, Liquidando(PedidoActual.pos))
  BY <1>2 DEF SerieInv, Sas, Lotes
<1>. QED BY <1>2, <1>4, <1>5 DEF Sa

\* The places where a purchase may give up, when it runs alone: none after its
\* first transaction.
LEMMA SoFalhaAntes ==
  ASSUME TypeOK, SelecaoInv, SerieInv
  PROVE  /\ PagarFalha => ~(compra.feitas > 0)
         /\ \A m \in Nat : ~TransferirFalha(m)
         /\ ~EliminarFalha /\ ~IdeiaPerdida
<1>1. PagarFalha => ~(compra.feitas > 0)
  <2>. SUFFICES ASSUME PagarFalha, compra.feitas > 0 PROVE FALSE
    OBVIOUS
  <2>1. fase = "pagar" /\ Liquidacao
    BY DEF PagarFalha, Liquidacao
  <2>2. IdeiaExiste /\ LoteActual \in DOMAIN Lotes
    BY <2>1, LoteEmCurso DEF IdeiaExiste
  <2>. QED BY <2>1, <2>2, SemVendedorPerdido DEF PagarFalha, encontraruser
<1>2. ASSUME NEW m \in Nat, TransferirFalha(m) PROVE FALSE
  <2>1. fase = "transferir" /\ Liquidacao /\ TemAccoes(m)
    BY <1>2 DEF TransferirFalha, Liquidacao
  <2>2. /\ Lotes \in Seq(Accao) /\ LoteActual \in 1..Len(Lotes)
        /\ DOMAIN Lotes = 1..Len(Lotes) /\ Len(Lotes) \in Nat
    BY <2>1, LoteEmCurso, LenProperties
  <2>3. compra.meu # 0 => compra.meu \in DOMAIN Lotes
    BY <2>1 DEF SerieInv, Progresso
  <2>4. CASE compra.meu = 0 /\ m = Len(Lotes) + 1
    <3>. DEFINE a == [dono |-> compra.quem, perc |-> 0,
                      preco |-> PedidoActual.revenda]
    <3>1. ComComprador(m) = Append(Lotes, a)
      BY <2>4 DEF ComComprador
    <3>2. a \in Accao
      BY <2>1, PedidoTipo, CompraTipo DEF Accao, Donos, PedidoActual
    <3>. HIDE DEF a
    <3>3. DOMAIN ComComprador(m) = 1..(Len(Lotes) + 1)
      BY <2>2, <3>1, <3>2, AppendProperties, LenProperties
    <3>. QED BY <1>2, <2>2, <2>4, <3>3 DEF TransferirFalha
  <2>5. CASE ~(compra.meu = 0 /\ m = Len(Lotes) + 1)
    <3>1. ComComprador(m) = Lotes
      BY <2>5 DEF ComComprador
    <3>2. m \in DOMAIN Lotes
      BY <2>1, <2>3, <2>5 DEF TemAccoes
    <3>. QED BY <1>2, <2>2, <3>1, <3>2 DEF TransferirFalha
  <2>. QED BY <2>4, <2>5
<1>3. ~EliminarFalha
  <2>. SUFFICES ASSUME EliminarFalha PROVE FALSE
    OBVIOUS
  <2>1. PICK i \in DOMAIN Lotes : Lotes[i].perc < 0
    BY DEF EliminarFalha
  <2>2. Lotes \in Seq(Accao) /\ PedidoActual.pos \in DOMAIN ideias
    BY LotesTipo DEF EliminarFalha, IdeiaExiste, Lotes, TypeOK
  <2>3. Sa(Lotes, Liquidando(PedidoActual.pos)) /\ i \in 1..Len(Lotes)
    BY <2>2, LenProperties DEF SerieInv, Sas, Lotes
  <2>. QED BY <2>1, <2>2, <2>3, PercsTipo DEF Sa
<1>4. ~IdeiaPerdida
  BY DEF IdeiaPerdida, SerieInv, Progresso, SelecaoInv, PosicoesCertas, Selecionando
<1>. QED BY <1>1, <1>2, <1>3, <1>4

\* The steps that leave the monitor.
LEMMA SerieSair ==
  ASSUME TypeOK, SelecaoInv, SerieInv,
         \/ SelecionarFalha \/ InvestimentoInsuficiente \/ PagarFalha
         \/ EliminarFalha \/ IdeiaPerdida \/ TerminarCompra
  PROVE  SerieInv'
<1>1. \/ fase \notin {"pagar", "transferir", "eliminar"}
      \/ ~(compra.feitas > 0)
  BY SoFalhaAntes DEF SelecionarFalha, InvestimentoInsuficiente, TerminarCompra
<1>2. fase' = "livre" /\ ideias' = ideias /\ Olhar
  BY DEF SelecionarFalha, InvestimentoInsuficiente, PagarFalha, EliminarFalha,
         IdeiaPerdida, TerminarCompra, Sair, mercado
<1>. QED BY <1>1, <1>2, SerieLivreManter

\* Deleting a holding of nothing leaves the shares as they are.
LEMMA SerieEliminar ==
  ASSUME TypeOK, SelecaoInv, SerieInv, NEW i \in Nat, EliminarAccao(i)
  PROVE  SerieInv'
<1>. DEFINE k == PedidoActual.pos
            A == Lotes
            B == RemoveAt(Lotes, i)
<1>1. /\ fase = "eliminar" /\ Olhar /\ UNCHANGED <<saldo, pedido, fase, compra, tomada>>
      /\ k \in DOMAIN ideias /\ i \in DOMAIN Lotes /\ A[i].perc = 0
      /\ ideias' = ComAccoes(k, B)
  BY DEF EliminarAccao, PrimeiraInvalida, IdeiaExiste
<1>2. A \in Seq(Accao) /\ i \in 1..Len(A) /\ Len(A) \in Nat
  BY <1>1, LotesTipo, LenProperties DEF Lotes, TypeOK
<1>3. /\ B \in Seq(Accao) /\ Len(B) = Len(A) - 1 /\ SomaPerc(B) = SomaPerc(A)
      /\ \A j \in 1..(Len(A) - 1) : B[j] = IF j < i THEN A[j] ELSE A[j + 1]
  BY <1>1, <1>2, RemoveAtLista, SomaPercRemover
<1>4. Sa(A, Liquidando(k))
  BY <1>1 DEF SerieInv, Sas, Lotes
<1>5. Liquidando(k)
  BY <1>1, <1>2, <1>4 DEF Sa
<1>. HIDE DEF A, B
<1>6. Sa(B, TRUE)
  <2>1. \A j \in 1..Len(B) : \E l \in 1..Len(A) : B[j] = A[l]
    BY <1>2, <1>3
  <2>. QED BY <1>2, <1>3, <1>4, <2>1 DEF Sa
<1>7. PedidoActual' = PedidoActual
  BY <1>1 DEF PedidoActual
<1>8. \A l : Liquidando(l)' = Liquidando(l)
  BY <1>1, <1>7 DEF Liquidando
<1>9. \A l \in DOMAIN ideias : l # k => Sa(ideias[l].accoes, FALSE)
  BY DEF SerieInv, Sas, Sa, Liquidando
<1>10. \A l \in DOMAIN ideias' : Sa(ideias'[l].accoes, l = k /\ TRUE)
  BY <1>1, <1>3, <1>6, <1>9, SasTrocar
<1>11. Sas'
  BY <1>5, <1>8, <1>10 DEF Sas, Sa
<1>12. IdsUnicos'
  BY <1>1, <1>3, IdsTrocar DEF SerieInv
<1>13. Progresso'
  <2>1. Len(ideias') = Len(ideias) /\ ideias' \in Seq(Ideia)
    BY <1>1, <1>3, ComAccoesTipo DEF TypeOK
  <2>2. IdeiaExiste'
    BY <1>1, <1>7, <2>1, LenProperties DEF IdeiaExiste, TypeOK
  <2>. QED BY <1>1, <1>7, <2>2 DEF SerieInv, Progresso, Liquidacao
<1>14. EmMaos' /\ Contas'
  BY <1>1 DEF EmMaos, Contas, Liquidacao
<1>15. Historia'
  BY <1>1 DEF SerieInv, Historia, Sossego, Olhar
<1>. QED BY <1>11, <1>12, <1>13, <1>14, <1>15 DEF SerieInv

\* When no empty holding is left, the idea is whole.
LEMMA SerieEliminarFim ==
  ASSUME TypeOK, SerieInv, EliminarFim
  PROVE  SerieInv'
<1>1. /\ fase = "eliminar" /\ fase' = "terminar" /\ Olhar
      /\ UNCHANGED <<saldo, ideias, pedido, compra, tomada>>
      /\ PedidoActual.pos \in DOMAIN ideias
      /\ \A i \in DOMAIN Lotes : Lotes[i].perc > 0
  BY DEF EliminarFim, IdeiaExiste
<1>2. Lotes \in Seq(Accao) /\ DOMAIN Lotes = 1..Len(Lotes)
  BY <1>1, LotesTipo, LenProperties DEF Lotes, TypeOK
<1>3. Sas'
  <2>. SUFFICES ASSUME NEW k \in DOMAIN ideias PROVE Sa(ideias[k].accoes, FALSE)
    BY <1>1 DEF Sas, Sa
  <2>1. Sa(ideias[k].accoes, Liquidando(k))
    BY DEF SerieInv, Sas
  <2>2. CASE k = PedidoActual.pos
    <3>1. ideias[k].accoes = Lotes
      BY <2>2 DEF Lotes
    <3>2. \A i \in 1..Len(Lotes) : Lotes[i].perc # 0
      BY <1>1, <1>2, PercsTipo
    <3>. QED BY <2>1, <3>1, <3>2 DEF Sa
  <2>3. CASE k # PedidoActual.pos
    BY <2>1, <2>3 DEF Liquidando, Sa
  <2>. QED BY <2>2, <2>3
<1>4. Progresso' /\ EmMaos' /\ Contas' /\ IdsUnicos'
  BY <1>1 DEF SerieInv, Progresso, EmMaos, Contas, Liquidacao, PedidoActual, IdsUnicos
<1>5. Historia'
  BY <1>1 DEF SerieInv, Historia, Sossego, Olhar
<1>. QED BY <1>3, <1>4, <1>5 DEF SerieInv

\* The holdings when temaccoes returned: nothing is gained or lost, the buyer's
\* holding is at m, and only users share the idea.
LEMMA CompradorSa ==
  ASSUME TypeOK, SelecaoInv, SerieInv, fase = "transferir", NEW m, TemAccoes(m)
  PROVE  LET A == ComComprador(m)
         IN  /\ A \in Seq(Accao) /\ Len(Lotes) <= Len(A)
             /\ \A j \in 1..Len(Lotes) : A[j] = Lotes[j]
             /\ m \in 1..Len(A) /\ A[m].dono = compra.quem
             /\ SomaPerc(A) = Total
             /\ \A j \in 1..Len(A) : A[j].perc >= 0 /\ A[j].dono \in Utilizadores
<1>. DEFINE A == ComComprador(m)
            n == Len(Lotes)
            a == [dono |-> compra.quem, perc |-> 0, preco |-> PedidoActual.revenda]
<1>1. /\ Lotes \in Seq(Accao) /\ n \in Nat /\ DOMAIN Lotes = 1..n
      /\ PedidoActual.pos \in DOMAIN ideias /\ compra.quem \in Utilizadores
      /\ LoteActual \in 1..n /\ Lotes[LoteActual].dono # compra.quem
  BY LoteEmCurso, LenProperties DEF Liquidacao
<1>2. Sa(Lotes, Liquidando(PedidoActual.pos))
  BY <1>1 DEF SerieInv, Sas, Lotes
<1>3. Lotes[LoteActual].dono \in Utilizadores
  BY DEF SerieInv, EmMaos
<1>4. compra.meu # 0 => compra.meu \in DOMAIN Lotes /\ Lotes[compra.meu].dono = compra.quem
  BY DEF SerieInv, Progresso, Liquidacao
<1>5. CASE compra.meu = 0 /\ m = n + 1
  <2>1. A = Append(Lotes, a)
    BY <1>5 DEF ComComprador
  <2>2. a \in Accao /\ a.dono = compra.quem /\ a.perc = 0
    BY <1>1, PedidoTipo DEF Accao, Donos, PedidoActual
  <2>. HIDE DEF a
  <2>3. SomaPerc(A) = SomaPerc(Lotes) + 0
    BY <1>1, <2>1, <2>2, SomaPercAppend
  <2>4. SomaPerc(A) = Total
    BY <1>2, <2>3, TotalAssumption DEF Sa
  <2>5. /\ A \in Seq(Accao) /\ Len(A) = n + 1 /\ A[n + 1] = a
        /\ \A j \in 1..n : A[j] = Lotes[j]
    BY <1>1, <2>1, <2>2, AppendProperties
  <2>6. \A j \in 1..n : Lotes[j].dono \in Utilizadores
    <3>1. n > 1 \/ n = 1
      BY <1>1
    <3>. QED BY <1>1, <1>2, <1>3, <3>1 DEF Sa
  <2>. HIDE DEF A, n
  <2>7. \A j \in 1..Len(A) : j \in 1..n \/ j = n + 1
    BY <1>1, <2>5
  <2>8. \A j \in 1..Len(A) : A[j].perc >= 0 /\ A[j].dono \in Utilizadores
    BY <1>1, <1>2, <2>2, <2>5, <2>6, <2>7 DEF Sa, n
  <2>9. n <= Len(A) /\ m \in 1..Len(A) /\ A[m].dono = compra.quem
    BY <1>1, <1>5, <2>2, <2>5
  <2>. QED BY <2>4, <2>5, <2>8, <2>9 DEF A, n
<1>6. CASE ~(compra.meu = 0 /\ m = n + 1)
  <2>1. A = Lotes
    BY <1>6 DEF ComComprador
  <2>2. m \in 1..n /\ Lotes[m].dono = compra.quem
    BY <1>1, <1>4, <1>6 DEF TemAccoes
  <2>3. n > 1
    BY <1>1, <2>2
  <2>4. \A j \in 1..n : Lotes[j].perc >= 0 /\ Lotes[j].dono \in Utilizadores
    BY <1>2, <2>3 DEF Sa
  <2>5. SomaPerc(Lotes) = Total
    BY <1>2 DEF Sa
  <2>. QED BY <1>1, <2>1, <2>2, <2>4, <2>5
<1>. QED BY <1>5, <1>6

\* The second half of a transaction: the idea stays whole, and no lot but the
\* one sold and the buyer's changes.
LEMMA TransferirEfeito ==
  ASSUME TypeOK, SelecaoInv, SerieInv, NEW m \in Nat, Transferir(m)
  PROVE  \E E \in Seq(Accao) :
           /\ ideias' = ComAccoes(PedidoActual.pos, E)
           /\ Len(Lotes) <= Len(E) /\ m \in 1..Len(E) /\ E[m].dono = compra.quem
           /\ \A j \in 1..Len(Lotes) :
                E[j].dono = Lotes[j].dono
                /\ (j # LoteActual /\ j # m => E[j].perc = Lotes[j].perc)
           /\ Sa(E, TRUE)
<1>. DEFINE i == LoteActual
            q == compra.quantidade
            A == ComComprador(m)
            B == retiraraccao(A, i, q)
            C == adicionaraccao(B, m, q)
            p == C[i].preco - compra.valor
            D == setprecoaccao(C, i, p)
            E == IF compra.inteiro THEN C ELSE D
<1>1. /\ fase = "transferir" /\ TemAccoes(m)
      /\ ideias' = ComAccoes(PedidoActual.pos, E)
  BY DEF Transferir
<1>2. /\ A \in Seq(Accao) /\ Len(Lotes) <= Len(A)
      /\ \A j \in 1..Len(Lotes) : A[j] = Lotes[j]
      /\ m \in 1..Len(A) /\ A[m].dono = compra.quem
      /\ SomaPerc(A) = Total
      /\ \A j \in 1..Len(A) : A[j].perc >= 0 /\ A[j].dono \in Utilizadores
  BY <1>1, CompradorSa
<1>3. /\ Lotes \in Seq(Accao) /\ i \in 1..Len(Lotes) /\ Lotes[i].perc \in Int
      /\ Lotes[i].dono # compra.quem
  BY <1>1, LoteEmCurso DEF Liquidacao
<1>4. q \in Int /\ 0 <= q /\ q <= Lotes[i].perc
  BY <1>1, CompraTipo DEF SerieInv, EmMaos
<1>. HIDE DEF A, i, q
<1>5. /\ DOMAIN A = 1..Len(A) /\ Len(A) \in Nat /\ Len(Lotes) \in Nat
      /\ i \in 1..Len(A) /\ i # m
  BY <1>2, <1>3, LenProperties
<1>6. /\ B \in Seq(Accao) /\ Len(B) = Len(A) /\ DOMAIN B = 1..Len(A)
      /\ SomaPerc(B) = Total - q
      /\ \A j \in 1..Len(A) : /\ B[j].dono = A[j].dono
                              /\ B[j].perc = IF j = i THEN A[j].perc - q ELSE A[j].perc
  <2>1. /\ B \in Seq(Accao) /\ Len(B) = Len(A)
        /\ \A j \in DOMAIN A : B[j].dono = A[j].dono
    BY <1>2, <1>4, <1>5, retiraraccaoTipo
  <2>2. /\ SomaPerc(B) = SomaPerc(A) - q
        /\ \A j \in 1..Len(A) : B[j].perc = IF j = i THEN A[j].perc - q ELSE A[j].perc
    BY <1>2, <1>4, <1>5, MetodosPerc
  <2>. HIDE DEF B
  <2>. QED BY <1>2, <1>5, <2>1, <2>2, LenProperties
<1>. HIDE DEF B
<1>7. /\ C \in Seq(Accao) /\ Len(C) = Len(A) /\ DOMAIN C = 1..Len(A)
      /\ SomaPerc(C) = Total
      /\ \A j \in 1..Len(A) : /\ C[j].dono = A[j].dono
                              /\ C[j].perc = IF j = m THEN B[j].perc + q ELSE B[j].perc
  <2>1. /\ C \in Seq(Accao) /\ Len(C) = Len(B)
        /\ \A j \in DOMAIN B : C[j].dono = B[j].dono
    BY <1>2, <1>4, <1>6, adicionaraccaoTipo
  <2>2. /\ SomaPerc(C) = SomaPerc(B) + q
        /\ \A j \in 1..Len(B) : C[j].perc = IF j = m THEN B[j].perc + q ELSE B[j].perc
    BY <1>2, <1>4, <1>6, MetodosPerc
  <2>. HIDE DEF C
  <2>3. SomaPerc(C) = Total
    BY <1>4, <1>6, <2>2, TotalAssumption
  <2>. QED BY <1>6, <2>1, <2>2, <2>3, LenProperties
<1>. HIDE DEF C
<1>8. p \in Int
  <2>1. C[i] \in Accao
    BY <1>5, <1>7
  <2>. QED BY <2>1, NumDenTipo, CompraTipo
<1>. HIDE DEF p
<1>9. /\ D \in Seq(Accao) /\ Len(D) = Len(A) /\ SomaPerc(D) = Total
      /\ \A j \in 1..Len(A) : D[j].dono = C[j].dono /\ D[j].perc = C[j].perc
  <2>1. /\ D \in Seq(Accao) /\ Len(D) = Len(C)
        /\ \A j \in DOMAIN C : D[j].dono = C[j].dono
    BY <1>5, <1>7, <1>8, setprecoaccaoTipo
  <2>2. /\ SomaPerc(D) = SomaPerc(C)
        /\ \A j \in 1..Len(C) : D[j].perc = C[j].perc
    BY <1>5, <1>7, <1>8, MetodosPerc
  <2>. HIDE DEF D
  <2>. QED BY <1>7, <2>1, <2>2
<1>. HIDE DEF D
<1>10. /\ E \in Seq(Accao) /\ Len(E) = Len(A) /\ SomaPerc(E) = Total
       /\ \A j \in 1..Len(A) : /\ E[j].dono = A[j].dono
                               /\ E[j].perc = C[j].perc
  BY <1>7, <1>9
<1>. HIDE DEF E
<1>11. \A j \in 1..Len(A) : A[j].perc \in Int
  BY <1>2, PercsTipo
<1>12. ASSUME NEW j \in 1..Len(A) PROVE E[j].perc >= 0
  <2>1. E[j].perc = IF j = m THEN B[j].perc + q ELSE B[j].perc
    BY <1>7, <1>10
  <2>2. B[j].perc = IF j = i THEN A[j].perc - q ELSE A[j].perc
    BY <1>6
  <2>3. A[i].perc = Lotes[i].perc
    BY <1>2, <1>3
  <2>. QED BY <1>2, <1>3, <1>4, <1>5, <1>11, <2>1, <2>2, <2>3
<1>13. Sa(E, TRUE)
  BY <1>2, <1>10, <1>12 DEF Sa
<1>14. ASSUME NEW j \in 1..Len(Lotes)
       PROVE  E[j].dono = Lotes[j].dono
              /\ (j # i /\ j # m => E[j].perc = Lotes[j].perc)
  <2>1. j \in 1..Len(A) /\ A[j] = Lotes[j]
    BY <1>2, <1>5
  <2>. QED BY <1>6, <1>7, <1>10, <2>1
<1>. QED BY <1>1, <1>2, <1>10, <1>13, <1>14 DEF i

\* What leaves the lot reaches the buyer's holding.
LEMMA SerieTransferir ==
  ASSUME TypeOK, SelecaoInv, SerieInv, NEW m \in Nat, Transferir(m)
  PROVE  SerieInv'
<1>. DEFINE k == PedidoActual.pos
            T == compra.transacoes
            n == Len(T)
            f == compra.feitas
            q == compra.quantidade
<1>1. /\ fase = "transferir" /\ Liquidacao /\ Olhar
      /\ fase' = IF Ultima THEN "eliminar" ELSE "pagar"
      /\ UNCHANGED <<saldo, pedido, tomada>>
  BY DEF Transferir, Liquidacao
<1>2. /\ compra'.quem = compra.quem /\ compra'.transacoes = T
      /\ compra'.actual = compra.actual + q /\ compra'.feitas = f + 1
      /\ compra'.meu = m
  BY DEF Transferir, TypeOK, Compra
<1>3. PICK E \in Seq(Accao) :
        /\ ideias' = ComAccoes(k, E)
        /\ Len(Lotes) <= Len(E) /\ m \in 1..Len(E) /\ E[m].dono = compra.quem
        /\ \A j \in 1..Len(Lotes) :
             E[j].dono = Lotes[j].dono
             /\ (j # LoteActual /\ j # m => E[j].perc = Lotes[j].perc)
        /\ Sa(E, TRUE)
  BY TransferirEfeito
<1>4. /\ k \in DOMAIN ideias /\ Lotes \in Seq(Accao) /\ Len(Lotes) \in Nat
      /\ f \in Nat /\ n \in Nat /\ f < n /\ DOMAIN T = 1..n
      /\ compra.actual \in Int /\ q \in Int
  BY <1>1, LoteEmCurso, CompraTipo, LenProperties DEF SerieInv, Progresso
<1>5. PedidoActual' = PedidoActual
  BY <1>1, <1>2 DEF PedidoActual
<1>6. /\ Len(ideias') = Len(ideias) /\ DOMAIN ideias' = DOMAIN ideias
      /\ Lotes' = E /\ IdeiaExiste'
  <2>1. /\ Len(ideias') = Len(ideias) /\ ideias' \in Seq(Ideia)
        /\ ideias'[k].accoes = E
    BY <1>3, <1>4, ComAccoesTipo DEF TypeOK
  <2>2. DOMAIN ideias' = DOMAIN ideias
    BY <2>1, LenProperties DEF TypeOK
  <2>. QED BY <1>4, <1>5, <2>1, <2>2 DEF Lotes, IdeiaExiste
<1>7. Sas'
  <2>1. \A l \in DOMAIN ideias : l # k => Sa(ideias[l].accoes, FALSE)
    BY DEF SerieInv, Sas, Sa, Liquidando
  <2>2. \A l \in DOMAIN ideias' : Sa(ideias'[l].accoes, l = k /\ TRUE)
    BY <1>3, <1>4, <2>1, SasTrocar
  <2>3. Liquidando(k)'
    BY <1>1, <1>2, <1>4, <1>5 DEF Liquidando
  <2>4. \A l : l = k => Liquidando(l)'
    BY <1>1, <1>2, <1>4, <1>5 DEF Liquidando
  <2>. QED BY <2>2, <2>4 DEF Sas, Sa
<1>8. IdsUnicos'
  BY <1>3, <1>4, IdsTrocar DEF SerieInv
<1>9. ~Ultima => f + 1 < n
  BY <1>4 DEF Ultima
<1>10. Progresso'
  <2>1. m # 0 /\ m \in DOMAIN E
    BY <1>3, LenProperties
  <2>2. PedidoActual.perc \in 1..Total
    BY <1>1 DEF SerieInv, Progresso
  <2>. QED BY <1>1, <1>2, <1>3, <1>5, <1>6, <1>9, <2>1, <2>2
           DEF Progresso, Liquidacao
<1>11. EmMaos'
  BY <1>1 DEF EmMaos
<1>12. ASSUME ~Ultima PROVE Contas'
  <2>1. PICK S : ContasDaLiquidacao(S)
    BY <1>1 DEF SerieInv, Contas
  <2>2. /\ S \in [0..n -> Int] /\ S[f] = compra.actual
        /\ \A j \in (f + 1)..n : S[j] = S[j - 1] + Lotes[T[j]].perc
        /\ S[n - 1] < PedidoActual.perc /\ PedidoActual.perc <= S[n]
    BY <2>1 DEF ContasDaLiquidacao, ContasCom
  <2>3. LoteActual = T[f + 1] /\ q = Lotes[LoteActual].perc
    BY <1>1, <1>12 DEF LoteActual, SerieInv, EmMaos
  <2>4. S[f + 1] = compra.actual + q
    <3>1. f + 1 \in (f + 1)..n /\ (f + 1) - 1 = f
      BY <1>4
    <3>2. S[f + 1] = S[f] + Lotes[T[f + 1]].perc
      BY <2>2, <3>1
    <3>. QED BY <2>2, <2>3, <3>2
  <2>5. ASSUME NEW j \in (f + 1 + 1)..n
        PROVE  S[j] = S[j - 1] + E[T[j]].perc
    <3>1. j \in 1..n /\ f + 1 \in 1..n /\ j # f + 1 /\ j \in (f + 1)..n
      BY <1>4
    <3>2. /\ T[j] \in 1..compra.naccoes /\ T[j] # T[f + 1]
          /\ Lotes[T[j]].dono # compra.quem
          /\ compra.naccoes <= Len(Lotes)
      BY <1>1, <1>4, <3>1 DEF SelecaoInv, PosicoesCertas, Selecionando
    <3>3. T[j] \in 1..Len(Lotes)
      <4>1. compra.naccoes \in Nat
        BY CompraTipo
      <4>. QED BY <1>4, <3>2, <4>1
    <3>4. T[j] # m
      BY <1>3, <3>2, <3>3
    <3>5. E[T[j]].perc = Lotes[T[j]].perc
      BY <1>3, <2>3, <3>2, <3>3, <3>4
    <3>. QED BY <2>2, <3>1, <3>5
  <2>6. ContasCom(S, compra.feitas)'
    BY <1>2, <1>6, <2>2, <2>5 DEF ContasCom
  <2>7. ContasDaLiquidacao(S)'
    BY <1>2, <1>5, <2>2, <2>4, <2>6 DEF ContasDaLiquidacao
  <2>. QED BY <1>1, <1>12, <2>7 DEF Contas
<1>13. ASSUME Ultima PROVE Contas'
  BY <1>1, <1>13 DEF Contas, Liquidacao
<1>14. Historia'
  BY <1>1 DEF SerieInv, Historia, Sossego, Olhar
<1>. QED BY <1>7, <1>8, <1>10, <1>11, <1>12, <1>13, <1>14 DEF SerieInv

-----------------------------------------------------------------------------
\* The theorems.

\* The server starts with a list of ideas that is whole.
LEMMA SerieInit == Init => SerieInv
<1>. SUFFICES ASSUME Init PROVE SerieInv
  OBVIOUS
<1>1. /\ ListaValida(ideias) /\ fase = "livre" /\ tomada = SemTomada
      /\ visto = [saldo |-> saldo, ideias |-> ideias]
  BY CarregadosAssumption DEF Init
<1>2. ASSUME NEW k \in DOMAIN ideias PROVE Sa(ideias[k].accoes, Liquidando(k))
  <2>. DEFINE A == ideias[k].accoes
  <2>1. /\ SomaPerc(A) = Total /\ \A i \in DOMAIN A : A[i].perc > 0
        /\ Len(A) > 1 => \A i \in DOMAIN A : A[i].dono \in Utilizadores
    BY <1>1 DEF ListaValida
  <2>2. A \in Seq(Accao)
    BY <1>1, LotesTipo DEF ListaValida
  <2>. HIDE DEF A
  <2>3. DOMAIN A = 1..Len(A) /\ \A i \in 1..Len(A) : A[i].perc \in Int
    BY <2>2, PercsTipo, LenProperties
  <2>4. Sa(A, FALSE)
    BY <2>1, <2>3 DEF Sa
  <2>. QED BY <2>4 DEF Sa, A
<1>3. Sas
  BY <1>2 DEF Sas
<1>4. IdsUnicos
  BY <1>1 DEF ListaValida, IdsUnicos
<1>5. Progresso /\ EmMaos /\ Contas
  BY <1>1 DEF Progresso, EmMaos, Contas, Liquidacao
<1>6. Historia
  BY <1>1 DEF Historia
<1>. QED BY <1>3, <1>4, <1>5, <1>6 DEF SerieInv

\* Every step of a purchase keeps the invariant.
LEMMA SeriePassoCompra ==
  ASSUME TypeOK, SelecaoInv, SerieInv, ~Concorrente, PassoCompra
  PROVE  SerieInv'
<1>1. ASSUME NEW u \in Utilizadores, RecusarCompra(u)
      PROVE  SerieInv'
  BY <1>1, SerieLivreManter DEF RecusarCompra
<1>2. ASSUME NEW u \in Utilizadores, IniciarCompra(u)
      PROVE  SerieInv'
  BY <1>2, SerieIniciar
<1>3. ASSUME NEW i \in 1..compra.naccoes, Selecionar(i)
      PROVE  SerieInv'
  BY <1>3, SerieSelecionar
<1>4. CASE \/ SelecionarFalha \/ InvestimentoInsuficiente \/ PagarFalha
           \/ EliminarFalha \/ IdeiaPerdida \/ TerminarCompra
  BY <1>4, SerieSair
<1>5. CASE VerificarInvestimento
  BY <1>5, SerieVerificar
<1>6. CASE Pagar
  BY <1>6, SeriePagar
<1>7. ASSUME NEW m \in Posicoes,
             Transferir(m) \/ TransferirFalha(m) \/ EliminarAccao(m)
      PROVE  SerieInv'
  BY <1>7, PosicoesTipo, SerieTransferir, SoFalhaAntes, SerieEliminar
<1>8. CASE EliminarFim
  BY <1>8, SerieEliminarFim
<1>. QED BY <1>1, <1>2, <1>3, <1>4, <1>5, <1>6, <1>7, <1>8 DEF PassoCompra

\* So does every step of a server that takes one call at a time.
LEMMA SerieNext ==
  ASSUME ~Concorrente
  PROVE  TypeOK /\ SelecaoInv /\ SerieInv /\ [Next]_vars => SerieInv'
<1>. SUFFICES ASSUME TypeOK, SelecaoInv, SerieInv, [Next]_vars PROVE SerieInv'
  OBVIOUS
<1>1. CASE Pedir
  <2>1. PICK u \in Utilizadores, id \in 1..MaxIdeias, pos \in 0..MaxIdeias,
             perc \in Percentagens, revenda \in Precos, inv \in Investimentos :
               PedirCompra(u, id, pos, perc, revenda, inv)
    BY <1>1 DEF Pedir
  <2>2. fase # "livre" => pedido[compra.quem].activo /\ compra.quem \in Utilizadores
    BY DEF SelecaoInv, Sozinha, PedidoActual, TypeOK
  <2>3. ~pedido[u].activo
    BY <2>1 DEF PedirCompra
  <2>4. fase # "livre" => pedido'[compra.quem] = pedido[compra.quem]
    BY <2>1, <2>2, <2>3 DEF PedirCompra, TypeOK
  <2>. QED BY <2>1, <2>4, SerieManter DEF PedirCompra
<1>2. CASE PassoCompra
  BY <1>2, SeriePassoCompra
<1>3. CASE Editar
  BY <1>3, SerieEditar, NumerosAssumption DEF Editar
<1>4. CASE CriarApagar
  BY <1>4, SerieCriar, SerieApagar, NumerosAssumption DEF CriarApagar
<1>5. CASE Tomar
  <2>1. fase' = "livre" /\ fase = "livre" /\ ideias' = ideias /\ Olhar
    BY <1>5 DEF Tomar, IniciarTomada, Vez, Sossego
  <2>. QED BY <2>1, SerieLivreManter
<1>6. CASE PassoTomada
  <2>1. tomada # SemTomada
    <3>1. tomada = SemTomada => tomada.pos = 0
      BY DEF SemTomada
    <3>2. ~(0 \in DOMAIN ideias)
      BY LenProperties DEF TypeOK
    <3>. QED BY <1>6, <3>1, <3>2
             DEF PassoTomada, PagarTitular, ConcluirTomada, TomadaFalha, EmTomada
  <2>2. fase = "livre"
    BY <2>1 DEF SelecaoInv, Sozinha
  <2>. QED BY <1>6, <2>2, SerieTomada
<1>7. CASE UNCHANGED vars
  <2>1. CASE fase = "livre"
    <3>1. \A k \in DOMAIN ideias : Sa(ideias[k].accoes, FALSE)
      BY <2>1, SasEmRepouso DEF SerieInv
    <3>2. Sas' /\ IdsUnicos' /\ Progresso' /\ EmMaos' /\ Contas'
      BY <1>7, <2>1, <3>1
         DEF vars, SerieInv, Sas, Sa, IdsUnicos, Progresso, EmMaos, Contas, Liquidacao
    <3>3. Historia'
      BY <1>7 DEF vars, SerieInv, Historia, Sossego
    <3>. QED BY <3>2, <3>3 DEF SerieInv
  <2>2. CASE fase # "livre"
    <3>1. Olhar
      BY <1>7, <2>2 DEF vars, Olhar
    <3>. QED BY <1>7, <3>1, SerieManter DEF vars
  <2>. QED BY <2>1, <2>2
<1>. QED BY <1>1, <1>2, <1>3, <1>4, <1>5, <1>6, <1>7 DEF Next

\* The invariants the theorems below rest on, together.
LEMMA SerieSempre ==
  ASSUME ~Concorrente
  PROVE  Spec => [](TypeOK /\ SelecaoInv /\ SerieInv)
<1>1. Init => SelecaoInv
  BY DEF Init, SelecaoInv, Sozinha, PosicoesCertas, Selecionando
<1>2. TypeOK /\ SelecaoInv /\ [Next]_vars => SelecaoInv'
  BY SelecaoNext
<1>3. TypeOK /\ SelecaoInv /\ SerieInv /\ [Next]_vars => SerieInv'
  BY SerieNext
<1>. QED BY <1>1, <1>2, <1>3, SerieInit, TypeCorrect, PTL DEF Spec

\* When calls reach the server one at a time, the lots sold, the buyer's new
\* holding and the empty ones deleted (IdeiaImpl.java, lines 780-1040) always
\* leave 100 percent of every idea in somebody's hands.
THEOREM SharesSomamTotalEmSerie ==
  ASSUME ~Concorrente
  PROVE  Spec => []SharesSomamTotal
<1>1. SerieInv => SharesSomamTotal
  BY DEF SerieInv, Sas, Sa, SharesSomamTotal
<1>. QED BY <1>1, SerieSempre, PTL

\* What a purchase takes from its buyer it gives to the sellers, transaction by
\* transaction: while it runs, the users have together what they had before.
THEOREM DinheiroConservadoEmSerie ==
  ASSUME ~Concorrente
  PROVE  Spec => []DinheiroConservado
<1>1. SerieInv => DinheiroConservado
  BY DEF SerieInv, Historia, DinheiroConservado
<1>. QED BY <1>1, SerieSempre, PTL

\* A purchase that gives up, by a return or by an exception, has settled none
\* of its lots: after the first, nothing it looks for can be missing.
THEOREM FalhaSemEfeitoEmSerie ==
  ASSUME ~Concorrente
  PROVE  Spec => FalhaSemEfeito
<1>. DEFINE Efeito == fase \notin {"livre", "terminar"} /\ fase' = "livre"
                        => compra.feitas = 0 /\ fase # "transferir"
<1>1. TypeOK /\ SelecaoInv /\ SerieInv /\ [Next]_vars => [Efeito]_vars
  <2>. SUFFICES ASSUME TypeOK, SelecaoInv, SerieInv, Next,
                       fase \notin {"livre", "terminar"}, fase' = "livre"
                PROVE  compra.feitas = 0 /\ fase # "transferir"
    OBVIOUS
  <2>1. CASE PassoCompra
    <3>1. ASSUME NEW m \in Posicoes PROVE ~TransferirFalha(m)
      BY PosicoesTipo, SoFalhaAntes
    <3>2. SelecionarFalha \/ InvestimentoInsuficiente \/ PagarFalha
      BY <2>1, <3>1, SoFalhaAntes
         DEF PassoCompra, RecusarCompra, IniciarCompra, Selecionar,
             VerificarInvestimento, Pagar, Transferir, EliminarAccao, EliminarFim,
             TerminarCompra
    <3>3. fase \in {"selecionar", "pagar"} /\ ~(compra.feitas > 0)
      BY <3>2, SoFalhaAntes
         DEF SelecionarFalha, InvestimentoInsuficiente, PagarFalha,
             SerieInv, Progresso
    <3>. QED BY <3>3, CompraTipo
  <2>2. CASE Pedir \/ Editar \/ CriarApagar \/ Tomar \/ PassoTomada
    BY <2>2 DEF Pedir, PedirCompra, Editar, EditarAccao, CriarApagar, CriarIdeia,
                ApagarIdeia, Tomar, IniciarTomada, PassoTomada, PagarTitular,
                ConcluirTomada, TomadaFalha
  <2>. QED BY <2>1, <2>2 DEF Next
<1>. QED BY <1>1, SerieSempre, PTL DEF Spec, FalhaSemEfeito

\* An idea is whole while nothing is under way.
LEMMA RepousoBasta ==
  TypeOK /\ UmaAccaoPorDono /\ SerieInv => (Sossego => ListaValida(ideias))
<1>. SUFFICES ASSUME TypeOK, UmaAccaoPorDono, SerieInv, Sossego
              PROVE  ListaValida(ideias)
  OBVIOUS
<1>1. \A k \in DOMAIN ideias : Sa(ideias[k].accoes, FALSE)
  BY SasEmRepouso DEF SerieInv, Sossego
<1>2. ASSUME NEW k \in DOMAIN ideias
      PROVE  LET A == ideias[k].accoes
             IN  /\ SomaPerc(A) = Total
                 /\ \A i \in DOMAIN A : A[i].perc > 0
                 /\ \A i, j \in DOMAIN A : A[i].dono = A[j].dono => i = j
                 /\ Len(A) > 1 => \A i \in DOMAIN A : A[i].dono \in Utilizadores
  <2>. DEFINE A == ideias[k].accoes
  <2>1. Sa(A, FALSE) /\ \A i, j \in DOMAIN A : A[i].dono = A[j].dono => i = j
    BY <1>1 DEF UmaAccaoPorDono
  <2>2. A \in Seq(Accao)
    BY LotesTipo DEF TypeOK
  <2>. HIDE DEF A
  <2>3. DOMAIN A = 1..Len(A) /\ \A i \in 1..Len(A) : A[i].perc \in Int
    BY <2>2, PercsTipo, LenProperties
  <2>4. \A i \in DOMAIN A : A[i].perc > 0
    BY <2>1, <2>3 DEF Sa
  <2>. QED BY <2>1, <2>3, <2>4 DEF Sa, A
<1>. QED BY <1>2 DEF ListaValida, TypeOK, SerieInv, IdsUnicos

\* Whenever nothing is under way, the list of ideas is one that a server which
\* starts from it (loaddados) may trust: what the next run takes for granted
\* of the file is what this one leaves.
THEOREM RepousoValido ==
  ASSUME ~Concorrente
  PROVE  Spec => [](Sossego => ListaValida(ideias))
<1>. QED BY RepousoBasta, SerieSempre, TypeCorrect, UmaAccaoPorDonoSempre, PTL

-----------------------------------------------------------------------------
\* Sums over functions from holders (Soma of Mercado), by their partial sums.

Algum(s) == CHOOSE d \in s : TRUE

\* S[s] is the sum of f over the set s, taken out of it one element at a time.
ParciaisDe(S, f) ==
  /\ S \in [SUBSET DOMAIN f -> Int] /\ S[{}] = 0
  /\ \A s \in SUBSET DOMAIN f : s # {} => S[s] = f[Algum(s)] + S[s \ {Algum(s)}]

\* The sum of the community modules, unfolded one element at a time.
LEMMA SomaDaFuncao ==
  ASSUME NEW f
  PROVE  M!Soma(f) =
           LET ate[s \in SUBSET DOMAIN f] ==
                 IF s = {} THEN 0 ELSE f[Algum(s)] + ate[s \ {Algum(s)}]
           IN  ate[DOMAIN f]
BY DEF M!Soma, M!MapThenSumSet, M!MapThenFoldSet, Algum

\* Soma of a function is the last of its partial sums.
LEMMA SomaDeParciaisDe ==
  ASSUME NEW f, IsFiniteSet(DOMAIN f), NEW S, ParciaisDe(S, f)
  PROVE  M!Soma(f) = S[DOMAIN f]
<1>. DEFINE D == DOMAIN f
            E(g) == [s \in SUBSET D |-> IF s = {} THEN 0
                                        ELSE f[Algum(s)] + g[s \ {Algum(s)}]]
            ate == CHOOSE g : g = E(g)
<1>1. M!Soma(f) = ate[D]
  BY SomaDaFuncao
<1>. HIDE DEF D
<1>2. /\ S \in [SUBSET D -> Int] /\ S[{}] = 0
      /\ \A s \in SUBSET D : s # {} => S[s] = f[Algum(s)] + S[s \ {Algum(s)}]
  BY DEF ParciaisDe, D
<1>3. S = E(S)
  <2>1. \A s \in SUBSET D : S[s] = E(S)[s]
    BY <1>2
  <2>. QED BY <1>2, <2>1
<1>4. ate = E(ate)
  <2>. HIDE DEF E
  <2>. QED BY <1>3
<1>5. \A s \in SUBSET D :
        ate[s] = IF s = {} THEN 0 ELSE f[Algum(s)] + ate[s \ {Algum(s)}]
  <2>1. \A s \in SUBSET D :
          E(ate)[s] = IF s = {} THEN 0 ELSE f[Algum(s)] + ate[s \ {Algum(s)}]
    OBVIOUS
  <2>. HIDE DEF ate, E
  <2>. QED BY <1>4, <2>1
<1>. HIDE DEF ate
<1>. DEFINE T == {n \in Nat : \E s \in SUBSET D : Cardinality(s) = n /\ ate[s] # S[s]}
<1>6. T = {}
  <2>. SUFFICES ASSUME T # {} PROVE FALSE
    OBVIOUS
  <2>1. PICK m \in T : \A n \in T : m <= n
    BY MenorElemento
  <2>2. PICK s \in SUBSET D : Cardinality(s) = m /\ ate[s] # S[s]
    BY <2>1
  <2>3. s # {} /\ IsFiniteSet(s)
    BY <1>2, <1>5, <2>2, FS_Subset DEF D
  <2>4. Algum(s) \in s
    BY <2>3 DEF Algum
  <2>. DEFINE t == s \ {Algum(s)}
  <2>5. t \in SUBSET D /\ Cardinality(t) = m - 1 /\ Cardinality(t) \in Nat
    BY <2>2, <2>3, <2>4, FS_RemoveElement, FS_CardinalityType
  <2>. HIDE DEF t
  <2>6. m \in Nat /\ ~(m <= m - 1)
    BY <2>1
  <2>7. Cardinality(t) \notin T
    BY <2>1, <2>5, <2>6
  <2>8. ate[t] = S[t]
    BY <2>5, <2>7
  <2>. QED BY <1>2, <1>5, <2>2, <2>3, <2>8 DEF t
<1>7. D \in SUBSET D /\ Cardinality(D) \in Nat
  BY FS_CardinalityType DEF D
<1>. QED BY <1>1, <1>6, <1>7 DEF D

\* Every function on a finite set has partial sums.
LEMMA HaParciaisDe ==
  ASSUME NEW D, IsFiniteSet(D), NEW f \in [D -> Int]
  PROVE  \E S : ParciaisDe(S, f)
<1>. DEFINE Ate(k) == {s \in SUBSET D : Cardinality(s) <= k}
            P(k) == \E S \in [Ate(k) -> Int] :
                      /\ S[{}] = 0
                      /\ \A s \in Ate(k) :
                           s # {} => S[s] = f[Algum(s)] + S[s \ {Algum(s)}]
            T == {k \in Nat : ~P(k)}
<1>1. /\ \A s \in SUBSET D : IsFiniteSet(s) /\ Cardinality(s) \in Nat
      /\ Cardinality({}) = 0
      /\ \A s \in SUBSET D : s # {} => Cardinality(s) # 0
  BY FS_Subset, FS_CardinalityType, FS_EmptySet
<1>2. ASSUME NEW s \in SUBSET D, s # {}
      PROVE  /\ Algum(s) \in s /\ Algum(s) \in D /\ s \ {Algum(s)} \in SUBSET D
             /\ Cardinality(s \ {Algum(s)}) = Cardinality(s) - 1
  <2>1. Algum(s) \in s
    BY <1>2 DEF Algum
  <2>. QED BY <1>1, <2>1, FS_RemoveElement
<1>3. T = {}
  <2>. SUFFICES ASSUME T # {} PROVE FALSE
    OBVIOUS
  <2>. HIDE DEF T
  <2>1. PICK m \in T : \A n \in T : m <= n
    BY MenorElemento DEF T
  <2>2. m \in Nat /\ ~P(m)
    BY <2>1 DEF T
  <2>3. m # 0
    <3>. DEFINE Z == [s \in Ate(0) |-> 0]
    <3>1. Ate(0) = {{}}
      BY <1>1
    <3>. HIDE DEF Ate
    <3>2. Z \in [Ate(0) -> Int] /\ Z[{}] = 0
      BY <3>1
    <3>. HIDE DEF Z
    <3>3. P(0)
      BY <3>1, <3>2
    <3>. QED BY <2>2, <3>3
  <2>4. m - 1 \in Nat /\ ~(m - 1 \in T)
    BY <2>1, <2>2, <2>3
  <2>5. P(m - 1)
    BY <2>4 DEF T
  <2>6. PICK S \in [Ate(m - 1) -> Int] :
          /\ S[{}] = 0
          /\ \A s \in Ate(m - 1) : s # {} => S[s] = f[Algum(s)] + S[s \ {Algum(s)}]
    BY <2>5
  <2>. DEFINE U == [s \in Ate(m) |-> IF Cardinality(s) = m
                                     THEN f[Algum(s)] + S[s \ {Algum(s)}] ELSE S[s]]
  <2>7. /\ \A s \in Ate(m) : Cardinality(s) # m => s \in Ate(m - 1)
        /\ \A s \in Ate(m) : s # {} => s \ {Algum(s)} \in Ate(m - 1)
        /\ \A s \in Ate(m) : s # {} => Cardinality(s \ {Algum(s)}) # m
        /\ \A s \in Ate(m - 1) : s \in Ate(m) /\ Cardinality(s) # m
        /\ \A s \in Ate(m) : Cardinality(s) = m => s # {}
        /\ \A s \in Ate(m) : s # {} => f[Algum(s)] \in Int
        /\ {} \in Ate(m) /\ Cardinality({}) # m
    <3>1. ASSUME NEW s \in SUBSET D
          PROVE  /\ s \in Ate(m) /\ Cardinality(s) # m => s \in Ate(m - 1)
                 /\ s \in Ate(m - 1) => s \in Ate(m) /\ Cardinality(s) # m
                 /\ Cardinality(s) = m => s # {}
      <4>1. m \in Nat /\ m # 0 /\ Cardinality(s) \in Nat /\ (s = {} => Cardinality(s) = 0)
        BY <1>1, <2>2, <2>3
      <4>. HIDE DEF P
      <4>. QED BY <4>1
    <3>2. ASSUME NEW s \in Ate(m), s # {}
          PROVE  /\ s \ {Algum(s)} \in Ate(m - 1) /\ f[Algum(s)] \in Int
                 /\ Cardinality(s \ {Algum(s)}) # m
      <4>1. /\ s \in SUBSET D /\ Cardinality(s) \in Nat /\ Cardinality(s) <= m
            /\ Cardinality(s \ {Algum(s)}) = Cardinality(s) - 1
            /\ s \ {Algum(s)} \in SUBSET D /\ Algum(s) \in D
        BY <1>1, <1>2, <3>2
      <4>. QED BY <2>2, <4>1
    <3>3. {} \in Ate(m) /\ Cardinality({}) # m
      BY <1>1, <2>2, <2>3
    <3>. HIDE DEF P
    <3>4. \A n : Ate(n) \subseteq SUBSET D
      OBVIOUS
    <3>. HIDE DEF Ate
    <3>. QED BY <3>1, <3>2, <3>3, <3>4
  <2>. HIDE DEF Ate
  <2>8. U \in [Ate(m) -> Int]
    <3>. SUFFICES ASSUME NEW s \in Ate(m)
                  PROVE  (IF Cardinality(s) = m
                          THEN f[Algum(s)] + S[s \ {Algum(s)}] ELSE S[s]) \in Int
      OBVIOUS
    <3>1. CASE Cardinality(s) = m
      BY <2>6, <2>7, <3>1
    <3>2. CASE Cardinality(s) # m
      BY <2>6, <2>7, <3>2
    <3>. QED BY <3>1, <3>2
  <2>9. U[{}] = 0
    BY <2>6, <2>7
  <2>10. ASSUME NEW s \in Ate(m), s # {}
         PROVE  U[s] = f[Algum(s)] + U[s \ {Algum(s)}]
    <3>. DEFINE t == s \ {Algum(s)}
    <3>1. t \in Ate(m) /\ U[t] = S[t]
      BY <2>7, <2>10
    <3>2. CASE Cardinality(s) = m
      BY <3>1, <3>2
    <3>3. CASE Cardinality(s) # m
      BY <2>6, <2>7, <2>10, <3>1, <3>3
    <3>. QED BY <3>2, <3>3
  <2>. HIDE DEF U
  <2>11. P(m)
    BY <2>8, <2>9, <2>10
  <2>. QED BY <2>2, <2>11
<1>. DEFINE n == Cardinality(D)
<1>4. n \in Nat /\ P(n)
  <2>. HIDE DEF P
  <2>. QED BY <1>1, <1>3
<1>5. Ate(n) = SUBSET D
  <2>1. \A s \in SUBSET D : Cardinality(s) <= n
    BY FS_Subset
  <2>. QED BY <2>1
<1>6. DOMAIN f = D
  OBVIOUS
<1>. HIDE DEF Ate
<1>. QED BY <1>4, <1>5, <1>6 DEF ParciaisDe

\* What is used of the sums: they are numbers, nothing adds up to nothing, and
\* a change of one value changes the sum by as much.
LEMMA SomaDeTipo ==
  ASSUME NEW D, IsFiniteSet(D), NEW f \in [D -> Int]
  PROVE  M!Soma(f) \in Int
<1>1. PICK S : ParciaisDe(S, f)
  BY HaParciaisDe
<1>2. DOMAIN f = D
  OBVIOUS
<1>3. M!Soma(f) = S[DOMAIN f]
  BY <1>1, <1>2, SomaDeParciaisDe
<1>. QED BY <1>1, <1>3 DEF ParciaisDe

\* The sum of a function that is 0 everywhere.
LEMMA SomaDeNada ==
  ASSUME NEW D, IsFiniteSet(D), NEW f, f = [d \in D |-> 0]
  PROVE  M!Soma(f) = 0
<1>. DEFINE S == [s \in SUBSET D |-> 0]
<1>1. DOMAIN f = D /\ \A s \in SUBSET D : s # {} => Algum(s) \in D
  BY DEF Algum
<1>2. ParciaisDe(S, f)
  BY <1>1 DEF ParciaisDe
<1>3. M!Soma(f) = S[DOMAIN f]
  BY <1>1, <1>2, SomaDeParciaisDe
<1>. QED BY <1>1, <1>3

\* One value changes the sum by as much as it changes.
LEMMA SomaDeMudar ==
  ASSUME NEW D, IsFiniteSet(D), NEW f \in [D -> Int], NEW e \in D, NEW x \in Int
  PROVE  M!Soma([f EXCEPT ![e] = x]) = M!Soma(f) + (x - f[e])
<1>. DEFINE g == [f EXCEPT ![e] = x]
<1>1. PICK S : ParciaisDe(S, f)
  BY HaParciaisDe
<1>2. /\ DOMAIN f = D /\ DOMAIN g = D /\ f[e] \in Int
      /\ \A d \in D : g[d] = (IF d = e THEN x ELSE f[d]) /\ f[d] \in Int
  OBVIOUS
<1>. HIDE DEF g
<1>3. /\ S \in [SUBSET D -> Int] /\ S[{}] = 0
      /\ \A s \in SUBSET D : s # {} => S[s] = f[Algum(s)] + S[s \ {Algum(s)}]
  BY <1>1, <1>2 DEF ParciaisDe
<1>. DEFINE U == [s \in SUBSET D |-> IF e \in s THEN S[s] + (x - f[e]) ELSE S[s]]
<1>4. U \in [SUBSET D -> Int] /\ U[{}] = 0
  BY <1>2, <1>3
<1>5. ASSUME NEW s \in SUBSET D, s # {}
      PROVE  U[s] = g[Algum(s)] + U[s \ {Algum(s)}]
  <2>. DEFINE a == Algum(s)
              t == s \ {a}
  <2>1. a \in s /\ t \in SUBSET D /\ a \in D
    BY <1>5 DEF Algum
  <2>2. S[s] = f[a] + S[t] /\ S[t] \in Int /\ f[a] \in Int
    BY <1>2, <1>3, <1>5, <2>1
  <2>3. CASE a = e
    <3>1. U[s] = S[s] + (x - f[e]) /\ U[t] = S[t] /\ g[a] = x
      BY <1>2, <2>1, <2>3
    <3>. QED BY <1>2, <2>2, <2>3, <3>1
  <2>4. CASE a # e /\ e \in s
    <3>1. U[s] = S[s] + (x - f[e]) /\ U[t] = S[t] + (x - f[e]) /\ g[a] = f[a]
      BY <1>2, <2>1, <2>4
    <3>. QED BY <1>2, <2>2, <3>1
  <2>5. CASE e \notin s
    <3>1. U[s] = S[s] /\ U[t] = S[t] /\ g[a] = f[a]
      BY <1>2, <2>1, <2>5
    <3>. QED BY <2>2, <3>1
  <2>. QED BY <2>3, <2>4, <2>5
<1>. HIDE DEF U
<1>6. ParciaisDe(U, g)
  BY <1>2, <1>4, <1>5 DEF ParciaisDe
<1>7. M!Soma(f) = S[D] /\ M!Soma(g) = U[D]
  BY <1>1, <1>2, <1>6, SomaDeParciaisDe
<1>8. U[D] = S[D] + (x - f[e])
  BY DEF U
<1>. QED BY <1>7, <1>8 DEF g

\* The same of two functions that differ in one value.
LEMMA SomaDeDiferir ==
  ASSUME NEW D, IsFiniteSet(D), NEW f \in [D -> Int], NEW g \in [D -> Int], NEW e \in D,
         \A d \in D : d # e => g[d] = f[d]
  PROVE  M!Soma(g) = M!Soma(f) + (g[e] - f[e])
<1>1. g = [f EXCEPT ![e] = g[e]] /\ g[e] \in Int
  OBVIOUS
<1>. QED BY <1>1, SomaDeMudar

-----------------------------------------------------------------------------
\* The purchase under way, as one of Mercado.  It sees the idea as it was when
\* the market was last at rest; q is what it takes from everyone else.

Antes == visto.ideias[PedidoActual.pos].accoes
Tinha == PosseDe(Antes)
Vendedores == Donos \ {compra.quem}
NLotes == Len(compra.transacoes)
Vendedor(i) == Antes[compra.transacoes[i]].dono

\* What is paid for q, and what was taken from the first n sellers.
Paga(q) == [d \in Vendedores |-> IF q[d] = 0 THEN 0 ELSE M!Parte(q[d], Tinha[d])]
Ate(q, n) == [d \in Vendedores |-> IF \E i \in 1..n : d = Vendedor(i) THEN q[d] ELSE 0]

\* The market when r was paid for, and the idea when r changed hands.
SaldoCom(r) == [v \in Utilizadores |->
  IF v = compra.quem THEN visto.saldo[v] - M!Soma(Paga(r)) ELSE visto.saldo[v] + Paga(r)[v]]
PosseCom(r) == [d \in Donos |->
  IF d # compra.quem THEN (IF r[d] = 0 THEN Tinha[d] ELSE M!Resto(r[d], Tinha[d]))
  ELSE [perc |-> Tinha[d].perc + M!Soma(r),
        preco |-> IF Tinha[d].perc = 0 THEN PedidoActual.revenda ELSE Tinha[d].preco]]

\* The selection is the cheapest so far: all lots but the last are taken whole,
\* and nobody is left who asks for less.
Escolha(q) ==
  /\ \A i \in 1..NLotes : LET d == Vendedor(i) IN
       /\ d # compra.quem /\ q[d] \in 1..Tinha[d].perc /\ M!AVenda(Tinha[d])
       /\ i < NLotes => q[d] = Tinha[d].perc
       /\ \A e \in Vendedores :
            M!AVenda(Tinha[e]) /\ q[e] < Tinha[e].perc => ~M!MaisCaro(Tinha[d], Tinha[e])
  /\ \A d \in Vendedores : q[d] # 0 => \E i \in 1..NLotes : d = Vendedor(i)

\* The sums of the selection, and then of the settlement.
ContasCertas(q) ==
  /\ fase = "selecionar" =>
       /\ compra.actual = M!Soma(q) /\ compra.apagar = M!Soma(Paga(q))
       /\ compra.actual \in 0..PedidoActual.perc
       /\ compra.actual < PedidoActual.perc =>
            \A i \in 1..NLotes : q[Vendedor(i)] = Tinha[Vendedor(i)].perc
  /\ fase # "selecionar" =>
       /\ M!Soma(q) = PedidoActual.perc
       /\ M!Soma(Paga(q)) <= PedidoActual.investimento
  /\ Liquidacao => compra.actual = M!Soma(Ate(q, compra.feitas))
  /\ fase \in {"eliminar", "terminar"} => compra.feitas = NLotes

\* What the transaction under way moves.
EmTransito(q) ==
  fase = "transferir" =>
    LET d == Vendedor(compra.feitas + 1)
    IN  /\ compra.quantidade = q[d] /\ compra.valor = M!Parte(q[d], Tinha[d])
        /\ compra.inteiro <=> q[d] = Tinha[d].perc

\* Money and shares, as far as the settlement is.
Pagos == IF fase = "transferir" THEN compra.feitas + 1 ELSE compra.feitas
Liquidado(q) ==
  /\ \A i \in 1..Pagos : Vendedor(i) \in Utilizadores
  /\ saldo = SaldoCom(Ate(q, Pagos))
  /\ LET P == PosseCom(Ate(q, compra.feitas))
     IN  /\ \A j \in DOMAIN Lotes : LET d == Lotes[j].dono IN
              /\ Lotes[j].perc = P[d].perc
              /\ Lotes[j].perc > 0 => Lotes[j].preco = P[d].preco
         /\ \A d \in Donos : P[d].perc > 0 => \E j \in DOMAIN Lotes : Lotes[j].dono = d

\* The other ideas are as they were, this one until the first lot is settled,
\* and the lots it had stay in their places until empty ones are deleted.
Fora ==
  /\ DOMAIN ideias = DOMAIN visto.ideias /\ PedidoActual.pos \in DOMAIN ideias
  /\ \A k \in DOMAIN ideias :
       /\ ideias[k].id = visto.ideias[k].id
       /\ k # PedidoActual.pos => ideias[k].accoes = visto.ideias[k].accoes
  /\ fase = "selecionar" \/ (fase = "pagar" /\ compra.feitas = 0) =>
       saldo = visto.saldo /\ ideias = visto.ideias
  /\ Selecionando =>
       /\ compra.naccoes = Len(Antes)
       /\ \A j \in DOMAIN Antes : j \in DOMAIN Lotes /\ Lotes[j].dono = Antes[j].dono

Venda(q) == Escolha(q) /\ ContasCertas(q) /\ EmTransito(q) /\ Liquidado(q)
CompraCerta ==
  fase # "livre" => Fora /\ \E q \in [Vendedores -> 0..PedidoActual.perc] : Venda(q)

\* A takeover has paid those it passed what they asked for.
TomadaCerta ==
  tomada # SemTomada =>
    /\ fase = "livre" /\ ideias = visto.ideias /\ tomada.pos \in DOMAIN ideias
    /\ LET A == ideias[tomada.pos].accoes
           n == tomada.titular - 1
       IN  /\ n \in 0..Len(A)
           /\ \A j \in 1..n : A[j].dono \in Utilizadores
           /\ saldo = [v \in Utilizadores |-> visto.saldo[v] +
                IF \E j \in 1..n : A[j].dono = v THEN PosseDe(A)[v].preco ELSE 0]

PedidosCertos ==
  \A u \in Utilizadores : pedido[u].activo =>
    /\ pedido[u].perc \in Percentagens /\ pedido[u].revenda \in Precos
    /\ pedido[u].investimento \in Investimentos

VistoValido == ListaValida(visto.ideias)

RefinaInv == VistoValido /\ PedidosCertos /\ TomadaCerta /\ CompraCerta

-----------------------------------------------------------------------------
\* The lists of Bolsa as the functions of Mercado.

\* What a holder of the list has of the idea is that holding.
LEMMA PosseDeLote ==
  ASSUME NEW A \in Seq(Accao), Unicos(A), NEW i \in DOMAIN A
  PROVE  /\ A[i].dono \in Donos
         /\ PosseDe(A)[A[i].dono] = [perc |-> A[i].perc, preco |-> A[i].preco]
         /\ PosseDe(A)[A[i].dono].perc = A[i].perc
         /\ PosseDe(A)[A[i].dono].preco = A[i].preco
<1>. DEFINE d == A[i].dono
            c == CHOOSE j \in DOMAIN A : A[j].dono = d
<1>1. A[i] \in Accao /\ d \in Donos
  <2>1. A[i] \in Accao
    OBVIOUS
  <2>. QED BY <2>1 DEF Accao
<1>2. c \in DOMAIN A /\ A[c].dono = d
  OBVIOUS
<1>3. c = i
  BY <1>2 DEF Unicos
<1>. HIDE DEF c
<1>4. PosseDe(A)[d] = [perc |-> A[c].perc, preco |-> A[c].preco]
  BY <1>1 DEF PosseDe, c
<1>. QED BY <1>1, <1>3, <1>4

\* Who is not in the list has nothing.
LEMMA PosseDeNinguem ==
  ASSUME NEW A, NEW d \in Donos, \A i \in DOMAIN A : A[i].dono # d
  PROVE  PosseDe(A)[d] = [perc |-> 0, preco |-> 0]
BY DEF PosseDe

\* Everybody has a share and a price.
LEMMA PosseDeTipo ==
  ASSUME NEW A \in Seq(Accao), Unicos(A)
  PROVE  PosseDe(A) \in [Donos -> [perc : Int, preco : Int]]
<1>. SUFFICES ASSUME NEW d \in Donos
              PROVE  PosseDe(A)[d] \in [perc : Int, preco : Int]
  <2>1. DOMAIN PosseDe(A) = Donos /\ PosseDe(A) = [d \in Donos |-> PosseDe(A)[d]]
    BY DEF PosseDe
  <2>. QED BY <2>1
<1>1. CASE \E i \in DOMAIN A : A[i].dono = d
  <2>1. PICK i \in DOMAIN A : A[i].dono = d
    BY <1>1
  <2>2. A[i].perc \in Int /\ A[i].preco \in Int
    BY NumDenTipo
  <2>3. PosseDe(A)[d] = [perc |-> A[i].perc, preco |-> A[i].preco]
    BY <2>1, PosseDeLote
  <2>. QED BY <2>2, <2>3
<1>2. CASE ~\E i \in DOMAIN A : A[i].dono = d
  BY <1>2, PosseDeNinguem
<1>. QED BY <1>1, <1>2

\* A function that says of everyone what the list says.
LEMMA PosseDeQuem ==
  ASSUME NEW A \in Seq(Accao), Unicos(A), NEW f, f = [d \in Donos |-> f[d]],
         \A i \in DOMAIN A : f[A[i].dono] = [perc |-> A[i].perc, preco |-> A[i].preco],
         \A d \in Donos : (\A i \in DOMAIN A : A[i].dono # d)
                            => f[d] = [perc |-> 0, preco |-> 0]
  PROVE  PosseDe(A) = f
<1>. SUFFICES ASSUME NEW d \in Donos PROVE PosseDe(A)[d] = f[d]
  <2>1. PosseDe(A) = [d \in Donos |-> PosseDe(A)[d]]
    BY DEF PosseDe
  <2>. QED BY <2>1
<1>1. CASE \E i \in DOMAIN A : A[i].dono = d
  <2>1. PICK i \in DOMAIN A : A[i].dono = d
    BY <1>1
  <2>2. PosseDe(A)[A[i].dono] = [perc |-> A[i].perc, preco |-> A[i].preco]
    BY PosseDeLote
  <2>. QED BY <2>1, <2>2
<1>2. CASE ~\E i \in DOMAIN A : A[i].dono = d
  BY <1>2, PosseDeNinguem
<1>. QED BY <1>1, <1>2

\* No two ideas of a list have the same identifier.
IdsUnicosEm(lista) == \A k, l \in DOMAIN lista : lista[k].id = lista[l].id => k = l

\* What is held of an idea of the list is what its holdings say.
LEMMA PosseDeListaEm ==
  ASSUME NEW lista, IdsUnicosEm(lista), NEW k \in DOMAIN lista
  PROVE  /\ lista[k].id \in DOMAIN PosseDeLista(lista)
         /\ PosseDeLista(lista)[lista[k].id] = PosseDe(lista[k].accoes)
<1>. DEFINE id == lista[k].id
            c == CHOOSE l \in DOMAIN lista : lista[l].id = id
<1>1. c \in DOMAIN lista /\ lista[c].id = id
  OBVIOUS
<1>2. c = k
  BY <1>1 DEF IdsUnicosEm
<1>3. id \in {lista[l].id : l \in DOMAIN lista}
  OBVIOUS
<1>. HIDE DEF c
<1>4. PosseDeLista(lista)[id] = PosseDe(lista[c].accoes)
  BY <1>3 DEF PosseDeLista, c
<1>. QED BY <1>2, <1>3, <1>4 DEF PosseDeLista

\* A function from identifiers that says of every idea what the list says.
LEMMA PosseDeListaQual ==
  ASSUME NEW lista, IdsUnicosEm(lista), NEW f, f = [id \in DOMAIN f |-> f[id]],
         DOMAIN f = {lista[k].id : k \in DOMAIN lista},
         \A k \in DOMAIN lista : f[lista[k].id] = PosseDe(lista[k].accoes)
  PROVE  PosseDeLista(lista) = f
<1>. DEFINE g == PosseDeLista(lista)
<1>1. g = [id \in DOMAIN g |-> g[id]] /\ DOMAIN g = DOMAIN f
  BY DEF PosseDeLista
<1>. HIDE DEF g
<1>2. \A id \in DOMAIN f : g[id] = f[id]
  BY PosseDeListaEm DEF g
<1>. QED BY <1>1, <1>2 DEF g

\* One idea changes hands.
LEMMA PosseDeListaMudar ==
  ASSUME NEW lista, IdsUnicosEm(lista), NEW outra, NEW k \in DOMAIN lista,
         DOMAIN outra = DOMAIN lista,
         \A l \in DOMAIN lista : /\ outra[l].id = lista[l].id
                                 /\ l # k => outra[l].accoes = lista[l].accoes
  PROVE  PosseDeLista(outra) =
           [PosseDeLista(lista) EXCEPT ![lista[k].id] = PosseDe(outra[k].accoes)]
<1>. DEFINE id == lista[k].id
            f == [PosseDeLista(lista) EXCEPT ![id] = PosseDe(outra[k].accoes)]
<1>1. DOMAIN PosseDeLista(lista) = {lista[l].id : l \in DOMAIN lista}
  BY DEF PosseDeLista
<1>2. f = [i \in DOMAIN f |-> f[i]] /\ DOMAIN f = {outra[l].id : l \in DOMAIN outra}
  <2>1. {outra[l].id : l \in DOMAIN outra} = {lista[l].id : l \in DOMAIN lista}
    OBVIOUS
  <2>. QED BY <1>1, <2>1
<1>3. IdsUnicosEm(outra)
  BY DEF IdsUnicosEm
<1>4. ASSUME NEW l \in DOMAIN lista PROVE f[outra[l].id] = PosseDe(outra[l].accoes)
  <2>1. outra[l].id \in DOMAIN PosseDeLista(lista)
    BY <1>1
  <2>2. CASE l = k
    BY <2>1, <2>2
  <2>3. CASE l # k
    <3>1. outra[l].id # id
      BY <2>3 DEF IdsUnicosEm
    <3>2. PosseDeLista(lista)[lista[l].id] = PosseDe(lista[l].accoes)
      BY PosseDeListaEm
    <3>. QED BY <2>1, <2>3, <3>1, <3>2
  <2>. QED BY <2>2, <2>3
<1>. HIDE DEF f
<1>. QED BY <1>2, <1>3, <1>4, PosseDeListaQual DEF f

-----------------------------------------------------------------------------
\* The invariant, and what it says of the idea that a purchase is about.

\* What the earlier theorems show of every state.
Tudo == TypeOK /\ UmaAccaoPorDono /\ SelecaoInv /\ SerieInv

\* What a list that is whole says of each of its ideas.
LEMMA ListaValidaDiz ==
  ASSUME NEW lista, ListaValida(lista)
  PROVE  /\ lista \in Seq(Ideia) /\ IdsUnicosEm(lista)
         /\ \A k \in DOMAIN lista :
              LET A == lista[k].accoes
              IN  /\ A \in Seq(Accao) /\ Unicos(A) /\ SomaPerc(A) = Total
                  /\ \A i \in DOMAIN A : A[i].perc > 0
                  /\ Len(A) > 1 => \A i \in DOMAIN A : A[i].dono \in Utilizadores
<1>1. lista \in Seq(Ideia)
  BY DEF ListaValida
<1>2. \A k \in DOMAIN lista : lista[k].accoes \in Seq(Accao)
  <2>1. \A k \in DOMAIN lista : lista[k] \in Ideia
    BY <1>1
  <2>. QED BY <2>1 DEF Ideia
<1>. QED BY <1>1, <1>2 DEF ListaValida, IdsUnicosEm, Unicos

\* What everybody has of an idea at rest.
LEMMA PosseEmRepouso ==
  ASSUME NEW A \in Seq(Accao), Unicos(A), \A i \in DOMAIN A : A[i].perc > 0
  PROVE  /\ PosseDe(A) \in [Donos -> [perc : Nat, preco : Int]]
         /\ \A j \in DOMAIN A :
              /\ A[j].dono \in Donos /\ A[j].perc \in Int /\ A[j].preco \in Int
              /\ PosseDe(A)[A[j].dono] = [perc |-> A[j].perc, preco |-> A[j].preco]
              /\ PosseDe(A)[A[j].dono].perc = A[j].perc
              /\ PosseDe(A)[A[j].dono].preco = A[j].preco
         /\ \A d \in Donos :
              /\ PosseDe(A)[d].perc > 0 => \E j \in DOMAIN A : A[j].dono = d
              /\ PosseDe(A)[d].perc = 0 => /\ PosseDe(A)[d] = [perc |-> 0, preco |-> 0]
                                           /\ \A j \in DOMAIN A : A[j].dono # d
<1>1. ASSUME NEW j \in DOMAIN A
      PROVE  /\ A[j].dono \in Donos /\ A[j].perc \in Int /\ A[j].preco \in Int
             /\ PosseDe(A)[A[j].dono] = [perc |-> A[j].perc, preco |-> A[j].preco]
             /\ PosseDe(A)[A[j].dono].perc = A[j].perc
             /\ PosseDe(A)[A[j].dono].preco = A[j].preco
  <2>1. A[j] \in Accao
    OBVIOUS
  <2>. QED BY <2>1, PosseDeLote, NumDenTipo
<1>2. ASSUME NEW d \in Donos, \A j \in DOMAIN A : A[j].dono # d
      PROVE  PosseDe(A)[d] = [perc |-> 0, preco |-> 0] /\ PosseDe(A)[d].perc = 0
  BY <1>2, PosseDeNinguem
<1>3. ASSUME NEW d \in Donos
      PROVE  /\ PosseDe(A)[d] \in [perc : Nat, preco : Int]
             /\ PosseDe(A)[d].perc > 0 => \E j \in DOMAIN A : A[j].dono = d
             /\ PosseDe(A)[d].perc = 0 => /\ PosseDe(A)[d] = [perc |-> 0, preco |-> 0]
                                          /\ \A j \in DOMAIN A : A[j].dono # d
  <2>1. CASE \E j \in DOMAIN A : A[j].dono = d
    <3>1. PICK j \in DOMAIN A : A[j].dono = d
      BY <2>1
    <3>2. /\ PosseDe(A)[d] = [perc |-> A[j].perc, preco |-> A[j].preco]
          /\ PosseDe(A)[d].perc = A[j].perc
          /\ A[j].perc \in Int /\ A[j].preco \in Int /\ A[j].perc > 0
      BY <1>1, <3>1
    <3>3. A[j].perc \in Nat /\ A[j].perc # 0
      BY <3>2
    <3>. QED BY <3>1, <3>2, <3>3
  <2>2. CASE ~\E j \in DOMAIN A : A[j].dono = d
    BY <1>2, <2>2
  <2>. QED BY <2>1, <2>2
<1>4. PosseDe(A) = [d \in Donos |-> PosseDe(A)[d]]
  BY DEF PosseDe
<1>. QED BY <1>1, <1>3, <1>4

\* The same of the idea of the purchase under way.
LEMMA Cenario ==
  ASSUME Tudo, VistoValido, fase # "livre", Fora
  PROVE  /\ Antes \in Seq(Accao) /\ Unicos(Antes) /\ SomaPerc(Antes) = Total
         /\ DOMAIN Antes = 1..Len(Antes) /\ Len(Antes) \in Nat
         /\ compra.quem \in Utilizadores /\ compra.quem \in Donos
         /\ PedidoActual.perc \in 1..Total
         /\ PedidoActual.perc \in Nat /\ PedidoActual.perc # 0
         /\ IsFiniteSet(Vendedores)
         /\ Tinha \in [Donos -> [perc : Nat, preco : Int]]
         /\ \A d \in Donos : Tinha[d].perc \in Nat /\ Tinha[d].preco \in Int
         /\ \A j \in DOMAIN Antes :
              /\ Antes[j].dono \in Donos /\ Antes[j].perc \in Int
              /\ Antes[j].preco \in Int /\ Antes[j].perc > 0
              /\ Tinha[Antes[j].dono] = [perc |-> Antes[j].perc, preco |-> Antes[j].preco]
              /\ Tinha[Antes[j].dono].perc = Antes[j].perc
              /\ Tinha[Antes[j].dono].preco = Antes[j].preco
         /\ \A d \in Donos :
              /\ Tinha[d].perc > 0 => \E j \in DOMAIN Antes : Antes[j].dono = d
              /\ Tinha[d].perc = 0 => /\ Tinha[d] = [perc |-> 0, preco |-> 0]
                                      /\ \A j \in DOMAIN Antes : Antes[j].dono # d
<1>1. PedidoActual.pos \in DOMAIN visto.ideias
  BY DEF Fora
<1>2. /\ Antes \in Seq(Accao) /\ Unicos(Antes) /\ SomaPerc(Antes) = Total
      /\ \A i \in DOMAIN Antes : Antes[i].perc > 0
  BY <1>1, ListaValidaDiz DEF VistoValido, Antes
<1>3. compra.quem \in Utilizadores /\ PedidoActual.perc \in 1..Total
  BY DEF Tudo, TypeOK, SerieInv, Progresso
<1>4. IsFiniteSet(Vendedores)
  <2>1. IsFiniteSet(Donos)
    BY UtilizadoresAssumption, FS_AddElement DEF Donos
  <2>. QED BY <2>1, FS_Subset DEF Vendedores
<1>5. compra.quem \in Donos /\ PedidoActual.perc \in Nat /\ PedidoActual.perc # 0
  BY <1>3, TotalAssumption DEF Donos
<1>6. DOMAIN Antes = 1..Len(Antes) /\ Len(Antes) \in Nat
  BY <1>2, LenProperties
<1>7. Tinha = PosseDe(Antes)
  BY DEF Tinha
<1>8. \A x \in [perc : Nat, preco : Int] : x.perc \in Nat /\ x.preco \in Int
  OBVIOUS
<1>. HIDE DEF Tinha, Antes
<1>. QED BY <1>2, <1>3, <1>4, <1>5, <1>6, <1>7, <1>8, PosseEmRepouso

\* Part of a holding costs a number, unless there is nothing to divide.
LEMMA ParteTipo ==
  ASSUME NEW q \in Nat, NEW a, a.perc \in Nat, a.preco \in Int, a.perc # 0
  PROVE  M!Parte(q, a) \in Int
<1>. DEFINE n == a.perc
            t == q * a.preco
<1>1. t \in Int /\ n \in Nat /\ n # 0
  OBVIOUS
<1>. HIDE DEF n, t
<1>2. t \div n \in Int
  BY <1>1
<1>3. M!Parte(q, a) = IF q = n THEN a.preco ELSE t \div n
  BY DEF M!Parte, n, t
<1>. QED BY <1>2, <1>3

\* Amounts that somebody may be paid for: nothing of those who have nothing.
Possivel(r) == /\ r \in [Vendedores -> Nat]
               /\ \A d \in Vendedores : r[d] # 0 => Tinha[d].perc # 0

\* Such amounts and what is paid for them are numbers, and so are their sums.
LEMMA PagaTipo ==
  ASSUME Tudo, VistoValido, fase # "livre", Fora, NEW r, Possivel(r)
  PROVE  /\ Paga(r) \in [Vendedores -> Int] /\ M!Soma(Paga(r)) \in Int
         /\ M!Soma(r) \in Int
         /\ \A d \in Vendedores : r[d] # 0 => M!Parte(r[d], Tinha[d]) \in Int
<1>1. /\ IsFiniteSet(Vendedores)
      /\ \A d \in Donos : Tinha[d].perc \in Nat /\ Tinha[d].preco \in Int
  BY Cenario
<1>2. Vendedores \subseteq Donos
  BY DEF Vendedores
<1>3. \A d \in Vendedores : r[d] # 0 => M!Parte(r[d], Tinha[d]) \in Int
  BY <1>1, <1>2, ParteTipo DEF Possivel
<1>4. Paga(r) \in [Vendedores -> Int]
  BY <1>3 DEF Paga
<1>5. r \in [Vendedores -> Int]
  BY DEF Possivel
<1>. QED BY <1>1, <1>3, <1>4, <1>5, SomaDeTipo

\* A selection takes only from those who have something, and so does any part.
LEMMA EscolhaPossivel ==
  ASSUME NEW q \in [Vendedores -> Nat], Escolha(q), NEW n
  PROVE  Possivel(q) /\ Possivel(Ate(q, n))
<1>1. ASSUME NEW d \in Vendedores, q[d] # 0
      PROVE  Tinha[d].perc # 0
  <2>1. PICK i \in 1..NLotes : d = Vendedor(i)
    BY <1>1 DEF Escolha
  <2>2. q[d] \in 1..Tinha[d].perc
    BY <2>1 DEF Escolha
  <2>. QED BY <2>2
<1>2. Ate(q, n) \in [Vendedores -> Nat] /\ \A d \in Vendedores : Ate(q, n)[d] # 0 => q[d] # 0
  BY DEF Ate
<1>. QED BY <1>1, <1>2 DEF Possivel

\* Nothing was taken from the first none of the sellers, everything from all.
LEMMA AteExtremos ==
  ASSUME NEW q \in [Vendedores -> Nat]
  PROVE  /\ Ate(q, 0) = [d \in Vendedores |-> 0]
         /\ Escolha(q) => Ate(q, NLotes) = q
<1>1. 1..0 = {}
  OBVIOUS
<1>2. Ate(q, 0) = [d \in Vendedores |-> 0]
  BY <1>1 DEF Ate
<1>3. ASSUME Escolha(q) PROVE Ate(q, NLotes) = q
  <2>1. \A d \in Vendedores : Ate(q, NLotes)[d] = q[d]
    BY <1>3 DEF Ate, Escolha
  <2>. QED BY <2>1 DEF Ate
<1>. QED BY <1>2, <1>3

\* A purchase of nothing changes nothing.
LEMMA SemCompraNada ==
  ASSUME Tudo, VistoValido, fase # "livre", Fora, NEW z, z = [d \in Vendedores |-> 0]
  PROVE  /\ M!Soma(z) = 0 /\ M!Soma(Paga(z)) = 0
         /\ SaldoCom(z) = visto.saldo
         /\ \A d \in Donos : Tinha[d].perc > 0 \/ d # compra.quem => PosseCom(z)[d] = Tinha[d]
         /\ \A d \in Donos : PosseCom(z)[d].perc = Tinha[d].perc
<1>1. /\ IsFiniteSet(Vendedores) /\ compra.quem \in Utilizadores
      /\ Tinha \in [Donos -> [perc : Nat, preco : Int]]
  BY Cenario
<1>2. Paga(z) = z
  BY DEF Paga
<1>3. M!Soma(z) = 0
  BY <1>1, SomaDeNada
<1>4. visto.saldo \in [Utilizadores -> Int]
  BY DEF Tudo, TypeOK
<1>5. SaldoCom(z) = visto.saldo
  <2>1. \A v \in Utilizadores : v # compra.quem => v \in Vendedores
    BY DEF Vendedores, Donos
  <2>2. ASSUME NEW v \in Utilizadores PROVE SaldoCom(z)[v] = visto.saldo[v]
    BY <1>2, <1>3, <1>4, <2>1 DEF SaldoCom
  <2>3. SaldoCom(z) = [v \in Utilizadores |-> SaldoCom(z)[v]]
    BY DEF SaldoCom
  <2>. QED BY <1>4, <2>2, <2>3
<1>6. ASSUME NEW d \in Donos
      PROVE  /\ Tinha[d].perc > 0 \/ d # compra.quem => PosseCom(z)[d] = Tinha[d]
             /\ PosseCom(z)[d].perc = Tinha[d].perc
  <2>1. Tinha[d] \in [perc : Nat, preco : Int]
    BY <1>1
  <2>2. CASE d # compra.quem
    <3>1. d \in Vendedores
      BY <2>2 DEF Vendedores
    <3>. QED BY <2>2, <3>1 DEF PosseCom
  <2>3. CASE d = compra.quem
    <3>1. PosseCom(z)[d] = [perc |-> Tinha[d].perc + 0,
                            preco |-> IF Tinha[d].perc = 0 THEN PedidoActual.revenda
                                      ELSE Tinha[d].preco]
      BY <1>3, <2>3 DEF PosseCom
    <3>. HIDE DEF PosseCom
    <3>. QED BY <2>1, <2>3, <3>1
  <2>. QED BY <2>2, <2>3
<1>. QED BY <1>2, <1>3, <1>5, <1>6

-----------------------------------------------------------------------------
\* Steps of a purchase: the selection.

\* The market last seen at rest is whole after every step.
LEMMA VistoSempre ==
  ASSUME VistoValido, Tudo', Olhar \/ visto' = visto
  PROVE  VistoValido'
<1>1. Sossego' => ListaValida(ideias')
  <2>1. (TypeOK /\ UmaAccaoPorDono /\ SerieInv => (Sossego => ListaValida(ideias)))'
    BY RepousoBasta, PTL
  <2>. QED BY <2>1 DEF Tudo
<1>. QED BY <1>1 DEF VistoValido, Olhar, Sossego

\* While nothing is settled, the market is as it was seen.
LEMMA LiquidadoNada ==
  Tudo /\ VistoValido /\ fase = "selecionar" /\ Fora
    => \A q \in [Vendedores -> Nat] : Liquidado(q)
<1>. SUFFICES ASSUME Tudo, VistoValido, fase = "selecionar", Fora,
                     NEW q \in [Vendedores -> Nat]
              PROVE  Liquidado(q)
  OBVIOUS
<1>. DEFINE z == Ate(q, 0)
<1>1. compra.feitas = 0 /\ Pagos = 0
  BY DEF Tudo, SerieInv, Progresso, Pagos
<1>2. z = [d \in Vendedores |-> 0]
  BY AteExtremos
<1>. HIDE DEF z
<1>3. /\ SaldoCom(z) = visto.saldo
      /\ \A d \in Donos : Tinha[d].perc > 0 \/ d # compra.quem => PosseCom(z)[d] = Tinha[d]
      /\ \A d \in Donos : PosseCom(z)[d].perc = Tinha[d].perc
  BY <1>2, SemCompraNada
<1>4. saldo = visto.saldo /\ Lotes = Antes
  BY DEF Fora, Lotes, Antes
<1>5. /\ \A j \in DOMAIN Antes :
           /\ Antes[j].dono \in Donos /\ Antes[j].perc > 0
           /\ Tinha[Antes[j].dono].perc = Antes[j].perc
           /\ Tinha[Antes[j].dono].preco = Antes[j].preco
      /\ \A d \in Donos : Tinha[d].perc > 0 => \E j \in DOMAIN Antes : Antes[j].dono = d
  BY Cenario
<1>6. \A j \in DOMAIN Lotes : LET d == Lotes[j].dono IN
        /\ Lotes[j].perc = PosseCom(z)[d].perc
        /\ Lotes[j].perc > 0 => Lotes[j].preco = PosseCom(z)[d].preco
  BY <1>3, <1>4, <1>5
<1>7. \A d \in Donos : PosseCom(z)[d].perc > 0 => \E j \in DOMAIN Lotes : Lotes[j].dono = d
  BY <1>3, <1>4, <1>5
<1>8. 1..Pagos = {}
  BY <1>1
<1>. QED BY <1>1, <1>3, <1>4, <1>6, <1>7, <1>8 DEF Liquidado, z

\* The same of the next state.
LEMMA LiquidadoNadaDepois ==
  (Tudo /\ VistoValido /\ fase = "selecionar" /\ Fora
    => \A q \in [Vendedores -> Nat] : Liquidado(q))'
BY LiquidadoNada, PTL

\* A purchase begins with nothing selected.
LEMMA RefinaIniciar ==
  ASSUME Tudo, RefinaInv, Tudo', ~Concorrente, NEW u \in Utilizadores, IniciarCompra(u)
  PROVE  RefinaInv' /\ visto' = visto
<1>1. /\ Sossego /\ fase = "livre" /\ fase' = "selecionar" /\ Olhar
      /\ pedido[u].pos \in DOMAIN ideias
      /\ UNCHANGED <<saldo, ideias, pedido, tomada>>
      /\ compra' = [SemCompra EXCEPT !.quem = u,
                     !.naccoes = Len(ideias[pedido[u].pos].accoes)]
  BY DEF IniciarCompra, Vez
<1>2. /\ compra'.quem = u /\ compra'.transacoes = <<>> /\ compra'.actual = 0
      /\ compra'.feitas = 0 /\ compra'.apagar = 0
      /\ compra'.naccoes = Len(ideias[pedido[u].pos].accoes)
  BY <1>1 DEF SemCompra
<1>3. visto' = visto /\ visto = [saldo |-> saldo, ideias |-> ideias]
  BY <1>1 DEF Olhar, Tudo, SerieInv, Historia
<1>4. VistoValido'
  BY <1>3 DEF RefinaInv, VistoValido
<1>5. PedidosCertos' /\ TomadaCerta'
  <2>1. tomada = SemTomada
    BY <1>1 DEF Sossego
  <2>. QED BY <1>1, <2>1 DEF RefinaInv, PedidosCertos, TomadaCerta
<1>6. PedidoActual' = pedido[u] /\ Lotes' = Antes'
  BY <1>1, <1>2, <1>3 DEF PedidoActual, Lotes, Antes
<1>7. Fora'
  BY <1>1, <1>2, <1>3, <1>6 DEF Fora, Selecionando, Antes
<1>. DEFINE P == PedidoActual'.perc
<1>8. P \in 1..Total /\ P \in Nat
  BY <1>1, TotalAssumption DEF Tudo, SerieInv, Progresso
<1>. HIDE DEF P
<1>. PICK z : z = [d \in Donos \ {u} |-> 0]
  OBVIOUS
<1>9. z = [d \in Vendedores' |-> 0] /\ z \in [Vendedores' -> 0..P] /\ z \in [Vendedores' -> Nat]
  BY <1>2, <1>8 DEF Vendedores
<1>10. Liquidado(z)'
  BY <1>1, <1>4, <1>7, <1>9, LiquidadoNadaDepois
<1>11. Len(compra'.transacoes) = 0 /\ NLotes' = 0 /\ 1..0 = {}
  BY <1>2 DEF NLotes
<1>12. Escolha(z)'
  BY <1>9, <1>11 DEF Escolha
<1>13. ContasCertas(z)'
  <2>1. Paga(z)' = z
    BY <1>9 DEF Paga
  <2>2. IsFiniteSet(Donos \ {u})
    <3>1. IsFiniteSet(Donos)
      BY UtilizadoresAssumption, FS_AddElement DEF Donos
    <3>. QED BY <3>1, FS_Subset
  <2>3. M!Soma(z) = 0
    BY <2>2, SomaDeNada
  <2>4. M!Soma(Paga(z)') = 0
    BY <2>1, <2>3
  <2>. QED BY <1>1, <1>2, <1>8, <1>11, <2>3, <2>4 DEF ContasCertas, Liquidacao, P
<1>14. EmTransito(z)'
  BY <1>1 DEF EmTransito
<1>15. CompraCerta'
  <2>. QED BY <1>7, <1>9, <1>10, <1>12, <1>13, <1>14 DEF CompraCerta, Venda, P
<1>. QED BY <1>3, <1>4, <1>5, <1>15 DEF RefinaInv

\* Steps in which the purchase stays the one it is.
LEMMA MesmaCompra ==
  ASSUME visto' = visto, PedidoActual' = PedidoActual, compra'.quem = compra.quem
  PROVE  /\ Antes' = Antes /\ Tinha' = Tinha /\ Vendedores' = Vendedores
         /\ \A r : /\ Paga(r)' = Paga(r) /\ SaldoCom(r)' = SaldoCom(r)
                   /\ PosseCom(r)' = PosseCom(r)
<1>1. Antes' = Antes /\ Tinha' = Tinha /\ Vendedores' = Vendedores
  BY DEF Antes, Tinha, Vendedores
<1>2. \A r : Paga(r)' = Paga(r)
  BY <1>1 DEF Paga
<1>3. \A r : SaldoCom(r)' = SaldoCom(r) /\ PosseCom(r)' = PosseCom(r)
  BY <1>1, <1>2 DEF SaldoCom, PosseCom
<1>. QED BY <1>1, <1>2, <1>3

\* The orders of prices in Bolsa and in Mercado are the same, for shares.
LEMMA PrecosIguais ==
  ASSUME NEW a, NEW b, NEW x, NEW y,
         a.perc \in Int, a.perc > 0, b.perc \in Int, b.perc > 0,
         x.perc = a.perc, x.preco = a.preco, y.perc = b.perc, y.preco = b.preco,
         a.preco \in Int, b.preco \in Int
  PROVE  /\ AbaixoDoTecto(a) <=> M!AVenda(x)
         /\ MaisBarato(b, a) <=> M!MaisCaro(x, y)
<1>1. Num(a) = a.preco /\ Den(a) = a.perc /\ Num(b) = b.preco /\ Den(b) = b.perc
  BY DEF Num, Den
<1>2. AbaixoDoTecto(a) <=> M!AVenda(x)
  BY <1>1 DEF AbaixoDoTecto, M!AVenda
<1>. DEFINE l == b.preco * a.perc
            r == a.preco * b.perc
<1>3. MaisBarato(b, a) <=> l < r
  BY <1>1 DEF MaisBarato
<1>4. M!MaisCaro(x, y) <=> r > l
  BY DEF M!MaisCaro
<1>5. l \in Int /\ r \in Int
  OBVIOUS
<1>. HIDE DEF l, r
<1>. QED BY <1>2, <1>3, <1>4, <1>5

\* The cost of part of a lot is what Mercado says, and of all of it its price.
LEMMA CustoIgual ==
  ASSUME NEW a, NEW x, a.perc \in Int, a.perc > 0, NEW q \in Int,
         x.perc = a.perc, x.preco = a.preco
  PROVE  M!Parte(q, x) = IF q = a.perc THEN a.preco ELSE Custo(q, a)
BY DEF M!Parte, Custo, Num, Den

\* No seller is selected twice.
LEMMA VendedoresDistintos ==
  ASSUME Tudo, VistoValido, Selecionando, Fora
  PROVE  /\ NLotes \in Nat /\ DOMAIN compra.transacoes = 1..NLotes
         /\ \A i \in 1..NLotes : /\ compra.transacoes[i] \in DOMAIN Antes
                                 /\ Vendedor(i) \in Vendedores
         /\ \A i, j \in 1..NLotes : Vendedor(i) = Vendedor(j) => i = j
<1>1. /\ fase # "livre" /\ compra.naccoes = Len(Antes)
      /\ \A j \in DOMAIN Antes : Lotes[j].dono = Antes[j].dono
  BY DEF Selecionando, Fora
<1>2. /\ Antes \in Seq(Accao) /\ Unicos(Antes) /\ DOMAIN Antes = 1..Len(Antes)
      /\ \A j \in DOMAIN Antes : Antes[j].dono \in Donos
  BY <1>1, Cenario
<1>3. DOMAIN compra.transacoes = 1..NLotes /\ NLotes \in Nat
  BY CompraTipo, LenProperties DEF Tudo, NLotes
<1>4. /\ \A i \in 1..NLotes : /\ compra.transacoes[i] \in DOMAIN Antes
                              /\ Lotes[compra.transacoes[i]].dono # compra.quem
      /\ \A i, j \in 1..NLotes : compra.transacoes[i] = compra.transacoes[j] => i = j
  BY <1>1, <1>2, <1>3 DEF Tudo, SelecaoInv, PosicoesCertas
<1>. QED BY <1>1, <1>2, <1>3, <1>4 DEF Vendedor, Vendedores, Unicos

\* A lot more is selected: the cheapest of those left, whole or the part wanted.
LEMMA RefinaSelecionar ==
  ASSUME Tudo, RefinaInv, Tudo', NEW i \in 1..compra.naccoes, Selecionar(i)
  PROVE  RefinaInv' /\ visto' = visto
<1>. DEFINE T == compra.transacoes
            P == PedidoActual.perc
            a == Lotes[i]
            x == IF compra.actual + a.perc <= P THEN a.perc ELSE P - compra.actual
            y == IF compra.actual + a.perc <= P THEN a.preco ELSE Custo(x, a)
            d == Antes[i].dono
\* What the step does, and the lot it picks.
<1>1. /\ fase = "selecionar" /\ fase' = "selecionar" /\ Olhar /\ compra.actual < P
      /\ UNCHANGED <<saldo, ideias, pedido, tomada>>
      /\ i \in Candidatos
      /\ \A j \in Candidatos \ {i} : ~MaisBarato(Lotes[j], a)
  BY DEF Selecionar, Escolhido
<1>2. /\ compra'.quem = compra.quem /\ compra'.transacoes = Append(T, i)
      /\ compra'.actual = compra.actual + x /\ compra'.apagar = compra.apagar + y
      /\ compra'.feitas = compra.feitas /\ compra'.naccoes = compra.naccoes
  BY DEF Selecionar, Tudo, TypeOK, Compra
<1>3. visto' = visto /\ PedidoActual' = PedidoActual /\ Lotes' = Lotes
  BY <1>1, <1>2 DEF Olhar, PedidoActual, Lotes
<1>4. /\ Antes' = Antes /\ Tinha' = Tinha /\ Vendedores' = Vendedores
      /\ \A r : Paga(r)' = Paga(r)
  BY <1>2, <1>3, MesmaCompra
<1>5. VistoValido /\ VistoValido' /\ PedidosCertos' /\ TomadaCerta'
  BY <1>1, <1>3 DEF RefinaInv, VistoValido, PedidosCertos, TomadaCerta,
                    Tudo, SelecaoInv, Sozinha
<1>6. PICK q \in [Vendedores -> 0..P] : Fora /\ Escolha(q) /\ ContasCertas(q)
  BY <1>1 DEF RefinaInv, CompraCerta, Venda
<1>7. /\ compra.naccoes = Len(Antes) /\ Lotes = Antes /\ Selecionando
      /\ \A j \in DOMAIN Antes : j \in DOMAIN Lotes
  BY <1>1, <1>6 DEF Fora, Selecionando, Lotes, Antes
<1>8. /\ DOMAIN Antes = 1..Len(Antes) /\ Len(Antes) \in Nat /\ Unicos(Antes)
      /\ P \in 1..Total /\ P \in Nat /\ P # 0 /\ IsFiniteSet(Vendedores)
      /\ \A e \in Donos : Tinha[e].perc \in Nat /\ Tinha[e].preco \in Int
      /\ \A j \in DOMAIN Antes :
           /\ Antes[j].dono \in Donos /\ Antes[j].perc \in Int
           /\ Antes[j].preco \in Int /\ Antes[j].perc > 0
           /\ Tinha[Antes[j].dono].perc = Antes[j].perc
           /\ Tinha[Antes[j].dono].preco = Antes[j].preco
      /\ \A e \in Donos : Tinha[e].perc > 0 => \E j \in DOMAIN Antes : Antes[j].dono = e
  BY <1>1, <1>5, <1>6, Cenario
<1>9. /\ NLotes \in Nat /\ DOMAIN T = 1..NLotes
      /\ \A k \in 1..NLotes : T[k] \in DOMAIN Antes /\ Vendedor(k) \in Vendedores
  BY <1>5, <1>6, <1>7, VendedoresDistintos
<1>10. /\ i \in DOMAIN Antes /\ a = Antes[i] /\ d \in Vendedores /\ d \in Donos
       /\ d # compra.quem /\ AbaixoDoTecto(a) /\ \A k \in 1..NLotes : T[k] # i
  BY <1>1, <1>7, <1>8, <1>9 DEF Candidatos, PorEscolher, ToSet, Vendedores
<1>11. /\ a.perc \in Int /\ a.perc > 0 /\ a.preco \in Int
       /\ Tinha[d].perc = a.perc /\ Tinha[d].preco = a.preco
  BY <1>8, <1>10
<1>12. \A k \in 1..NLotes : Vendedor(k) # d
  BY <1>8, <1>9, <1>10 DEF Vendedor, Unicos
<1>13. q[d] = 0
  BY <1>6, <1>10, <1>12 DEF Escolha
<1>14. /\ compra.actual \in 0..P /\ compra.actual = M!Soma(q)
       /\ compra.apagar = M!Soma(Paga(q))
       /\ \A k \in 1..NLotes : q[Vendedor(k)] = Tinha[Vendedor(k)].perc
  BY <1>1, <1>6 DEF ContasCertas
<1>15. x \in 1..a.perc /\ x \in 1..P /\ x \in Int /\ compra.actual + x \in 0..P
       /\ (compra.actual + x < P => x = a.perc)
  BY <1>1, <1>8, <1>11, <1>14
<1>16. M!Parte(x, Tinha[d]) = y
  <2>1. CASE compra.actual + a.perc <= P
    BY <1>11, <1>15, <2>1, CustoIgual
  <2>2. CASE ~(compra.actual + a.perc <= P)
    <3>1. x # a.perc
      BY <1>8, <1>11, <1>14, <2>2
    <3>. QED BY <1>11, <1>15, <2>2, <3>1, CustoIgual
  <2>. QED BY <2>1, <2>2
<1>. HIDE DEF x, y, a, d, P, T
<1>40. PICK p : p = [q EXCEPT ![d] = x]
  OBVIOUS
<1>17. /\ p \in [Vendedores -> 0..P] /\ p \in [Vendedores -> Nat] /\ p[d] = x
       /\ \A e \in Vendedores : e # d => p[e] = q[e]
  BY <1>8, <1>10, <1>15, <1>40
\* The choice with the new lot.
<1>41. PICK V : V = [k \in 1..(NLotes + 1) |-> IF k = NLotes + 1 THEN d ELSE Vendedor(k)]
  OBVIOUS
<1>18. /\ NLotes' = NLotes + 1 /\ V[NLotes + 1] = d
       /\ \A k \in 1..NLotes : V[k] = Vendedor(k)
       /\ \A k \in 1..(NLotes + 1) : Vendedor(k)' = V[k]
  <2>1. T \in Seq(Nat) /\ i \in Nat /\ NLotes = Len(T)
    BY CompraTipo DEF Tudo, T, NLotes
  <2>2. /\ Len(Append(T, i)) = NLotes + 1 /\ Append(T, i)[NLotes + 1] = i
        /\ \A k \in 1..NLotes : Append(T, i)[k] = T[k]
    BY <2>1, AppendProperties
  <2>3. /\ NLotes + 1 \in 1..(NLotes + 1)
        /\ \A k \in 1..NLotes : k \in 1..(NLotes + 1) /\ k # NLotes + 1
        /\ \A k \in 1..(NLotes + 1) : k \in 1..NLotes \/ k = NLotes + 1
    BY <1>9
  <2>4. V[NLotes + 1] = d /\ \A k \in 1..NLotes : V[k] = Vendedor(k)
    BY <1>41, <2>3
  <2>5. \A k : Vendedor(k)' = Antes[Append(T, i)[k]].dono
    BY <1>2, <1>4 DEF Vendedor
  <2>6. NLotes' = NLotes + 1
    BY <1>2, <2>2 DEF NLotes
  <2>7. \A k \in 1..NLotes : Vendedor(k)' = Vendedor(k)
    BY <2>2, <2>5 DEF Vendedor, T
  <2>. QED BY <2>2, <2>3, <2>4, <2>5, <2>6, <2>7 DEF d
<1>19. \A e \in Vendedores : M!AVenda(Tinha[e]) /\ p[e] < Tinha[e].perc
                               => ~M!MaisCaro(Tinha[d], Tinha[e])
  <2>. SUFFICES ASSUME NEW e \in Vendedores, M!AVenda(Tinha[e]), p[e] < Tinha[e].perc
                PROVE  ~M!MaisCaro(Tinha[d], Tinha[e])
    OBVIOUS
  <2>1. CASE e = d
    <3>1. Tinha[d].preco * Tinha[d].perc \in Int
      BY <1>11
    <3>. QED BY <2>1, <3>1 DEF M!MaisCaro
  <2>2. CASE e # d
    <3>1. e \in Donos /\ e # compra.quem /\ Tinha[e].perc > 0 /\ q[e] < Tinha[e].perc
      BY <1>17, <2>2 DEF Vendedores, M!AVenda
    <3>2. PICK j \in DOMAIN Antes : Antes[j].dono = e
      BY <1>8, <3>1
    <3>3. \A k \in 1..NLotes : T[k] # j
      <4>. SUFFICES ASSUME NEW k \in 1..NLotes, T[k] = j PROVE FALSE
        OBVIOUS
      <4>1. Vendedor(k) = e
        BY <3>2 DEF Vendedor, T
      <4>. QED BY <1>8, <1>14, <3>1, <4>1
    <3>4. /\ Antes[j].perc \in Int /\ Antes[j].perc > 0 /\ Antes[j].preco \in Int
          /\ Tinha[e].perc = Antes[j].perc /\ Tinha[e].preco = Antes[j].preco
      BY <1>8, <3>2
    <3>5. AbaixoDoTecto(Antes[j])
      BY <3>4, PrecosIguais
    <3>6. j \in Candidatos /\ j # i
      BY <1>7, <1>8, <1>9, <2>2, <3>1, <3>2, <3>3, <3>5
         DEF Candidatos, PorEscolher, ToSet, T, d
    <3>7. ~MaisBarato(Antes[j], a)
      BY <1>1, <1>7, <3>6 DEF a
    <3>. QED BY <1>11, <3>4, <3>7, PrecosIguais
  <2>. QED BY <2>1, <2>2
<1>20. M!AVenda(Tinha[d])
  BY <1>10, <1>11, PrecosIguais
<1>21. Escolha(p)'
  <2>1. ASSUME NEW k \in 1..NLotes
        PROVE  LET w == Vendedor(k) IN
                 /\ w # compra.quem /\ p[w] \in 1..Tinha[w].perc /\ M!AVenda(Tinha[w])
                 /\ p[w] = Tinha[w].perc
                 /\ \A e \in Vendedores : M!AVenda(Tinha[e]) /\ p[e] < Tinha[e].perc
                                            => ~M!MaisCaro(Tinha[w], Tinha[e])
    <3>1. Vendedor(k) \in Vendedores /\ Vendedor(k) # d /\ p[Vendedor(k)] = q[Vendedor(k)]
      BY <1>9, <1>12, <1>17
    <3>2. \A e \in Vendedores : p[e] < Tinha[e].perc => q[e] < Tinha[e].perc
      BY <1>11, <1>13, <1>17
    <3>. QED BY <1>6, <1>14, <3>1, <3>2 DEF Escolha
  <2>2. \A k \in 1..(NLotes + 1) : k \in 1..NLotes \/ k = NLotes + 1
    BY <1>9
  <2>3. ASSUME NEW k \in 1..(NLotes + 1)
        PROVE  LET w == V[k] IN
                 /\ w # compra.quem /\ p[w] \in 1..Tinha[w].perc /\ M!AVenda(Tinha[w])
                 /\ k < NLotes + 1 => p[w] = Tinha[w].perc
                 /\ \A e \in Vendedores : M!AVenda(Tinha[e]) /\ p[e] < Tinha[e].perc
                                            => ~M!MaisCaro(Tinha[w], Tinha[e])
    <3>1. CASE k \in 1..NLotes
      BY <1>18, <2>1, <3>1
    <3>2. CASE k = NLotes + 1
      BY <1>9, <1>10, <1>11, <1>15, <1>17, <1>18, <1>19, <1>20, <3>2
    <3>. QED BY <2>2, <3>1, <3>2
  <2>4. ASSUME NEW e \in Vendedores, p[e] # 0
        PROVE  \E k \in 1..(NLotes + 1) : e = V[k]
    <3>1. CASE e = d
      BY <1>9, <1>18, <3>1
    <3>2. CASE e # d
      <4>1. PICK k \in 1..NLotes : e = Vendedor(k)
        BY <1>6, <1>17, <2>4, <3>2 DEF Escolha
      <4>2. k \in 1..(NLotes + 1)
        BY <1>9
      <4>. QED BY <1>18, <4>1, <4>2
    <3>. QED BY <3>1, <3>2
  <2>. QED BY <1>2, <1>4, <1>18, <2>3, <2>4 DEF Escolha
\* The sums.
<1>22. Possivel(q) /\ Possivel(p)
  <2>1. q \in [Vendedores -> Nat]
    BY <1>8
  <2>2. Possivel(q)
    BY <1>6, <2>1, EscolhaPossivel
  <2>. QED BY <1>11, <1>17, <2>2 DEF Possivel
<1>23. M!Soma(p) = compra.actual + x /\ M!Soma(Paga(p)) = compra.apagar + y
  <2>1. /\ q \in [Vendedores -> Int] /\ Paga(q) \in [Vendedores -> Int]
        /\ p \in [Vendedores -> Int] /\ Paga(p) \in [Vendedores -> Int]
    <3>1. q \in [Vendedores -> Nat] /\ p \in [Vendedores -> Nat] /\ fase # "livre"
      BY <1>1, <1>22 DEF Possivel
    <3>2. Paga(q) \in [Vendedores -> Int] /\ Paga(p) \in [Vendedores -> Int]
      BY <1>5, <1>6, <1>22, <3>1, PagaTipo
    <3>. QED BY <3>1, <3>2
  <2>2. M!Soma(p) = M!Soma(q) + (p[d] - q[d])
    <3>1. \A e \in Vendedores : e # d => p[e] = q[e]
      BY <1>17
    <3>2. d \in Vendedores /\ IsFiniteSet(Vendedores)
      BY <1>8, <1>10
    <3>. QED BY <2>1, <3>1, <3>2, SomaDeDiferir
  <2>3. Paga(q)[d] = 0 /\ Paga(p)[d] = y
    BY <1>10, <1>13, <1>15, <1>16, <1>17 DEF Paga
  <2>4. \A e \in Vendedores : e # d => Paga(p)[e] = Paga(q)[e]
    BY <1>17 DEF Paga
  <2>5. M!Soma(Paga(p)) = M!Soma(Paga(q)) + (Paga(p)[d] - Paga(q)[d])
    <3>1. d \in Vendedores /\ IsFiniteSet(Vendedores)
      BY <1>8, <1>10
    <3>. HIDE DEF Paga
    <3>. QED BY <2>1, <2>4, <3>1, SomaDeDiferir
  <2>6. y \in Int /\ M!Soma(q) \in Int /\ M!Soma(Paga(q)) \in Int
    BY <1>8, <1>10, <2>1, <2>3, SomaDeTipo
  <2>. QED BY <1>13, <1>14, <1>17, <2>2, <2>3, <2>5, <2>6
<1>24. ContasCertas(p)'
  <2>1. \A k \in 1..(NLotes + 1) : compra.actual + x < P =>
          p[V[k]] = Tinha[V[k]].perc
    <3>. SUFFICES ASSUME NEW k \in 1..(NLotes + 1), compra.actual + x < P
                  PROVE  p[V[k]] = Tinha[V[k]].perc
      OBVIOUS
    <3>1. CASE k \in 1..NLotes
      BY <1>9, <1>12, <1>14, <1>17, <1>18, <3>1
    <3>2. CASE k = NLotes + 1
      BY <1>11, <1>15, <1>17, <1>18, <3>2
    <3>. QED BY <1>9, <3>1, <3>2
  <2>. QED BY <1>1, <1>2, <1>3, <1>4, <1>15, <1>18, <1>23, <2>1
           DEF ContasCertas, Liquidacao, P
<1>25. Fora'
  BY <1>1, <1>2, <1>3, <1>4, <1>6 DEF Fora, Selecionando
<1>26. Liquidado(p)'
  BY <1>1, <1>4, <1>5, <1>17, <1>25, LiquidadoNadaDepois
<1>27. EmTransito(p)'
  BY <1>1 DEF EmTransito
<1>28. CompraCerta'
  BY <1>3, <1>4, <1>17, <1>21, <1>24, <1>25, <1>26, <1>27 DEF CompraCerta, Venda, P
<1>. QED BY <1>3, <1>5, <1>28 DEF RefinaInv

\* Steps in which the lots selected stay the same too.
LEMMA MesmosLotes ==
  ASSUME visto' = visto, PedidoActual' = PedidoActual, compra'.quem = compra.quem,
         compra'.transacoes = compra.transacoes
  PROVE  /\ Antes' = Antes /\ Tinha' = Tinha /\ Vendedores' = Vendedores /\ NLotes' = NLotes
         /\ \A i : Vendedor(i)' = Vendedor(i)
         /\ \A r : /\ Paga(r)' = Paga(r) /\ SaldoCom(r)' = SaldoCom(r)
                   /\ PosseCom(r)' = PosseCom(r)
         /\ \A q : Escolha(q) => Escolha(q)'
         /\ \A q, n : Ate(q, n)' = Ate(q, n)
<1>1. /\ Antes' = Antes /\ Tinha' = Tinha /\ Vendedores' = Vendedores
      /\ \A r : /\ Paga(r)' = Paga(r) /\ SaldoCom(r)' = SaldoCom(r)
                /\ PosseCom(r)' = PosseCom(r)
  BY MesmaCompra
<1>2. NLotes' = NLotes /\ \A i : Vendedor(i)' = Vendedor(i)
  BY <1>1 DEF NLotes, Vendedor
<1>3. \A q, n : Ate(q, n)' = Ate(q, n)
  BY <1>1, <1>2 DEF Ate
<1>4. \A q : Escolha(q) => Escolha(q)'
  BY <1>1, <1>2 DEF Escolha
<1>. QED BY <1>1, <1>2, <1>3, <1>4

\* What nothing but the purchase changes.
LEMMA RestoManter ==
  ASSUME Tudo, RefinaInv, Tudo', fase # "livre", visto' = visto,
         UNCHANGED <<pedido, tomada>>
  PROVE  VistoValido /\ VistoValido' /\ PedidosCertos' /\ TomadaCerta'
<1>1. tomada = SemTomada
  BY DEF Tudo, SelecaoInv, Sozinha
<1>. QED BY <1>1 DEF RefinaInv, VistoValido, PedidosCertos, TomadaCerta

\* The investment is checked against what the selection costs.
LEMMA RefinaVerificar ==
  ASSUME Tudo, RefinaInv, Tudo', VerificarInvestimento
  PROVE  RefinaInv' /\ visto' = visto
<1>. DEFINE P == PedidoActual.perc
<1>1. /\ fase = "selecionar" /\ fase' = "pagar" /\ Olhar /\ compra.actual >= P
      /\ UNCHANGED <<saldo, ideias, pedido, tomada>>
      /\ PedidoActual.investimento >= compra.apagar
  BY DEF VerificarInvestimento
<1>2. /\ compra'.quem = compra.quem /\ compra'.transacoes = compra.transacoes
      /\ compra'.actual = 0 /\ compra'.feitas = compra.feitas
      /\ compra'.naccoes = compra.naccoes
  BY DEF VerificarInvestimento, Tudo, TypeOK, Compra
<1>3. visto' = visto /\ PedidoActual' = PedidoActual /\ Lotes' = Lotes
  BY <1>1, <1>2 DEF Olhar, PedidoActual, Lotes
<1>4. VistoValido /\ VistoValido' /\ PedidosCertos' /\ TomadaCerta'
  BY <1>1, <1>3, RestoManter
<1>5. PICK q \in [Vendedores -> 0..P] : Fora /\ Escolha(q) /\ ContasCertas(q)
  BY <1>1 DEF RefinaInv, CompraCerta, Venda
<1>6. /\ Antes' = Antes /\ Vendedores' = Vendedores /\ NLotes' = NLotes
      /\ \A i : Vendedor(i)' = Vendedor(i)
      /\ \A r : /\ Paga(r)' = Paga(r) /\ SaldoCom(r)' = SaldoCom(r)
                /\ PosseCom(r)' = PosseCom(r)
      /\ Escolha(q)' /\ \A n : Ate(q, n)' = Ate(q, n)
  BY <1>2, <1>3, <1>5, MesmosLotes
<1>7. P \in Nat /\ IsFiniteSet(Vendedores) /\ q \in [Vendedores -> Nat]
  <2>1. fase # "livre"
    BY <1>1
  <2>. HIDE DEF P
  <2>2. P \in Nat /\ IsFiniteSet(Vendedores)
    BY <1>4, <1>5, <2>1, Cenario DEF P
  <2>. QED BY <2>2
<1>8. Liquidado(q)
  BY <1>1, <1>4, <1>5, <1>7, LiquidadoNada
<1>9. /\ compra.feitas = 0 /\ Pagos = 0 /\ Pagos' = 0 /\ compra.apagar \in Int
      /\ PedidoActual.investimento \in Int
  BY <1>1, <1>2, CompraTipo, PedidoTipo DEF Tudo, SerieInv, Progresso, Pagos, PedidoActual
<1>10. Liquidado(q)'
  BY <1>1, <1>2, <1>3, <1>6, <1>8, <1>9 DEF Liquidado
<1>11. M!Soma(Ate(q, 0)) = 0
  BY <1>7, AteExtremos, SomaDeNada
<1>12. ContasCertas(q)'
  <2>1. M!Soma(q) = P /\ M!Soma(Paga(q)) = compra.apagar
    BY <1>1, <1>5, <1>7 DEF ContasCertas
  <2>2. M!Soma(Paga(q)) <= PedidoActual.investimento
    BY <1>1, <1>9, <2>1
  <2>. QED BY <1>1, <1>2, <1>3, <1>6, <1>9, <1>11, <2>1, <2>2 DEF ContasCertas, Liquidacao
<1>13. Fora' /\ EmTransito(q)'
  BY <1>1, <1>2, <1>3, <1>5, <1>6 DEF Fora, Selecionando, EmTransito
<1>14. CompraCerta'
  BY <1>3, <1>5, <1>6, <1>10, <1>12, <1>13 DEF CompraCerta, Venda
<1>. QED BY <1>3, <1>4, <1>14 DEF RefinaInv

-----------------------------------------------------------------------------
\* Steps of a purchase: the settlement.

\* One seller more, counted in the order of the selection.
LEMMA AteSeguinte ==
  ASSUME Tudo, VistoValido, Selecionando, Fora, NEW q \in [Vendedores -> Nat], Escolha(q),
         NEW n \in Nat, n < NLotes
  PROVE  LET w == Vendedor(n + 1)
             v == M!Parte(q[w], Tinha[w])
         IN  /\ w \in Vendedores /\ w \in Donos /\ w # compra.quem
             /\ q[w] \in 1..Tinha[w].perc /\ q[w] \in Nat /\ q[w] # 0 /\ v \in Int
             /\ Ate(q, n)[w] = 0 /\ Ate(q, n + 1)[w] = q[w]
             /\ \A d \in Vendedores : d # w => Ate(q, n + 1)[d] = Ate(q, n)[d]
             /\ Paga(Ate(q, n))[w] = 0 /\ Paga(Ate(q, n + 1))[w] = v
             /\ \A d \in Vendedores : d # w => Paga(Ate(q, n + 1))[d] = Paga(Ate(q, n))[d]
             /\ M!Soma(Ate(q, n)) \in Int /\ M!Soma(Paga(Ate(q, n))) \in Int
             /\ M!Soma(Ate(q, n + 1)) = M!Soma(Ate(q, n)) + q[w]
             /\ M!Soma(Paga(Ate(q, n + 1))) = M!Soma(Paga(Ate(q, n))) + v
             /\ Paga(Ate(q, n)) \in [Vendedores -> Int]
<1>. DEFINE w == Vendedor(n + 1)
            v == M!Parte(q[w], Tinha[w])
<1>1. /\ NLotes \in Nat /\ n + 1 \in 1..NLotes
      /\ \A i \in 1..NLotes : Vendedor(i) \in Vendedores
      /\ \A i, j \in 1..NLotes : Vendedor(i) = Vendedor(j) => i = j
  BY VendedoresDistintos
<1>2. IsFiniteSet(Vendedores) /\ \A d \in Donos : Tinha[d].perc \in Nat
  BY Cenario DEF Selecionando
<1>3. w \in Vendedores /\ w \in Donos /\ w # compra.quem
  BY <1>1 DEF Vendedores
<1>4. q[w] \in 1..Tinha[w].perc
  BY <1>1 DEF Escolha
<1>. HIDE DEF w
<1>5. q[w] \in Nat /\ q[w] # 0
  BY <1>2, <1>3, <1>4
<1>6. /\ Possivel(q) /\ Possivel(Ate(q, n)) /\ Possivel(Ate(q, n + 1))
  BY EscolhaPossivel
<1>7. \A i \in 1..n : Vendedor(i) # w
  BY <1>1 DEF w
<1>8. \A i \in 1..(n + 1) : i \in 1..n \/ i = n + 1
  OBVIOUS
<1>9. n + 1 \in 1..(n + 1) /\ \A i \in 1..n : i \in 1..(n + 1)
  OBVIOUS
<1>10. Ate(q, n)[w] = 0
  BY <1>3, <1>7 DEF Ate
<1>11. Ate(q, n + 1)[w] = q[w]
  BY <1>3, <1>9 DEF Ate, w
<1>12. \A d \in Vendedores : d # w => Ate(q, n + 1)[d] = Ate(q, n)[d]
  BY <1>8, <1>9 DEF Ate, w
<1>. PICK f : f = Ate(q, n)
  OBVIOUS
<1>. PICK g : g = Ate(q, n + 1)
  OBVIOUS
<1>13. /\ fase # "livre" /\ f \in [Vendedores -> Nat] /\ g \in [Vendedores -> Nat]
       /\ Possivel(f) /\ Possivel(g)
  BY <1>6 DEF Selecionando, Possivel
<1>14. /\ Paga(f) \in [Vendedores -> Int] /\ Paga(g) \in [Vendedores -> Int]
       /\ M!Soma(f) \in Int /\ M!Soma(Paga(f)) \in Int
       /\ M!Parte(q[w], Tinha[w]) \in Int
  <2>1. /\ Paga(f) \in [Vendedores -> Int] /\ Paga(g) \in [Vendedores -> Int]
        /\ M!Soma(f) \in Int /\ M!Soma(Paga(f)) \in Int
    BY <1>13, PagaTipo
  <2>2. \A d \in Vendedores : q[d] # 0 => M!Parte(q[d], Tinha[d]) \in Int
    BY <1>6, <1>13, PagaTipo
  <2>. QED BY <1>3, <1>5, <2>1, <2>2
<1>15. /\ f[w] = 0 /\ g[w] = q[w] /\ \A d \in Vendedores : d # w => g[d] = f[d]
  BY <1>10, <1>11, <1>12
<1>16. Paga(f)[w] = 0 /\ Paga(g)[w] = v
  BY <1>3, <1>5, <1>15 DEF Paga
<1>17. \A d \in Vendedores : d # w => Paga(g)[d] = Paga(f)[d]
  BY <1>15 DEF Paga
<1>18. M!Soma(g) = M!Soma(f) + q[w]
  <2>1. f \in [Vendedores -> Int] /\ g \in [Vendedores -> Int]
    BY <1>13
  <2>2. M!Soma(g) = M!Soma(f) + (g[w] - f[w])
    BY <1>2, <1>3, <1>15, <2>1, SomaDeDiferir
  <2>. QED BY <1>5, <1>15, <2>2
<1>19. M!Soma(Paga(g)) = M!Soma(Paga(f)) + v
  <2>. HIDE DEF v
  <2>1. M!Soma(Paga(g)) = M!Soma(Paga(f)) + (Paga(g)[w] - Paga(f)[w])
    BY <1>2, <1>3, <1>14, <1>17, SomaDeDiferir
  <2>. QED BY <1>14, <1>16, <2>1 DEF v
<1>. QED BY <1>3, <1>4, <1>5, <1>14, <1>15, <1>16, <1>17, <1>18, <1>19 DEF w

\* The lot of the transaction under way is as it was when the purchase began.
LEMMA LoteVendido ==
  ASSUME Tudo, VistoValido, Fora, Liquidacao,
         NEW q \in [Vendedores -> Nat], Venda(q)
  PROVE  LET w == Vendedor(compra.feitas + 1)
         IN  /\ LoteActual \in DOMAIN Lotes /\ LoteActual \in DOMAIN Antes
             /\ Lotes[LoteActual].dono = w /\ w = Antes[LoteActual].dono
             /\ Lotes[LoteActual].perc = Tinha[w].perc
             /\ Lotes[LoteActual].preco = Tinha[w].preco
             /\ Tinha[w].perc > 0 /\ Tinha[w].perc \in Nat /\ Tinha[w].preco \in Int
             /\ compra.feitas \in Nat /\ compra.feitas < NLotes
             /\ compra.actual \in Int
             /\ ~Ultima => q[w] = Tinha[w].perc
             /\ Ultima => compra.actual + q[w] = PedidoActual.perc
<1>. DEFINE n == compra.feitas
            w == Vendedor(n + 1)
            r == Ate(q, n)
<1>1. /\ Selecionando /\ fase # "livre" /\ fase # "selecionar"
      /\ n \in Nat /\ n < NLotes
  BY CompraTipo DEF Tudo, SerieInv, Progresso, Liquidacao, Selecionando, NLotes
<1>2. /\ NLotes \in Nat /\ n + 1 \in 1..NLotes /\ compra.transacoes[n + 1] \in DOMAIN Antes
  BY <1>1, VendedoresDistintos
<1>3. LoteActual \in DOMAIN Lotes /\ LoteActual \in DOMAIN Antes /\ Lotes[LoteActual].dono = w
      /\ w = Antes[LoteActual].dono
  BY <1>1, <1>2 DEF Fora, LoteActual, Vendedor
<1>4. /\ w \in Vendedores /\ w \in Donos /\ w # compra.quem
      /\ q[w] \in 1..Tinha[w].perc /\ r[w] = 0
      /\ M!Soma(Ate(q, n)) \in Int
      /\ M!Soma(Ate(q, n + 1)) = M!Soma(Ate(q, n)) + q[w]
  BY <1>1, AteSeguinte DEF Venda
<1>5. Tinha[w].perc \in Nat /\ Tinha[w].preco \in Int /\ Tinha[w].perc > 0
  <2>1. Tinha[w].perc \in Nat /\ Tinha[w].preco \in Int
    BY <1>1, <1>4, Cenario
  <2>. HIDE DEF w, r
  <2>. QED BY <1>4, <2>1
<1>6. PosseCom(r)[w] = Tinha[w]
  <2>. HIDE DEF w, r
  <2>. QED BY <1>4 DEF PosseCom
<1>7. /\ Lotes[LoteActual].perc = PosseCom(r)[w].perc
      /\ Lotes[LoteActual].perc > 0 => Lotes[LoteActual].preco = PosseCom(r)[w].preco
  BY <1>3 DEF Venda, Liquidado
<1>8. ~Ultima => q[w] = Tinha[w].perc
  <2>1. ~Ultima => n + 1 < NLotes
    BY <1>1, <1>2 DEF Ultima, NLotes
  <2>. QED BY <1>2, <2>1 DEF Venda, Escolha
<1>9. Ultima => compra.actual + q[w] = PedidoActual.perc
  <2>. SUFFICES ASSUME Ultima PROVE compra.actual + q[w] = PedidoActual.perc
    OBVIOUS
  <2>1. n + 1 = NLotes
    BY DEF Ultima, NLotes
  <2>2. Ate(q, n + 1) = q
    BY <2>1, AteExtremos DEF Venda
  <2>3. M!Soma(q) = PedidoActual.perc /\ compra.actual = M!Soma(r)
    BY <1>1 DEF Venda, ContasCertas
  <2>. QED BY <1>4, <2>2, <2>3
<1>10. compra.actual \in Int
  BY CompraTipo DEF Tudo
<1>. QED BY <1>1, <1>3, <1>5, <1>6, <1>7, <1>8, <1>9, <1>10

\* A seller is paid what the part of the holding that changes hands costs.
LEMMA RefinaPagar ==
  ASSUME Tudo, RefinaInv, Tudo', Pagar
  PROVE  RefinaInv' /\ visto' = visto
<1>. DEFINE P == PedidoActual.perc
            n == compra.feitas
            w == Vendedor(n + 1)
            a == Lotes[LoteActual]
<1>1. /\ fase = "pagar" /\ fase' = "transferir" /\ Olhar /\ a.dono \in Utilizadores
      /\ UNCHANGED <<ideias, pedido, tomada>>
      /\ saldo' = MudarSaldos(compra.quem, a.dono,
                     IF LoteInteiro(a) THEN a.preco ELSE Custo(P - compra.actual, a))
  BY DEF Pagar, encontraruser
<1>2. /\ compra'.quem = compra.quem /\ compra'.transacoes = compra.transacoes
      /\ compra'.actual = compra.actual /\ compra'.feitas = n
      /\ compra'.naccoes = compra.naccoes
      /\ compra'.quantidade = (IF LoteInteiro(a) THEN a.perc ELSE P - compra.actual)
      /\ compra'.valor = (IF LoteInteiro(a) THEN a.preco ELSE Custo(P - compra.actual, a))
      /\ compra'.inteiro = LoteInteiro(a)
  BY DEF Pagar, Tudo, TypeOK, Compra
<1>3. visto' = visto /\ PedidoActual' = PedidoActual /\ Lotes' = Lotes
  BY <1>1, <1>2 DEF Olhar, PedidoActual, Lotes
<1>4. VistoValido /\ VistoValido' /\ PedidosCertos' /\ TomadaCerta' /\ fase # "livre"
  BY <1>1, <1>3, RestoManter
<1>5. PICK q \in [Vendedores -> 0..P] : Fora /\ Venda(q)
  BY <1>4 DEF RefinaInv, CompraCerta
<1>. DEFINE v == M!Parte(q[w], Tinha[w])
<1>6. /\ Antes' = Antes /\ Tinha' = Tinha /\ Vendedores' = Vendedores /\ NLotes' = NLotes
      /\ \A i : Vendedor(i)' = Vendedor(i)
      /\ \A r : /\ Paga(r)' = Paga(r) /\ SaldoCom(r)' = SaldoCom(r)
                /\ PosseCom(r)' = PosseCom(r)
      /\ Escolha(q)' /\ \A m : Ate(q, m)' = Ate(q, m)
  BY <1>2, <1>3, <1>5, MesmosLotes DEF Venda
<1>7. P \in Nat /\ q \in [Vendedores -> Nat] /\ compra.quem \in Utilizadores
  <2>. HIDE DEF P
  <2>1. P \in Nat /\ compra.quem \in Utilizadores
    BY <1>4, <1>5, Cenario DEF P
  <2>. QED BY <2>1
\* The lot, and what it costs.
<1>8. /\ a.dono = w /\ a.perc = Tinha[w].perc /\ a.preco = Tinha[w].preco
      /\ a.perc > 0 /\ a.perc \in Nat /\ a.preco \in Int
      /\ n \in Nat /\ n < NLotes /\ compra.actual \in Int
      /\ ~Ultima => q[w] = a.perc
      /\ Ultima => compra.actual + q[w] = P
  BY <1>1, <1>4, <1>5, <1>7, LoteVendido DEF Liquidacao
<1>9. /\ w \in Vendedores /\ w # compra.quem /\ v \in Int
      /\ q[w] \in 1..Tinha[w].perc /\ q[w] \in Nat
      /\ Paga(Ate(q, n))[w] = 0 /\ Paga(Ate(q, n + 1))[w] = v
      /\ \A d \in Vendedores : d # w => Paga(Ate(q, n + 1))[d] = Paga(Ate(q, n))[d]
      /\ M!Soma(Paga(Ate(q, n))) \in Int
      /\ M!Soma(Paga(Ate(q, n + 1))) = M!Soma(Paga(Ate(q, n))) + v
      /\ Paga(Ate(q, n)) \in [Vendedores -> Int]
  BY <1>1, <1>4, <1>5, <1>7, <1>8, AteSeguinte DEF Selecionando, Venda
<1>. HIDE DEF a, w, n, P
<1>10. LoteInteiro(a) <=> q[w] = a.perc
  BY <1>7, <1>8, <1>9 DEF LoteInteiro, P
<1>11. ~LoteInteiro(a) => P - compra.actual = q[w]
  BY <1>7, <1>8, <1>9 DEF LoteInteiro
<1>12. M!Parte(q[w], Tinha[w]) = IF q[w] = a.perc THEN a.preco ELSE Custo(q[w], a)
  BY <1>8, <1>9, CustoIgual
<1>13. /\ compra'.quantidade = q[w] /\ compra'.valor = v
       /\ (compra'.inteiro <=> q[w] = Tinha[w].perc)
       /\ saldo' = MudarSaldos(compra.quem, w, v)
  <2>1. CASE LoteInteiro(a)
    BY <1>1, <1>2, <1>8, <1>10, <1>12, <2>1
  <2>2. CASE ~LoteInteiro(a)
    BY <1>1, <1>2, <1>8, <1>10, <1>11, <1>12, <2>2
  <2>. QED BY <2>1, <2>2
\* The balances.
<1>. PICK f : f = Paga(Ate(q, n))
  OBVIOUS
<1>. PICK g : g = Paga(Ate(q, n + 1))
  OBVIOUS
<1>14. saldo = SaldoCom(Ate(q, n)) /\ \A i \in 1..n : Vendedor(i) \in Utilizadores
  BY <1>1, <1>5 DEF Venda, Liquidado, Pagos, n
<1>15. saldo' = SaldoCom(Ate(q, n + 1))
  <2>. HIDE DEF v
  <2>1. /\ \A u \in Utilizadores : visto.saldo[u] \in Int
        /\ \A u \in Utilizadores : u # compra.quem => u \in Vendedores /\ f[u] \in Int
        /\ f[w] = 0 /\ g[w] = v /\ \A d \in Vendedores : d # w => g[d] = f[d]
        /\ M!Soma(f) \in Int /\ M!Soma(g) = M!Soma(f) + v
        /\ v \in Int /\ w \in Utilizadores /\ w # compra.quem
    <3>1. visto.saldo \in [Utilizadores -> Int]
      BY DEF Tudo, TypeOK
    <3>2. \A u \in Utilizadores : u # compra.quem => u \in Vendedores
      BY DEF Vendedores, Donos
    <3>. QED BY <1>1, <1>8, <1>9, <3>1, <3>2 DEF v
  <2>2. saldo = [u \in Utilizadores |-> IF u = compra.quem THEN visto.saldo[u] - M!Soma(f)
                                        ELSE visto.saldo[u] + f[u]]
    BY <1>14 DEF SaldoCom
  <2>3. SaldoCom(Ate(q, n + 1))
          = [u \in Utilizadores |-> IF u = compra.quem THEN visto.saldo[u] - M!Soma(g)
                                    ELSE visto.saldo[u] + g[u]]
    BY DEF SaldoCom
  <2>4. saldo' = [saldo EXCEPT ![compra.quem] = @ - v, ![w] = @ + v]
    BY <1>13 DEF MudarSaldos
  <2>5. \A u \in Utilizadores : saldo'[u] = SaldoCom(Ate(q, n + 1))[u]
    BY <1>7, <2>1, <2>2, <2>3, <2>4
  <2>6. saldo' = [u \in Utilizadores |-> saldo'[u]]
    BY <2>2, <2>4
  <2>. QED BY <2>3, <2>5, <2>6
\* The invariant.
<1>16. Liquidado(q)'
  <2>1. Pagos' = n + 1 /\ n + 1 \in Nat /\ compra'.feitas = n
    BY <1>1, <1>2, <1>8 DEF Pagos
  <2>2. \A i \in 1..(n + 1) : Vendedor(i) \in Utilizadores
    <3>1. \A i \in 1..(n + 1) : i \in 1..n \/ i = n + 1
      BY <1>8
    <3>2. Vendedor(n + 1) \in Utilizadores
      BY <1>1, <1>8 DEF w
    <3>. QED BY <1>14, <3>1, <3>2
  <2>3. LET L == PosseCom(Ate(q, compra.feitas))
        IN  /\ \A j \in DOMAIN Lotes : LET d == Lotes[j].dono IN
                 /\ Lotes[j].perc = L[d].perc
                 /\ Lotes[j].perc > 0 => Lotes[j].preco = L[d].preco
            /\ \A d \in Donos : L[d].perc > 0 => \E j \in DOMAIN Lotes : Lotes[j].dono = d
    BY <1>5 DEF Venda, Liquidado
  <2>. QED BY <1>3, <1>6, <1>15, <2>1, <2>2, <2>3 DEF Liquidado, n
<1>17. ContasCertas(q)'
  BY <1>1, <1>2, <1>3, <1>5, <1>6 DEF ContasCertas, Liquidacao, Venda, n
<1>18. EmTransito(q)'
  BY <1>2, <1>6, <1>13 DEF EmTransito, w, n
<1>19. Fora'
  BY <1>1, <1>2, <1>3, <1>5, <1>6 DEF Fora, Selecionando
<1>20. CompraCerta'
  BY <1>3, <1>5, <1>6, <1>16, <1>17, <1>18, <1>19 DEF CompraCerta, Venda, P
<1>. QED BY <1>3, <1>4, <1>20 DEF RefinaInv

\* What the methods of Accao do to the prices.
LEMMA MetodosPreco ==
  ASSUME NEW A \in Seq(Accao), NEW i \in 1..Len(A), NEW q \in Int
  PROVE  \A j \in 1..Len(A) : /\ retiraraccao(A, i, q)[j].preco = A[j].preco
                              /\ adicionaraccao(A, i, q)[j].preco = A[j].preco
                              /\ setprecoaccao(A, i, q)[j].preco =
                                   IF j = i THEN q ELSE A[j].preco
<1>. DEFINE R == retiraraccao(A, i, q)
            D == adicionaraccao(A, i, q)
            P == setprecoaccao(A, i, q)
<1>1. \A j \in 1..Len(A) : A[j] \in Accao
  OBVIOUS
<1>2. DOMAIN A = 1..Len(A)
  OBVIOUS
<1>3. \A a \in Accao : \A x : /\ [a EXCEPT !.perc = x].preco = a.preco
                              /\ [a EXCEPT !.preco = x].preco = x
  BY DEF Accao
<1>4. ASSUME NEW j \in 1..Len(A)
      PROVE  /\ R[j].preco = A[j].preco /\ D[j].preco = A[j].preco
             /\ P[j].preco = IF j = i THEN q ELSE A[j].preco
  <2>1. R[j] = IF j = i THEN [A[j] EXCEPT !.perc = A[j].perc - q] ELSE A[j]
    BY <1>2 DEF retiraraccao
  <2>2. D[j] = IF j = i THEN [A[j] EXCEPT !.perc = A[j].perc + q] ELSE A[j]
    BY <1>2 DEF adicionaraccao
  <2>3. P[j] = IF j = i THEN [A[j] EXCEPT !.preco = q] ELSE A[j]
    BY <1>2 DEF setprecoaccao
  <2>. HIDE DEF R, D, P
  <2>. QED BY <1>1, <1>3, <2>1, <2>2, <2>3
<1>. QED BY <1>4

\* The second half of a transaction, on the list of the idea: the shares move
\* from holding i to holding m, and i is repriced if something is left of it.
Mudada(A, i, m, q) == adicionaraccao(retiraraccao(A, i, q), m, q)
Repartida(A, i, m, q, v) ==
  setprecoaccao(Mudada(A, i, m, q), i, Mudada(A, i, m, q)[i].preco - v)

\* What the calls of Accao do to every lot.
LEMMA MoverAccoes ==
  ASSUME NEW A \in Seq(Accao), NEW i \in 1..Len(A), NEW m \in 1..Len(A), i # m,
         NEW q \in Int, NEW v \in Int
  PROVE  LET C == Mudada(A, i, m, q)
             D == Repartida(A, i, m, q, v)
         IN  /\ C \in Seq(Accao) /\ Len(C) = Len(A) /\ D \in Seq(Accao) /\ Len(D) = Len(A)
             /\ \A j \in 1..Len(A) :
                  /\ C[j].dono = A[j].dono /\ D[j].dono = A[j].dono
                  /\ C[j].preco = A[j].preco
                  /\ C[j].perc = IF j = i THEN A[j].perc - q
                                 ELSE IF j = m THEN A[j].perc + q ELSE A[j].perc
                  /\ D[j].perc = C[j].perc
                  /\ D[j].preco = IF j = i THEN A[j].preco - v ELSE A[j].preco
<1>. DEFINE B == retiraraccao(A, i, q)
            C == adicionaraccao(B, m, q)
            p == C[i].preco - v
            D == setprecoaccao(C, i, p)
<1>1. DOMAIN A = 1..Len(A)
  OBVIOUS
<1>2. /\ B \in Seq(Accao) /\ Len(B) = Len(A) /\ DOMAIN B = 1..Len(B)
      /\ \A j \in 1..Len(A) : /\ B[j].dono = A[j].dono /\ B[j].preco = A[j].preco
                              /\ B[j].perc = IF j = i THEN A[j].perc - q ELSE A[j].perc
  <2>1. B \in Seq(Accao) /\ Len(B) = Len(A) /\ \A j \in DOMAIN A : B[j].dono = A[j].dono
    BY <1>1, retiraraccaoTipo
  <2>2. \A j \in 1..Len(A) : /\ B[j].preco = A[j].preco
                             /\ B[j].perc = IF j = i THEN A[j].perc - q ELSE A[j].perc
    BY MetodosPerc, MetodosPreco
  <2>. HIDE DEF B
  <2>. QED BY <1>1, <2>1, <2>2, LenProperties
<1>. HIDE DEF B
<1>3. /\ C \in Seq(Accao) /\ Len(C) = Len(A) /\ DOMAIN C = 1..Len(C)
      /\ \A j \in 1..Len(A) : /\ C[j].dono = A[j].dono /\ C[j].preco = A[j].preco
                              /\ C[j].perc = IF j = m THEN B[j].perc + q ELSE B[j].perc
  <2>1. C \in Seq(Accao) /\ Len(C) = Len(B) /\ \A j \in DOMAIN B : C[j].dono = B[j].dono
    BY <1>2, adicionaraccaoTipo
  <2>2. \A j \in 1..Len(B) : /\ C[j].preco = B[j].preco
                             /\ C[j].perc = IF j = m THEN B[j].perc + q ELSE B[j].perc
    BY <1>2, MetodosPerc, MetodosPreco
  <2>. HIDE DEF C
  <2>. QED BY <1>2, <2>1, <2>2, LenProperties
<1>. HIDE DEF C
<1>4. p \in Int
  <2>1. C[i].preco \in Int
    BY <1>3, NumDenTipo
  <2>. QED BY <2>1
<1>5. p = A[i].preco - v
  BY <1>3
<1>. HIDE DEF p
<1>6. /\ D \in Seq(Accao) /\ Len(D) = Len(A)
      /\ \A j \in 1..Len(A) : /\ D[j].dono = A[j].dono /\ D[j].perc = C[j].perc
                              /\ D[j].preco = IF j = i THEN p ELSE A[j].preco
  <2>1. D \in Seq(Accao) /\ Len(D) = Len(C) /\ \A j \in DOMAIN C : D[j].dono = C[j].dono
    BY <1>3, <1>4, setprecoaccaoTipo
  <2>2. \A j \in 1..Len(C) : /\ D[j].preco = IF j = i THEN p ELSE C[j].preco
                             /\ D[j].perc = C[j].perc
    BY <1>3, <1>4, MetodosPerc, MetodosPreco
  <2>. HIDE DEF D
  <2>. QED BY <1>3, <2>1, <2>2
<1>. HIDE DEF D
<1>7. \A j \in 1..Len(A) : C[j].perc = IF j = i THEN A[j].perc - q
                                       ELSE IF j = m THEN A[j].perc + q ELSE A[j].perc
  BY <1>2, <1>3
<1>. QED BY <1>3, <1>5, <1>6, <1>7 DEF D, C, B, p, Mudada, Repartida

\* The same of the idea of the purchase.  The buyer's holding is found, or added.
LEMMA TransferirTudo ==
  ASSUME Tudo, NEW m \in Nat, Transferir(m)
  PROVE  \E E \in Seq(Accao) :
           /\ ideias' = ComAccoes(PedidoActual.pos, E)
           /\ LoteActual \in 1..Len(Lotes) /\ m \in 1..Len(E) /\ m # LoteActual
           /\ Len(Lotes) <= Len(E)
           /\ E[m].dono = compra.quem
           /\ E[LoteActual].perc = Lotes[LoteActual].perc - compra.quantidade
           /\ E[LoteActual].preco = Lotes[LoteActual].preco
                                    - (IF compra.inteiro THEN 0 ELSE compra.valor)
           /\ \A j \in 1..Len(Lotes) : E[j].dono = Lotes[j].dono
           /\ \A j \in 1..Len(Lotes) : j # LoteActual /\ j # m =>
                E[j].perc = Lotes[j].perc /\ E[j].preco = Lotes[j].preco
           /\ \/ /\ m \in 1..Len(Lotes) /\ Len(E) = Len(Lotes)
                 /\ E[m].perc = Lotes[m].perc + compra.quantidade
                 /\ E[m].preco = Lotes[m].preco
              \/ /\ m = Len(Lotes) + 1 /\ Len(E) = m
                 /\ \A j \in 1..Len(Lotes) : Lotes[j].dono # compra.quem
                 /\ E[m].perc = compra.quantidade
                 /\ E[m].preco = PedidoActual.revenda
<1>. DEFINE A == ComComprador(m)
            i == LoteActual
            q == compra.quantidade
            C == Mudada(A, i, m, q)
            D == Repartida(A, i, m, q, compra.valor)
            E == IF compra.inteiro THEN C ELSE D
            a == [dono |-> compra.quem, perc |-> 0, preco |-> PedidoActual.revenda]
<1>1. /\ fase = "transferir" /\ TemAccoes(m) /\ ideias' = ComAccoes(PedidoActual.pos, E)
  BY DEF Transferir, Mudada, Repartida
<1>2. /\ A \in Seq(Accao) /\ Len(Lotes) <= Len(A)
      /\ \A j \in 1..Len(Lotes) : A[j] = Lotes[j]
      /\ m \in 1..Len(A) /\ A[m].dono = compra.quem
  BY <1>1, CompradorSa DEF Tudo
<1>3. /\ Lotes \in Seq(Accao) /\ i \in 1..Len(Lotes) /\ Lotes[i].dono # compra.quem
      /\ DOMAIN Lotes = 1..Len(Lotes) /\ Len(Lotes) \in Nat
      /\ compra.quem \in Utilizadores
  BY <1>1, LoteEmCurso, LenProperties DEF Liquidacao, Tudo
<1>4. q \in Int /\ compra.valor \in Int /\ compra.inteiro \in BOOLEAN
  BY CompraTipo DEF Tudo
<1>5. \/ m \in 1..Len(Lotes) /\ A = Lotes
      \/ /\ m = Len(Lotes) + 1 /\ A = Append(Lotes, a)
         /\ \A j \in 1..Len(Lotes) : Lotes[j].dono # compra.quem
  <2>1. compra.meu # 0 => compra.meu \in DOMAIN Lotes
    BY <1>1 DEF Tudo, SerieInv, Progresso, Liquidacao
  <2>2. CASE compra.meu = 0 /\ m = Len(Lotes) + 1
    <3>1. A = Append(Lotes, a)
      BY <2>2 DEF ComComprador
    <3>. QED BY <1>1, <1>3, <2>2, <3>1 DEF TemAccoes
  <2>3. CASE ~(compra.meu = 0 /\ m = Len(Lotes) + 1)
    <3>1. A = Lotes
      BY <2>3 DEF ComComprador
    <3>. QED BY <1>1, <1>3, <2>1, <2>3, <3>1 DEF TemAccoes
  <2>. QED BY <2>2, <2>3
<1>6. a \in Accao /\ a.dono = compra.quem /\ a.perc = 0 /\ a.preco = PedidoActual.revenda
  BY <1>3, PedidoTipo DEF Accao, Donos, PedidoActual, Tudo
<1>. HIDE DEF A, i, q, a
<1>7. i \in 1..Len(A) /\ i # m /\ Len(A) \in Nat
  BY <1>2, <1>3
<1>8. \/ m \in 1..Len(Lotes) /\ Len(A) = Len(Lotes)
      \/ /\ m = Len(Lotes) + 1 /\ Len(A) = m /\ A[m] = a
         /\ \A j \in 1..Len(Lotes) : Lotes[j].dono # compra.quem
  BY <1>3, <1>5, <1>6, AppendProperties
<1>9. /\ E \in Seq(Accao) /\ Len(E) = Len(A)
      /\ \A j \in 1..Len(A) :
           /\ E[j].dono = A[j].dono
           /\ E[j].perc = IF j = i THEN A[j].perc - q
                          ELSE IF j = m THEN A[j].perc + q ELSE A[j].perc
           /\ E[j].preco = IF j = i /\ ~compra.inteiro THEN A[j].preco - compra.valor
                           ELSE A[j].preco
  <2>1. /\ C \in Seq(Accao) /\ Len(C) = Len(A) /\ D \in Seq(Accao) /\ Len(D) = Len(A)
        /\ \A j \in 1..Len(A) :
             /\ C[j].dono = A[j].dono /\ D[j].dono = A[j].dono
             /\ C[j].preco = A[j].preco
             /\ C[j].perc = IF j = i THEN A[j].perc - q
                            ELSE IF j = m THEN A[j].perc + q ELSE A[j].perc
             /\ D[j].perc = C[j].perc
             /\ D[j].preco = IF j = i THEN A[j].preco - compra.valor ELSE A[j].preco
    <3>1. /\ A \in Seq(Accao) /\ i \in 1..Len(A) /\ m \in 1..Len(A) /\ i # m
          /\ q \in Int /\ compra.valor \in Int
      BY <1>2, <1>4, <1>7
    <3>. QED BY <3>1, MoverAccoes
  <2>. HIDE DEF C, D
  <2>2. CASE compra.inteiro
    BY <2>1, <2>2
  <2>3. CASE ~compra.inteiro
    BY <2>1, <2>3
  <2>. QED BY <2>2, <2>3
<1>. HIDE DEF E, D, C
<1>10. \A j \in 1..Len(Lotes) : j \in 1..Len(A) /\ A[j].perc \in Int /\ A[j].preco \in Int
  <2>1. \A j \in 1..Len(Lotes) : j \in 1..Len(A) /\ A[j] \in Accao
    BY <1>2, <1>3, <1>7
  <2>2. \A x \in Accao : x.perc \in Int /\ x.preco \in Int
    BY DEF Accao
  <2>. QED BY <2>1, <2>2
<1>11. /\ E[i].perc = Lotes[i].perc - q
       /\ E[i].preco = Lotes[i].preco - (IF compra.inteiro THEN 0 ELSE compra.valor)
  BY <1>2, <1>3, <1>4, <1>7, <1>9, <1>10
<1>12. \A j \in 1..Len(Lotes) : E[j].dono = Lotes[j].dono
  BY <1>2, <1>9, <1>10
<1>13. \A j \in 1..Len(Lotes) : j # i /\ j # m =>
                E[j].perc = Lotes[j].perc /\ E[j].preco = Lotes[j].preco
  BY <1>2, <1>9, <1>10
<1>14. E[m].dono = compra.quem /\ E[m].perc = A[m].perc + q /\ E[m].preco = A[m].preco
  BY <1>2, <1>7, <1>9
<1>15. \/ /\ m \in 1..Len(Lotes) /\ Len(E) = Len(Lotes)
          /\ E[m].perc = Lotes[m].perc + q /\ E[m].preco = Lotes[m].preco
       \/ /\ m = Len(Lotes) + 1 /\ Len(E) = m
          /\ \A j \in 1..Len(Lotes) : Lotes[j].dono # compra.quem
          /\ E[m].perc = q /\ E[m].preco = PedidoActual.revenda
  <2>1. CASE m \in 1..Len(Lotes) /\ Len(A) = Len(Lotes)
    BY <1>2, <1>9, <1>14, <2>1
  <2>2. CASE /\ m = Len(Lotes) + 1 /\ Len(A) = m /\ A[m] = a
             /\ \A j \in 1..Len(Lotes) : Lotes[j].dono # compra.quem
    BY <1>4, <1>6, <1>9, <1>14, <2>2
  <2>. QED BY <1>8, <2>1, <2>2
<1>. QED BY <1>1, <1>2, <1>3, <1>7, <1>9, <1>11, <1>12, <1>13, <1>14, <1>15 DEF i, q, E, C, D

\* Sums of shares are not negative.
LEMMA SomaDeNat ==
  ASSUME NEW D, IsFiniteSet(D), NEW f \in [D -> Nat]
  PROVE  M!Soma(f) \in Nat
<1>1. f \in [D -> Int] /\ DOMAIN f = D
  OBVIOUS
<1>2. PICK S : ParciaisDe(S, f)
  BY <1>1, HaParciaisDe
<1>3. /\ S \in [SUBSET D -> Int] /\ S[{}] = 0
      /\ \A s \in SUBSET D : s # {} => S[s] = f[Algum(s)] + S[s \ {Algum(s)}]
  BY <1>1, <1>2 DEF ParciaisDe
<1>. DEFINE T == {n \in Nat : \E s \in SUBSET D : Cardinality(s) = n /\ S[s] < 0}
<1>4. T = {}
  <2>. SUFFICES ASSUME T # {} PROVE FALSE
    OBVIOUS
  <2>1. PICK m \in T : \A n \in T : m <= n
    BY MenorElemento
  <2>2. PICK s \in SUBSET D : Cardinality(s) = m /\ S[s] < 0
    BY <2>1
  <2>3. s # {} /\ IsFiniteSet(s)
    <3>1. s # {}
      <4>1. S[s] < 0 /\ S[{}] = 0 /\ ~(0 < 0)
        BY <1>3, <2>2
      <4>. QED BY <4>1, Zenon
    <3>2. IsFiniteSet(s)
      BY FS_Subset
    <3>. QED BY <3>1, <3>2
  <2>4. Algum(s) \in s
    BY <2>3 DEF Algum
  <2>. DEFINE t == s \ {Algum(s)}
  <2>5. t \in SUBSET D /\ Cardinality(t) = m - 1 /\ Cardinality(t) \in Nat
    BY <2>2, <2>3, <2>4, FS_RemoveElement, FS_CardinalityType
  <2>. HIDE DEF t
  <2>6. m \in Nat /\ ~(m <= m - 1)
    BY <2>1
  <2>7. Cardinality(t) \notin T
    BY <2>1, <2>5, <2>6
  <2>8. ~(S[t] < 0) /\ S[t] \in Int /\ f[Algum(s)] \in Nat
    BY <1>3, <2>2, <2>4, <2>5, <2>7
  <2>9. S[s] = f[Algum(s)] + S[t]
    BY <1>3, <2>3 DEF t
  <2>. QED BY <2>2, <2>8, <2>9
<1>5. M!Soma(f) = S[D]
  BY <1>1, <1>2, SomaDeParciaisDe
<1>6. D \in SUBSET D /\ Cardinality(D) \in Nat /\ S[D] \in Int
  BY <1>3, FS_CardinalityType
<1>7. ~(S[D] < 0)
  BY <1>4, <1>6
<1>. QED BY <1>5, <1>6, <1>7

\* Replacing the holdings of one idea leaves the identifiers and the others.
LEMMA TrocarIdeia ==
  ASSUME TypeOK, NEW k \in DOMAIN ideias, NEW A \in Seq(Accao), ideias' = ComAccoes(k, A)
  PROVE  /\ DOMAIN ideias' = DOMAIN ideias /\ ideias'[k].accoes = A
         /\ \A l \in DOMAIN ideias : /\ ideias'[l].id = ideias[l].id
                                     /\ l # k => ideias'[l].accoes = ideias[l].accoes
<1>1. /\ Len(ideias') = Len(ideias) /\ ideias' \in Seq(Ideia) /\ ideias'[k].accoes = A
      /\ \A l \in DOMAIN ideias : l # k => ideias'[l] = ideias[l]
  BY ComAccoesTipo DEF TypeOK
<1>2. DOMAIN ideias' = DOMAIN ideias
  BY <1>1, LenProperties DEF TypeOK
<1>3. ideias'[k].id = ideias[k].id
  <2>1. ideias'[k] = [ideias[k] EXCEPT !.accoes = A] /\ ideias[k] \in Ideia
    BY DEF ComAccoes, TypeOK
  <2>. QED BY <2>1 DEF Ideia
<1>. QED BY <1>1, <1>2, <1>3

\* What a transaction changes of what everybody has of the idea.
LEMMA PosseSeguinte ==
  ASSUME Tudo, VistoValido, Selecionando, Fora, NEW q \in [Vendedores -> Nat], Escolha(q),
         NEW n \in Nat, n < NLotes
  PROVE  LET w == Vendedor(n + 1)
             P == PosseCom(Ate(q, n))
             N == PosseCom(Ate(q, n + 1))
         IN  /\ P[w] = Tinha[w]
             /\ N[w].perc = Tinha[w].perc - q[w]
             /\ q[w] # Tinha[w].perc =>
                  N[w].preco = Tinha[w].preco - M!Parte(q[w], Tinha[w])
             /\ P[compra.quem].perc \in Nat
             /\ N[compra.quem].perc = P[compra.quem].perc + q[w]
             /\ N[compra.quem].preco = P[compra.quem].preco
             /\ P[compra.quem].perc = 0 => P[compra.quem].preco = PedidoActual.revenda
             /\ n > 0 => P[compra.quem].perc > 0
             /\ \A d \in Donos : d # w /\ d # compra.quem => N[d] = P[d]
<1>. DEFINE w == Vendedor(n + 1)
            u == compra.quem
            P == PosseCom(Ate(q, n))
            N == PosseCom(Ate(q, n + 1))
            f == Ate(q, n)
            g == Ate(q, n + 1)
<1>1. /\ w \in Donos /\ w # u /\ q[w] \in Nat /\ q[w] # 0 /\ q[w] \in 1..Tinha[w].perc
      /\ f[w] = 0 /\ g[w] = q[w] /\ \A d \in Vendedores : d # w => g[d] = f[d]
      /\ M!Soma(f) \in Int /\ M!Soma(g) = M!Soma(f) + q[w]
  BY AteSeguinte
<1>2. /\ fase # "livre" /\ u \in Donos /\ IsFiniteSet(Vendedores)
      /\ \A d \in Donos : Tinha[d].perc \in Nat /\ Tinha[d].preco \in Int
  BY Cenario DEF Selecionando
<1>3. f \in [Vendedores -> Nat] /\ Ate(q, n - 1) \in [Vendedores -> Nat]
  BY EscolhaPossivel DEF Possivel
<1>4. M!Soma(f) \in Nat
  BY <1>2, <1>3, SomaDeNat
<1>5. n > 0 => M!Soma(f) > 0
  <2>. SUFFICES ASSUME n > 0 PROVE M!Soma(f) > 0
    OBVIOUS
  <2>. DEFINE k == n - 1
  <2>1. k \in Nat /\ k + 1 = n /\ k < NLotes
    <3>1. NLotes \in Nat
      BY VendedoresDistintos
    <3>. QED BY <3>1
  <2>. HIDE DEF k
  <2>2. /\ M!Soma(Ate(q, k + 1)) = M!Soma(Ate(q, k)) + q[Vendedor(k + 1)]
        /\ q[Vendedor(k + 1)] \in Nat /\ q[Vendedor(k + 1)] # 0
    BY <2>1, AteSeguinte
  <2>3. M!Soma(Ate(q, k)) \in Nat
    BY <1>2, <1>3, SomaDeNat DEF k
  <2>. QED BY <2>1, <2>2, <2>3
<1>. HIDE DEF f, g, w
<1>6. /\ P = [d \in Donos |->
                IF d # u THEN (IF f[d] = 0 THEN Tinha[d] ELSE M!Resto(f[d], Tinha[d]))
                ELSE [perc |-> Tinha[d].perc + M!Soma(f),
                      preco |-> IF Tinha[d].perc = 0 THEN PedidoActual.revenda
                                ELSE Tinha[d].preco]]
      /\ N = [d \in Donos |->
                IF d # u THEN (IF g[d] = 0 THEN Tinha[d] ELSE M!Resto(g[d], Tinha[d]))
                ELSE [perc |-> Tinha[d].perc + M!Soma(g),
                      preco |-> IF Tinha[d].perc = 0 THEN PedidoActual.revenda
                                ELSE Tinha[d].preco]]
  BY DEF PosseCom, f, g
<1>. HIDE DEF P, N
<1>7. P[w] = Tinha[w] /\ N[w] = M!Resto(q[w], Tinha[w])
  BY <1>1, <1>6
<1>8. /\ N[w].perc = Tinha[w].perc - q[w]
      /\ q[w] # Tinha[w].perc => N[w].preco = Tinha[w].preco - M!Parte(q[w], Tinha[w])
  <2>1. CASE q[w] = Tinha[w].perc
    BY <1>1, <1>7, <2>1 DEF M!Resto, M!Nada
  <2>2. CASE q[w] # Tinha[w].perc
    BY <1>7, <2>2 DEF M!Resto
  <2>. QED BY <2>1, <2>2
<1>9. /\ P[u].perc = Tinha[u].perc + M!Soma(f) /\ N[u].perc = Tinha[u].perc + M!Soma(g)
      /\ N[u].preco = P[u].preco
      /\ Tinha[u].perc = 0 => P[u].preco = PedidoActual.revenda
  BY <1>2, <1>6
<1>10. /\ P[u].perc \in Nat /\ N[u].perc = P[u].perc + q[w]
       /\ P[u].perc = 0 => P[u].preco = PedidoActual.revenda
       /\ n > 0 => P[u].perc > 0
  BY <1>1, <1>2, <1>4, <1>5, <1>9
<1>11. \A d \in Donos : d # w /\ d # u => N[d] = P[d]
  <2>. SUFFICES ASSUME NEW d \in Donos, d # w, d # u PROVE N[d] = P[d]
    OBVIOUS
  <2>1. g[d] = f[d]
    BY <1>1 DEF Vendedores
  <2>. QED BY <1>6, <2>1
<1>. QED BY <1>7, <1>8, <1>9, <1>10, <1>11 DEF P, N, f, g, w

\* The shares paid for change hands.
LEMMA RefinaTransferir ==
  ASSUME Tudo, RefinaInv, Tudo', NEW m \in Nat, Transferir(m)
  PROVE  RefinaInv' /\ visto' = visto
<1>. DEFINE n == compra.feitas
            u == compra.quem
            w == Vendedor(n + 1)
            i == LoteActual
\* What the step does.
<1>1. /\ fase = "transferir" /\ Olhar /\ UNCHANGED <<saldo, pedido, tomada>>
      /\ fase' = (IF Ultima THEN "eliminar" ELSE "pagar")
      /\ Selecionando /\ Liquidacao
  BY DEF Transferir, Selecionando, Liquidacao
<1>2. /\ compra'.quem = u /\ compra'.transacoes = compra.transacoes
      /\ compra'.actual = compra.actual + compra.quantidade /\ compra'.feitas = n + 1
      /\ compra'.naccoes = compra.naccoes
  BY DEF Transferir, Tudo, TypeOK, Compra
<1>3. visto' = visto /\ PedidoActual' = PedidoActual
  BY <1>1, <1>2 DEF Olhar, PedidoActual
<1>4. VistoValido /\ VistoValido' /\ PedidosCertos' /\ TomadaCerta' /\ fase # "livre"
  BY <1>1, <1>3, RestoManter
<1>5. PICK q \in [Vendedores -> 0..PedidoActual.perc] : Fora /\ Venda(q)
  BY <1>4 DEF RefinaInv, CompraCerta
<1>6. q \in [Vendedores -> Nat]
  <2>1. PedidoActual.perc \in Nat
    BY <1>4, <1>5, Cenario
  <2>. QED BY <2>1
<1>7. /\ Antes' = Antes /\ Tinha' = Tinha /\ Vendedores' = Vendedores /\ NLotes' = NLotes
      /\ \A k : Vendedor(k)' = Vendedor(k)
      /\ \A r : /\ Paga(r)' = Paga(r) /\ SaldoCom(r)' = SaldoCom(r)
                /\ PosseCom(r)' = PosseCom(r)
      /\ Escolha(q)' /\ \A k : Ate(q, k)' = Ate(q, k)
  BY <1>2, <1>3, <1>5, MesmosLotes DEF Venda
\* The lot, the buyer's holding, and the list of holdings after the step.
<1>8. /\ i \in DOMAIN Lotes /\ Lotes[i].dono = w
      /\ Lotes[i].perc = Tinha[w].perc /\ Lotes[i].preco = Tinha[w].preco
      /\ Tinha[w].perc \in Nat /\ Tinha[w].preco \in Int
      /\ n \in Nat /\ n < NLotes
  BY <1>1, <1>4, <1>5, <1>6, LoteVendido
<1>9. /\ w \in Donos /\ w # u /\ q[w] \in Nat /\ q[w] \in 1..Tinha[w].perc
      /\ M!Parte(q[w], Tinha[w]) \in Int
      /\ M!Soma(Ate(q, n)) \in Int
      /\ M!Soma(Ate(q, n + 1)) = M!Soma(Ate(q, n)) + q[w]
  BY <1>1, <1>4, <1>5, <1>6, <1>8, AteSeguinte DEF Venda
<1>10. /\ compra.quantidade = q[w] /\ compra.valor = M!Parte(q[w], Tinha[w])
       /\ (compra.inteiro <=> q[w] = Tinha[w].perc)
  BY <1>1, <1>5 DEF Venda, EmTransito
<1>11. PICK E \in Seq(Accao) :
         /\ ideias' = ComAccoes(PedidoActual.pos, E)
         /\ i \in 1..Len(Lotes) /\ m \in 1..Len(E) /\ m # i /\ Len(Lotes) <= Len(E)
         /\ E[m].dono = u
         /\ E[i].perc = Lotes[i].perc - compra.quantidade
         /\ E[i].preco = Lotes[i].preco - (IF compra.inteiro THEN 0 ELSE compra.valor)
         /\ \A j \in 1..Len(Lotes) : E[j].dono = Lotes[j].dono
         /\ \A j \in 1..Len(Lotes) : j # i /\ j # m =>
              E[j].perc = Lotes[j].perc /\ E[j].preco = Lotes[j].preco
         /\ \/ /\ m \in 1..Len(Lotes) /\ Len(E) = Len(Lotes)
               /\ E[m].perc = Lotes[m].perc + compra.quantidade
               /\ E[m].preco = Lotes[m].preco
            \/ /\ m = Len(Lotes) + 1 /\ Len(E) = m
               /\ \A j \in 1..Len(Lotes) : Lotes[j].dono # u
               /\ E[m].perc = compra.quantidade
               /\ E[m].preco = PedidoActual.revenda
  BY TransferirTudo
<1>12. /\ PedidoActual.pos \in DOMAIN ideias /\ Lotes \in Seq(Accao)
       /\ DOMAIN Lotes = 1..Len(Lotes) /\ Len(Lotes) \in Nat
       /\ DOMAIN E = 1..Len(E) /\ u \in Donos
  BY <1>1, <1>11, LoteEmCurso, LenProperties DEF Tudo, Donos
<1>13. /\ DOMAIN ideias' = DOMAIN ideias /\ Lotes' = E
       /\ \A k \in DOMAIN ideias : /\ ideias'[k].id = ideias[k].id
                                   /\ k # PedidoActual.pos =>
                                        ideias'[k].accoes = ideias[k].accoes
  BY <1>3, <1>11, <1>12, TrocarIdeia DEF Tudo, Lotes
<1>14. \A j, k \in DOMAIN Lotes : Lotes[j].dono = Lotes[k].dono => j = k
  BY <1>12 DEF Tudo, UmaAccaoPorDono, Lotes
<1>26. /\ \A j \in DOMAIN Lotes : j \in DOMAIN E /\ E[j].dono = Lotes[j].dono
       /\ m \in DOMAIN E /\ i \in DOMAIN E
       /\ \A j \in DOMAIN E : j # m => j \in DOMAIN Lotes
  <2>1. Len(E) \in Nat
    BY <1>11, LenProperties
  <2>2. \A j \in 1..Len(Lotes) : j \in 1..Len(E)
    <3>1. \A a, b \in Nat : a <= b => \A j \in 1..a : j \in 1..b
      OBVIOUS
    <3>2. Len(Lotes) \in Nat /\ Len(Lotes) <= Len(E)
      BY <1>11, <1>12
    <3>. HIDE DEF i
    <3>. QED BY <2>1, <3>1, <3>2
  <2>3. \A j \in 1..Len(E) : j # m => j \in 1..Len(Lotes)
    <3>1. Len(E) = Len(Lotes) \/ (m = Len(Lotes) + 1 /\ Len(E) = m)
      BY <1>11
    <3>2. Len(Lotes) \in Nat
      BY <1>12
    <3>3. \A a, b \in Nat : b = a \/ (m = a + 1 /\ b = m) =>
            \A j \in 1..b : j # m => j \in 1..a
      OBVIOUS
    <3>. QED BY <2>1, <3>1, <3>2, <3>3
  <2>4. /\ m \in 1..Len(E) /\ i \in 1..Len(Lotes)
        /\ \A j \in 1..Len(Lotes) : E[j].dono = Lotes[j].dono
    BY <1>11
  <2>. HIDE DEF i
  <2>. QED BY <1>12, <2>2, <2>3, <2>4
\* What everybody has, before and after.
<1>. PICK P : P = PosseCom(Ate(q, n))
  OBVIOUS
<1>. PICK N : N = PosseCom(Ate(q, n + 1))
  OBVIOUS
<1>15. /\ P[w] = Tinha[w] /\ N[w].perc = Tinha[w].perc - q[w]
       /\ q[w] # Tinha[w].perc => N[w].preco = Tinha[w].preco - M!Parte(q[w], Tinha[w])
       /\ P[u].perc \in Nat /\ N[u].perc = P[u].perc + q[w]
       /\ N[u].preco = P[u].preco
       /\ P[u].perc = 0 => P[u].preco = PedidoActual.revenda
       /\ n > 0 => P[u].perc > 0
       /\ \A d \in Donos : d # w /\ d # u => N[d] = P[d]
  BY <1>1, <1>4, <1>5, <1>6, <1>8, PosseSeguinte DEF Venda
<1>16. /\ \A j \in DOMAIN Lotes : /\ Lotes[j].perc = P[Lotes[j].dono].perc
                                  /\ Lotes[j].perc > 0 =>
                                       Lotes[j].preco = P[Lotes[j].dono].preco
       /\ \A d \in Donos : P[d].perc > 0 => \E j \in DOMAIN Lotes : Lotes[j].dono = d
  BY <1>5 DEF Venda, Liquidado
<1>. HIDE DEF w, i, n, u
<1>17. /\ E[i].perc = N[w].perc /\ E[i].dono = w
       /\ E[i].perc > 0 => E[i].preco = N[w].preco
  <2>1. E[i].perc = N[w].perc /\ E[i].dono = w
    <3>1. E[i].perc = Lotes[i].perc - compra.quantidade /\ E[i].dono = Lotes[i].dono
      BY <1>11
    <3>. QED BY <1>8, <1>10, <1>15, <3>1
  <2>2. CASE q[w] = Tinha[w].perc
    BY <1>8, <1>15, <2>1, <2>2
  <2>3. CASE q[w] # Tinha[w].perc
    <3>1. ~compra.inteiro
      BY <1>10, <2>3
    <3>. QED BY <1>8, <1>10, <1>11, <1>15, <2>1, <2>3, <3>1
  <2>. QED BY <2>2, <2>3
<1>18. E[m].perc = N[u].perc /\ (E[m].perc > 0 => E[m].preco = N[u].preco)
  <2>1. CASE /\ m \in 1..Len(Lotes)
             /\ E[m].perc = Lotes[m].perc + compra.quantidade
             /\ E[m].preco = Lotes[m].preco
    <3>1. Lotes[m].dono = u /\ m \in DOMAIN Lotes
      BY <1>11, <1>12, <2>1
    <3>2. Lotes[m].perc = P[u].perc /\ (Lotes[m].perc > 0 => Lotes[m].preco = P[u].preco)
      BY <1>16, <3>1
    <3>3. Lotes[m].perc > 0
      <4>1. n = 0 => Lotes[m].perc # 0
        <5>1. Sa(Lotes, Liquidando(PedidoActual.pos))
          BY <1>12 DEF Tudo, SerieInv, Sas, Lotes
        <5>2. n = 0 => ~Liquidando(PedidoActual.pos)
          BY DEF Liquidando, n
        <5>. QED BY <2>1, <5>1, <5>2 DEF Sa
      <4>. QED BY <1>8, <1>15, <3>2, <4>1
    <3>. QED BY <1>10, <1>15, <2>1, <3>2, <3>3
  <2>2. CASE /\ \A j \in 1..Len(Lotes) : Lotes[j].dono # u
             /\ E[m].perc = compra.quantidade /\ E[m].preco = PedidoActual.revenda
    <3>1. ~(P[u].perc > 0)
      BY <1>12, <1>16, <2>2
    <3>2. P[u].perc = 0
      BY <1>15, <3>1
    <3>. QED BY <1>9, <1>10, <1>15, <2>2, <3>2
  <2>. QED BY <1>11, <2>1, <2>2
<1>19. ASSUME NEW j \in DOMAIN E
       PROVE  /\ E[j].perc = N[E[j].dono].perc
              /\ E[j].perc > 0 => E[j].preco = N[E[j].dono].preco
  <2>1. CASE j = i
    BY <1>17, <2>1
  <2>2. CASE j = m
    BY <1>11, <1>18, <2>2
  <2>3. CASE j # i /\ j # m
    <3>1. j \in 1..Len(Lotes) /\ j \in DOMAIN Lotes
      BY <1>12, <1>26, <2>3
    <3>2. E[j].dono = Lotes[j].dono /\ E[j].perc = Lotes[j].perc /\ E[j].preco = Lotes[j].preco
      BY <1>11, <2>3, <3>1
    <3>3. Lotes[j].dono # w
      BY <1>8, <1>14, <2>3, <3>1
    <3>4. Lotes[j].dono # u
      BY <1>11, <1>12, <1>14, <2>3, <3>1
    <3>5. Lotes[j].dono \in Donos
      <4>1. Lotes[j] \in Accao
        BY <1>12, <3>1
      <4>. QED BY <4>1 DEF Accao
    <3>. QED BY <1>15, <1>16, <3>1, <3>2, <3>3, <3>4, <3>5
  <2>. QED BY <2>1, <2>2, <2>3
<1>20. ASSUME NEW d \in Donos, N[d].perc > 0
       PROVE  \E j \in DOMAIN E : E[j].dono = d
  <2>1. CASE d = u
    BY <1>11, <1>12, <2>1
  <2>2. CASE d = w
    BY <1>17, <1>26, <2>2
  <2>3. CASE d # u /\ d # w
    <3>1. PICK j \in DOMAIN Lotes : Lotes[j].dono = d
      BY <1>15, <1>16, <1>20, <2>3
    <3>. QED BY <1>26, <3>1
  <2>. QED BY <2>1, <2>2, <2>3
\* The invariant.
<1>21. Liquidado(q)'
  <2>1. Pagos = n + 1 /\ Pagos' = n + 1
    BY <1>1, <1>2 DEF Pagos, n
  <2>2. (\A k \in 1..(n + 1) : Vendedor(k) \in Utilizadores) /\ saldo = SaldoCom(Ate(q, n + 1))
    BY <1>5, <2>1 DEF Venda, Liquidado
  <2>. QED BY <1>1, <1>2, <1>7, <1>13, <1>19, <1>20, <2>1, <2>2 DEF Liquidado
<1>22. ContasCertas(q)'
  <2>1. /\ M!Soma(q) = PedidoActual.perc /\ M!Soma(Paga(q)) <= PedidoActual.investimento
        /\ compra.actual = M!Soma(Ate(q, n))
    BY <1>1, <1>5 DEF Venda, ContasCertas, n
  <2>2. compra'.actual = M!Soma(Ate(q, n + 1))
    BY <1>2, <1>9, <1>10, <2>1
  <2>3. fase' = "eliminar" => n + 1 = NLotes
    BY <1>1 DEF Ultima, NLotes, n
  <2>4. fase' \in {"pagar", "eliminar"}
    BY <1>1
  <2>. QED BY <1>2, <1>3, <1>7, <2>1, <2>2, <2>3, <2>4 DEF ContasCertas, Liquidacao
<1>23. EmTransito(q)'
  BY <1>1 DEF EmTransito
<1>24. Fora'
  <2>1. /\ DOMAIN ideias = DOMAIN visto.ideias
        /\ \A k \in DOMAIN ideias :
             /\ ideias[k].id = visto.ideias[k].id
             /\ k # PedidoActual.pos => ideias[k].accoes = visto.ideias[k].accoes
        /\ compra.naccoes = Len(Antes)
        /\ \A j \in DOMAIN Antes : j \in DOMAIN Lotes /\ Lotes[j].dono = Antes[j].dono
    BY <1>1, <1>5 DEF Fora
  <2>2. \A j \in DOMAIN Antes : j \in DOMAIN E /\ E[j].dono = Antes[j].dono
    BY <1>26, <2>1
  <2>3. fase' # "selecionar" /\ ~(n + 1 = 0)
    BY <1>1, <1>8
  <2>. QED BY <1>2, <1>3, <1>7, <1>12, <1>13, <2>1, <2>2, <2>3 DEF Fora
<1>25. CompraCerta'
  BY <1>3, <1>5, <1>7, <1>21, <1>22, <1>23, <1>24 DEF CompraCerta, Venda
<1>. QED BY <1>3, <1>4, <1>25 DEF RefinaInv

-----------------------------------------------------------------------------
\* Steps of a purchase: the end.

\* Deleting a holding of nothing takes nothing from anybody.
LEMMA RefinaEliminar ==
  ASSUME Tudo, RefinaInv, Tudo', NEW i \in Nat, EliminarAccao(i)
  PROVE  RefinaInv' /\ visto' = visto
<1>. DEFINE n == compra.feitas
            E == RemoveAt(Lotes, i)
<1>1. /\ fase = "eliminar" /\ Olhar /\ IdeiaExiste
      /\ UNCHANGED <<saldo, pedido, fase, compra, tomada>>
      /\ i \in DOMAIN Lotes /\ Lotes[i].perc = 0
      /\ ideias' = ComAccoes(PedidoActual.pos, E)
  BY DEF EliminarAccao, PrimeiraInvalida
<1>2. visto' = visto /\ PedidoActual' = PedidoActual
  BY <1>1 DEF Olhar, PedidoActual
<1>3. VistoValido /\ VistoValido' /\ PedidosCertos' /\ TomadaCerta' /\ fase # "livre"
  BY <1>1, <1>2, RestoManter
<1>4. PICK q \in [Vendedores -> 0..PedidoActual.perc] : Fora /\ Venda(q)
  BY <1>3 DEF RefinaInv, CompraCerta
<1>5. /\ Antes' = Antes /\ Tinha' = Tinha /\ Vendedores' = Vendedores /\ NLotes' = NLotes
      /\ \A k : Vendedor(k)' = Vendedor(k)
      /\ \A r : /\ Paga(r)' = Paga(r) /\ SaldoCom(r)' = SaldoCom(r)
                /\ PosseCom(r)' = PosseCom(r)
      /\ Escolha(q)' /\ \A k : Ate(q, k)' = Ate(q, k)
  BY <1>1, <1>2, <1>4, MesmosLotes DEF Venda
<1>6. /\ PedidoActual.pos \in DOMAIN ideias /\ Lotes \in Seq(Accao)
      /\ DOMAIN Lotes = 1..Len(Lotes) /\ Len(Lotes) \in Nat
  BY <1>1, LotesTipo, LenProperties DEF Tudo, TypeOK, IdeiaExiste, Lotes
<1>7. /\ E \in Seq(Accao) /\ Len(E) = Len(Lotes) - 1
      /\ \A j \in 1..(Len(Lotes) - 1) : E[j] = IF j < i THEN Lotes[j] ELSE Lotes[j + 1]
      /\ DOMAIN E = 1..(Len(Lotes) - 1)
  <2>1. /\ E \in Seq(Accao) /\ Len(E) = Len(Lotes) - 1
        /\ \A j \in 1..(Len(Lotes) - 1) : E[j] = IF j < i THEN Lotes[j] ELSE Lotes[j + 1]
    <3>1. i \in 1..Len(Lotes)
      BY <1>1, <1>6
    <3>. QED BY <1>6, <3>1, RemoveAtLista
  <2>. HIDE DEF E
  <2>. QED BY <2>1, LenProperties
<1>. HIDE DEF E
<1>8. /\ DOMAIN ideias' = DOMAIN ideias /\ Lotes' = E
      /\ \A k \in DOMAIN ideias : /\ ideias'[k].id = ideias[k].id
                                  /\ k # PedidoActual.pos =>
                                       ideias'[k].accoes = ideias[k].accoes
  BY <1>1, <1>2, <1>6, <1>7, TrocarIdeia DEF Tudo, Lotes
<1>. PICK N : N = PosseCom(Ate(q, n))
  OBVIOUS
<1>9. /\ \A j \in DOMAIN Lotes : /\ Lotes[j].perc = N[Lotes[j].dono].perc
                                 /\ Lotes[j].perc > 0 =>
                                      Lotes[j].preco = N[Lotes[j].dono].preco
      /\ \A d \in Donos : N[d].perc > 0 => \E j \in DOMAIN Lotes : Lotes[j].dono = d
  BY <1>4 DEF Venda, Liquidado
<1>10. ASSUME NEW j \in DOMAIN E
       PROVE  /\ E[j].perc = N[E[j].dono].perc
              /\ E[j].perc > 0 => E[j].preco = N[E[j].dono].preco
  <2>1. /\ j \in 1..Len(Lotes) /\ j + 1 \in 1..Len(Lotes)
        /\ (E[j] = Lotes[j] \/ E[j] = Lotes[j + 1])
    BY <1>6, <1>7
  <2>. QED BY <1>6, <1>9, <2>1
<1>11. ASSUME NEW d \in Donos, N[d].perc > 0
       PROVE  \E j \in DOMAIN E : E[j].dono = d
  <2>1. PICK j \in DOMAIN Lotes : Lotes[j].dono = d
    BY <1>9, <1>11
  <2>2. j # i
    BY <1>1, <1>9, <1>11, <2>1
  <2>3. CASE j < i
    <3>1. j \in 1..(Len(Lotes) - 1)
      BY <1>1, <1>6, <2>3
    <3>. QED BY <1>7, <2>1, <2>3, <3>1
  <2>4. CASE ~(j < i)
    <3>. DEFINE k == j - 1
    <3>1. k \in 1..(Len(Lotes) - 1) /\ ~(k < i) /\ k + 1 = j
      BY <1>1, <1>6, <2>2, <2>4
    <3>. HIDE DEF k
    <3>. QED BY <1>7, <2>1, <3>1
  <2>. QED BY <2>3, <2>4
<1>12. Liquidado(q)'
  <2>1. Pagos' = Pagos
    BY <1>1 DEF Pagos
  <2>2. (\A k \in 1..Pagos : Vendedor(k) \in Utilizadores) /\ saldo = SaldoCom(Ate(q, Pagos))
    BY <1>4 DEF Venda, Liquidado
  <2>. QED BY <1>1, <1>5, <1>8, <1>10, <1>11, <2>1, <2>2 DEF Liquidado
<1>13. ContasCertas(q)'
  BY <1>1, <1>2, <1>4, <1>5 DEF ContasCertas, Liquidacao, Venda
<1>14. EmTransito(q)'
  BY <1>1 DEF EmTransito
<1>15. Fora'
  BY <1>1, <1>2, <1>4, <1>5, <1>6, <1>8 DEF Fora, Selecionando
<1>16. CompraCerta'
  BY <1>2, <1>4, <1>5, <1>12, <1>13, <1>14, <1>15 DEF CompraCerta, Venda
<1>. QED BY <1>2, <1>3, <1>16 DEF RefinaInv

\* No holding of nothing is left.
LEMMA RefinaEliminarFim ==
  ASSUME Tudo, RefinaInv, Tudo', EliminarFim
  PROVE  RefinaInv' /\ visto' = visto
<1>1. /\ fase = "eliminar" /\ fase' = "terminar" /\ Olhar
      /\ UNCHANGED <<saldo, ideias, pedido, compra, tomada>>
  BY DEF EliminarFim
<1>2. visto' = visto /\ PedidoActual' = PedidoActual /\ Lotes' = Lotes
  BY <1>1 DEF Olhar, PedidoActual, Lotes
<1>3. VistoValido /\ VistoValido' /\ PedidosCertos' /\ TomadaCerta' /\ fase # "livre"
  BY <1>1, <1>2, RestoManter
<1>4. PICK q \in [Vendedores -> 0..PedidoActual.perc] : Fora /\ Venda(q)
  BY <1>3 DEF RefinaInv, CompraCerta
<1>5. /\ Antes' = Antes /\ Tinha' = Tinha /\ Vendedores' = Vendedores /\ NLotes' = NLotes
      /\ \A k : Vendedor(k)' = Vendedor(k)
      /\ \A r : /\ Paga(r)' = Paga(r) /\ SaldoCom(r)' = SaldoCom(r)
                /\ PosseCom(r)' = PosseCom(r)
      /\ Escolha(q)' /\ \A k : Ate(q, k)' = Ate(q, k)
  BY <1>1, <1>2, <1>4, MesmosLotes DEF Venda
<1>6. Liquidado(q)'
  <2>1. Pagos' = Pagos
    BY <1>1 DEF Pagos
  <2>2. Liquidado(q)
    BY <1>4 DEF Venda
  <2>. QED BY <1>1, <1>2, <1>5, <2>1, <2>2 DEF Liquidado
<1>7. ContasCertas(q)' /\ EmTransito(q)' /\ Fora'
  BY <1>1, <1>2, <1>4, <1>5
     DEF ContasCertas, EmTransito, Fora, Liquidacao, Selecionando, Venda
<1>8. CompraCerta'
  BY <1>2, <1>4, <1>5, <1>6, <1>7 DEF CompraCerta, Venda
<1>. QED BY <1>2, <1>3, <1>8 DEF RefinaInv

\* Steps after which nothing is under way.
LEMMA RefinaLivre ==
  ASSUME VistoValido, Tudo', Olhar, fase' = "livre", tomada' = SemTomada, PedidosCertos'
  PROVE  RefinaInv' /\ visto' = [saldo |-> saldo', ideias |-> ideias']
<1>1. visto' = [saldo |-> saldo', ideias |-> ideias']
  BY DEF Olhar
<1>2. VistoValido'
  BY VistoSempre
<1>. QED BY <1>1, <1>2 DEF RefinaInv, TomadaCerta, CompraCerta

\* A purchase that leaves before it has settled anything changed nothing.
LEMMA RefinaFalha ==
  ASSUME Tudo, RefinaInv, Tudo', fase # "livre", Sair, UNCHANGED mercado, Olhar,
         fase = "selecionar" \/ (fase = "pagar" /\ compra.feitas = 0)
  PROVE  RefinaInv' /\ visto' = visto
<1>1. /\ fase' = "livre" /\ pedido' = [pedido EXCEPT ![compra.quem] = SemPedido]
      /\ tomada' = tomada /\ saldo' = saldo /\ ideias' = ideias
  BY DEF Sair, mercado
<1>2. tomada' = SemTomada
  BY <1>1 DEF Tudo, SelecaoInv, Sozinha
<1>3. PedidosCertos'
  BY <1>1 DEF Tudo, TypeOK, RefinaInv, PedidosCertos, SemPedido
<1>4. saldo = visto.saldo /\ ideias = visto.ideias
  BY DEF RefinaInv, CompraCerta, Fora
<1>5. visto = [saldo |-> visto.saldo, ideias |-> visto.ideias]
  BY DEF Tudo, TypeOK
<1>6. RefinaInv' /\ visto' = [saldo |-> saldo', ideias |-> ideias']
  BY <1>1, <1>2, <1>3, RefinaLivre DEF RefinaInv
<1>. QED BY <1>1, <1>4, <1>5, <1>6

\* When everything is settled, everybody has what the purchase leaves them.
LEMMA PosseNoFim ==
  ASSUME Tudo, VistoValido, Fora, fase = "terminar",
         NEW q \in [Vendedores -> Nat], Venda(q)
  PROVE  PosseDe(Lotes) = PosseCom(q) /\ saldo = SaldoCom(q)
         /\ \A d \in Vendedores : q[d] # 0 => d \in Utilizadores
<1>. DEFINE u == compra.quem
            N == PosseCom(q)
<1>1. /\ fase # "livre" /\ compra.feitas = NLotes /\ Pagos = NLotes
      /\ Ate(q, NLotes) = q /\ M!Soma(q) = PedidoActual.perc
  BY AteExtremos DEF Venda, ContasCertas, Pagos
<1>2. /\ saldo = SaldoCom(q) /\ \A k \in 1..NLotes : Vendedor(k) \in Utilizadores
      /\ \A j \in DOMAIN Lotes : /\ Lotes[j].perc = N[Lotes[j].dono].perc
                                 /\ Lotes[j].perc > 0 =>
                                      Lotes[j].preco = N[Lotes[j].dono].preco
      /\ \A d \in Donos : N[d].perc > 0 => \E j \in DOMAIN Lotes : Lotes[j].dono = d
  BY <1>1 DEF Venda, Liquidado
<1>3. \A d \in Vendedores : q[d] # 0 => d \in Utilizadores
  BY <1>2 DEF Venda, Escolha
<1>4. /\ PedidoActual.pos \in DOMAIN ideias /\ Lotes \in Seq(Accao)
      /\ DOMAIN Lotes = 1..Len(Lotes) /\ Unicos(Lotes)
  <2>1. PedidoActual.pos \in DOMAIN ideias
    BY DEF Fora
  <2>2. Lotes \in Seq(Accao)
    BY <2>1, LotesTipo DEF Tudo, TypeOK, Lotes
  <2>. QED BY <2>1, <2>2, LenProperties DEF Tudo, UmaAccaoPorDono, Unicos, Lotes
<1>5. \A j \in DOMAIN Lotes : Lotes[j].perc > 0 /\ Lotes[j].dono \in Donos
  <2>1. Sa(Lotes, FALSE)
    BY <1>4, SasEmRepouso DEF Tudo, SerieInv, Lotes
  <2>2. ASSUME NEW j \in DOMAIN Lotes
        PROVE  Lotes[j].perc \in Int /\ Lotes[j].dono \in Donos
    <3>1. Lotes[j] \in Accao
      BY <1>4
    <3>. QED BY <3>1 DEF Accao
  <2>. QED BY <1>4, <2>1, <2>2 DEF Sa
<1>6. /\ PedidoActual.perc \in Nat /\ PedidoActual.perc # 0 /\ u \in Donos
      /\ Tinha \in [Donos -> [perc : Nat, preco : Int]]
      /\ \A d \in Donos : Tinha[d].perc = 0 => Tinha[d] = [perc |-> 0, preco |-> 0]
  BY <1>1, Cenario
\* Everyone's entry is a record, and an empty one is empty.
<1>7. ASSUME NEW d \in Donos
      PROVE  /\ N[d] = [perc |-> N[d].perc, preco |-> N[d].preco]
             /\ ~(N[d].perc > 0) => N[d] = [perc |-> 0, preco |-> 0]
  <2>1. Tinha[d] \in [perc : Nat, preco : Int]
    BY <1>6
  <2>2. CASE d = u
    <3>1. N[d] = [perc |-> Tinha[d].perc + M!Soma(q),
                  preco |-> IF Tinha[d].perc = 0 THEN PedidoActual.revenda
                            ELSE Tinha[d].preco]
      BY <2>2 DEF PosseCom
    <3>. HIDE DEF N
    <3>2. N[d].perc > 0
      BY <1>1, <1>6, <2>1, <3>1
    <3>. QED BY <3>1, <3>2
  <2>3. CASE d # u /\ q[d] = 0
    <3>1. N[d] = Tinha[d]
      BY <2>3 DEF PosseCom
    <3>. HIDE DEF N
    <3>. QED BY <1>6, <2>1, <3>1
  <2>4. CASE d # u /\ q[d] # 0
    <3>1. N[d] = M!Resto(q[d], Tinha[d])
      BY <2>4 DEF PosseCom
    <3>2. q[d] \in 1..Tinha[d].perc
      <4>1. d \in Vendedores
        BY <2>4 DEF Vendedores
      <4>. QED BY <2>4, <4>1 DEF Venda, Escolha
    <3>. HIDE DEF N
    <3>3. CASE q[d] = Tinha[d].perc
      BY <3>1, <3>3 DEF M!Resto, M!Nada
    <3>4. CASE q[d] # Tinha[d].perc
      <4>1. N[d] = [perc |-> Tinha[d].perc - q[d],
                    preco |-> Tinha[d].preco - M!Parte(q[d], Tinha[d])]
        BY <3>1, <3>4 DEF M!Resto
      <4>2. N[d].perc > 0
        BY <2>1, <3>2, <3>4, <4>1
      <4>. QED BY <4>1, <4>2
    <3>. QED BY <3>3, <3>4
  <2>. QED BY <2>2, <2>3, <2>4
<1>8. N = [d \in Donos |-> N[d]]
  BY DEF PosseCom
<1>. HIDE DEF N
<1>9. \A j \in DOMAIN Lotes :
        N[Lotes[j].dono] = [perc |-> Lotes[j].perc, preco |-> Lotes[j].preco]
  BY <1>2, <1>5, <1>7
<1>10. \A d \in Donos : (\A j \in DOMAIN Lotes : Lotes[j].dono # d)
                          => N[d] = [perc |-> 0, preco |-> 0]
  BY <1>2, <1>7
<1>11. PosseDe(Lotes) = N
  BY <1>4, <1>8, <1>9, <1>10, PosseDeQuem
<1>. QED BY <1>2, <1>3, <1>11 DEF N

\* Mercado's variables follow visto.
LEMMA MercadoIgual ==
  ASSUME visto' = visto
  PROVE  UNCHANGED M!mercado
BY DEF M!mercado, PosseDeLista, PosseDe

\* The selection of a purchase is a cheapest way of buying what was asked for.
LEMMA EscolhaMaisEmConta ==
  ASSUME Tudo, VistoValido, Fora, fase = "terminar",
         NEW q \in [Vendedores -> Nat], Venda(q)
  PROVE  M!MaisEmConta(Tinha, q, PedidoActual.perc)
<1>1. /\ Escolha(q) /\ M!Soma(q) = PedidoActual.perc /\ DOMAIN q = Vendedores
      /\ \A d \in Vendedores : q[d] \in Nat
  BY DEF Venda, ContasCertas
<1>2. \A d \in Vendedores : d \in Donos /\ Tinha[d].perc \in Nat
  BY Cenario DEF Vendedores
<1>3. NLotes \in Nat
  BY CompraTipo DEF Tudo, NLotes
<1>4. ASSUME NEW d \in Vendedores, q[d] > 0
      PROVE  \E i \in 1..NLotes :
               /\ d = Vendedor(i) /\ q[d] \in 1..Tinha[d].perc /\ M!AVenda(Tinha[d])
               /\ i # NLotes => q[d] = Tinha[d].perc
               /\ \A e \in Vendedores :
                    M!AVenda(Tinha[e]) /\ q[e] < Tinha[e].perc
                      => ~M!MaisCaro(Tinha[d], Tinha[e])
  <2>1. PICK i \in 1..NLotes : d = Vendedor(i)
    BY <1>1, <1>4 DEF Escolha
  <2>2. i # NLotes => i < NLotes
    BY <1>3
  <2>. QED BY <1>1, <2>1, <2>2 DEF Escolha
<1>5. \A d \in Vendedores : q[d] > 0 => M!AVenda(Tinha[d]) /\ q[d] <= Tinha[d].perc
  BY <1>2, <1>4
<1>6. \A d, e \in Vendedores :
        q[d] > 0 /\ M!AVenda(Tinha[e]) /\ q[e] < Tinha[e].perc
          => ~M!MaisCaro(Tinha[d], Tinha[e])
  BY <1>4
<1>7. ASSUME NEW d \in Vendedores, NEW e \in Vendedores,
             q[d] \in 1..(Tinha[d].perc - 1), q[e] \in 1..(Tinha[e].perc - 1)
      PROVE  d = e
  <2>1. /\ q[d] > 0 /\ q[d] # Tinha[d].perc
        /\ q[e] > 0 /\ q[e] # Tinha[e].perc
    BY <1>1, <1>2, <1>7
  <2>2. d = Vendedor(NLotes) /\ e = Vendedor(NLotes)
    BY <1>4, <2>1
  <2>. QED BY <2>2
<1>. QED BY <1>1, <1>5, <1>6, <1>7 DEF M!MaisEmConta

\* The end of terminarcompra is the purchase of Mercado.
LEMMA RefinaTerminar ==
  ASSUME Tudo, RefinaInv, Tudo', TerminarCompra
  PROVE  RefinaInv' /\ M!Next
<1>. DEFINE u == compra.quem
            k == PedidoActual.pos
            id == visto.ideias[k].id
            n == PedidoActual.perc
            P == PosseDeLista(visto.ideias)
<1>1. /\ fase = "terminar" /\ fase' = "livre" /\ Olhar
      /\ pedido' = [pedido EXCEPT ![compra.quem] = SemPedido]
      /\ tomada' = tomada /\ saldo' = saldo /\ ideias' = ideias
  BY DEF TerminarCompra, Sair, mercado
<1>2. tomada' = SemTomada
  BY <1>1 DEF Tudo, SelecaoInv, Sozinha
<1>3. PedidosCertos'
  BY <1>1 DEF Tudo, TypeOK, RefinaInv, PedidosCertos, SemPedido
<1>4. RefinaInv' /\ visto' = [saldo |-> saldo, ideias |-> ideias]
  BY <1>1, <1>2, <1>3, RefinaLivre DEF RefinaInv
<1>5. /\ VistoValido /\ Fora
      /\ \E q \in [Vendedores -> 0..PedidoActual.perc] : Venda(q)
  BY <1>1 DEF RefinaInv, CompraCerta
<1>6. PICK q \in [Vendedores -> 0..PedidoActual.perc] : Venda(q)
  BY <1>5
<1>7. /\ n \in 1..Total /\ n \in Nat /\ u \in Utilizadores /\ u \in Donos
      /\ q \in [Vendedores -> Nat]
  <2>1. /\ n \in 1..Total /\ n \in Nat /\ u \in Utilizadores /\ u \in Donos
    BY <1>1, <1>5, Cenario
  <2>2. 0..n \subseteq Nat
    OBVIOUS
  <2>. QED BY <1>6, <2>1, <2>2
<1>8. /\ n \in Percentagens /\ PedidoActual.revenda \in Precos
      /\ PedidoActual.investimento \in Investimentos
  BY <1>1, <1>7 DEF Tudo, SelecaoInv, Sozinha, PedidoActual, RefinaInv, PedidosCertos
<1>9. /\ PosseDe(Lotes) = PosseCom(q) /\ saldo = SaldoCom(q)
      /\ \A d \in Vendedores : q[d] # 0 => d \in Utilizadores
      /\ M!MaisEmConta(Tinha, q, n)
  BY <1>1, <1>5, <1>6, <1>7, PosseNoFim, EscolhaMaisEmConta DEF RefinaInv
<1>10. IdsUnicosEm(visto.ideias) /\ k \in DOMAIN visto.ideias
  BY <1>5, ListaValidaDiz DEF Fora, VistoValido
<1>11. id \in DOMAIN P /\ P[id] = Tinha
  BY <1>10, PosseDeListaEm DEF Tinha, Antes
<1>12. PosseDeLista(ideias) = [P EXCEPT ![id] = PosseCom(q)]
  <2>1. /\ DOMAIN ideias = DOMAIN visto.ideias
        /\ \A l \in DOMAIN visto.ideias :
             /\ ideias[l].id = visto.ideias[l].id
             /\ l # k => ideias[l].accoes = visto.ideias[l].accoes
    BY <1>5 DEF Fora
  <2>2. PosseDeLista(ideias) = [P EXCEPT ![id] = PosseDe(ideias[k].accoes)]
    BY <1>10, <2>1, PosseDeListaMudar
  <2>. QED BY <1>9, <2>2 DEF Lotes
<1>13. /\ M!Soma(q) = n /\ M!Soma(Paga(q)) <= PedidoActual.investimento
  BY <1>1, <1>6 DEF Venda, ContasCertas
<1>14. M!Donos = Donos /\ Vendedores = M!Donos \ {u}
  BY DEF M!Donos, Donos, Vendedores
<1>15. (visto.saldo)' = saldo /\ PosseDeLista(visto.ideias)' = PosseDeLista(ideias)
  BY <1>4 DEF PosseDeLista, PosseDe
<1>. HIDE DEF P
<1>16. M!Comprar(u, id, q, PedidoActual.revenda, PedidoActual.investimento)
  <2>1. [d \in M!Donos \ {u} |-> IF q[d] = 0 THEN 0 ELSE M!Parte(q[d], P[id][d])] = Paga(q)
    BY <1>11, <1>14 DEF Paga
  <2>2. \A d \in M!Donos \ {u} : q[d] > 0 => d \in Utilizadores
    BY <1>9, <1>14
  <2>3. (visto.saldo)' = [v \in Utilizadores |->
           IF v = u THEN visto.saldo[v] - M!Soma(Paga(q)) ELSE visto.saldo[v] + Paga(q)[v]]
    BY <1>9, <1>15 DEF SaldoCom
  <2>4. PosseCom(q) = [d \in M!Donos |->
           IF d # u THEN (IF q[d] = 0 THEN P[id][d] ELSE M!Resto(q[d], P[id][d]))
           ELSE [perc |-> P[id][u].perc + M!Soma(q),
                 preco |-> IF P[id][u].perc = 0 THEN PedidoActual.revenda
                           ELSE P[id][u].preco]]
    BY <1>11, <1>14 DEF PosseCom
  <2>. QED BY <1>12, <1>13, <1>15, <2>1, <2>2, <2>3, <2>4 DEF M!Comprar, P
<1>17. M!Next
  <2>1. /\ id \in DOMAIN PosseDeLista(visto.ideias)
        /\ M!MaisEmConta(PosseDeLista(visto.ideias)[id], q, n)
    BY <1>9, <1>11 DEF P
  <2>2. n \in Percentagens \cap 1..Total /\ q \in [M!Donos \ {u} -> 0..n]
    BY <1>6, <1>7, <1>8, <1>14
  <2>. QED BY <1>7, <1>8, <1>16, <2>1, <2>2 DEF M!Next
<1>. QED BY <1>4, <1>17

-----------------------------------------------------------------------------
\* Steps that change nothing of the market.

\* At rest the history is the present, and every idea is whole.
LEMMA EmSossego ==
  ASSUME Tudo, Sossego
  PROVE  visto.saldo = saldo /\ visto.ideias = ideias /\ ListaValida(ideias)
BY RepousoBasta DEF Tudo, SerieInv, Historia

\* Asking for a purchase, and refusing one, leave the running one as it is.
LEMMA RefinaManter ==
  ASSUME Tudo, RefinaInv, Tudo', Olhar, PedidosCertos',
         UNCHANGED <<saldo, ideias, fase, compra, tomada>>,
         fase # "livre" => pedido'[compra.quem] = pedido[compra.quem]
  PROVE  RefinaInv' /\ visto' = visto
<1>1. visto' = visto
  <2>1. Sossego => visto = [saldo |-> saldo, ideias |-> ideias]
    BY DEF Tudo, SerieInv, Historia
  <2>. QED BY <2>1 DEF Olhar, Sossego
<1>2. VistoValido'
  BY <1>1 DEF RefinaInv, VistoValido
<1>3. TomadaCerta'
  BY <1>1 DEF RefinaInv, TomadaCerta
<1>4. CompraCerta'
  <2>. SUFFICES ASSUME fase # "livre" PROVE CompraCerta'
    BY DEF CompraCerta
  <2>1. PedidoActual' = PedidoActual /\ Lotes' = Lotes
    BY DEF PedidoActual, Lotes
  <2>2. PICK q \in [Vendedores -> 0..PedidoActual.perc] : Fora /\ Venda(q)
    BY DEF RefinaInv, CompraCerta
  <2>3. /\ Antes' = Antes /\ Tinha' = Tinha /\ Vendedores' = Vendedores /\ NLotes' = NLotes
        /\ \A k : Vendedor(k)' = Vendedor(k)
        /\ \A r : /\ Paga(r)' = Paga(r) /\ SaldoCom(r)' = SaldoCom(r)
                  /\ PosseCom(r)' = PosseCom(r)
        /\ Escolha(q)' /\ \A k : Ate(q, k)' = Ate(q, k)
    BY <1>1, <2>1, <2>2, MesmosLotes DEF Venda
  <2>4. Liquidado(q)'
    <3>1. Pagos' = Pagos
      BY DEF Pagos
    <3>2. Liquidado(q)
      BY <2>2 DEF Venda
    <3>. QED BY <2>1, <2>3, <3>1, <3>2 DEF Liquidado
  <2>5. ContasCertas(q)' /\ EmTransito(q)' /\ Fora'
    BY <1>1, <2>1, <2>2, <2>3
       DEF ContasCertas, EmTransito, Fora, Liquidacao, Selecionando, Venda
  <2>. QED BY <2>1, <2>2, <2>3, <2>4, <2>5 DEF CompraCerta, Venda
<1>. QED BY <1>1, <1>2, <1>3, <1>4 DEF RefinaInv

\* A client asks for a purchase, whatever runs.
LEMMA RefinaPedir ==
  ASSUME Tudo, RefinaInv, Tudo', Pedir
  PROVE  RefinaInv' /\ visto' = visto
<1>1. PICK u \in Utilizadores, id \in 1..MaxIdeias, pos \in 0..MaxIdeias,
           perc \in Percentagens, revenda \in Precos, inv \in Investimentos :
             PedirCompra(u, id, pos, perc, revenda, inv)
  BY DEF Pedir
<1>2. fase # "livre" => pedido[compra.quem].activo /\ compra.quem \in Utilizadores
  BY DEF Tudo, SelecaoInv, Sozinha, PedidoActual, TypeOK
<1>3. fase # "livre" => pedido'[compra.quem] = pedido[compra.quem]
  BY <1>1, <1>2 DEF PedirCompra, Tudo, TypeOK
<1>4. PedidosCertos'
  BY <1>1 DEF PedirCompra, Tudo, TypeOK, RefinaInv, PedidosCertos
<1>. QED BY <1>1, <1>3, <1>4, RefinaManter DEF PedirCompra

\* A purchase that asks for too much, or of no idea, is refused.
LEMMA RefinaRecusar ==
  ASSUME Tudo, RefinaInv, Tudo', NEW u \in Utilizadores, RecusarCompra(u)
  PROVE  RefinaInv' /\ visto' = visto
<1>1. PedidosCertos'
  BY DEF RecusarCompra, Tudo, TypeOK, RefinaInv, PedidosCertos, SemPedido
<1>. QED BY <1>1, RefinaManter DEF RecusarCompra

\* The purchases that give up, all of them before the first lot is settled.
LEMMA RefinaDesistir ==
  ASSUME Tudo, RefinaInv, Tudo',
         SelecionarFalha \/ InvestimentoInsuficiente \/ PagarFalha
  PROVE  RefinaInv' /\ visto' = visto
<1>1. fase # "livre" /\ Sair /\ UNCHANGED mercado /\ Olhar
  BY DEF SelecionarFalha, InvestimentoInsuficiente, PagarFalha
<1>2. PagarFalha => fase = "pagar" /\ compra.feitas = 0
  BY SoFalhaAntes, CompraTipo DEF Tudo, PagarFalha
<1>3. fase = "selecionar" \/ (fase = "pagar" /\ compra.feitas = 0)
  BY <1>2 DEF SelecionarFalha, InvestimentoInsuficiente
<1>. QED BY <1>1, <1>3, RefinaFalha

-----------------------------------------------------------------------------
\* A takeover.

\* The idea taken over, and who was paid.
LEMMA CenarioTomada ==
  ASSUME Tudo, RefinaInv, tomada # SemTomada
  PROVE  LET A == AccoesTomadas
         IN  /\ fase = "livre" /\ visto.ideias = ideias /\ EmTomada
             /\ A \in Seq(Accao) /\ Unicos(A) /\ DOMAIN A = 1..Len(A) /\ Len(A) \in Nat
             /\ \A i \in DOMAIN A : A[i].perc > 0
             /\ Len(A) > 1 => \A i \in DOMAIN A : A[i].dono \in Utilizadores
             /\ tomada.titular - 1 \in 0..Len(A) /\ tomada.titular \in Nat
             /\ \A j \in 1..(tomada.titular - 1) : A[j].dono \in Utilizadores
             /\ saldo = [v \in Utilizadores |-> visto.saldo[v] +
                  IF \E j \in 1..(tomada.titular - 1) : A[j].dono = v
                    THEN PosseDe(A)[v].preco ELSE 0]
<1>1. TomadaCerta /\ ListaValida(visto.ideias)
  BY DEF RefinaInv, VistoValido
<1>2. /\ fase = "livre" /\ visto.ideias = ideias /\ EmTomada
      /\ tomada.titular - 1 \in 0..Len(AccoesTomadas)
      /\ \A j \in 1..(tomada.titular - 1) : AccoesTomadas[j].dono \in Utilizadores
      /\ saldo = [v \in Utilizadores |-> visto.saldo[v] +
           IF \E j \in 1..(tomada.titular - 1) : AccoesTomadas[j].dono = v
             THEN PosseDe(AccoesTomadas)[v].preco ELSE 0]
  BY <1>1 DEF TomadaCerta, EmTomada, AccoesTomadas
<1>3. tomada.titular \in Nat
  BY DEF Tudo, TypeOK
<1>4. /\ AccoesTomadas \in Seq(Accao) /\ Unicos(AccoesTomadas)
      /\ \A i \in DOMAIN AccoesTomadas : AccoesTomadas[i].perc > 0
      /\ Len(AccoesTomadas) > 1 =>
           \A i \in DOMAIN AccoesTomadas : AccoesTomadas[i].dono \in Utilizadores
  BY <1>1, <1>2, ListaValidaDiz DEF EmTomada, AccoesTomadas
<1>5. DOMAIN AccoesTomadas = 1..Len(AccoesTomadas) /\ Len(AccoesTomadas) \in Nat
  BY <1>4, LenProperties
<1>. QED BY <1>2, <1>3, <1>4, <1>5

\* A takeover begins with nobody paid.
LEMMA RefinaIniciarTomada ==
  ASSUME Tudo, RefinaInv, Tudo', ~Concorrente, NEW k \in DOMAIN ideias, IniciarTomada(k)
  PROVE  RefinaInv' /\ visto' = visto
<1>1. /\ Sossego /\ fase = "livre" /\ fase' = "livre"
      /\ tomada' = [pos |-> k, titular |-> 1] /\ Olhar
      /\ saldo' = saldo /\ ideias' = ideias /\ pedido' = pedido
  BY DEF IniciarTomada, Vez, Sossego
<1>2. visto' = visto
  BY <1>1 DEF Olhar, SemTomada
<1>3. visto.saldo = saldo /\ visto.ideias = ideias
  BY <1>1, EmSossego
<1>4. TomadaCerta'
  <2>. DEFINE A == ideias[k].accoes
  <2>1. Len(A) \in Nat
    <3>1. A \in Seq(Accao)
      BY LotesTipo DEF Tudo, TypeOK
    <3>. HIDE DEF A
    <3>. QED BY <3>1, LenProperties
  <2>2. 1 - 1 \in 0..Len(A) /\ 1..(1 - 1) = {}
    <3>. HIDE DEF A
    <3>. QED BY <2>1
  <2>3. saldo = [v \in Utilizadores |-> saldo[v] +
          IF \E j \in 1..(1 - 1) : A[j].dono = v THEN PosseDe(A)[v].preco ELSE 0]
    <3>1. \A v \in Utilizadores : saldo[v] + 0 = saldo[v]
      BY DEF Tudo, TypeOK
    <3>2. saldo = [v \in Utilizadores |-> saldo[v]]
      BY DEF Tudo, TypeOK
    <3>. HIDE DEF A
    <3>. QED BY <2>2, <3>1, <3>2
  <2>4. /\ (tomada.titular)' = 1 /\ (tomada.pos)' = k
    BY <1>1
  <2>. QED BY <1>1, <1>2, <1>3, <2>2, <2>3, <2>4 DEF TomadaCerta
<1>5. VistoValido' /\ PedidosCertos' /\ CompraCerta'
  BY <1>1, <1>2 DEF RefinaInv, VistoValido, PedidosCertos, CompraCerta
<1>. QED BY <1>2, <1>4, <1>5 DEF RefinaInv

\* The next holder is paid what that holder asks for.
LEMMA RefinaPagarTitular ==
  ASSUME Tudo, RefinaInv, Tudo', PagarTitular
  PROVE  RefinaInv' /\ visto' = visto
<1>. DEFINE A == AccoesTomadas
            t == tomada.titular
            a == A[t]
<1>1. /\ EmTomada /\ t \in DOMAIN A /\ a.dono \in Utilizadores
      /\ saldo' = [saldo EXCEPT ![a.dono] = @ + a.preco]
      /\ tomada' = [tomada EXCEPT !.titular = @ + 1]
      /\ UNCHANGED <<ideias, pedido, fase, compra, pedidos>> /\ Olhar
  BY DEF PagarTitular, encontraruser
<1>2. tomada # SemTomada /\ tomada.pos # 0
  <2>1. ~(0 \in DOMAIN ideias)
    BY LenProperties DEF Tudo, TypeOK
  <2>. QED BY <1>1, <2>1 DEF SemTomada, EmTomada
<1>3. /\ fase = "livre" /\ visto.ideias = ideias
      /\ A \in Seq(Accao) /\ Unicos(A) /\ DOMAIN A = 1..Len(A) /\ Len(A) \in Nat
      /\ t - 1 \in 0..Len(A) /\ t \in Nat
      /\ \A j \in 1..(t - 1) : A[j].dono \in Utilizadores
      /\ saldo = [v \in Utilizadores |-> visto.saldo[v] +
           IF \E j \in 1..(t - 1) : A[j].dono = v THEN PosseDe(A)[v].preco ELSE 0]
  BY <1>2, CenarioTomada
<1>4. /\ (tomada.pos)' = tomada.pos /\ (tomada.titular)' = t + 1
      /\ tomada' # SemTomada /\ A' = A
  BY <1>1, <1>2 DEF Tudo, TypeOK, SemTomada, AccoesTomadas
<1>5. visto' = visto
  BY <1>1, <1>4 DEF Olhar
<1>6. VistoValido' /\ PedidosCertos' /\ CompraCerta'
  BY <1>1, <1>3, <1>5 DEF RefinaInv, VistoValido, PedidosCertos, CompraCerta
<1>. HIDE DEF A
<1>7. /\ t \in 0..Len(A) /\ 1..t = 1..(t - 1) \cup {t}
  BY <1>1, <1>3
<1>8. \A j \in 1..t : A[j].dono \in Utilizadores
  BY <1>1, <1>3, <1>7
<1>9. saldo' = [v \in Utilizadores |-> visto.saldo[v] +
         IF \E j \in 1..t : A[j].dono = v THEN PosseDe(A)[v].preco ELSE 0]
  <2>1. PosseDe(A)[a.dono].preco = a.preco /\ a.preco \in Int
    <3>1. a \in Accao
      BY <1>1, <1>3
    <3>. QED BY <1>1, <1>3, <3>1, PosseDeLote DEF Accao
  <2>2. ~ \E j \in 1..(t - 1) : A[j].dono = a.dono
    <3>1. \A j \in 1..(t - 1) : j \in DOMAIN A /\ j # t
      BY <1>1, <1>3
    <3>. QED BY <1>1, <1>3, <3>1 DEF Unicos
  <2>3. \A v \in Utilizadores : visto.saldo[v] \in Int
    BY DEF Tudo, TypeOK
  <2>4. saldo[a.dono] = visto.saldo[a.dono]
    BY <1>1, <1>3, <2>2, <2>3
  <2>5. ASSUME NEW v \in Utilizadores
        PROVE  saldo'[v] = visto.saldo[v] +
                 IF \E j \in 1..t : A[j].dono = v THEN PosseDe(A)[v].preco ELSE 0
    <3>1. CASE v = a.dono
      <4>1. saldo'[v] = visto.saldo[v] + a.preco
        BY <1>1, <1>3, <2>4, <3>1 DEF Tudo, TypeOK
      <4>2. \E j \in 1..t : A[j].dono = v
        BY <1>7, <3>1
      <4>. QED BY <2>1, <3>1, <4>1, <4>2
    <3>2. CASE v # a.dono
      <4>1. saldo'[v] = saldo[v]
        BY <1>1, <3>2 DEF Tudo, TypeOK
      <4>2. (\E j \in 1..t : A[j].dono = v) <=> (\E j \in 1..(t - 1) : A[j].dono = v)
        BY <1>7, <3>2
      <4>. QED BY <1>3, <4>1, <4>2
    <3>. QED BY <3>1, <3>2
  <2>6. saldo' = [v \in Utilizadores |-> saldo'[v]]
    BY <1>1 DEF Tudo, TypeOK
  <2>. QED BY <2>5, <2>6
<1>10. TomadaCerta'
  <2>1. (t + 1) - 1 = t
    BY <1>3
  <2>2. A = ideias[tomada.pos].accoes
    BY DEF A, AccoesTomadas
  <2>3. /\ tomada'.titular - 1 = t /\ ideias'[tomada'.pos].accoes = A
        /\ visto'.saldo = visto.saldo /\ visto'.ideias = ideias'
        /\ fase' = "livre" /\ tomada'.pos \in DOMAIN ideias'
    BY <1>1, <1>3, <1>4, <1>5, <2>1, <2>2 DEF EmTomada
  <2>. QED BY <1>7, <1>8, <1>9, <2>3 DEF TomadaCerta
<1>. QED BY <1>5, <1>6, <1>10 DEF RefinaInv

\* An idea that somebody unknown holds is held by nobody else: nobody was paid.
LEMMA RefinaTomadaFalha ==
  ASSUME Tudo, RefinaInv, Tudo', TomadaFalha
  PROVE  RefinaInv' /\ visto' = visto
<1>. DEFINE A == AccoesTomadas
            t == tomada.titular
<1>1. /\ tomada # SemTomada /\ tomada' = SemTomada /\ Olhar
      /\ UNCHANGED <<saldo, ideias, pedido, fase, compra, pedidos>>
  BY DEF TomadaFalha
<1>2. /\ fase = "livre" /\ visto.ideias = ideias /\ EmTomada
      /\ DOMAIN A = 1..Len(A) /\ Len(A) \in Nat
      /\ Len(A) > 1 => \A i \in DOMAIN A : A[i].dono \in Utilizadores
      /\ t - 1 \in 0..Len(A) /\ t \in Nat
      /\ saldo = [v \in Utilizadores |-> visto.saldo[v] +
           IF \E j \in 1..(t - 1) : A[j].dono = v THEN PosseDe(A)[v].preco ELSE 0]
  BY <1>1, CenarioTomada
<1>3. t \in DOMAIN A /\ A[t].dono \notin Utilizadores
  BY <1>2 DEF TomadaFalha, encontraruser
<1>. HIDE DEF A
<1>4. 1..(t - 1) = {}
  BY <1>2, <1>3
<1>5. saldo = visto.saldo
  BY <1>2, <1>4 DEF Tudo, TypeOK
<1>6. PedidosCertos'
  BY <1>1 DEF RefinaInv, PedidosCertos
<1>7. RefinaInv' /\ visto' = [saldo |-> saldo, ideias |-> ideias]
  BY <1>1, <1>2, <1>6, RefinaLivre DEF RefinaInv
<1>8. visto = [saldo |-> visto.saldo, ideias |-> visto.ideias]
  BY DEF Tudo, TypeOK
<1>. QED BY <1>2, <1>5, <1>7, <1>8

\* The list of holdings that has one.
LEMMA PosseDeUm ==
  ASSUME NEW a \in Accao
  PROVE  PosseDe(<<a>>) = [d \in Donos |->
           IF d = a.dono THEN [perc |-> a.perc, preco |-> a.preco]
           ELSE [perc |-> 0, preco |-> 0]]
<1>. DEFINE A == <<a>>
            f == [d \in Donos |-> IF d = a.dono THEN [perc |-> a.perc, preco |-> a.preco]
                                  ELSE [perc |-> 0, preco |-> 0]]
<1>1. A \in Seq(Accao) /\ DOMAIN A = {1} /\ A[1] = a
  OBVIOUS
<1>2. a.dono \in Donos
  BY DEF Accao
<1>3. f = [d \in Donos |-> f[d]]
  OBVIOUS
<1>4. f[a.dono] = [perc |-> a.perc, preco |-> a.preco]
      /\ \A d \in Donos : d # a.dono => f[d] = [perc |-> 0, preco |-> 0]
  BY <1>2
<1>. HIDE DEF A, f
<1>5. Unicos(A)
  BY <1>1 DEF Unicos
<1>6. PosseDe(A) = f
  BY <1>1, <1>3, <1>4, <1>5, PosseDeQuem
<1>. QED BY <1>6 DEF A, f

\* All were paid, and the idea goes to root.
LEMMA RefinaConcluirTomada ==
  ASSUME Tudo, RefinaInv, Tudo', ConcluirTomada
  PROVE  RefinaInv' /\ M!Next
<1>. DEFINE A == AccoesTomadas
            t == tomada.titular
            id == ideias[tomada.pos].id
            P == PosseDeLista(visto.ideias)
            a == [dono |-> Root, perc |-> Total, preco |-> -Moeda]
<1>1. /\ EmTomada /\ t > Len(A) /\ ideias' = ComAccoes(tomada.pos, <<a>>)
      /\ tomada' = SemTomada /\ UNCHANGED <<saldo, pedido, fase, compra, pedidos>> /\ Olhar
  BY DEF ConcluirTomada
<1>2. tomada # SemTomada
  <2>1. ~(0 \in DOMAIN ideias)
    BY LenProperties DEF Tudo, TypeOK
  <2>. QED BY <1>1, <2>1 DEF SemTomada, EmTomada
<1>3. /\ fase = "livre" /\ visto.ideias = ideias
      /\ A \in Seq(Accao) /\ Unicos(A) /\ DOMAIN A = 1..Len(A) /\ Len(A) \in Nat
      /\ \A i \in DOMAIN A : A[i].perc > 0
      /\ t - 1 \in 0..Len(A) /\ t \in Nat
      /\ \A j \in 1..(t - 1) : A[j].dono \in Utilizadores
      /\ saldo = [v \in Utilizadores |-> visto.saldo[v] +
           IF \E j \in 1..(t - 1) : A[j].dono = v THEN PosseDe(A)[v].preco ELSE 0]
  BY <1>2, CenarioTomada
<1>4. PedidosCertos'
  BY <1>1 DEF RefinaInv, PedidosCertos
<1>5. RefinaInv' /\ visto' = [saldo |-> saldo, ideias |-> ideias']
  BY <1>1, <1>3, <1>4, RefinaLivre DEF RefinaInv
<1>6. IdsUnicosEm(ideias) /\ tomada.pos \in DOMAIN ideias /\ TypeOK
  BY <1>1 DEF EmTomada, Tudo, SerieInv, IdsUnicos, IdsUnicosEm
<1>7. id \in DOMAIN P /\ P[id] = PosseDe(A)
  BY <1>3, <1>6, PosseDeListaEm DEF AccoesTomadas
<1>8. a \in Accao
  BY TotalAssumption, NumerosAssumption DEF Accao, Donos
<1>9. PosseDeLista(ideias') = [P EXCEPT ![id] = [d \in M!Donos |->
         IF d = Root THEN [perc |-> Total, preco |-> -Moeda] ELSE M!Nada]]
  <2>1. <<a>> \in Seq(Accao)
    BY <1>8
  <2>2. PosseDe(<<a>>) = [d \in M!Donos |->
          IF d = Root THEN [perc |-> Total, preco |-> -Moeda] ELSE M!Nada]
    BY <1>8, PosseDeUm DEF M!Donos, Donos, M!Nada
  <2>. HIDE DEF a
  <2>3. /\ DOMAIN ideias' = DOMAIN ideias /\ ideias'[tomada.pos].accoes = <<a>>
        /\ \A l \in DOMAIN ideias :
             /\ ideias'[l].id = ideias[l].id
             /\ l # tomada.pos => ideias'[l].accoes = ideias[l].accoes
    BY <1>1, <1>6, <2>1, TrocarIdeia
  <2>4. PosseDeLista(ideias') =
          [PosseDeLista(ideias) EXCEPT ![id] = PosseDe(ideias'[tomada.pos].accoes)]
    BY <1>6, <2>3, PosseDeListaMudar
  <2>. QED BY <1>3, <2>2, <2>3, <2>4
<1>. HIDE DEF A
<1>10. t - 1 = Len(A)
  BY <1>1, <1>3
<1>11. \A d \in Donos : P[id][d].perc > 0 => d \in Utilizadores
  <2>1. \A d \in Donos : PosseDe(A)[d].perc > 0 => \E j \in DOMAIN A : A[j].dono = d
    BY <1>3, PosseEmRepouso
  <2>. QED BY <1>3, <1>7, <1>10, <2>1
<1>12. saldo = [v \in Utilizadores |-> visto.saldo[v] + P[id][v].preco]
  <2>1. ASSUME NEW v \in Utilizadores, ~ \E j \in 1..(t - 1) : A[j].dono = v
        PROVE  PosseDe(A)[v].preco = 0
    <3>1. v \in Donos /\ \A j \in DOMAIN A : A[j].dono # v
      BY <1>3, <1>10, <2>1 DEF Donos
    <3>2. PosseDe(A)[v] = [perc |-> 0, preco |-> 0]
      BY <3>1, PosseDeNinguem
    <3>. QED BY <3>2
  <2>. QED BY <1>3, <1>7, <2>1
<1>13. (visto.saldo)' = saldo /\ PosseDeLista(visto.ideias)' = PosseDeLista(ideias')
  BY <1>5 DEF PosseDeLista, PosseDe
<1>14. M!Tomar(id)
  <2>1. M!Donos = Donos
    BY DEF M!Donos, Donos
  <2>. HIDE DEF id
  <2>. QED BY <1>9, <1>11, <1>12, <1>13, <2>1 DEF M!Tomar
<1>15. M!Next
  BY <1>7, <1>14 DEF M!Next
<1>. QED BY <1>5, <1>15

-----------------------------------------------------------------------------
\* The operations of one step.

\* What they start from and leave.
LEMMA RefinaUmPasso ==
  ASSUME Tudo, RefinaInv, Tudo', ~Concorrente, Vez, Olhar,
         UNCHANGED <<pedido, fase, compra, tomada>>
  PROVE  /\ RefinaInv' /\ (visto.saldo)' = saldo'
         /\ PosseDeLista(visto.ideias)' = PosseDeLista(ideias')
         /\ visto.saldo = saldo /\ visto.ideias = ideias
         /\ TypeOK /\ IdsUnicosEm(ideias) /\ IdsUnicosEm(ideias')
         /\ \A k \in DOMAIN ideias : \A i \in DOMAIN ideias[k].accoes :
              ideias[k].accoes[i].perc > 0
<1>1. Sossego /\ fase' = "livre" /\ tomada' = SemTomada
  BY DEF Vez, Sossego
<1>2. PedidosCertos'
  BY DEF RefinaInv, PedidosCertos
<1>3. RefinaInv' /\ visto' = [saldo |-> saldo', ideias |-> ideias']
  BY <1>1, <1>2, RefinaLivre DEF RefinaInv
<1>4. visto.saldo = saldo /\ visto.ideias = ideias /\ ListaValida(ideias)
  BY <1>1, EmSossego
<1>5. (visto.saldo)' = saldo' /\ PosseDeLista(visto.ideias)' = PosseDeLista(ideias')
  BY <1>3 DEF PosseDeLista, PosseDe
<1>6. IdsUnicosEm(ideias) /\ IdsUnicosEm(ideias')
  BY DEF Tudo, SerieInv, IdsUnicos, IdsUnicosEm
<1>7. \A k \in DOMAIN ideias : \A i \in DOMAIN ideias[k].accoes :
        ideias[k].accoes[i].perc > 0
  BY <1>4 DEF ListaValida
<1>. QED BY <1>3, <1>4, <1>5, <1>6, <1>7 DEF Tudo

\* A new identifier, and its creator has it whole.
LEMMA RefinaCriar ==
  ASSUME Tudo, RefinaInv, Tudo', ~Concorrente, NEW u \in Utilizadores,
         NEW id \in 1..MaxIdeias, NEW inv \in Investimentos, CriarIdeia(u, id, inv)
  PROVE  RefinaInv' /\ M!Next
<1>. DEFINE a == [dono |-> u, perc |-> Total, preco |-> inv]
            nova == [id |-> id, accoes |-> <<a>>]
            P == PosseDeLista(ideias)
            f == [i \in DOMAIN P \cup {id} |->
                    IF i # id THEN P[i] ELSE [d \in Donos |->
                      IF d = u THEN [perc |-> Total, preco |-> inv] ELSE M!Nada]]
<1>1. /\ Vez /\ Olhar /\ saldo[u] >= inv /\ IdSeguinte(id)
      /\ saldo' = [saldo EXCEPT ![u] = @ - inv] /\ ideias' = Append(ideias, nova)
      /\ UNCHANGED <<pedido, fase, compra, tomada>>
  BY DEF CriarIdeia
<1>2. /\ RefinaInv' /\ (visto.saldo)' = saldo'
      /\ PosseDeLista(visto.ideias)' = PosseDeLista(ideias')
      /\ visto.saldo = saldo /\ visto.ideias = ideias
      /\ TypeOK /\ IdsUnicosEm(ideias) /\ IdsUnicosEm(ideias')
  BY <1>1, RefinaUmPasso
<1>3. a \in Accao /\ a.dono = u /\ a.perc = Total /\ a.preco = inv
  BY TotalAssumption, NumerosAssumption DEF Accao, Donos
<1>4. <<a>> \in Seq(Accao) /\ PosseDe(<<a>>) = [d \in Donos |->
         IF d = u THEN [perc |-> Total, preco |-> inv] ELSE M!Nada]
  BY <1>3, PosseDeUm DEF M!Nada
<1>5. nova \in Ideia /\ nova.id = id /\ nova.accoes = <<a>>
  BY <1>4 DEF Ideia
<1>6. \A k \in DOMAIN ideias : ideias[k].id # id
  <2>1. ASSUME NEW k \in DOMAIN ideias PROVE ideias[k].id # id
    <3>1. ideias[k].id \in Nat /\ ideias[k].id < id
      BY <1>1, <1>2, LotesTipo DEF IdSeguinte, TypeOK
    <3>. QED BY <3>1
  <2>. QED BY <2>1
<1>. HIDE DEF nova
<1>7. /\ DOMAIN ideias' = 1..(Len(ideias) + 1) /\ DOMAIN ideias = 1..Len(ideias)
      /\ \A l \in 1..Len(ideias) : ideias'[l] = ideias[l]
      /\ ideias'[Len(ideias) + 1] = nova
      /\ Len(ideias) \in Nat
  BY <1>1, <1>2, <1>5, AppendProperties, LenProperties DEF TypeOK
<1>8. \A l : l \in DOMAIN ideias' <=> (l \in DOMAIN ideias \/ l = Len(ideias) + 1)
  BY <1>7
<1>9. DOMAIN P = {ideias[k].id : k \in DOMAIN ideias}
  BY DEF PosseDeLista
<1>10. id \notin DOMAIN P
  BY <1>6, <1>9
<1>11. DOMAIN f = {ideias'[k].id : k \in DOMAIN ideias'}
  BY <1>5, <1>7, <1>8, <1>9
<1>12. \A k \in DOMAIN ideias' : f[ideias'[k].id] = PosseDe(ideias'[k].accoes)
  <2>1. ASSUME NEW k \in DOMAIN ideias
        PROVE  f[ideias'[k].id] = PosseDe(ideias'[k].accoes)
    <3>1. ideias'[k] = ideias[k]
      BY <1>7
    <3>2. ideias[k].id \in DOMAIN P /\ P[ideias[k].id] = PosseDe(ideias[k].accoes)
      BY <1>2, PosseDeListaEm
    <3>. QED BY <1>6, <3>1, <3>2
  <2>2. f[nova.id] = PosseDe(nova.accoes)
    BY <1>4, <1>5
  <2>. HIDE DEF f
  <2>. QED BY <1>7, <1>8, <2>1, <2>2
<1>13. PosseDeLista(ideias') = f
  <2>1. f = [i \in DOMAIN f |-> f[i]]
    OBVIOUS
  <2>. HIDE DEF f
  <2>. QED BY <1>2, <1>11, <1>12, <2>1, PosseDeListaQual
<1>14. M!Criar(u, id, inv)
  <2>1. M!Donos = Donos
    BY DEF M!Donos, Donos
  <2>. QED BY <1>1, <1>2, <1>10, <1>13, <2>1 DEF M!Criar
<1>15. M!Next
  BY <1>14 DEF M!Next
<1>. QED BY <1>2, <1>15

\* The first holding of a user in an idea is the only one.
LEMMA AccaoDe ==
  ASSUME Tudo, NEW u \in Utilizadores, NEW k \in DOMAIN ideias,
         NEW j \in DOMAIN ideias[k].accoes, PrimeiraAccaoDe(u, ideias[k].accoes, j)
  PROVE  LET A == ideias[k].accoes
         IN  /\ A \in Seq(Accao) /\ Unicos(A) /\ A[j].dono = u
             /\ DOMAIN A = 1..Len(A) /\ j \in 1..Len(A)
             /\ PosseDe(A)[u] = [perc |-> A[j].perc, preco |-> A[j].preco]
             /\ PosseDe(A)[u].perc = A[j].perc
             /\ PosseDe(A) \in [Donos -> [perc : Int, preco : Int]]
<1>1. ideias[k].accoes \in Seq(Accao)
  BY LotesTipo DEF Tudo, TypeOK
<1>2. Unicos(ideias[k].accoes)
  BY DEF Tudo, UmaAccaoPorDono, Unicos
<1>3. ideias[k].accoes[j].dono = u
  BY DEF PrimeiraAccaoDe
<1>4. DOMAIN ideias[k].accoes = 1..Len(ideias[k].accoes)
  BY <1>1, LenProperties
<1>. QED BY <1>1, <1>2, <1>3, <1>4, PosseDeLote, PosseDeTipo

\* The new price is the holder's.
LEMMA RefinaEditar ==
  ASSUME Tudo, RefinaInv, Tudo', ~Concorrente, NEW u \in Utilizadores,
         NEW k \in DOMAIN ideias, NEW j \in DOMAIN ideias[k].accoes,
         NEW preco \in Precos, EditarAccao(u, k, j, preco)
  PROVE  RefinaInv' /\ M!Next
<1>. DEFINE A == ideias[k].accoes
            B == setprecoaccao(A, j, preco)
            id == ideias[k].id
            P == PosseDeLista(ideias)
            f == [PosseDe(A) EXCEPT ![u].preco = preco]
<1>1. /\ Vez /\ Olhar /\ PrimeiraAccaoDe(u, A, j) /\ ideias' = ComAccoes(k, B)
      /\ UNCHANGED <<saldo, pedido, fase, compra, tomada>>
  BY DEF EditarAccao
<1>2. /\ RefinaInv' /\ (visto.saldo)' = saldo'
      /\ PosseDeLista(visto.ideias)' = PosseDeLista(ideias')
      /\ visto.saldo = saldo /\ visto.ideias = ideias
      /\ TypeOK /\ IdsUnicosEm(ideias) /\ IdsUnicosEm(ideias')
      /\ A[j].perc > 0
  BY <1>1, RefinaUmPasso
<1>3. /\ A \in Seq(Accao) /\ Unicos(A) /\ A[j].dono = u /\ j \in 1..Len(A)
      /\ DOMAIN A = 1..Len(A) /\ u \in Donos
      /\ PosseDe(A)[u] = [perc |-> A[j].perc, preco |-> A[j].preco]
      /\ PosseDe(A) \in [Donos -> [perc : Int, preco : Int]]
  <2>1. u \in Donos
    BY DEF Donos
  <2>. QED BY <1>1, <2>1, AccaoDe
<1>4. id \in DOMAIN P /\ P[id] = PosseDe(A)
  BY <1>2, PosseDeListaEm
<1>. HIDE DEF A
<1>5. preco \in Int
  BY NumerosAssumption
<1>6. /\ B \in Seq(Accao) /\ DOMAIN B = DOMAIN A
      /\ \A i \in DOMAIN A : /\ B[i].dono = A[i].dono /\ B[i].perc = A[i].perc
                             /\ B[i].preco = IF i = j THEN preco ELSE A[i].preco
  <2>1. /\ B \in Seq(Accao) /\ Len(B) = Len(A)
        /\ \A i \in DOMAIN A : B[i].dono = A[i].dono
    BY <1>3, <1>5, setprecoaccaoTipo
  <2>2. \A i \in 1..Len(A) : /\ B[i].perc = A[i].perc
                             /\ B[i].preco = IF i = j THEN preco ELSE A[i].preco
    BY <1>3, <1>5, MetodosPerc, MetodosPreco
  <2>. HIDE DEF B
  <2>. QED BY <1>3, <2>1, <2>2, LenProperties
<1>7. PosseDe(B) = f
  <2>. HIDE DEF B
  <2>1. f = [d \in Donos |-> f[d]] /\ f[u] = [perc |-> A[j].perc, preco |-> preco]
        /\ \A d \in Donos : d # u => f[d] = PosseDe(A)[d]
    <3>1. [PosseDe(A)[u] EXCEPT !.preco = preco] = [perc |-> A[j].perc, preco |-> preco]
      BY <1>3
    <3>2. f = [PosseDe(A) EXCEPT ![u] = [perc |-> A[j].perc, preco |-> preco]]
      BY <3>1
    <3>3. DOMAIN PosseDe(A) = Donos
      BY <1>3
    <3>. HIDE DEF f
    <3>. QED BY <1>3, <3>2, <3>3
  <2>2. Unicos(B)
    BY <1>3, <1>6 DEF Unicos
  <2>. HIDE DEF f
  <2>3. ASSUME NEW i \in DOMAIN B
        PROVE  f[B[i].dono] = [perc |-> B[i].perc, preco |-> B[i].preco]
    <3>1. CASE i = j
      BY <1>3, <1>6, <2>1, <3>1
    <3>2. CASE i # j
      <4>1. A[i].dono # u /\ A[i].dono \in Donos
            /\ PosseDe(A)[A[i].dono] = [perc |-> A[i].perc, preco |-> A[i].preco]
        <5>1. i \in DOMAIN A /\ A[i].dono # u
          BY <1>3, <1>6, <3>2 DEF Unicos
        <5>. QED BY <1>3, <5>1, PosseDeLote
      <4>. QED BY <1>6, <2>1, <3>2, <4>1
    <3>. QED BY <3>1, <3>2
  <2>4. ASSUME NEW d \in Donos, \A i \in DOMAIN B : B[i].dono # d
        PROVE  f[d] = [perc |-> 0, preco |-> 0]
    <3>1. d # u /\ \A i \in DOMAIN A : A[i].dono # d
      BY <1>3, <1>6, <2>4
    <3>. QED BY <2>1, <3>1, PosseDeNinguem
  <2>. QED BY <1>6, <2>1, <2>2, <2>3, <2>4, PosseDeQuem
<1>8. PosseDeLista(ideias') = [P EXCEPT ![id] = PosseDe(B)]
  <2>. HIDE DEF B
  <2>1. /\ DOMAIN ideias' = DOMAIN ideias /\ ideias'[k].accoes = B
        /\ \A l \in DOMAIN ideias :
             /\ ideias'[l].id = ideias[l].id
             /\ l # k => ideias'[l].accoes = ideias[l].accoes
    BY <1>1, <1>2, <1>6, TrocarIdeia
  <2>. QED BY <1>2, <2>1, PosseDeListaMudar
<1>9. M!Editar(u, id, preco)
  <2>1. PosseDeLista(ideias') = [P EXCEPT ![id][u].preco = preco]
    <3>. HIDE DEF B, P, id
    <3>. QED BY <1>4, <1>7, <1>8
  <2>2. P[id][u].perc > 0 /\ (visto.saldo)' = visto.saldo
    BY <1>1, <1>2, <1>3, <1>4
  <2>3. P = PosseDeLista(visto.ideias)
    BY <1>2
  <2>4. PosseDeLista(visto.ideias)' = [P EXCEPT ![id][u].preco = preco]
    BY <1>2, <2>1
  <2>. HIDE DEF P, id
  <2>. QED BY <2>2, <2>3, <2>4 DEF M!Editar
<1>10. M!Next
  BY <1>2, <1>4, <1>9 DEF M!Next
<1>. QED BY <1>2, <1>10

\* The holder of more than half takes the idea out of the list.
LEMMA RefinaApagar ==
  ASSUME Tudo, RefinaInv, Tudo', ~Concorrente, NEW u \in Utilizadores,
         NEW k \in DOMAIN ideias, NEW j \in DOMAIN ideias[k].accoes,
         ApagarIdeia(u, k, j)
  PROVE  RefinaInv' /\ M!Next
<1>. DEFINE A == ideias[k].accoes
            id == ideias[k].id
            P == PosseDeLista(ideias)
            f == [i \in DOMAIN P \ {id} |-> P[i]]
            g(l) == IF l < k THEN l ELSE l + 1
<1>1. /\ Vez /\ Olhar /\ PrimeiraAccaoDe(u, A, j) /\ 2 * A[j].perc > Total
      /\ ideias' = RemoveAt(ideias, k)
      /\ UNCHANGED <<saldo, pedido, fase, compra, tomada>>
  BY DEF ApagarIdeia
<1>2. /\ RefinaInv' /\ (visto.saldo)' = saldo'
      /\ PosseDeLista(visto.ideias)' = PosseDeLista(ideias')
      /\ visto.saldo = saldo /\ visto.ideias = ideias
      /\ TypeOK /\ IdsUnicosEm(ideias) /\ IdsUnicosEm(ideias')
  BY <1>1, RefinaUmPasso
<1>3. PosseDe(A)[u].perc = A[j].perc
  BY <1>1, AccaoDe
<1>4. id \in DOMAIN P /\ P[id] = PosseDe(A)
  BY <1>2, PosseDeListaEm
<1>. HIDE DEF A
<1>5. /\ DOMAIN ideias' = 1..(Len(ideias) - 1) /\ DOMAIN ideias = 1..Len(ideias)
      /\ Len(ideias) \in Nat /\ k \in 1..Len(ideias)
      /\ \A l \in 1..(Len(ideias) - 1) :
           ideias'[l] = IF l < k THEN ideias[l] ELSE ideias[l + 1]
  BY <1>1, <1>2, RemoveAtLista, LenProperties DEF TypeOK
<1>6. \A l \in DOMAIN ideias' : g(l) \in DOMAIN ideias \ {k} /\ ideias'[l] = ideias[g(l)]
  BY <1>5
<1>7. \A n \in DOMAIN ideias \ {k} : \E l \in DOMAIN ideias' : g(l) = n
  <2>. SUFFICES ASSUME NEW n \in DOMAIN ideias \ {k}
                PROVE  \E l \in DOMAIN ideias' : g(l) = n
    OBVIOUS
  <2>1. CASE n < k
    BY <1>5, <2>1
  <2>2. CASE n > k
    <3>1. n - 1 \in DOMAIN ideias' /\ g(n - 1) = n
      BY <1>5, <2>2
    <3>. QED BY <3>1
  <2>. QED BY <1>5, <2>1, <2>2
<1>. HIDE DEF g
<1>8. DOMAIN P = {ideias[n].id : n \in DOMAIN ideias}
  BY DEF PosseDeLista
<1>9. \A n \in DOMAIN ideias \ {k} :
        /\ ideias[n].id # id /\ ideias[n].id \in DOMAIN P
        /\ P[ideias[n].id] = PosseDe(ideias[n].accoes)
  BY <1>2, PosseDeListaEm DEF IdsUnicosEm
<1>. HIDE DEF P
<1>10. DOMAIN f = {ideias'[l].id : l \in DOMAIN ideias'}
  <2>1. \A i \in DOMAIN f : \E l \in DOMAIN ideias' : i = ideias'[l].id
    BY <1>6, <1>7, <1>8
  <2>2. \A l \in DOMAIN ideias' : ideias'[l].id \in DOMAIN f
    BY <1>6, <1>9
  <2>. HIDE DEF f
  <2>. QED BY <2>1, <2>2
<1>11. \A l \in DOMAIN ideias' : f[ideias'[l].id] = PosseDe(ideias'[l].accoes)
  BY <1>6, <1>9
<1>12. PosseDeLista(ideias') = f
  <2>1. f = [i \in DOMAIN f |-> f[i]]
    OBVIOUS
  <2>. HIDE DEF f
  <2>. QED BY <1>2, <1>10, <1>11, <2>1, PosseDeListaQual
<1>13. M!Apagar(u, id)
  BY <1>1, <1>2, <1>3, <1>4, <1>12 DEF M!Apagar, P
<1>14. M!Next
  BY <1>2, <1>4, <1>13 DEF M!Next, P
<1>. QED BY <1>2, <1>14

-----------------------------------------------------------------------------
\* Every step is one of Mercado's, or leaves its variables as they are.

\* The server starts where Mercado may start.
LEMMA RefinaInit == Init => RefinaInv /\ M!Init
<1>. SUFFICES ASSUME Init PROVE RefinaInv /\ M!Init
  OBVIOUS
<1>1. /\ ideias \in Carregados /\ ListaValida(ideias) /\ fase = "livre"
      /\ tomada = SemTomada /\ pedido = [u \in Utilizadores |-> SemPedido]
      /\ saldo = [u \in Utilizadores |-> SaldoInicial]
      /\ visto = [saldo |-> saldo, ideias |-> ideias]
  BY CarregadosAssumption DEF Init
<1>2. visto.saldo = saldo /\ visto.ideias = ideias
  BY <1>1
<1>3. RefinaInv
  BY <1>1, <1>2
     DEF RefinaInv, VistoValido, PedidosCertos, TomadaCerta, CompraCerta, SemPedido
<1>4. M!Init
  BY <1>1, <1>2 DEF M!Init
<1>. QED BY <1>3, <1>4

\* The steps of a purchase: only its last is one of Mercado's.
LEMMA RefinaPassoCompra ==
  ASSUME Tudo, RefinaInv, Tudo', ~Concorrente, PassoCompra
  PROVE  RefinaInv' /\ (M!Next \/ visto' = visto)
<1>1. ASSUME NEW u \in Utilizadores, RecusarCompra(u) \/ IniciarCompra(u)
      PROVE  RefinaInv' /\ visto' = visto
  BY <1>1, RefinaRecusar, RefinaIniciar
<1>2. ASSUME NEW i \in 1..compra.naccoes, Selecionar(i)
      PROVE  RefinaInv' /\ visto' = visto
  BY <1>2, RefinaSelecionar
<1>3. CASE SelecionarFalha \/ InvestimentoInsuficiente \/ PagarFalha
  BY <1>3, RefinaDesistir
<1>4. CASE VerificarInvestimento
  BY <1>4, RefinaVerificar
<1>5. CASE Pagar
  BY <1>5, RefinaPagar
<1>6. ASSUME NEW m \in Posicoes, Transferir(m) \/ EliminarAccao(m)
      PROVE  RefinaInv' /\ visto' = visto
  <2>1. m \in Nat
    BY <1>6, PosicoesTipo DEF Tudo
  <2>. QED BY <1>6, <2>1, RefinaTransferir, RefinaEliminar
<1>7. CASE EliminarFim
  BY <1>7, RefinaEliminarFim
<1>8. ~EliminarFalha /\ ~IdeiaPerdida /\ \A m \in Posicoes : ~TransferirFalha(m)
  BY PosicoesTipo, SoFalhaAntes DEF Tudo
<1>9. CASE TerminarCompra
  BY <1>9, RefinaTerminar
<1>. QED BY <1>1, <1>2, <1>3, <1>4, <1>5, <1>6, <1>7, <1>8, <1>9 DEF PassoCompra

\* Every step of the server, at once.
LEMMA RefinaNext ==
  ASSUME ~Concorrente, Tudo, RefinaInv, Tudo', [Next]_vars
  PROVE  RefinaInv' /\ (M!Next \/ visto' = visto)
<1>1. CASE Pedir
  BY <1>1, RefinaPedir
<1>2. CASE PassoCompra
  BY <1>2, RefinaPassoCompra
<1>3. CASE Editar
  BY <1>3, RefinaEditar DEF Editar
<1>4. CASE CriarApagar
  BY <1>4, RefinaCriar, RefinaApagar DEF CriarApagar
<1>5. CASE Tomar
  BY <1>5, RefinaIniciarTomada DEF Tomar
<1>6. CASE PassoTomada
  BY <1>6, RefinaPagarTitular, RefinaConcluirTomada, RefinaTomadaFalha DEF PassoTomada
<1>7. CASE UNCHANGED vars
  <2>1. UNCHANGED <<saldo, ideias, pedido, fase, compra, tomada>> /\ visto' = visto
    BY <1>7 DEF vars
  <2>2. Sossego => visto = [saldo |-> saldo, ideias |-> ideias]
    BY DEF Tudo, SerieInv, Historia
  <2>3. Olhar /\ PedidosCertos'
    BY <2>1, <2>2 DEF Olhar, Sossego, RefinaInv, PedidosCertos
  <2>. QED BY <2>1, <2>3, RefinaManter
<1>. QED BY <1>1, <1>2, <1>3, <1>4, <1>5, <1>6, <1>7 DEF Next

\* When calls reach the server one at a time, each operation that ends did what
\* Mercado says, at once, and each that failed did nothing: the purchase of
\* efectuarcompra (IdeiaImpl.java, lines 685-1040), lot by lot over a list,
\* buys what was asked for at the least cost and pays every seller; criarideia,
\* EditarAccao, ApagarIdeia and takeover, by position, are those of Mercado.
THEOREM ImplementaMercadoEmSerie ==
  ASSUME ~Concorrente
  PROVE  Spec => ImplementaMercado
<1>1. Spec => []Tudo
  BY SerieSempre, TypeCorrect, UmaAccaoPorDonoSempre, PTL DEF Tudo
<1>2. Init => RefinaInv /\ M!Init
  BY RefinaInit
<1>3. Tudo /\ Tudo' /\ RefinaInv /\ [Next]_vars => RefinaInv' /\ [M!Next]_(M!mercado)
  BY RefinaNext, MercadoIgual
<1>. QED BY <1>1, <1>2, <1>3, PTL DEF Spec, ImplementaMercado, M!Spec
=============================================================================
