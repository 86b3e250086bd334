---------------------------- MODULE OutrosProofs ----------------------------
(***************************************************************************)
(* Proofs about the three components that are tied to the others only by   *)
(* what they serve: SessaoWeb, VistaPrecos and Anexos.                     *)
(*                                                                         *)
(* SessaoWeb.  While nobody logged in after a browser but with a password  *)
(* it knows, the name in the ServletContext is one of its own, and what    *)
(* its request then reads stays so: the facts that tie the context, the    *)
(* request and the session together (Ida).                                 *)
(*                                                                         *)
(* VistaPrecos.  A page that is not spoilt and is up has a row that is     *)
(* good, or the last two messages on the way to it are "clear" and a row   *)
(* that is good: it says what its idea has, or its idea has an update that *)
(* waits (VPagina).                                                        *)
(*                                                                         *)
(* Anexos.  A thread that accepted a client never wrote more than it sent, *)
(* and nobody else writes what it wrote (ALigada); while uploads take      *)
(* turns only one is under way, so the connection a thread accepts is that *)
(* of its own client (AVez).                                               *)
(***************************************************************************)
EXTENDS SessaoWeb, VistaPrecos, Anexos, SequenceTheorems, TLAPS
-----------------------------------------------------------------------------
(* The web session. *)

\* The context is of a browser since whose login no other user logged in; what the
\* request of one that was not overtaken read is its own.
Ida ==
  /\ \A n \in Navegadores \ semVez : contexto \in senhas[n]
  /\ \A n \in troca \ ultrapassados : nome[n] \in senhas[n]

IInv == TypeOK /\ Ida /\ SessaoDeQuemEntrou /\ AcessoDoProprio

\* At the start nobody is on the way, and no name and no token is stored.
LEMMA Inicio == ASSUME Ninguem \notin Utilizadores PROVE Init => IInv
  BY DEF Init, IInv, TypeOK, Ida, SessaoDeQuemEntrou, AcessoDoProprio, Nomes

\* Every step keeps the tie.
LEMMA PassoMantem ==
  ASSUME Ninguem \notin Utilizadores, IInv, [Next]_vars
  PROVE  IInv'
<1> USE DEF IInv, TypeOK, Ida, SessaoDeQuemEntrou, AcessoDoProprio, Nomes
<1>1. ASSUME NEW n \in Navegadores, NEW u \in Utilizadores, Entrar(n, u) PROVE IInv'
  BY <1>1 DEF Entrar, DarSenha
<1>2. ASSUME NEW n \in Navegadores, Voltar(n) PROVE IInv'
  BY <1>2 DEF Voltar, Retomar
<1>3. ASSUME NEW n \in Navegadores, Recusar(n) PROVE IInv'
  BY <1>3 DEF Recusar, Retomar
<1>4. ASSUME NEW n \in Navegadores, Guardar(n) PROVE IInv'
  BY <1>4 DEF Guardar
<1>5. ASSUME NEW n \in Navegadores, Sair(n) PROVE IInv'
  BY <1>5 DEF Sair
<1>6. ASSUME NEW n \in Navegadores, TrocaFalha(n) PROVE IInv'
  BY <1>6 DEF TrocaFalha
<1>7. CASE UNCHANGED vars
  BY <1>7 DEF vars
<1>8. QED
  BY <1>1, <1>2, <1>3, <1>4, <1>5, <1>6, <1>7 DEF Next

\* The variables have their types, and a request that exchanges a code has read a
\* name (lines 45 to 63 of FacebookServlet).
THEOREM TypeCorrect == Spec => []TypeOK
<1>1. Init => IInv
  BY ConstantesAssumption, Inicio
<1>2. IInv /\ [Next]_vars => IInv'
  BY ConstantesAssumption, PassoMantem
<1>3. IInv => TypeOK
  BY DEF IInv
<1>4. QED
  BY <1>1, <1>2, <1>3, PTL DEF Spec

\* Line 79 of IdeaBrokerServlet and line 45 of FacebookServlet: for any number of
\* browsers, users and requests in any order, a session is of a user whose password
\* its browser gave, unless the browser asked for FacebookServlet without a login of
\* its own since another user logged in.
THEOREM SessaoCerta == Spec => []SessaoDeQuemEntrou
<1>1. Init => IInv
  BY ConstantesAssumption, Inicio
<1>2. IInv /\ [Next]_vars => IInv'
  BY ConstantesAssumption, PassoMantem
<1>3. IInv => SessaoDeQuemEntrou
  BY DEF IInv
<1>4. QED
  BY <1>1, <1>2, <1>3, PTL DEF Spec

\* Line 63 of FacebookServlet: a token stored with a user is of the account of a
\* browser that gave that user's password, unless the browser asked so.
THEOREM AcessoCerto == Spec => []AcessoDoProprio
<1>1. Init => IInv
  BY ConstantesAssumption, Inicio
<1>2. IInv /\ [Next]_vars => IInv'
  BY ConstantesAssumption, PassoMantem
<1>3. IInv => AcessoDoProprio
  BY DEF IInv
<1>4. QED
  BY <1>1, <1>2, <1>3, PTL DEF Spec
-----------------------------------------------------------------------------
(* The page of the prices of an idea. *)

\* A row of page p is good: it says what the page's idea has, unless the update of
\* that idea is still to be sent.
VBoa(p, l) ==
  /\ l \in Linhas /\ l[1] = vista[p].ideia
  /\ avisar # <<vista[p].ideia>> => l[2] = accoes[vista[p].ideia]

VTipos ==
  /\ accoes \in [Ideias -> 0..MaxCompras]
  /\ avisar \in {<<>>} \cup {<<i>> : i \in Ideias}
  /\ vista \in [Paginas -> [pedido : {"fechada", "pedida", "respondida", "feita"},
                           socket : BOOLEAN, ideia : {<<>>} \cup Ideias,
                           resposta : {<<>>} \cup Linhas]]
  /\ fila \in [Paginas -> Seq({Limpar} \cup Linhas)]
  /\ tabela \in [Paginas -> Seq(Linhas)]
  /\ estragada \subseteq Paginas

\* What a page may have, spoilt or not.
VBase(p) ==
  /\ vista[p].pedido # "fechada" => vista[p].ideia \in Ideias
  /\ vista[p].pedido = "respondida" => vista[p].resposta \in Linhas
  /\ fila[p] # <<>> => vista[p].socket
  /\ vista[p].pedido = "fechada" =>
       fila[p] = <<>> /\ tabela[p] = <<>> /\ ~vista[p].socket /\ p \notin estragada

\* A page that is coming up and was not spoilt: nothing came, and what it read is
\* good.
VSubir(p) ==
  /\ fila[p] = <<>>
  /\ vista[p].pedido \in {"pedida", "respondida"} => tabela[p] = <<>>
  /\ vista[p].pedido = "respondida" => VBoa(p, vista[p].resposta)
  /\ vista[p].pedido = "feita" => Len(tabela[p]) = 1 /\ VBoa(p, tabela[p][1])

\* A page that is up and was not spoilt: its row is good, or the last row that comes
\* is, and it comes to an empty table.
VCima(p) ==
  /\ Len(fila[p]) = 0 => Len(tabela[p]) = 1 /\ VBoa(p, tabela[p][1])
  /\ Len(fila[p]) = 1 => tabela[p] = <<>>
  /\ Len(fila[p]) > 0 => VBoa(p, fila[p][Len(fila[p])])
  /\ Len(fila[p]) > 1 => fila[p][Len(fila[p]) - 1] = Limpar

VPagina(p) ==
  vista[p].pedido # "fechada" /\ p \notin estragada =>
    (Pronta(p) /\ VCima(p)) \/ (~Pronta(p) /\ VSubir(p))

VInv == VTipos /\ \A p \in Paginas : VBase(p) /\ VPagina(p)

\* At the start every page is closed.
LEMMA VInicio == ASSUME MaxCompras \in Nat PROVE InitVista => VInv
  BY DEF InitVista, VInv, VTipos, VBase, VPagina, SemVista, Linhas

\* A row is not the message that deletes the rows.
LEMMA VLinhaNaoLimpa == \A l \in Linhas : l # Limpar
<1> SUFFICES ASSUME NEW l \in Linhas PROVE l # Limpar
  OBVIOUS
<1>1. Len(l) = 2 /\ Len(Limpar) = 1
  BY DEF Linhas, Limpar
<1>2. QED
  BY <1>1

\* The two parts of a pair.
LEMMA VPar == ASSUME NEW a, NEW b, NEW l, l = <<a, b>> PROVE l[1] = a /\ l[2] = b
  OBVIOUS

\* What is left of a sequence after its first element.
LEMMA VCauda ==
  ASSUME NEW S, NEW s \in Seq(S), s # <<>>
  PROVE  /\ Len(Tail(s)) = Len(s) - 1 /\ Len(s) > 0 /\ Len(s) \in Nat
         /\ \A k \in 1..Len(Tail(s)) : Tail(s)[k] = s[k + 1]
  BY HeadTailProperties, LenProperties, EmptySeq

\* What a page is owed does not change while it and its idea's holdings stay as
\* they are.
LEMMA VPaginaFica ==
  ASSUME NEW p \in Paginas, VBase(p), VPagina(p),
         vista'[p] = vista[p], fila'[p] = fila[p], tabela'[p] = tabela[p],
         p \in estragada <=> p \in estragada',
         vista[p].pedido # "fechada" /\ p \notin estragada =>
           \/ accoes'[vista[p].ideia] = accoes[vista[p].ideia]
                /\ (avisar = <<vista[p].ideia>> => avisar' = <<vista[p].ideia>>)
           \/ avisar' = <<vista[p].ideia>>
  PROVE  VBase(p)' /\ VPagina(p)'
<1>1. \A l : vista[p].pedido # "fechada" /\ p \notin estragada /\ VBoa(p, l) => VBoa(p, l)'
  BY DEF VBoa, Linhas
<1>2. Pronta(p)' <=> Pronta(p)
  BY DEF Pronta
<1>3. VBase(p)'
  BY DEF VBase, Linhas
<1>4. ASSUME vista[p].pedido # "fechada", p \notin estragada, VSubir(p) PROVE VSubir(p)'
  BY <1>1, <1>4 DEF VSubir
<1>5. ASSUME vista[p].pedido # "fechada", p \notin estragada, VCima(p) PROVE VCima(p)'
  BY <1>1, <1>5 DEF VCima, Limpar
<1>6. QED
  BY <1>2, <1>3, <1>4, <1>5 DEF VPagina

\* A page that is opened.
LEMMA VAbrir ==
  ASSUME MaxCompras \in Nat, VInv, NEW q \in Paginas, NEW i \in Ideias, AbrirVista(q, i)
  PROVE  VInv'
<1> USE DEF AbrirVista
<1>1. VTipos'
  BY DEF VInv, VTipos, Linhas
<1>2. ASSUME NEW p \in Paginas, p # q PROVE VBase(p)' /\ VPagina(p)'
  BY <1>2, VPaginaFica DEF VInv, VTipos
<1>3. vista'[q] = [vista[q] EXCEPT !.pedido = "pedida", !.ideia = i]
  BY DEF VInv, VTipos
<1>4. VBase(q)' /\ VPagina(q)'
  BY <1>3 DEF VInv, VTipos, VBase, VPagina, VSubir, Pronta, Linhas
<1>5. QED
  BY <1>1, <1>2, <1>4 DEF VInv

\* The holdings are read: they are those of the page's idea.
LEMMA VPesquisar ==
  ASSUME MaxCompras \in Nat, VInv, NEW q \in Paginas, Pesquisar(q)
  PROVE  VInv'
<1>1. vista[q].ideia \in Ideias
  BY DEF VInv, VBase, Pesquisar
<1>2. <<vista[q].ideia, accoes[vista[q].ideia]>> \in Linhas
  BY <1>1 DEF VInv, VTipos, Linhas
<1>3. VTipos'
  BY <1>2 DEF VInv, VTipos, Linhas, Pesquisar
<1>4. ASSUME NEW p \in Paginas, p # q PROVE VBase(p)' /\ VPagina(p)'
  BY <1>4, VPaginaFica DEF VInv, VTipos, Pesquisar
<1>5. vista'[q] = [vista[q] EXCEPT !.pedido = "respondida",
                     !.resposta = <<vista[q].ideia, accoes[vista[q].ideia]>>]
        /\ UNCHANGED <<accoes, avisar, fila, tabela, estragada>>
        /\ vista[q].pedido = "pedida"
  BY DEF VInv, VTipos, Pesquisar
<1>6. vista'[q].pedido = "respondida" /\ vista'[q].ideia = vista[q].ideia
        /\ vista'[q].socket = vista[q].socket
        /\ vista'[q].resposta = <<vista[q].ideia, accoes[vista[q].ideia]>>
  BY <1>5 DEF VInv, VTipos
<1>7. VBase(q)'
  BY <1>1, <1>2, <1>5, <1>6 DEF VInv, VBase, Linhas
<1>8. VBoa(q, vista[q].resposta)'
  <2>1. vista'[q].resposta[1] = vista'[q].ideia
          /\ vista'[q].resposta[2] = accoes'[vista'[q].ideia]
    BY <1>5, <1>6, VPar
  <2>2. vista'[q].resposta \in Linhas
    BY <1>2, <1>6
  <2>3. QED
    BY <2>1, <2>2 DEF VBoa, Linhas
<1>9. q \notin estragada => VSubir(q)'
  BY <1>5, <1>6, <1>8 DEF VInv, VSubir, VPagina, Pronta
<1>10. QED
  BY <1>3, <1>4, <1>5, <1>6, <1>7, <1>9 DEF VInv, VPagina, Pronta

\* The answer is appended to the table: of a page that was not spoilt it is empty.
LEMMA VMostrar ==
  ASSUME MaxCompras \in Nat, VInv, NEW q \in Paginas, Mostrar(q)
  PROVE  VInv'
<1> USE DEF Mostrar
<1>1. vista[q].resposta \in Linhas /\ vista[q].ideia \in Ideias
  BY DEF VInv, VBase
<1>2. tabela'[q] = Append(tabela[q], vista[q].resposta) /\ fila' = fila
        /\ tabela'[q] \in Seq(Linhas)
  BY <1>1 DEF VInv, VTipos
<1>3. VTipos'
  BY <1>1, <1>2 DEF VInv, VTipos, Linhas
<1>4. ASSUME NEW p \in Paginas, p # q PROVE VBase(p)' /\ VPagina(p)'
  BY <1>4, VPaginaFica DEF VInv, VTipos
<1>5. vista'[q].pedido = "feita" /\ vista'[q].ideia = vista[q].ideia
        /\ vista'[q].socket = vista[q].socket
  BY DEF VInv, VTipos
<1>6. VBase(q)'
  BY <1>1, <1>5 DEF VInv, VBase
<1>7. ASSUME q \notin estragada
      PROVE  Len(tabela'[q]) = 1 /\ VBoa(q, tabela[q][1])' /\ fila'[q] = <<>>
  <2>1. VSubir(q)
    BY <1>7 DEF VInv, VPagina, Pronta
  <2>2. tabela[q] = <<>> /\ fila[q] = <<>> /\ VBoa(q, vista[q].resposta)
    BY <2>1 DEF VSubir
  <2>3. Len(tabela'[q]) = 1 /\ tabela'[q][1] = vista[q].resposta
    BY <1>2, <2>2
  <2>4. QED
    BY <1>5, <2>2, <2>3 DEF VBoa, Linhas
<1>8. q \notin estragada => VSubir(q)' /\ VCima(q)'
  BY <1>5, <1>7 DEF VSubir, VCima
<1>9. QED
  BY <1>3, <1>4, <1>6, <1>8 DEF VInv, VPagina

\* The socket of a page opens.
LEMMA VLigar ==
  ASSUME MaxCompras \in Nat, VInv, NEW q \in Paginas, LigarSocket(q)
  PROVE  VInv'
<1> USE DEF LigarSocket
<1>1. VTipos'
  BY DEF VInv, VTipos, Linhas
<1>2. ASSUME NEW p \in Paginas, p # q PROVE VBase(p)' /\ VPagina(p)'
  BY <1>2, VPaginaFica DEF VInv, VTipos
<1>3. vista'[q].pedido = vista[q].pedido /\ vista'[q].ideia = vista[q].ideia
        /\ vista'[q].socket /\ vista'[q].resposta = vista[q].resposta
  BY DEF VInv, VTipos
<1>4. VBase(q)'
  BY <1>3 DEF VInv, VBase, Linhas
<1>5. ASSUME q \notin estragada PROVE VSubir(q)' /\ (vista[q].pedido = "feita" => VCima(q)')
  <2>1. VSubir(q)
    BY <1>5 DEF VInv, VPagina, Pronta
  <2>2. \A l : VBoa(q, l) => VBoa(q, l)'
    BY <1>3 DEF VBoa, Linhas
  <2>3. QED
    BY <1>3, <2>1, <2>2 DEF VSubir, VCima
<1>6. QED
  BY <1>1, <1>2, <1>3, <1>4, <1>5 DEF VInv, VPagina, Pronta

\* A message comes to a page: "clear" empties the table, and the row after it is
\* appended to an empty one.
LEMMA VReceber ==
  ASSUME MaxCompras \in Nat, VInv, NEW q \in Paginas, Receber(q)
  PROVE  VInv'
<1>1. fila[q] \in Seq({Limpar} \cup Linhas) /\ tabela[q] \in Seq(Linhas) /\ fila[q] # <<>>
  BY DEF VInv, VTipos, Receber
<1>2. fila'[q] = Tail(fila[q]) /\ tabela'[q] = ComMensagem(tabela[q], Head(fila[q]))
        /\ UNCHANGED <<accoes, avisar, vista, estragada>>
  BY DEF VInv, VTipos, Receber
<1>3. Head(fila[q]) \in {Limpar} \cup Linhas
        /\ fila'[q] \in Seq({Limpar} \cup Linhas)
  BY <1>1, <1>2
<1>4. tabela'[q] \in Seq(Linhas)
  BY <1>1, <1>2, <1>3 DEF ComMensagem
<1>5. VTipos'
  BY <1>3, <1>4 DEF VInv, VTipos, Linhas, Limpar, Receber
<1>6. ASSUME NEW p \in Paginas, p # q PROVE VBase(p)' /\ VPagina(p)'
  BY <1>6, VPaginaFica DEF VInv, VTipos, Receber
<1>7. VBase(q)'
  BY <1>1, <1>2 DEF VInv, VBase, Linhas
<1>8. ASSUME q \notin estragada PROVE Pronta(q) /\ VCima(q)'
  <2>1. vista[q].pedido # "fechada"
    BY <1>1 DEF VInv, VBase
  <2>2. Pronta(q) /\ VCima(q)
    BY <1>1, <1>8, <2>1 DEF VInv, VPagina, VSubir
  <2>3. \A l : VBoa(q, l)' <=> VBoa(q, l)
    BY <1>2 DEF VBoa, Linhas
  <2>4. Len(fila'[q]) = Len(fila[q]) - 1 /\ Len(fila[q]) > 0 /\ Len(fila[q]) \in Nat
    BY <1>1, <1>2, VCauda
  <2>5. \A k \in 1..Len(fila'[q]) : fila'[q][k] = fila[q][k + 1]
    BY <1>1, <1>2, VCauda
  <2>6. CASE Len(fila[q]) = 1
    <3>1. tabela[q] = <<>> /\ VBoa(q, fila[q][1]) /\ Head(fila[q]) = fila[q][1]
      BY <1>1, <2>2, <2>6 DEF VCima
    <3>2. Head(fila[q]) \in Linhas /\ Head(fila[q]) # Limpar
      BY <3>1, VLinhaNaoLimpa DEF VBoa
    <3>3. tabela'[q] = <<Head(fila[q])>>
      BY <1>2, <3>1, <3>2 DEF ComMensagem
    <3>4. QED
      <4>1. Len(fila'[q]) = 0
        BY <2>4, <2>6
      <4>2. Len(tabela'[q]) = 1 /\ tabela'[q][1] = fila[q][1]
        BY <3>1, <3>3
      <4>3. VBoa(q, tabela[q][1])'
        BY <2>3, <3>1, <4>2
      <4>4. QED
        BY <2>2, <4>1, <4>2, <4>3 DEF VCima
  <2>7. CASE Len(fila[q]) = 2
    <3>1. fila[q][1] = Limpar /\ VBoa(q, fila[q][2])
      BY <2>2, <2>7 DEF VCima
    <3>2. tabela'[q] = <<>>
      BY <1>1, <1>2, <3>1 DEF ComMensagem
    <3>3. QED
      BY <2>3, <2>4, <2>5, <2>7, <3>1, <3>2, <2>2 DEF VCima
  <2>8. CASE Len(fila[q]) > 2
    <3>1. fila[q][Len(fila[q]) - 1] = Limpar /\ VBoa(q, fila[q][Len(fila[q])])
      BY <2>2, <2>8 DEF VCima
    <3>2. fila'[q][Len(fila'[q])] = fila[q][Len(fila[q])]
            /\ fila'[q][Len(fila'[q]) - 1] = fila[q][Len(fila[q]) - 1]
      BY <1>1, <1>3, <2>4, <2>5, <2>8
    <3>3. QED
      BY <1>1, <2>3, <2>4, <2>8, <3>1, <3>2, <2>2 DEF VCima, Limpar
  <2>9. QED
    <3>1. \A n \in Nat : n > 0 => n = 1 \/ n = 2 \/ n > 2
      OBVIOUS
    <3>2. Len(fila[q]) = 1 \/ Len(fila[q]) = 2 \/ Len(fila[q]) > 2
      BY <2>4, <3>1
    <3>3. QED
      BY <2>6, <2>7, <2>8, <3>2
<1>9. QED
  BY <1>2, <1>5, <1>6, <1>7, <1>8 DEF VInv, VPagina, Pronta

\* A page that is closed keeps nothing.
LEMMA VFechar ==
  ASSUME MaxCompras \in Nat, VInv, NEW q \in Paginas, FecharVista(q)
  PROVE  VInv'
<1> USE DEF FecharVista
<1>1. VTipos'
  BY DEF VInv, VTipos, Linhas, SemVista, Limpar
<1>2. ASSUME NEW p \in Paginas, p # q PROVE VBase(p)' /\ VPagina(p)'
  BY <1>2, VPaginaFica DEF VInv, VTipos
<1>3. vista'[q] = SemVista /\ fila'[q] = <<>> /\ tabela'[q] = <<>> /\ q \notin estragada'
  BY DEF VInv, VTipos
<1>4. VBase(q)' /\ VPagina(q)'
  BY <1>3 DEF VBase, VPagina, SemVista, Linhas
<1>5. QED
  BY <1>1, <1>2, <1>4 DEF VInv

\* A purchase: the rows of its idea are to be replaced, those of the others stay
\* good.
LEMMA VComprar ==
  ASSUME MaxCompras \in Nat, VInv, NEW i \in Ideias, Comprar(i)
  PROVE  VInv'
<1>0. /\ avisar = <<>> /\ accoes[i] < MaxCompras
      /\ accoes' = [accoes EXCEPT ![i] = @ + 1] /\ avisar' = <<i>>
      /\ UNCHANGED <<vista, fila, tabela, estragada>>
  BY DEF Comprar
<1>1. VTipos'
  BY <1>0 DEF VInv, VTipos, Linhas
<1>2. ASSUME NEW p \in Paginas PROVE VBase(p)' /\ VPagina(p)'
  <2>1. vista[p].pedido # "fechada" =>
          accoes'[vista[p].ideia] = accoes[vista[p].ideia] \/ avisar' = <<vista[p].ideia>>
    BY <1>0, <1>2 DEF VInv, VTipos, VBase
  <2>2. QED
    BY <1>0, <1>2, <2>1, VPaginaFica DEF VInv
<1>3. QED
  BY <1>1, <1>2 DEF VInv

\* The update of an idea, as far as it gets: a page of that idea that is up and gets it
\* ends with "clear" and the holdings as they are; one that is spoilt by it is owed
\* nothing; the rest do not see it.
LEMMA VEnviar ==
  ASSUME MaxCompras \in Nat, VInv, NEW D \in SUBSET Destinos, avisar # <<>>,
         Enviar(avisar[1], D)
  PROVE  VInv'
<1> USE DEF Enviar
<1>1. PICK i \in Ideias : avisar = <<i>>
  BY DEF VInv, VTipos
<1>2. avisar[1] = i /\ <<i, accoes[i]>> \in Linhas /\ avisar' = <<>>
  BY <1>1 DEF VInv, VTipos, Linhas
<1> DEFINE novas == <<Limpar, <<i, accoes[i]>>>>
<1>3. novas \in Seq({Limpar} \cup Linhas) /\ Len(novas) = 2
        /\ novas[1] = Limpar /\ novas[2] = <<i, accoes[i]>>
  BY <1>2
<1>4. /\ \A p \in Paginas : fila'[p] = IF p \in D THEN fila[p] \o novas ELSE fila[p]
      /\ \A p \in D : vista[p].socket
  BY <1>2 DEF Destinos
<1>5. \A p \in Paginas : fila'[p] \in Seq({Limpar} \cup Linhas)
  <2> SUFFICES ASSUME NEW p \in Paginas PROVE fila'[p] \in Seq({Limpar} \cup Linhas)
    OBVIOUS
  <2>1. fila[p] \in Seq({Limpar} \cup Linhas)
    BY DEF VInv, VTipos
  <2>2. fila[p] \o novas \in Seq({Limpar} \cup Linhas)
    BY <1>3, <2>1, ConcatProperties
  <2>3. QED
    BY <1>4, <2>1, <2>2
<1>6. VTipos'
  BY <1>2, <1>5 DEF VInv, VTipos, Linhas, Limpar
<1>7. ASSUME NEW p \in Paginas PROVE VBase(p)' /\ VPagina(p)'
  <2>1. p \in estragada' <=> (p \in estragada /\ ~Arranja(p, i, D)) \/ Estraga(p, i, D)
    BY <1>2, <1>7 DEF VInv, VTipos
  <2>2. VBase(p)'
    BY <1>4, <1>7, <2>1
    DEF VInv, VBase, Arranja, Estraga, Mostra, Linhas
  <2>3. CASE vista[p].pedido # "fechada" /\ vista[p].ideia = i /\ Pronta(p) /\ p \in D
    <3>1. fila'[p] = fila[p] \o novas /\ fila[p] \in Seq({Limpar} \cup Linhas)
      BY <1>4, <1>7, <2>3 DEF VInv, VTipos
    <3>2. Len(fila'[p]) = Len(fila[p]) + 2 /\ Len(fila[p]) \in Nat
      BY <1>3, <3>1
    <3>3. fila'[p][Len(fila'[p])] = <<i, accoes[i]>>
            /\ fila'[p][Len(fila'[p]) - 1] = Limpar
      BY <1>3, <3>1, <3>2
    <3>4. VBoa(p, fila[p][Len(fila[p])])'
      BY <1>2, <2>3, <3>3 DEF VBoa, Linhas
    <3>5. VCima(p)'
      BY <3>2, <3>3, <3>4 DEF VCima, Limpar
    <3>6. QED
      BY <2>2, <2>3, <3>5 DEF VPagina, Pronta
  <2>4. CASE vista[p].pedido # "fechada" /\ vista[p].ideia = i /\ ~(Pronta(p) /\ p \in D)
    BY <2>1, <2>2, <2>4 DEF VPagina, Estraga, Mostra
  <2>5. CASE vista[p].pedido # "fechada" /\ vista[p].ideia # i /\ p \in D
    BY <1>7, <2>1, <2>2, <2>5 DEF VPagina, Estraga, Mostra
  <2>6. CASE vista[p].pedido # "fechada" /\ vista[p].ideia # i /\ p \notin D
    <3>1. p \in estragada' <=> p \in estragada
      BY <1>7, <2>1, <2>6 DEF Estraga, Arranja, Mostra
    <3>2. fila'[p] = fila[p] /\ avisar # <<vista[p].ideia>>
      BY <1>1, <1>2, <1>4, <1>7, <2>6
    <3>3. QED
      BY <1>7, <3>1, <3>2, VPaginaFica DEF VInv
  <2>7. CASE vista[p].pedido = "fechada"
    BY <2>2, <2>7 DEF VPagina
  <2>8. QED
    BY <2>3, <2>4, <2>5, <2>6, <2>7
<1>8. QED
  BY <1>6, <1>7 DEF VInv

\* Every step keeps what the pages are owed.
LEMMA VPasso == ASSUME MaxCompras \in Nat, VInv, [NextVista]_varsVista PROVE VInv'
<1>1. CASE ActualizarPrecos \/ AvisoFalha
  <2>1. PICK D \in SUBSET Destinos : avisar # <<>> /\ Enviar(avisar[1], D)
    BY <1>1 DEF ActualizarPrecos, AvisoFalha
  <2>2. QED
    BY <2>1, VEnviar
<1>2. ASSUME NEW p \in Paginas, PassoPagina(p) PROVE VInv'
  BY <1>2, VPesquisar, VMostrar, VLigar DEF PassoPagina
<1>3. ASSUME NEW p \in Paginas, Receber(p) PROVE VInv'
  BY <1>3, VReceber
<1>4. ASSUME NEW p \in Paginas, FecharVista(p) PROVE VInv'
  BY <1>4, VFechar
<1>5. ASSUME NEW p \in Paginas, NEW i \in Ideias, AbrirVista(p, i) PROVE VInv'
  BY <1>5, VAbrir
<1>6. ASSUME NEW i \in Ideias, Comprar(i) PROVE VInv'
  BY <1>6, VComprar
<1>7. CASE UNCHANGED varsVista
  <2>1. ASSUME NEW p \in Paginas PROVE VBase(p)' /\ VPagina(p)'
    BY <1>7, <2>1, VPaginaFica DEF VInv, varsVista
  <2>2. VTipos'
    BY <1>7 DEF VInv, VTipos, varsVista, Linhas, Limpar
  <2>3. QED
    BY <2>1, <2>2 DEF VInv
<1>8. QED
  BY <1>1, <1>2, <1>3, <1>4, <1>5, <1>6, <1>7 DEF NextVista

\* bolsa.jsp: the state of the pages has its types, and only a page whose socket is
\* open is sent messages.
THEOREM VistaTipos == SpecVista => []TypeOKVista
<1>1. InitVista => VInv
  BY ConstantesVista, VInicio
<1>2. VInv /\ [NextVista]_varsVista => VInv'
  BY ConstantesVista, VPasso
<1>3. VInv => TypeOKVista
  BY DEF VInv, VTipos, VBase, TypeOKVista
<1>4. QED
  BY <1>1, <1>2, <1>3, PTL DEF SpecVista

\* Lines 58 and 165 of bolsa.jsp: for any number of pages, ideas and purchases, a
\* page that is up, to which nothing is on the way, shows the holdings of its idea as
\* they are, once, unless it was spoilt, by an update out of turn or by a notice that
\* failed before the update (lines 1012 to 1015 of IdeiaImpl).
THEOREM VistaCerta == SpecVista => []VistaActual
<1>1. InitVista => VInv
  BY ConstantesVista, VInicio
<1>2. VInv /\ [NextVista]_varsVista => VInv'
  BY ConstantesVista, VPasso
<1>3. VInv => VistaActual
  <2> SUFFICES ASSUME VInv, NEW p \in Paginas, Pronta(p), fila[p] = <<>>, avisar = <<>>,
                      p \notin estragada
               PROVE  Actual(p)
    BY DEF VistaActual
  <2>1. VCima(p)
    BY DEF VInv, VPagina, Pronta
  <2>2. Len(tabela[p]) = 1 /\ VBoa(p, tabela[p][1])
    BY <2>1 DEF VCima
  <2>3. tabela[p][1] = <<vista[p].ideia, accoes[vista[p].ideia]>>
    BY <2>2 DEF VBoa, Linhas
  <2>4. QED
    BY <2>2, <2>3 DEF Actual, VInv, VTipos
<1>4. QED
  BY <1>1, <1>2, <1>3, PTL DEF SpecVista
-----------------------------------------------------------------------------
(* The attachments. *)

AEnvios == [fase : {"parado", "ligar", "espera", "enviar", "fim", "erro", "suspenso",
                    "cortado"},
            blocos : 0..MaxBlocos, cheio : BOOLEAN, enviados : 0..MaxBlocos]
AThreads == [fase : {"nenhuma", "iniciar", "escuta", "ler", "fim", "falha", "erro"},
             de : Clientes \cup {Nenhum}, escritos : 0..MaxBlocos]
APedidos == {"nenhum", "nome", "lido", "publicado"}

ATipos ==
  /\ envio \in [Clientes -> AEnvios] /\ thread \in [Clientes -> AThreads]
  /\ pedido \in [Clientes -> APedidos] /\ porto \in Clientes \cup {Nenhum}
  /\ ligacoes \in Seq(Clientes) /\ aVez \in BOOLEAN

\* What a client sent, and how its request and its thread go together.
ABase(c) ==
  /\ envio[c].enviados <= envio[c].blocos
  /\ envio[c].fase = "fim" => envio[c].enviados = envio[c].blocos
  /\ pedido[c] \in {"nenhum", "nome"} <=> thread[c].fase = "nenhuma"
  /\ pedido[c] # "nenhum" => envio[c].fase # "parado"
  /\ porto = c <=> thread[c].fase \in {"escuta", "ler"}

\* What a thread wrote is of the client it accepted, which goes on sending, has sent
\* all or failed: never more than it sent, and all of it when the thread ended and the
\* connection did not break.
ALigada(t) ==
  /\ thread[t].fase \in {"nenhuma", "iniciar", "escuta", "erro"} =>
       thread[t].de = Nenhum /\ thread[t].escritos = 0
  /\ thread[t].fase \in {"ler", "fim", "falha"} =>
       /\ thread[t].de \in Clientes
       /\ envio[thread[t].de].fase \in {"enviar", "fim", "suspenso", "cortado"}
  /\ thread[t].fase = "ler" => thread[t].escritos <= envio[thread[t].de].enviados
  /\ thread[t].fase = "fim" =>
       \/ thread[t].escritos = envio[thread[t].de].blocos
       \/ envio[thread[t].de].fase = "cortado"

\* The clients that wait to be accepted, each once, while the port is open.
AFila ==
  /\ \A k \in 1..Len(ligacoes) : envio[ligacoes[k]].fase \in {"espera", "cortado"}
  /\ \A k, l \in 1..Len(ligacoes) : ligacoes[k] = ligacoes[l] => k = l
  /\ ligacoes # <<>> => porto # Nenhum

\* While uploads take turns: one is under way at most, none is refused, and a client
\* that is connected came to its own thread.
AVez ==
  /\ \A c, d \in Clientes : EmCurso(c) /\ EmCurso(d) => c = d
  /\ \A c \in Clientes :
       /\ envio[c].fase # "erro" /\ thread[c].fase # "erro"
       /\ thread[c].fase = "escuta" => envio[c].fase \in {"ligar", "espera", "cortado"}
       /\ envio[c].fase \notin {"parado", "ligar", "cortado"} =>
            thread[c].fase \in {"escuta", "ler", "fim", "falha"}
       /\ thread[c].de \in {Nenhum, c}
  /\ \A k \in 1..Len(ligacoes) : thread[ligacoes[k]].fase = "escuta"

AInv ==
  /\ ATipos /\ AFila /\ (aVez => AVez)
  /\ \A c \in Clientes : ABase(c) /\ ALigada(c)

\* At the start nothing is under way.
LEMMA AInicio ==
  ASSUME Nenhum \notin Clientes, MaxBlocos \in Nat
  PROVE  InitAnexos => AInv
  BY DEF InitAnexos, AInv, ATipos, AEnvios, AThreads, APedidos, AFila, AVez, ABase,
         ALigada, EmCurso, Acabados

\* A new upload: under the history, the only one.
LEMMA AAnexar ==
  ASSUME Nenhum \notin Clientes, MaxBlocos \in Nat, AInv,
         NEW q \in Clientes, NEW blocos \in 0..MaxBlocos, NEW cheio \in BOOLEAN,
         Anexar(q, blocos, cheio)
  PROVE  AInv'
<1>a. aVez' \in BOOLEAN /\ (aVez' => aVez /\ \A d \in Clientes : ~EmCurso(d))
  BY Zenon DEF Anexar
<1>b. /\ envio[q].fase = "parado" /\ pedido[q] = "nenhum"
      /\ envio' = [envio EXCEPT ![q] = [fase |-> "ligar", blocos |-> blocos,
                                        cheio |-> cheio, enviados |-> 0]]
      /\ UNCHANGED <<thread, pedido, porto, ligacoes>>
  BY DEF Anexar
<1>1. ATipos'
  BY <1>a, <1>b DEF AInv, ATipos, ABase, AEnvios, AThreads, APedidos
<1>2. \A c \in Clientes : ABase(c)'
  BY <1>b DEF AInv, ATipos, ABase, AEnvios, AThreads, APedidos, ALigada
<1>3. \A c \in Clientes : ALigada(c)'
  BY <1>b DEF AInv, ATipos, ABase, AEnvios, AThreads, APedidos, ALigada
<1>4. AFila'
  BY <1>b DEF AInv, ATipos, AEnvios, AThreads, APedidos, AFila
<1>5. aVez' => AVez'
  BY <1>a, <1>b DEF AInv, ATipos, ABase, AEnvios, AThreads, APedidos, AVez, EmCurso, Acabados
<1>6. QED
  BY <1>1, <1>2, <1>3, <1>4, <1>5 DEF AInv

\* The name is sent, and the thread of the client is still to be started.
LEMMA AEnviarNome ==
  ASSUME Nenhum \notin Clientes, MaxBlocos \in Nat, AInv,
         NEW q \in Clientes, EnviarNome(q)
  PROVE  AInv'
<1> USE DEF EnviarNome
<1>1. ATipos'
  BY DEF AInv, ATipos, ABase, AEnvios, AThreads, APedidos
<1>2. \A c \in Clientes : ABase(c)'
  BY DEF AInv, ATipos, ABase, AEnvios, AThreads, APedidos, ALigada
<1>3. \A c \in Clientes : ALigada(c)'
  BY DEF AInv, ATipos, ABase, AEnvios, AThreads, APedidos, ALigada
<1>4. AFila'
  BY DEF AInv, ATipos, AEnvios, AThreads, APedidos, AFila
<1>5. aVez' => AVez'
  <2> SUFFICES ASSUME aVez PROVE AVez'
    OBVIOUS
  <2>1. AVez
    BY DEF AInv
  <2>2. EmCurso(q)
    BY DEF EmCurso
  <2>3. \A c \in Clientes : EmCurso(c)' => EmCurso(c)
    BY <2>2 DEF AInv, ATipos, EmCurso, Acabados
  <2>4. QED
    BY <2>1, <2>3 DEF AVez
<1>6. QED
  BY <1>1, <1>2, <1>3, <1>4, <1>5 DEF AInv

\* A client is put at the end of the line of the port.
LEMMA ALigar ==
  ASSUME Nenhum \notin Clientes, MaxBlocos \in Nat, AInv,
         NEW q \in Clientes, Ligar(q)
  PROVE  AInv'
<1>a. aVez' \in BOOLEAN /\ (aVez' => aVez /\ thread[q].fase \in {"escuta", "erro"})
  BY Zenon DEF Ligar, NoTempo
<1>b. /\ envio[q].fase = "ligar" /\ porto # Nenhum
      /\ envio' = [envio EXCEPT ![q].fase = "espera"]
      /\ ligacoes' = Append(ligacoes, q)
      /\ UNCHANGED <<thread, pedido, porto>>
  BY DEF Ligar
<1>1. ATipos'
  <2>1. envio' \in [Clientes -> AEnvios]
    BY <1>a, <1>b DEF AInv, ATipos, ABase, AEnvios
  <2>2. thread' \in [Clientes -> AThreads]
    BY <1>a, <1>b DEF AInv, ATipos, ABase, AThreads
  <2>3. pedido' \in [Clientes -> APedidos] /\ porto' \in Clientes \cup {Nenhum}
    BY <1>a, <1>b DEF AInv, ATipos, AEnvios, AThreads, APedidos
  <2>4. ligacoes' \in Seq(Clientes)
    BY <1>a, <1>b DEF AInv, ATipos, AEnvios, AThreads, APedidos
  <2>5. aVez' \in BOOLEAN
    BY <1>a, <1>b DEF AInv, ATipos, AEnvios, AThreads, APedidos
  <2>6. QED
    BY <2>1, <2>2, <2>3, <2>4, <2>5 DEF ATipos
<1>c. \A c \in Clientes :
        /\ envio'[c].fase = IF c = q THEN "espera" ELSE envio[c].fase
        /\ envio'[c].blocos = envio[c].blocos /\ envio'[c].enviados = envio[c].enviados
  BY <1>b DEF AInv, ATipos, AEnvios
<1>2. \A c \in Clientes : ABase(c)'
  <2> SUFFICES ASSUME NEW c \in Clientes PROVE ABase(c)'
    OBVIOUS
  <2>1. ABase(c) /\ ABase(q)
    BY DEF AInv
  <2>2. UNCHANGED <<thread, pedido, porto>> /\ envio[q].fase = "ligar"
    BY <1>b
  <2>3. QED
    BY <1>c, <2>1, <2>2 DEF ABase
<1>3. \A c \in Clientes : ALigada(c)'
  BY <1>b DEF AInv, ATipos, ABase, AEnvios, AThreads, APedidos, ALigada
<1>4. AFila'
  <2>1. /\ Len(ligacoes') = Len(ligacoes) + 1 /\ Len(ligacoes) \in Nat
        /\ ligacoes'[Len(ligacoes) + 1] = q
        /\ \A k \in 1..Len(ligacoes) : ligacoes'[k] = ligacoes[k] /\ ligacoes[k] \in Clientes
    BY <1>b, AppendProperties, ElementOfSeq, LenProperties DEF AInv, ATipos
  <2>2. \A k \in 1..Len(ligacoes') : k \in 1..Len(ligacoes) \/ k = Len(ligacoes) + 1
    BY <2>1
  <2>3. \A k \in 1..Len(ligacoes) :
          envio[ligacoes[k]].fase \in {"espera", "cortado"} /\ ligacoes[k] # q
    BY <1>b DEF AInv, AFila
  <2>4. \A k \in 1..Len(ligacoes') : envio'[ligacoes'[k]].fase \in {"espera", "cortado"}
    BY <1>c, <2>1, <2>2, <2>3
  <2>5. \A k, l \in 1..Len(ligacoes') : ligacoes'[k] = ligacoes'[l] => k = l
    BY <2>1, <2>2, <2>3 DEF AInv, AFila
  <2>6. QED
    BY <1>b, <2>4, <2>5 DEF AFila
<1>5. aVez' => AVez'
  BY <1>a, <1>b DEF AInv, ATipos, ABase, AEnvios, AThreads, APedidos, AVez, EmCurso, Acabados
<1>6. QED
  BY <1>1, <1>2, <1>3, <1>4, <1>5 DEF AInv

\* Nobody listens: under the history this cannot be.
LEMMA ALigarRecusada ==
  ASSUME Nenhum \notin Clientes, MaxBlocos \in Nat, AInv,
         NEW q \in Clientes, LigarRecusada(q)
  PROVE  AInv'
<1>a. aVez' \in BOOLEAN /\ (aVez' => aVez /\ thread[q].fase \in {"escuta", "erro"})
  BY Zenon DEF LigarRecusada, NoTempo
<1>b. /\ envio[q].fase = "ligar" /\ porto = Nenhum
      /\ envio' = [envio EXCEPT ![q].fase = "erro"]
      /\ UNCHANGED <<thread, pedido, porto, ligacoes>>
  BY DEF LigarRecusada
<1>1. ATipos'
  <2>1. envio' \in [Clientes -> AEnvios]
    BY <1>a, <1>b DEF AInv, ATipos, ABase, AEnvios
  <2>2. thread' \in [Clientes -> AThreads]
    BY <1>a, <1>b DEF AInv, ATipos, ABase, AThreads
  <2>3. pedido' \in [Clientes -> APedidos] /\ porto' \in Clientes \cup {Nenhum}
    BY <1>a, <1>b DEF AInv, ATipos, AEnvios, AThreads, APedidos
  <2>4. ligacoes' \in Seq(Clientes)
    BY <1>a, <1>b DEF AInv, ATipos, AEnvios, AThreads, APedidos
  <2>5. aVez' \in BOOLEAN
    BY <1>a, <1>b DEF AInv, ATipos, AEnvios, AThreads, APedidos
  <2>6. QED
    BY <2>1, <2>2, <2>3, <2>4, <2>5 DEF ATipos
<1>c. \A c \in Clientes :
        /\ envio'[c].fase = IF c = q THEN "erro" ELSE envio[c].fase
        /\ envio'[c].blocos = envio[c].blocos /\ envio'[c].enviados = envio[c].enviados
  BY <1>b DEF AInv, ATipos, AEnvios
<1>2. \A c \in Clientes : ABase(c)'
  BY <1>b, <1>c DEF AInv, ABase
<1>3. \A c \in Clientes : ALigada(c)'
  BY <1>b, <1>c DEF AInv, ALigada
<1>4. AFila'
  BY <1>b DEF AInv, ATipos, AEnvios, AThreads, APedidos, AFila
<1>5. aVez' => AVez'
  BY <1>a, <1>b DEF AInv, ATipos, ABase, AEnvios, AThreads, APedidos, AVez, EmCurso, Acabados
<1>6. QED
  BY <1>1, <1>2, <1>3, <1>4, <1>5 DEF AInv

\* One block more is sent.
LEMMA AEnviarBloco ==
  ASSUME Nenhum \notin Clientes, MaxBlocos \in Nat, AInv,
         NEW q \in Clientes, EnviarBloco(q)
  PROVE  AInv'
<1> USE DEF EnviarBloco
<1>1. ATipos'
  <2>1. envio' \in [Clientes -> AEnvios]
    <3>1. envio[q] \in AEnvios /\ envio \in [Clientes -> AEnvios]
      BY DEF AInv, ATipos
    <3>2. envio[q].enviados + 1 \in 0..MaxBlocos
      BY <3>1 DEF AEnvios
    <3>3. [envio[q] EXCEPT !.enviados = @ + 1] \in AEnvios
      BY <3>1, <3>2 DEF AEnvios
    <3>4. QED
      BY <3>1, <3>3
  <2>2. thread' \in [Clientes -> AThreads]
    BY DEF AInv, ATipos, ABase, AThreads
  <2>3. pedido' \in [Clientes -> APedidos] /\ porto' \in Clientes \cup {Nenhum}
    BY DEF AInv, ATipos, AEnvios, AThreads, APedidos
  <2>4. ligacoes' \in Seq(Clientes)
    BY DEF AInv, ATipos, AEnvios, AThreads, APedidos
  <2>5. aVez' \in BOOLEAN
    BY DEF AInv, ATipos, AEnvios, AThreads, APedidos
  <2>6. QED
    BY <2>1, <2>2, <2>3, <2>4, <2>5 DEF ATipos
<1>2. \A c \in Clientes : ABase(c)'
  BY DEF AInv, ATipos, ABase, AEnvios, AThreads, APedidos, ALigada
<1>3. \A c \in Clientes : ALigada(c)'
  BY DEF AInv, ATipos, ABase, AEnvios, AThreads, APedidos, ALigada
<1>4. AFila'
  BY DEF AInv, ATipos, AEnvios, AThreads, APedidos, AFila
<1>5. aVez' => AVez'
  BY DEF AInv, ATipos, ABase, AEnvios, AThreads, APedidos, AVez, EmCurso, Acabados
<1>6. QED
  BY <1>1, <1>2, <1>3, <1>4, <1>5 DEF AInv

\* All blocks were sent.
LEMMA AEnviarFim ==
  ASSUME Nenhum \notin Clientes, MaxBlocos \in Nat, AInv,
         NEW q \in Clientes, EnviarFim(q)
  PROVE  AInv'
<1> USE DEF EnviarFim
<1>1. ATipos'
  <2>1. envio' \in [Clientes -> AEnvios]
    BY DEF AInv, ATipos, ABase, AEnvios
  <2>2. thread' \in [Clientes -> AThreads]
    BY DEF AInv, ATipos, ABase, AThreads
  <2>3. pedido' \in [Clientes -> APedidos] /\ porto' \in Clientes \cup {Nenhum}
    BY DEF AInv, ATipos, AEnvios, AThreads, APedidos
  <2>4. ligacoes' \in Seq(Clientes)
    BY DEF AInv, ATipos, AEnvios, AThreads, APedidos
  <2>5. aVez' \in BOOLEAN
    BY DEF AInv, ATipos, AEnvios, AThreads, APedidos
  <2>6. QED
    BY <2>1, <2>2, <2>3, <2>4, <2>5 DEF ATipos
<1>2. \A c \in Clientes : ABase(c)'
  BY DEF AInv, ATipos, ABase, AEnvios, AThreads, APedidos, ALigada
<1>3. \A c \in Clientes : ALigada(c)'
  BY DEF AInv, ATipos, ABase, AEnvios, AThreads, APedidos, ALigada
<1>4. AFila'
  BY DEF AInv, ATipos, AEnvios, AThreads, APedidos, AFila
<1>5. aVez' => AVez'
  BY DEF AInv, ATipos, ABase, AEnvios, AThreads, APedidos, AVez, EmCurso, Acabados
<1>6. QED
  BY <1>1, <1>2, <1>3, <1>4, <1>5 DEF AInv

\* The name is read and the thread started.
LEMMA ALerNome ==
  ASSUME Nenhum \notin Clientes, MaxBlocos \in Nat, AInv,
         NEW q \in Clientes, LerNome(q)
  PROVE  AInv'
<1> USE DEF LerNome
<1>1. ATipos'
  BY DEF AInv, ATipos, ABase, AEnvios, AThreads, APedidos
<1>2. \A c \in Clientes : ABase(c)'
  BY DEF AInv, ATipos, ABase, AEnvios, AThreads, APedidos, ALigada
<1>3. \A c \in Clientes : ALigada(c)'
  BY DEF AInv, ATipos, ABase, AEnvios, AThreads, APedidos, ALigada
<1>4. AFila'
  BY DEF AInv, ATipos, AEnvios, AThreads, APedidos, AFila
<1>5. aVez' => AVez'
  BY DEF AInv, ATipos, ABase, AEnvios, AThreads, APedidos, AVez, EmCurso, Acabados
<1>6. QED
  BY <1>1, <1>2, <1>3, <1>4, <1>5 DEF AInv

\* The idea is published.
LEMMA APublicar ==
  ASSUME Nenhum \notin Clientes, MaxBlocos \in Nat, AInv,
         NEW q \in Clientes, Publicar(q)
  PROVE  AInv'
<1> USE DEF Publicar
<1>1. ATipos'
  BY DEF AInv, ATipos, ABase, AEnvios, AThreads, APedidos
<1>2. \A c \in Clientes : ABase(c)'
  BY DEF AInv, ATipos, ABase, AEnvios, AThreads, APedidos, ALigada
<1>3. \A c \in Clientes : ALigada(c)'
  BY DEF AInv, ATipos, ABase, AEnvios, AThreads, APedidos, ALigada
<1>4. AFila'
  BY DEF AInv, ATipos, AEnvios, AThreads, APedidos, AFila
<1>5. aVez' => AVez'
  BY DEF AInv, ATipos, ABase, AEnvios, AThreads, APedidos, AVez, EmCurso, Acabados
<1>6. QED
  BY <1>1, <1>2, <1>3, <1>4, <1>5 DEF AInv

\* A thread listens on the free port.
LEMMA AEscutar ==
  ASSUME Nenhum \notin Clientes, MaxBlocos \in Nat, AInv,
         NEW q \in Clientes, Escutar(q)
  PROVE  AInv'
<1> USE DEF Escutar
<1>1. ATipos'
  BY DEF AInv, ATipos, ABase, AEnvios, AThreads, APedidos
<1>2. \A c \in Clientes : ABase(c)'
  BY DEF AInv, ATipos, ABase, AEnvios, AThreads, APedidos, ALigada
<1>3. \A c \in Clientes : ALigada(c)'
  BY DEF AInv, ATipos, ABase, AEnvios, AThreads, APedidos, ALigada
<1>4. AFila'
  BY DEF AInv, ATipos, AEnvios, AThreads, APedidos, AFila
<1>5. aVez' => AVez'
  BY DEF AInv, ATipos, ABase, AEnvios, AThreads, APedidos, AVez, EmCurso, Acabados
<1>6. QED
  BY <1>1, <1>2, <1>3, <1>4, <1>5 DEF AInv

\* The port is taken: under the history this cannot be.
LEMMA AEscutarFalha ==
  ASSUME Nenhum \notin Clientes, MaxBlocos \in Nat, AInv,
         NEW q \in Clientes, EscutarFalha(q)
  PROVE  AInv'
<1> USE DEF EscutarFalha
<1>1. ATipos'
  BY DEF AInv, ATipos, ABase, AEnvios, AThreads, APedidos
<1>2. \A c \in Clientes : ABase(c)'
  BY DEF AInv, ATipos, ABase, AEnvios, AThreads, APedidos, ALigada
<1>3. \A c \in Clientes : ALigada(c)'
  BY DEF AInv, ATipos, ABase, AEnvios, AThreads, APedidos, ALigada
<1>4. AFila'
  BY DEF AInv, ATipos, AEnvios, AThreads, APedidos, AFila
<1>5. aVez' => AVez'
  BY DEF AInv, ATipos, ABase, AEnvios, AThreads, APedidos, AVez, EmCurso, Acabados
<1>6. QED
  BY <1>1, <1>2, <1>3, <1>4, <1>5 DEF AInv

\* The first of the line is accepted: nobody else was.
LEMMA AAceitar ==
  ASSUME Nenhum \notin Clientes, MaxBlocos \in Nat, AInv,
         NEW q \in Clientes, Aceitar(q)
  PROVE  AInv'
<1> DEFINE d == Head(ligacoes)
<1>a. /\ thread[q].fase = "escuta" /\ ligacoes # <<>>
      /\ thread' = [thread EXCEPT ![q].fase = "ler", ![q].de = d]
      /\ envio' = [envio EXCEPT ![d].fase = IF @ = "espera" THEN "enviar" ELSE @]
      /\ ligacoes' = Tail(ligacoes)
      /\ UNCHANGED <<pedido, porto, aVez>>
  BY DEF Aceitar
<1>b. /\ ligacoes \in Seq(Clientes) /\ ligacoes' \in Seq(Clientes) /\ d \in Clientes
      /\ Len(ligacoes') = Len(ligacoes) - 1 /\ Len(ligacoes) \in Nat \ {0}
      /\ \A k \in 1..Len(ligacoes') : ligacoes'[k] = ligacoes[k + 1]
      /\ d = ligacoes[1]
  BY <1>a, HeadTailProperties, EmptySeq DEF AInv, ATipos
<1>c. envio[d].fase \in {"espera", "cortado"}
  BY <1>b DEF AInv, AFila
<1> HIDE DEF d
<1>d. \A c \in Clientes :
        /\ envio'[c].fase = IF c = d /\ envio[d].fase = "espera" THEN "enviar"
                                                              ELSE envio[c].fase
        /\ envio'[c].blocos = envio[c].blocos /\ envio'[c].enviados = envio[c].enviados
        /\ envio[c].enviados \in Nat /\ envio[c].blocos \in Nat
  BY <1>a, <1>b DEF AInv, ATipos, AEnvios
<1>e. \A t \in Clientes :
        /\ thread'[t].fase = IF t = q THEN "ler" ELSE thread[t].fase
        /\ thread'[t].de = IF t = q THEN d ELSE thread[t].de
        /\ thread'[t].escritos = thread[t].escritos
  BY <1>a DEF AInv, ATipos, AThreads
<1>1. ATipos'
  <2>1. envio' \in [Clientes -> AEnvios]
    <3>1. envio[d] \in AEnvios /\ envio \in [Clientes -> AEnvios]
      BY <1>b DEF AInv, ATipos
    <3>2. [envio[d] EXCEPT !.fase = IF @ = "espera" THEN "enviar" ELSE @] \in AEnvios
      BY <3>1 DEF AEnvios
    <3>3. QED
      BY <1>a, <3>1, <3>2
  <2>2. thread' \in [Clientes -> AThreads]
    BY <1>a, <1>b DEF AInv, ATipos, AThreads
  <2>3. QED
    BY <1>a, <1>b, <2>1, <2>2 DEF AInv, ATipos, APedidos
<1>2. \A c \in Clientes : ABase(c)'
  <2> SUFFICES ASSUME NEW c \in Clientes PROVE ABase(c)'
    OBVIOUS
  <2>1. ABase(c) /\ ABase(d) /\ ABase(q)
    BY <1>b DEF AInv
  <2>2. \/ thread'[c].fase = thread[c].fase
        \/ thread[c].fase = "escuta" /\ thread'[c].fase = "ler"
    BY <1>a, <1>e
  <2>3. envio'[c].fase = "parado" <=> envio[c].fase = "parado"
    BY <1>c, <1>d
  <2>4. envio'[c].fase = "fim" => envio[c].fase = "fim"
    BY <1>c, <1>d
  <2>5. pedido' = pedido /\ porto' = porto
    BY <1>a
  <2>6. QED
    BY <1>d, <2>1, <2>2, <2>3, <2>4, <2>5 DEF ABase
<1>3. \A t \in Clientes : ALigada(t)'
  <2> SUFFICES ASSUME NEW t \in Clientes PROVE ALigada(t)'
    OBVIOUS
  <2>1. ALigada(t)
    BY DEF AInv
  <2>2. CASE t = q
    <3>1. thread'[t].fase = "ler" /\ thread'[t].de = d /\ thread'[t].escritos = 0
      BY <1>a, <1>e, <2>1, <2>2 DEF ALigada
    <3>2. envio'[d].fase \in {"enviar", "cortado"} /\ envio'[d].enviados \in Nat /\ d \in Clientes
      BY <1>b, <1>c, <1>d
    <3>3. QED
      BY <3>1, <3>2 DEF ALigada
  <2>3. CASE t # q
    BY <1>c, <1>d, <1>e, <2>1, <2>3 DEF ALigada
  <2>4. QED
    BY <2>2, <2>3
<1>4. AFila'
  <2>1. AFila
    BY DEF AInv
  <2>2. \A k \in 1..Len(ligacoes') :
          /\ k + 1 \in 1..Len(ligacoes) /\ 1 \in 1..Len(ligacoes) /\ k + 1 # 1
          /\ ligacoes'[k] = ligacoes[k + 1] /\ ligacoes[k + 1] \in Clientes
    BY <1>b
  <2>3. \A k \in 1..Len(ligacoes') : ligacoes'[k] # d
    BY <1>b, <2>1, <2>2 DEF AFila
  <2>4. \A k \in 1..Len(ligacoes') : envio'[ligacoes'[k]].fase \in {"espera", "cortado"}
    BY <1>d, <2>1, <2>2, <2>3 DEF AFila
  <2>5. \A k, l \in 1..Len(ligacoes') : ligacoes'[k] = ligacoes'[l] => k = l
    <3> SUFFICES ASSUME NEW k \in 1..Len(ligacoes'), NEW l \in 1..Len(ligacoes'),
                        ligacoes'[k] = ligacoes'[l]
                 PROVE  k = l
      OBVIOUS
    <3>1. k + 1 = l + 1
      BY <2>1, <2>2 DEF AFila
    <3>2. QED
      BY <3>1
  <2>6. porto' # Nenhum
    BY <1>a, <2>1 DEF AFila
  <2>7. QED
    BY <2>4, <2>5, <2>6 DEF AFila
<1>5. aVez' => AVez'
  <2> SUFFICES ASSUME aVez PROVE AVez'
    BY <1>a
  <2>1. AVez
    BY DEF AInv
  <2>2. \A c \in Clientes : thread[c].fase = "escuta" => EmCurso(c)
    BY <2>1 DEF AInv, ABase, AVez, EmCurso, Acabados
  <2>3. \A k \in 1..Len(ligacoes) : ligacoes[k] = q
    <3> SUFFICES ASSUME NEW k \in 1..Len(ligacoes) PROVE ligacoes[k] = q
      OBVIOUS
    <3>1. ligacoes[k] \in Clientes /\ thread[ligacoes[k]].fase = "escuta"
      BY <1>b, <2>1, ElementOfSeq DEF AVez
    <3>2. QED
      BY <1>a, <2>1, <2>2, <3>1 DEF AVez
  <2>4. d = q
    BY <1>b, <2>3
  <2>5. \A k \in 1..Len(ligacoes') : FALSE
    <3>1. AFila
      BY DEF AInv
    <3>2. \A k \in 1..Len(ligacoes') : k + 1 \in 1..Len(ligacoes) /\ 1 \in 1..Len(ligacoes)
                                       /\ k + 1 # 1
      BY <1>b
    <3>3. QED
      BY <2>3, <3>1, <3>2 DEF AFila
  <2>6. EmCurso(q) /\ \A c \in Clientes : c # q => (EmCurso(c)' => EmCurso(c))
    <3>1. \A c \in Clientes : c # q => /\ envio'[c].fase = envio[c].fase
                                     /\ thread'[c].fase = thread[c].fase
                                     /\ pedido'[c] = pedido[c]
      BY <1>a, <1>d, <1>e, <2>4
    <3>2. QED
      BY <1>a, <2>2, <3>1 DEF EmCurso
  <2>7. \A b, c \in Clientes : EmCurso(b)' /\ EmCurso(c)' => b = c
    BY <2>1, <2>6 DEF AVez
  <2>8. QED
    BY <1>c, <1>d, <1>e, <2>1, <2>4, <2>5, <2>7 DEF AVez
<1>6. QED
  BY <1>1, <1>2, <1>3, <1>4, <1>5 DEF AInv

\* One block that was sent is written.
LEMMA ALerBloco ==
  ASSUME Nenhum \notin Clientes, MaxBlocos \in Nat, AInv,
         NEW q \in Clientes, LerBloco(q)
  PROVE  AInv'
<1>a. /\ thread[q].fase = "ler" /\ ~SemMais(q)
      /\ thread' = [thread EXCEPT ![q].escritos = @ + 1]
      /\ UNCHANGED <<envio, pedido, porto, ligacoes, aVez>>
  BY DEF LerBloco
<1>b. /\ thread[q].de \in Clientes /\ thread[q].escritos < envio[thread[q].de].enviados
      /\ thread[q].escritos + 1 \in 0..MaxBlocos
  BY <1>a DEF AInv, ATipos, AEnvios, AThreads, ALigada, SemMais
<1>c. \A t \in Clientes :
        /\ thread'[t].fase = thread[t].fase /\ thread'[t].de = thread[t].de
        /\ thread'[t].escritos =
             IF t = q THEN thread[q].escritos + 1 ELSE thread[t].escritos
  BY <1>a DEF AInv, ATipos, AThreads
<1>1. ATipos'
  <2>1. thread' \in [Clientes -> AThreads]
    BY <1>a, <1>b DEF AInv, ATipos, AThreads
  <2>2. QED
    BY <1>a, <2>1 DEF AInv, ATipos, AEnvios, APedidos
<1>2. \A c \in Clientes : ABase(c)'
  BY <1>a, <1>c DEF AInv, ABase
<1>3. \A t \in Clientes : ALigada(t)'
  <2> SUFFICES ASSUME NEW t \in Clientes PROVE ALigada(t)'
    OBVIOUS
  <2>1. ALigada(t) /\ envio' = envio
    BY <1>a DEF AInv
  <2>2. CASE t = q
    <3>1. thread'[t].fase = "ler" /\ thread'[t].de = thread[t].de
            /\ thread'[t].escritos = thread[t].escritos + 1
      BY <1>a, <1>c, <2>2
    <3>2. thread[t].escritos + 1 <= envio[thread[t].de].enviados
      BY <1>b, <2>2 DEF AInv, ATipos, AEnvios, AThreads
    <3>3. QED
      BY <2>1, <3>1, <3>2, <1>a, <2>2 DEF ALigada
  <2>3. CASE t # q
    BY <1>c, <2>1, <2>3 DEF ALigada
  <2>4. QED
    BY <2>2, <2>3
<1>4. AFila'
  BY <1>a DEF AInv, AFila
<1>5. aVez' => AVez'
  BY <1>a, <1>c DEF AInv, AVez, EmCurso, Acabados
<1>6. QED
  BY <1>1, <1>2, <1>3, <1>4, <1>5 DEF AInv

\* A client fails, or its connection breaks: what it sent and what was written stay.
LEMMA AFalhar ==
  ASSUME Nenhum \notin Clientes, MaxBlocos \in Nat, AInv,
         NEW q \in Clientes, LerFalha(q) \/ Quebra(q)
  PROVE  AInv'
<1> DEFINE f == IF LerFalha(q) THEN "suspenso" ELSE "cortado"
<1>a. /\ envio[q].fase \in {"ligar", "espera", "enviar", "suspenso"}
      /\ envio[q].fase \in {"ligar", "espera"} => f = "cortado"
      /\ f \in {"suspenso", "cortado"}
      /\ envio' = [envio EXCEPT ![q].fase = f]
      /\ UNCHANGED <<thread, pedido, porto, ligacoes, aVez>>
  BY DEF LerFalha, Quebra
<1> HIDE DEF f
<1>b. \A c \in Clientes :
        /\ envio'[c].fase = IF c = q THEN f ELSE envio[c].fase
        /\ envio'[c].blocos = envio[c].blocos /\ envio'[c].enviados = envio[c].enviados
  BY <1>a DEF AInv, ATipos, AEnvios
<1>1. ATipos'
  <2>1. envio' \in [Clientes -> AEnvios]
    BY <1>a DEF AInv, ATipos, AEnvios
  <2>2. QED
    BY <1>a, <2>1 DEF AInv, ATipos, AThreads, APedidos
<1>2. \A c \in Clientes : ABase(c)'
  BY <1>a, <1>b DEF AInv, ABase
<1>3. \A t \in Clientes : ALigada(t)'
  BY <1>a, <1>b DEF AInv, ALigada
<1>4. AFila'
  <2>1. \A k \in 1..Len(ligacoes) : ligacoes[k] \in Clientes
    BY ElementOfSeq DEF AInv, ATipos
  <2>2. \A k \in 1..Len(ligacoes) : envio'[ligacoes[k]].fase \in {"espera", "cortado"}
    BY <1>a, <1>b, <2>1 DEF AInv, AFila
  <2>3. QED
    BY <1>a, <2>2 DEF AInv, AFila
<1>5. aVez' => AVez'
  <2> SUFFICES ASSUME aVez PROVE AVez'
    BY <1>a
  <2>1. AVez
    BY DEF AInv
  <2>2. \A c \in Clientes : EmCurso(c)' => EmCurso(c)
    <3> SUFFICES ASSUME NEW c \in Clientes, EmCurso(c)' PROVE EmCurso(c)
      OBVIOUS
    <3>1. /\ thread'[c].fase = thread[c].fase /\ pedido'[c] = pedido[c]
          /\ envio'[c].fase = IF c = q THEN f ELSE envio[c].fase
      BY <1>a, <1>b
    <3>2. CASE c # q
      BY <3>1, <3>2 DEF EmCurso
    <3>3. CASE c = q /\ envio[q].fase = "suspenso"
      BY <1>a, <2>1, <3>1, <3>3 DEF EmCurso, Acabados, AVez
    <3>4. CASE c = q /\ envio[q].fase # "suspenso"
      BY <1>a, <3>4 DEF EmCurso, Acabados
    <3>5. QED
      BY <3>2, <3>3, <3>4
  <2>3. \A c, d \in Clientes : EmCurso(c)' /\ EmCurso(d)' => c = d
    BY <2>1, <2>2 DEF AVez
  <2>4. QED
    BY <1>a, <1>b, <2>1, <2>3 DEF AVez
<1>6. QED
  BY <1>1, <1>2, <1>3, <1>4, <1>5 DEF AInv

\* A thread ends, with all blocks or by a failure, and those that wait are cut off.
LEMMA ALargar ==
  ASSUME Nenhum \notin Clientes, MaxBlocos \in Nat, AInv,
         NEW q \in Clientes, Fechar(q) \/ GravarFalha(q)
  PROVE  AInv'
<1> DEFINE f == IF Fechar(q) THEN "fim" ELSE "falha"
<1>a. /\ thread[q].fase = "ler" /\ f \in {"fim", "falha"}
      /\ thread' = [thread EXCEPT ![q].fase = f]
      /\ porto' = Nenhum /\ ligacoes' = <<>>
      /\ envio' = [c \in Clientes |-> IF envio[c].fase = "espera"
                                      THEN [envio[c] EXCEPT !.fase = "erro"] ELSE envio[c]]
      /\ UNCHANGED <<pedido, aVez>>
  BY DEF Fechar, GravarFalha, Largar, Cortar
<1>b. f = "fim" => Acabou(q)
  BY DEF Fechar
<1> HIDE DEF f
<1>c. f = "fim" => \/ thread[q].escritos = envio[thread[q].de].blocos
                   \/ envio[thread[q].de].fase = "cortado"
  BY <1>a, <1>b
     DEF AInv, ABase, ALigada, Acabou, Parcial, FimDoCanal, CanalPartido, SemMais
<1>d. \A c \in Clientes :
        /\ envio'[c].fase = IF envio[c].fase = "espera" THEN "erro" ELSE envio[c].fase
        /\ envio'[c].blocos = envio[c].blocos /\ envio'[c].enviados = envio[c].enviados
  BY <1>a DEF AInv, ATipos, AEnvios
<1>e. \A t \in Clientes :
        /\ thread'[t].fase = IF t = q THEN f ELSE thread[t].fase
        /\ thread'[t].de = thread[t].de /\ thread'[t].escritos = thread[t].escritos
  BY <1>a DEF AInv, ATipos, AThreads
<1>1. ATipos'
  <2>1. ASSUME NEW c \in Clientes PROVE envio'[c] \in AEnvios
    <3>1. envio[c] \in AEnvios
      BY DEF AInv, ATipos
    <3>2. [envio[c] EXCEPT !.fase = "erro"] \in AEnvios
      BY <3>1 DEF AEnvios
    <3>3. QED
      BY <1>a, <3>1, <3>2
  <2>2. thread' \in [Clientes -> AThreads]
    BY <1>a DEF AInv, ATipos, AThreads
  <2>3. envio' \in [Clientes -> AEnvios]
    BY <1>a, <2>1
  <2>4. QED
    BY <1>a, <2>2, <2>3, EmptySeq DEF AInv, ATipos, APedidos
<1>2. \A c \in Clientes : ABase(c)'
  <2> SUFFICES ASSUME NEW c \in Clientes PROVE ABase(c)'
    OBVIOUS
  <2>1. ABase(c) /\ (c # q => porto # c)
    BY <1>a DEF AInv, ABase
  <2>2. thread'[c].fase # "nenhuma" <=> thread[c].fase # "nenhuma"
    BY <1>a, <1>e
  <2>3. thread'[c].fase \notin {"escuta", "ler"} /\ porto' # c
    BY <1>a, <1>e, <2>1 DEF ABase
  <2>4. QED
    BY <1>a, <1>d, <2>1, <2>2, <2>3 DEF ABase
<1>3. \A t \in Clientes : ALigada(t)'
  <2> SUFFICES ASSUME NEW t \in Clientes PROVE ALigada(t)'
    OBVIOUS
  <2>1. ALigada(t) /\ ALigada(q)
    BY DEF AInv
  <2>2. ASSUME thread[t].fase \in {"ler", "fim", "falha"}
        PROVE  /\ thread[t].de \in Clientes
               /\ envio'[thread[t].de].fase = envio[thread[t].de].fase
               /\ envio'[thread[t].de].blocos = envio[thread[t].de].blocos
               /\ envio'[thread[t].de].enviados = envio[thread[t].de].enviados
    BY <1>d, <2>1, <2>2 DEF ALigada
  <2>3. QED
    BY <1>a, <1>c, <1>e, <2>1, <2>2 DEF ALigada
<1>4. AFila'
  <2>1. Len(ligacoes') = 0
    BY <1>a
  <2>2. QED
    BY <1>a, <2>1 DEF AFila
<1>5. aVez' => AVez'
  <2> SUFFICES ASSUME aVez PROVE AVez'
    BY <1>a
  <2>1. AVez
    BY DEF AInv
  <2>2. envio[q].fase # "espera" /\ EmCurso(q)
    BY <1>a, <2>1 DEF AInv, AVez, ABase, ALigada, EmCurso
  <2>3. \A c \in Clientes : envio[c].fase = "espera" => EmCurso(c)
    BY DEF EmCurso, Acabados
  <2>4. \A c \in Clientes : envio'[c].fase = envio[c].fase
    BY <1>d, <2>1, <2>2, <2>3 DEF AVez
  <2>5. \A c \in Clientes : EmCurso(c)' => EmCurso(c)
    BY <1>a, <1>e, <2>4 DEF EmCurso, Acabados
  <2>6. \A c, d \in Clientes : EmCurso(c)' /\ EmCurso(d)' => c = d
    BY <2>1, <2>5 DEF AVez
  <2>7. Len(ligacoes') = 0
    BY <1>a
  <2>8. QED
    BY <1>a, <1>e, <2>1, <2>4, <2>6, <2>7 DEF AVez
<1>6. QED
  BY <1>1, <1>2, <1>3, <1>4, <1>5 DEF AInv

\* Every step keeps what threads and clients owe each other.
LEMMA APasso ==
  ASSUME Nenhum \notin Clientes, MaxBlocos \in Nat, AInv, [NextAnexos]_varsAnexos
  PROVE  AInv'
<1>1. ASSUME NEW c \in Clientes, NEW b \in 0..MaxBlocos, NEW cheio \in BOOLEAN,
             Anexar(c, b, cheio)
      PROVE  AInv'
  BY <1>1, AAnexar
<1>2. ASSUME NEW c \in Clientes,
             \/ EnviarNome(c) \/ Ligar(c) \/ LigarRecusada(c)
             \/ EnviarBloco(c) \/ EnviarFim(c)
      PROVE  AInv'
  BY <1>2, AEnviarNome, ALigar, ALigarRecusada, AEnviarBloco, AEnviarFim
<1>3. ASSUME NEW c \in Clientes,
             \/ LerNome(c) \/ Publicar(c) \/ Escutar(c) \/ EscutarFalha(c)
             \/ Aceitar(c) \/ LerBloco(c) \/ Fechar(c)
      PROVE  AInv'
  BY <1>3, ALerNome, APublicar, AEscutar, AEscutarFalha, AAceitar, ALerBloco, ALargar
<1>f. ASSUME NEW c \in Clientes, LerFalha(c) \/ Quebra(c) \/ GravarFalha(c)
      PROVE  AInv'
  BY <1>f, AFalhar, ALargar
<1>4. CASE UNCHANGED varsAnexos
  <2>1. UNCHANGED <<envio, thread, pedido, porto, ligacoes, aVez>>
    BY <1>4 DEF varsAnexos
  <2>2. ATipos' /\ AFila' /\ (aVez' => AVez')
    BY <2>1 DEF AInv, ATipos, AEnvios, AThreads, APedidos, AFila, AVez, EmCurso, Acabados
  <2>3. \A c \in Clientes : ABase(c)' /\ ALigada(c)'
    BY <2>1 DEF AInv, ABase, ALigada
  <2>4. QED
    BY <2>2, <2>3 DEF AInv
<1>5. QED
  BY <1>1, <1>2, <1>3, <1>f, <1>4 DEF NextAnexos, Passo

\* AnexoCliente and AnexoServidor: the state has its types, a client never sends more
\* blocks than its file has, and the port is of the thread that listens or reads.
THEOREM AnexosTipos == SpecAnexos => []TypeOKAnexos
<1>1. InitAnexos => AInv
  BY ConstantesAnexos, AInicio
<1>2. AInv /\ [NextAnexos]_varsAnexos => AInv'
  BY ConstantesAnexos, APasso
<1>3. AInv => TypeOKAnexos
  <2> SUFFICES ASSUME AInv PROVE TypeOKAnexos
    OBVIOUS
  <2>1. ASSUME NEW c \in Clientes
        PROVE  /\ envio[c] \in AEnvios /\ thread[c] \in AThreads /\ pedido[c] \in APedidos
               /\ ABase(c)
    BY DEF AInv, ATipos
  <2>2. ASSUME NEW c \in Clientes PROVE envio[c].enviados \in 0..envio[c].blocos
    BY <2>1 DEF AEnvios, ABase
  <2>3. porto \in Clientes \cup {Nenhum} /\ ligacoes \in Seq(Clientes) /\ aVez \in BOOLEAN
          /\ (ligacoes # <<>> => porto # Nenhum)
    BY DEF AInv, ATipos, AFila
  <2>4. QED
    BY <2>1, <2>2, <2>3 DEF AEnvios, AThreads, APedidos, ABase, TypeOKAnexos
<1>4. QED
  BY <1>1, <1>2, <1>3, PTL DEF SpecAnexos

\* Lines 62 and 73 of AnexoServidor: for any number of clients and blocks, a thread
\* that ended wrote the file to its last block, full or not.
THEOREM FicheiroInteiro == SpecAnexos => []InteiroNoFim
<1>1. InitAnexos => AInv
  BY ConstantesAnexos, AInicio
<1>2. AInv /\ [NextAnexos]_varsAnexos => AInv'
  BY ConstantesAnexos, APasso
<1>3. AInv => InteiroNoFim
  BY DEF AInv, ALigada, InteiroNoFim, CanalPartido
<1>4. QED
  BY <1>1, <1>2, <1>3, PTL DEF SpecAnexos

\* Lines 52 and 56 of AnexoServidor: for any number of clients, a thread writes what
\* the client sent that gave the file its name, as long as uploads take turns.
THEOREM FicheiroDeQuemPediu == SpecAnexos => []FicheiroDoPedido
<1>1. InitAnexos => AInv
  BY ConstantesAnexos, AInicio
<1>2. AInv /\ [NextAnexos]_varsAnexos => AInv'
  BY ConstantesAnexos, APasso
<1>3. AInv => FicheiroDoPedido
  BY DEF AInv, AVez, FicheiroDoPedido
<1>4. QED
  BY <1>1, <1>2, <1>3, PTL DEF SpecAnexos
=============================================================================
