----------------------------- MODULE PaginasWeb -----------------------------
(***************************************************************************)
(* The pages that create and delete an idea, and the post that goes with   *)
(* it on Facebook.  The page that asks for confirmation keeps what it read *)
(* in fields of the page, which all requests share; the bean that deletes  *)
(* looks up the position of the idea in a copy of the topic, and passes it *)
(* where the RMI server looks for an identifier.  A creation computes its  *)
(* identifier and adds the idea without a lock, and calls to the server    *)
(* and to Facebook may fail.                                               *)
(*                                                                         *)
(* One topic.  An idea has an identifier, which may come back after a      *)
(* deletion, and a number of its own (the UUID).  Each user has one        *)
(* session, and owns all of an idea; Comprar moves it to another user.     *)
(* Links are followed from a fresh list; a form may be confirmed late.     *)
(* Adding to the list, and finding and removing in it, are one step each.  *)
(***************************************************************************)
EXTENDS Integers, Sequences, SequencesExt, FiniteSetsExt

CONSTANTS
  Utilizadores, \* users
  Ninguem,      \* no user
  Saldo,        \* the ideas that each user can pay
  MaxIdeias, MaxApagadas \* bounds: ideas created, ideas deleted

ASSUME ConstantesAssumption ==
  /\ Ninguem \notin Utilizadores
  /\ Saldo \in Nat /\ MaxIdeias \in Nat /\ MaxApagadas \in Nat

VARIABLES
  ideias,   \* the ideas of the topic, in order
  saldo,
  posts,    \* posts on Facebook, named by their number
  pagina,   \* fields of ApagarIdeia.jsp: the identifier asked for, and the idea read
  pedido,   \* where the request of each user is, and what it read
  criadas,  \* ideas and posts so far
  apagadas, \* history: of each deletion, the idea meant and the idea deleted
  aVez,     \* history: no request began while another was being handled
  seguidas, \* history: no creation took its identifier before another added its idea
  completas \* history: every post got its idea, and every removal was done

vars == <<ideias, saldo, posts, pagina, pedido, criadas, apagadas, aVez,
          seguidas, completas>>

Numeros == 1..MaxIdeias
Ideia == [id : 0..MaxIdeias, num : Numeros, post : 0..MaxIdeias, dono : Utilizadores]
SemPedido == [fase |-> "livre", num |-> 0, id |-> -1, vista |-> 0, post |-> 0]
Fases == {"livre", "publicado", "criar", "pagina", "lida", "formulario", "apagar",
          "publicacao"}

TypeOK ==
  /\ ideias \in Seq(Ideia) /\ Len(ideias) <= MaxIdeias
  /\ saldo \in [Utilizadores -> 0..Saldo]
  /\ posts \subseteq Numeros
  /\ pagina.id \in -1..MaxIdeias /\ pagina.num \in 0..MaxIdeias
  /\ pagina.lida \in -1..MaxIdeias
  /\ pagina.dono \in Utilizadores \cup {Ninguem}
  /\ \A u \in Utilizadores :
       /\ pedido[u].fase \in Fases
       /\ pedido[u].num \in 0..MaxIdeias /\ pedido[u].id \in -1..MaxIdeias
       /\ pedido[u].vista \in 0..MaxIdeias /\ pedido[u].post \in 0..MaxIdeias
  /\ criadas \in 0..MaxIdeias
  /\ aVez \in BOOLEAN /\ seguidas \in BOOLEAN /\ completas \in BOOLEAN
  /\ \A i, j \in DOMAIN ideias :
       i # j => /\ ideias[i].num # ideias[j].num
                /\ seguidas => ideias[i].id # ideias[j].id

Init ==
  /\ ideias = <<>> /\ posts = {} /\ criadas = 0 /\ apagadas = <<>>
  /\ aVez = TRUE /\ seguidas = TRUE /\ completas = TRUE
  /\ saldo = [u \in Utilizadores |-> Saldo]
  /\ pagina = [id |-> -1, num |-> 0, lida |-> -1, dono |-> Ninguem]
  /\ pedido = [u \in Utilizadores |-> SemPedido]

\* The forms that users look at are not requests.
EmCurso(u) == pedido[u].fase \notin {"livre", "formulario"}
Comecar(u) == aVez' = (aVez /\ \A v \in Utilizadores \ {u} : ~EmCurso(v))
Passar(u, p) == pedido' = [pedido EXCEPT ![u] = p]
-----------------------------------------------------------------------------
(* To create: the post first, then the idea. *)

\* Facebook may refuse, or its answer may not be understood: the idea has no post
\* then.
Publicar(u) ==
  /\ pedido[u].fase = "livre" /\ Comecar(u) /\ criadas < MaxIdeias
  /\ criadas' = criadas + 1
  /\ \E aceite, lida \in BOOLEAN :
       /\ posts' = IF aceite THEN posts \cup {criadas + 1} ELSE posts
       /\ completas' = (completas /\ (aceite => lida))
       /\ Passar(u, [SemPedido EXCEPT !.fase = "publicado", !.num = criadas + 1,
                                      !.post = IF aceite /\ lida THEN criadas + 1 ELSE 0])
  /\ UNCHANGED <<ideias, saldo, pagina, apagadas, seguidas>>

Ids == {ideias[k].id : k \in DOMAIN ideias}
\* mutant: the number of ideas is the next identifier.
IdPorTamanho == Len(ideias)
geraridideia == Max(Ids \cup {-1}) + 1

\* criarideia takes the money, or refuses, and takes the next identifier.
Pagar(u) ==
  /\ pedido[u].fase = "publicado"
  /\ IF saldo[u] > 0
     THEN /\ saldo' = [saldo EXCEPT ![u] = @ - 1]
          /\ Passar(u, [pedido[u] EXCEPT !.fase = "criar", !.id = geraridideia])
          /\ seguidas' = (seguidas /\ \A v \in Utilizadores : pedido[v].fase # "criar")
          /\ UNCHANGED completas
     ELSE /\ Passar(u, SemPedido)
          /\ completas' = (completas /\ pedido[u].post = 0)
          /\ UNCHANGED <<saldo, seguidas>>
  /\ UNCHANGED <<ideias, posts, pagina, criadas, apagadas, aVez>>

\* It adds the idea to the topic.
\* mutant: setFaceID is missing.
CriarSemPost(u) ==
  /\ pedido[u].fase = "criar"
  /\ ideias' = Append(ideias, [id |-> pedido[u].id, num |-> pedido[u].num,
                               post |-> 0, dono |-> u])
  /\ Passar(u, SemPedido)
  /\ UNCHANGED <<saldo, posts, pagina, criadas, apagadas, aVez, seguidas, completas>>
Criar(u) ==
  /\ pedido[u].fase = "criar"
  /\ ideias' = Append(ideias, [id |-> pedido[u].id, num |-> pedido[u].num,
                               post |-> pedido[u].post, dono |-> u])
  /\ Passar(u, SemPedido)
  /\ UNCHANGED <<saldo, posts, pagina, criadas, apagadas, aVez, seguidas, completas>>

\* The call ends by an exception before the idea is added: the post stays.
CriarFalha(u) ==
  /\ pedido[u].fase \in {"publicado", "criar"}
  /\ completas' = (completas /\ pedido[u].post = 0)
  /\ Passar(u, SemPedido)
  /\ UNCHANGED <<ideias, saldo, posts, pagina, criadas, apagadas, aVez, seguidas>>

\* A purchase of the whole idea.
Comprar(u, k) ==
  /\ ideias[k].dono # u /\ Comecar(u)
  /\ ideias' = [ideias EXCEPT ![k].dono = u]
  /\ UNCHANGED <<saldo, posts, pagina, pedido, criadas, apagadas, seguidas, completas>>
-----------------------------------------------------------------------------
(* The page ApagarIdeia. *)

\* A link of the list: the identifier goes to the field, the UUID stays in the
\* request.
AbrirPagina(u, k) ==
  /\ pedido[u].fase = "livre" /\ Comecar(u)
  /\ pagina' = [pagina EXCEPT !.id = ideias[k].id]
  /\ Passar(u, [SemPedido EXCEPT !.fase = "pagina", !.num = ideias[k].num])
  /\ UNCHANGED <<ideias, saldo, posts, criadas, apagadas, seguidas, completas>>

\* mutant: the idea that the field holds is read once.
LerIdeiaUmaVez(u) ==
  /\ pedido[u].fase = "pagina"
  /\ IF pagina.id \in Ids
     THEN \E k \in DOMAIN ideias :
            /\ ideias[k].id = pagina.id
            /\ pagina' = IF pagina.num = 0
                 THEN [pagina EXCEPT !.num = ideias[k].num, !.lida = pagina.id,
                                 !.dono = ideias[k].dono]
                 ELSE pagina
            /\ Passar(u, [pedido[u] EXCEPT !.fase = "lida"])
     ELSE Passar(u, SemPedido) /\ UNCHANGED pagina
  /\ UNCHANGED <<ideias, saldo, posts, criadas, apagadas, aVez, seguidas, completas>>
LerIdeia(u) ==
  /\ pedido[u].fase = "pagina"
  /\ IF pagina.id \in Ids
     THEN \E k \in DOMAIN ideias :
            /\ ideias[k].id = pagina.id
            /\ pagina' = [pagina EXCEPT !.num = ideias[k].num, !.lida = pagina.id,
                                        !.dono = ideias[k].dono]
            /\ Passar(u, [pedido[u] EXCEPT !.fase = "lida"])
     ELSE Passar(u, SemPedido) /\ UNCHANGED pagina
  /\ UNCHANGED <<ideias, saldo, posts, criadas, apagadas, aVez, seguidas, completas>>

\* PermissaoApagar, and the form: the idea that the field holds now.
MostrarFormulario(u) ==
  /\ pedido[u].fase = "lida"
  /\ IF pagina.dono = u
     THEN Passar(u, [pedido[u] EXCEPT !.fase = "formulario", !.id = pagina.lida,
                                      !.vista = pagina.num])
     ELSE Passar(u, SemPedido)
  /\ UNCHANGED <<ideias, saldo, posts, pagina, criadas, apagadas, aVez, seguidas, completas>>
Desistir(u) ==
  /\ pedido[u].fase = "formulario" /\ Passar(u, SemPedido)
  /\ UNCHANGED <<ideias, saldo, posts, pagina, criadas, apagadas, aVez, seguidas, completas>>

\* apagarideia looks for the UUID: the position, and the post.
PosicaoDe(n) ==
  LET S == {k \in DOMAIN ideias : ideias[k].num = n}
  IN IF S = {} THEN 0 ELSE Min(S) - 1
PostDe(n) ==
  LET S == {k \in DOMAIN ideias : ideias[k].num = n}
  IN IF S = {} THEN 0 ELSE ideias[Min(S)].post
\* mutant: the position counts from one.
ConfirmarDeUm(u) ==
  /\ pedido[u].fase = "formulario" /\ Comecar(u)
  /\ IF pedido[u].id \in Ids
     THEN Passar(u, [SemPedido EXCEPT !.fase = "apagar", !.num = pedido[u].num,
                                      !.id = PosicaoDe(pedido[u].num) + 1,
                                      !.post = PostDe(pedido[u].num)])
     ELSE Passar(u, SemPedido)
  /\ UNCHANGED <<ideias, saldo, posts, pagina, criadas, apagadas, seguidas, completas>>
Confirmar(u) ==
  /\ pedido[u].fase = "formulario" /\ Comecar(u)
  /\ IF pedido[u].id \in Ids
     THEN Passar(u, [SemPedido EXCEPT !.fase = "apagar", !.num = pedido[u].num,
                                      !.id = PosicaoDe(pedido[u].num),
                                      !.post = PostDe(pedido[u].num)])
     ELSE Passar(u, SemPedido)
  /\ UNCHANGED <<ideias, saldo, posts, pagina, criadas, apagadas, seguidas, completas>>

\* ApagarIdeia: the idea whose identifier is that position, if it is the user's.
Alvo(u) == {k \in DOMAIN ideias : ideias[k].id = pedido[u].id /\ ideias[k].dono = u}
\* What follows its answer.
\* mutant: the post goes whatever ApagarIdeia answered.
DepoisSempre(u, ok) ==
  IF pedido[u].post # 0
  THEN [pedido[u] EXCEPT !.fase = "publicacao", !.id = -1] ELSE SemPedido
Depois(u, ok) ==
  IF ok /\ pedido[u].post # 0
  THEN [pedido[u] EXCEPT !.fase = "publicacao", !.id = -1] ELSE SemPedido
\* The idea may be removed and the answer be lost, or be false as it was not saved.
Apagar(u) ==
  /\ pedido[u].fase = "apagar" /\ Len(apagadas) < MaxApagadas
  /\ IF Alvo(u) # {}
     THEN /\ LET k == Min(Alvo(u)) IN
               /\ ideias' = RemoveAt(ideias, k)
               /\ apagadas' = Append(apagadas, <<pedido[u].num, ideias[k].num>>)
          /\ \E ok \in BOOLEAN : /\ Passar(u, Depois(u, ok))
                                /\ completas' = (completas /\ ok)
     ELSE Passar(u, Depois(u, FALSE)) /\ UNCHANGED <<ideias, apagadas, completas>>
  /\ UNCHANGED <<saldo, posts, pagina, criadas, aVez, seguidas>>

\* The token is the deleter's, and nobody reads the answer: Facebook may refuse, and
\* the call may fail.
RetirarPublicacao(u) ==
  /\ pedido[u].fase = "publicacao"
  /\ \E ok \in BOOLEAN :
       /\ posts' = IF ok THEN posts \ {pedido[u].post} ELSE posts
       /\ completas' = (completas /\ ok)
  /\ Passar(u, SemPedido)
  /\ UNCHANGED <<ideias, saldo, pagina, criadas, apagadas, aVez, seguidas>>

Next ==
  \E u \in Utilizadores :
    \/ Publicar(u) \/ Pagar(u) \/ Criar(u) \/ CriarFalha(u)
    \/ \E k \in DOMAIN ideias : Comprar(u, k) \/ AbrirPagina(u, k)
    \/ LerIdeia(u) \/ MostrarFormulario(u) \/ Desistir(u)
    \/ Confirmar(u) \/ Apagar(u) \/ RetirarPublicacao(u)

Spec == Init /\ [][Next]_vars
-----------------------------------------------------------------------------
Certa(par) == par[1] = par[2]
Certas == \A i \in DOMAIN apagadas : Certa(apagadas[i])

\* The first idea to be deleted is the one whose page was confirmed, however many
\* users delete at once, if no two creations took their identifiers together (escolha,
\* line 604 of IdeaBrokerBean, is a position; line 1555 of IdeiaImpl wants an
\* identifier, and they only agree so far).
ApagaAPedida == seguidas /\ apagadas # <<>> => Certa(apagadas[1])

\* The form shows the idea whose link was followed, as long as requests take turns
\* (lines 14 and 109 of ApagarIdeia.jsp: ideia is a field of the page).
MostraAPedida ==
  aVez => \A u \in Utilizadores :
            pedido[u].fase = "formulario" => pedido[u].vista = pedido[u].num

\* The post of an idea stays as long as the idea, until a deletion takes another
\* idea than the one meant (line 613 deletes, line 630 removes the post).
PublicacaoFica ==
  Certas => \A k \in DOMAIN ideias : ideias[k].post \in posts \cup {0}

\* Between requests every post is the post of an idea, if no creation failed after
\* its post, no deletion before the removal, and deletions took the idea meant (line
\* 456 posts, line 482 creates, line 613 deletes, line 630 removes).
PublicacaoTemIdeia ==
  completas /\ Certas /\ (\A u \in Utilizadores : ~EmCurso(u)) =>
    posts \subseteq {ideias[k].post : k \in DOMAIN ideias}
=============================================================================
