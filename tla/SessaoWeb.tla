----------------------------- MODULE SessaoWeb -----------------------------
(***************************************************************************)
(* The login of the web application: the password is checked, the name is  *)
(* left in the ServletContext, and the browser is sent to Facebook; when   *)
(* it comes back, the session takes the name from there, and the token of  *)
(* the Facebook account is stored with the user of that name.              *)
(*                                                                         *)
(* Neither servlet asks what the browser did before: it may come back, or  *)
(* ask for FacebookServlet again (reload, Back, its address), at any time, *)
(* and log in again with a session that has a name.  A token is the        *)
(* browser whose account it is of.  Left out: passwords, which go with the *)
(* name; the service that signs, the same for everybody; onlineUserWeb,    *)
(* which nothing reads; two requests of one browser at once.               *)
(***************************************************************************)
EXTENDS FiniteSets, Naturals

CONSTANTS
  Navegadores,  \* browsers, each a session of the web container
  Utilizadores, \* users
  Ninguem       \* no user

ASSUME ConstantesAssumption == Ninguem \notin Utilizadores

VARIABLES
  contexto, \* the name in the ServletContext
  sessao,   \* the name in each session
  troca,    \* browsers whose code is being exchanged
  acesso,   \* the token of each user, if any
  nome,     \* what the request that exchanges the code has read
  senhas,   \* history: the users whose password each browser gave
  semVez,   \* history: browsers that did not log in since another user did
  ultrapassados \* history: those that asked for FacebookServlet nevertheless

vars == <<contexto, sessao, troca, acesso, nome, senhas, semVez, ultrapassados>>
Nomes == Utilizadores \cup {Ninguem}

TypeOK ==
  /\ contexto \in Nomes
  /\ sessao \in [Navegadores -> Nomes]
  /\ troca \subseteq Navegadores
  /\ acesso \in [Utilizadores -> SUBSET Navegadores]
  /\ nome \in [Navegadores -> Nomes] /\ \A n \in troca : nome[n] # Ninguem
  /\ senhas \in [Navegadores -> SUBSET Utilizadores]
  /\ semVez \subseteq Navegadores /\ ultrapassados \subseteq Navegadores

Init ==
  /\ contexto = Ninguem
  /\ sessao = [n \in Navegadores |-> Ninguem]
  /\ troca = {}
  /\ acesso = [u \in Utilizadores |-> {}]
  /\ nome = [n \in Navegadores |-> Ninguem]
  /\ senhas = [n \in Navegadores |-> {}]
  /\ semVez = Navegadores /\ ultrapassados = {}
-----------------------------------------------------------------------------
\* History: browser n gives the password of u, whom the others may not know.
DarSenha(n, u) ==
  /\ senhas' = [senhas EXCEPT ![n] = @ \cup {u}]
  /\ semVez' = (semVez \cup {m \in Navegadores : u \notin senhas[m]}) \ {n}

\* mutant: the name is kept while one is there.
EntrarUmaVez(n, u) ==
  /\ n \notin troca
  /\ contexto' = IF contexto = Ninguem THEN u ELSE contexto
  /\ DarSenha(n, u)
  /\ UNCHANGED <<sessao, troca, acesso, nome, ultrapassados>>
\* IdeaBrokerServlet: the password is right.
Entrar(n, u) ==
  /\ n \notin troca
  /\ contexto' = u
  /\ DarSenha(n, u)
  /\ UNCHANGED <<sessao, troca, acesso, nome, ultrapassados>>

\* FacebookServlet: the session takes the name of the context, code or no code.
Retomar(n) ==
  /\ n \notin troca
  /\ sessao' = [sessao EXCEPT ![n] = contexto]
  /\ ultrapassados' = ultrapassados \cup ({n} \cap semVez)
  /\ UNCHANGED <<contexto, acesso, senhas, semVez>>
\* With a code, which is exchanged for a token.
Voltar(n) ==
  /\ contexto # Ninguem
  /\ Retomar(n)
  /\ nome' = [nome EXCEPT ![n] = contexto] /\ troca' = troca \cup {n}
\* Without one, or before anybody logged in (there is no bean to exchange it).
Recusar(n) == Retomar(n) /\ UNCHANGED <<nome, troca>>

\* mutant: adicionaToken does not compare the names.
GuardarEmTodos(n) ==
  /\ n \in troca /\ troca' = troca \ {n}
  /\ acesso' = [u \in Utilizadores |-> {n}]
  /\ nome' = [nome EXCEPT ![n] = Ninguem]
  /\ UNCHANGED <<contexto, sessao, senhas, semVez, ultrapassados>>
\* The code was exchanged for the token of the account of this browser.
Guardar(n) ==
  /\ n \in troca /\ troca' = troca \ {n}
  /\ acesso' = [acesso EXCEPT ![nome[n]] = {n}]
  /\ nome' = [nome EXCEPT ![n] = Ninguem]
  /\ UNCHANGED <<contexto, sessao, senhas, semVez, ultrapassados>>
\* Facebook does not take the code (again): the request ends with an exception.
TrocaFalha(n) ==
  /\ n \in troca /\ troca' = troca \ {n}
  /\ nome' = [nome EXCEPT ![n] = Ninguem]
  /\ UNCHANGED <<contexto, sessao, acesso, senhas, semVez, ultrapassados>>

\* logout, or a session that runs out.
Sair(n) ==
  /\ n \notin troca /\ sessao[n] # Ninguem
  /\ sessao' = [sessao EXCEPT ![n] = Ninguem]
  /\ UNCHANGED <<contexto, troca, acesso, nome, senhas, semVez, ultrapassados>>

Next ==
  \E n \in Navegadores :
    \/ \E u \in Utilizadores : Entrar(n, u)
    \/ Voltar(n) \/ Recusar(n) \/ Guardar(n) \/ TrocaFalha(n) \/ Sair(n)

Spec == Init /\ [][Next]_vars
-----------------------------------------------------------------------------
\* A session is of a user whose password its browser gave, unless the browser asked
\* for FacebookServlet (coming back, or again) without a login of its own since
\* another user logged in: the name goes through the ServletContext, lines 79 of
\* IdeaBrokerServlet and 45 of FacebookServlet.
SessaoDeQuemEntrou ==
  \A n \in Navegadores \ ultrapassados : sessao[n] \in {Ninguem} \cup senhas[n]

\* The token stored with a user (line 63) is of the account of a browser that gave
\* the user's password, unless it is of one that asked so, however long the exchange
\* of the code takes and whoever logs in meanwhile.
AcessoDoProprio ==
  \A u \in Utilizadores : \A n \in acesso[u] \ ultrapassados : u \in senhas[n]
=============================================================================
