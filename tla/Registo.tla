------------------------------ MODULE Registo ------------------------------
(***************************************************************************)
(* What IdeiaImpl keeps in lists that only grow: users (registar), topics  *)
(* (adicionartopico), and the ideas of a topic with their replies          *)
(* (criarideia, responderideia), with the money that criarideia takes from *)
(* its author and that sales in other threads bring to a seller.           *)
(*                                                                         *)
(* Every remote call runs in a thread of the RMI server, and none of these *)
(* takes a lock.  A call is modelled from one access to shared data to the *)
(* next: the search, the balance read, the balance written, the new        *)
(* identifier, and the two halves of ArrayList.add.  Calls overlap; the    *)
(* history disputas has what two calls that overlapped were both changing, *)
(* and each property of a list or a balance holds while that list, or no   *)
(* balance, was in dispute.                                                *)
(*                                                                         *)
(* Identifiers start at 1 (0 in the code).                                 *)
(***************************************************************************)
EXTENDS Integers, Sequences, SequencesExt

CONSTANTS
  Fios,         \* threads of the RMI server
  Nomes,        \* user names
  Temas,        \* themes of topics
  Operacoes,    \* the operations that are called
  SaldoInicial, \* the balance of a new user
  Valores,      \* investments in new ideas, and prices of sales
  MaxChamadas   \* bound: calls in a behaviour

ASSUME ConstantesAssumption ==
  /\ SaldoInicial \in Nat /\ Valores \subseteq Nat
  /\ MaxChamadas \in Nat

Conta == [id : Nat, nome : Nomes, obj : Nat]
Topico == [id : Nat, tema : Temas \cup Nomes]
Ideia == [id : Nat, autor : Nomes, respostas : Seq(Nat)]

VARIABLES
  contas,    \* Utilizadores: the list; obj is the object in it
  saldo,     \* dinheiro of every Utilizador object, in order of creation
  topicos,   \* Topicos
  vectores,  \* elementData of contas and topicos: the list, and what is beyond it
  ideias,    \* Topico.ideia of one topic
  fase,      \* where the call of each thread is
  pedido,    \* its arguments
  lugar,     \* the user object it works on, or the size of the list it read
  lido,      \* the balance, or the identifier, it computed
  devido,    \* history: what every balance should be
  disputas,  \* history: what two overlapping calls were both changing
  chamadas   \* the calls made so far

vars == <<contas, saldo, topicos, ideias, fase, pedido, lugar, lido, devido,
          vectores, disputas, chamadas>>
dados == <<contas, saldo, topicos, ideias, devido>>

Fases == {"livre", "procurar", "ler", "escrever", "gerar", "lugar", "guardar"}
Pedido == [op : Operacoes, nome : Nomes, tema : Temas, valor : Valores]

\* What a call changes in more than one access.
Muda(p) ==
  CASE p.op = "registar" -> {<<"contas">>}
    [] p.op \in {"adicionartopico", "criartopico"} -> {<<"topicos">>}
    [] p.op = "criarideia" -> {<<"ideias">>, <<"saldo", p.nome>>}
    [] p.op = "vender" -> {<<"saldo", p.nome>>}
    [] OTHER -> {}
Saldos == {<<"saldo", u>> : u \in Nomes}
Recursos == {<<"contas">>, <<"topicos">>, <<"ideias">>} \cup Saldos

Tipos ==
  /\ contas \in Seq(Conta)
  /\ saldo \in Seq(Int) /\ devido \in Seq(Int)
  /\ topicos \in Seq(Topico)
  /\ ideias \in Seq(Ideia)
  /\ fase \in [Fios -> Fases]
  /\ pedido \in [Fios -> Pedido]
  /\ lugar \in [Fios -> Nat]
  /\ lido \in [Fios -> Int]
  /\ chamadas \in 0..MaxChamadas
TypeOK ==
  /\ Tipos
  /\ vectores \in [contas : Seq(Conta), topicos : Seq(Topico)]
  /\ IsPrefix(contas, vectores.contas) /\ IsPrefix(topicos, vectores.topicos)
  /\ disputas \subseteq Recursos

Init ==
  /\ contas = <<>> /\ saldo = <<>> /\ devido = <<>>
  /\ topicos = <<>> /\ ideias = <<>>
  /\ fase = [t \in Fios |-> "livre"]
  /\ \E p \in Pedido : pedido = [t \in Fios |-> p]
  /\ lugar = [t \in Fios |-> 0]
  /\ lido = [t \in Fios |-> 0]
  /\ vectores = [contas |-> <<>>, topicos |-> <<>>] /\ disputas = {}
  /\ chamadas = 0

Sossego == \A t \in Fios : fase[t] = "livre"

\* The largest identifier in a list (gerariduser, geridtopico, geraridideia),
\* 0 if it is empty.
MaiorTamanho(ids) == Len(ids)  \* mutant: the size of the list
Maior(ids) ==
  IF ids = <<>> THEN 0
  ELSE LET S == {ids[i] : i \in DOMAIN ids} IN CHOOSE x \in S : \A y \in S : x >= y

Ids(lista) == [i \in DOMAIN lista |-> lista[i].id]

\* The searches: the first user of a name, a name or a theme in use.
NomesIguais(nome) == {i \in DOMAIN contas : contas[i].nome = nome}
TemasIguais(tema) == {i \in DOMAIN topicos : topicos[i].tema = tema}
Primeiro(S) == CHOOSE i \in S : \A j \in S : i <= j

\* ArrayList.add is not atomic: the size n is read, and later the element is
\* stored there and the size set to one more; what the array holds beyond the
\* size stays there.
Guardada(vector, n, e) == Append(SubSeq(vector, 1, n), e)
ComSobra(lista, vector) == lista \o SubSeq(vector, Len(lista) + 1, Len(vector))

\* The thread's call goes on to another phase, or ends with "livre".
Ir(t, f) == fase' = [fase EXCEPT ![t] = f]

-----------------------------------------------------------------------------

\* A client's call reaches the server.
Chamar(t) ==
  /\ chamadas < MaxChamadas
  /\ fase[t] = "livre"
  /\ \E p \in Pedido :
       /\ pedido' = [pedido EXCEPT ![t] = p]
       /\ disputas' = disputas \cup
            UNION {Muda(p) \cap Muda(pedido[u]) : u \in {v \in Fios : fase[v] # "livre"}}
  /\ Ir(t, "procurar")
  /\ chamadas' = chamadas + 1
  /\ UNCHANGED <<dados, vectores, lugar, lido>>

\* registar: refused when the name is found.
ProcurarNomeSempre(t) ==  \* mutant: the name is not looked for
  /\ fase[t] = "procurar" /\ pedido[t].op = "registar"
  /\ Ir(t, "gerar")
  /\ UNCHANGED <<dados, pedido, lugar, lido, chamadas>>
ProcurarNome(t) ==
  /\ fase[t] = "procurar" /\ pedido[t].op = "registar"
  /\ Ir(t, IF NomesIguais(pedido[t].nome) = {} THEN "gerar" ELSE "livre")
  /\ UNCHANGED <<dados, pedido, lugar, lido, chamadas>>

\* The theme that reaches adicionartopico: criartopico of the TCP server passes
\* the theme first and the user's name where the theme is expected.
TemaRecebido(p) == IF p.op = "criartopico" THEN p.nome ELSE p.tema

\* adicionartopico: refused when the theme is found.  criartopico has looked
\* for the theme its user typed before, and says that there is a topic whatever
\* adicionartopico answers.
ProcurarTema(t) ==
  /\ fase[t] = "procurar" /\ pedido[t].op \in {"adicionartopico", "criartopico"}
  /\ LET existe == TemasIguais(TemaRecebido(pedido[t])) # {}
         recusa == pedido[t].op = "criartopico" /\ TemasIguais(pedido[t].tema) # {}
     IN  Ir(t, IF existe \/ recusa THEN "livre" ELSE "gerar")
  /\ UNCHANGED <<dados, pedido, lugar, lido, chamadas>>

\* verificarSaldo: the first user of the name with enough money.
ProcurarSaldoQualquer(t) ==  \* mutant: the money is not compared
  /\ fase[t] = "procurar" /\ pedido[t].op = "criarideia"
  /\ LET bons == NomesIguais(pedido[t].nome)
     IN  IF bons = {} THEN Ir(t, "livre") /\ UNCHANGED lugar
         ELSE /\ Ir(t, "ler")
              /\ lugar' = [lugar EXCEPT ![t] = contas[Primeiro(bons)].obj]
  /\ UNCHANGED <<dados, pedido, lido, chamadas>>
ProcurarSaldo(t) ==
  /\ fase[t] = "procurar" /\ pedido[t].op = "criarideia"
  /\ LET bons == {i \in NomesIguais(pedido[t].nome) :
                    saldo[contas[i].obj] >= pedido[t].valor}
     IN  IF bons = {} THEN Ir(t, "livre") /\ UNCHANGED lugar
         ELSE /\ Ir(t, "ler")
              /\ lugar' = [lugar EXCEPT ![t] = contas[Primeiro(bons)].obj]
  /\ UNCHANGED <<dados, pedido, lido, chamadas>>

\* A sale (efectuarcompra, takeover) looks for the seller.
ProcurarVendedor(t) ==
  /\ fase[t] = "procurar" /\ pedido[t].op = "vender"
  /\ LET iguais == NomesIguais(pedido[t].nome)
     IN  IF iguais = {} THEN Ir(t, "livre") /\ UNCHANGED lugar
         ELSE /\ Ir(t, "ler")
              /\ lugar' = [lugar EXCEPT ![t] = contas[Primeiro(iguais)].obj]
  /\ UNCHANGED <<dados, pedido, lido, chamadas>>

\* retirarsaldo and adicionarsaldo: dinheiro is read, and later written.
LerSaldo(t) ==
  /\ fase[t] = "ler"
  /\ lido' = [lido EXCEPT ![t] = saldo[lugar[t]]]
  /\ Ir(t, "escrever")
  /\ UNCHANGED <<dados, pedido, lugar, chamadas>>

\* The balance of an idea's author goes down, that of a seller up.
NovoSaldoTrocado(t) == lido[t] + pedido[t].valor  \* mutant: adds in both cases
NovoSaldo(t) ==
  IF pedido[t].op = "vender" THEN lido[t] + pedido[t].valor
                             ELSE lido[t] - pedido[t].valor
EscreverSaldo(t) ==
  /\ fase[t] = "escrever"
  /\ saldo' = [saldo EXCEPT ![lugar[t]] = NovoSaldo(t)]
  /\ IF pedido[t].op = "vender"
       THEN /\ devido' = [devido EXCEPT ![lugar[t]] = @ + pedido[t].valor]
            /\ Ir(t, "livre")
       ELSE Ir(t, "gerar") /\ UNCHANGED devido
  /\ UNCHANGED <<contas, topicos, ideias, pedido, lugar, lido, chamadas>>

\* gerariduser, geraridtopico and geraridideia: one more than the largest.
IdsDa(op) == IF op = "registar" THEN Ids(contas)
             ELSE IF op = "criarideia" THEN Ids(ideias) ELSE Ids(topicos)
GerarId(t) ==
  /\ fase[t] = "gerar"
  /\ lido' = [lido EXCEPT ![t] = 1 + Maior(IdsDa(pedido[t].op))]
  /\ Ir(t, IF pedido[t].op = "criarideia" THEN "guardar" ELSE "lugar")
  /\ UNCHANGED <<dados, pedido, lugar, chamadas>>

\* The first half of ArrayList.add.
LerTamanhoMenosUm(t) ==  \* mutant: the last position, not the size
  /\ fase[t] = "lugar"
  /\ lugar' = [lugar EXCEPT ![t] =
       IF pedido[t].op = "registar" THEN Len(contas) - 1 ELSE Len(topicos) - 1]
  /\ Ir(t, "guardar")
  /\ UNCHANGED <<dados, pedido, lido, chamadas>>
LerTamanho(t) ==
  /\ fase[t] = "lugar"
  /\ lugar' = [lugar EXCEPT ![t] =
       IF pedido[t].op = "registar" THEN Len(contas) ELSE Len(topicos)]
  /\ Ir(t, "guardar")
  /\ UNCHANGED <<dados, pedido, lido, chamadas>>

GuardarConta(t) ==
  /\ fase[t] = "guardar" /\ pedido[t].op = "registar"
  /\ contas' = Guardada(vectores.contas, lugar[t],
       [id |-> lido[t], nome |-> pedido[t].nome, obj |-> Len(saldo) + 1])
  /\ saldo' = Append(saldo, SaldoInicial)
  /\ devido' = Append(devido, SaldoInicial)
  /\ Ir(t, "livre")
  /\ UNCHANGED <<topicos, ideias, pedido, lugar, lido, chamadas>>

GuardarTopico(t) ==
  /\ fase[t] = "guardar" /\ pedido[t].op \in {"adicionartopico", "criartopico"}
  /\ topicos' = Guardada(vectores.topicos, lugar[t],
       [id |-> lido[t], tema |-> TemaRecebido(pedido[t])])
  /\ Ir(t, "livre")
  /\ UNCHANGED <<contas, saldo, ideias, devido, pedido, lugar, lido, chamadas>>

GuardarIdeia(t) ==
  /\ fase[t] = "guardar" /\ pedido[t].op = "criarideia"
  /\ ideias' = Append(ideias,
       [id |-> lido[t], autor |-> pedido[t].nome, respostas |-> <<>>])
  /\ devido' = [devido EXCEPT ![lugar[t]] = @ - pedido[t].valor]
  /\ Ir(t, "livre")
  /\ UNCHANGED <<contas, saldo, topicos, pedido, lugar, lido, chamadas>>

\* ApagarIdeia: the idea with this identifier, all of which its author holds.
Apagar(t) ==
  /\ fase[t] = "procurar" /\ pedido[t].op = "apagar"
  /\ \E id \in 1..MaxChamadas :
       LET alvo == {j \in DOMAIN ideias :
                      ideias[j].id = id /\ ideias[j].autor = pedido[t].nome}
       IN  ideias' = IF alvo = {} THEN ideias ELSE RemoveAt(ideias, Primeiro(alvo))
  /\ Ir(t, "livre")
  /\ UNCHANGED <<contas, saldo, topicos, devido, pedido, lugar, lido, chamadas>>

\* responderideia: geraridresposta takes the identifier of the idea for its
\* position.  Beyond the end of the list it throws, and there is no reply.
Responder(t) ==
  /\ fase[t] = "procurar" /\ pedido[t].op = "responder"
  /\ \E id \in 1..MaxChamadas :
       ideias' = IF id \notin DOMAIN ideias THEN ideias
         ELSE [j \in DOMAIN ideias |-> IF ideias[j].id # id THEN ideias[j] ELSE
                [id |-> id, autor |-> ideias[j].autor, respostas |->
                   Append(ideias[j].respostas, 1 + Maior(ideias[id].respostas))]]
  /\ Ir(t, "livre")
  /\ UNCHANGED <<contas, saldo, topicos, devido, pedido, lugar, lido, chamadas>>

Passo(t) ==
  /\ \/ ProcurarNome(t) \/ ProcurarTema(t) \/ ProcurarSaldo(t) \/ ProcurarVendedor(t)
     \/ LerSaldo(t) \/ EscreverSaldo(t) \/ GerarId(t) \/ LerTamanho(t)
     \/ GuardarConta(t) \/ GuardarTopico(t) \/ GuardarIdeia(t)
     \/ Apagar(t) \/ Responder(t)
  /\ vectores' = [contas |-> ComSobra(contas', vectores.contas),
                   topicos |-> ComSobra(topicos', vectores.topicos)]
  /\ UNCHANGED disputas

Next == \E t \in Fios : Chamar(t) \/ Passo(t)

Spec == Init /\ [][Next]_vars

-----------------------------------------------------------------------------
\* Properties.

\* No two users have the same name and no two topics the same theme: log-in,
\* balances and shares are looked up by name (IdeiaImpl.java:1422 and 440).
NomesDistintos == \A i, j \in DOMAIN contas : contas[i].nome = contas[j].nome => i = j
TemasDistintos == \A i, j \in DOMAIN topicos : topicos[i].tema = topicos[j].tema => i = j
NomesUnicos ==
  /\ <<"contas">> \notin disputas => NomesDistintos
  /\ <<"topicos">> \notin disputas => TemasDistintos

\* The identifier of a topic or a user is its position: the market indexes
\* Topicos with identifiers of topics (IdeiaImpl.java:717).
TopicosNaPosicao == \A i \in DOMAIN topicos : topicos[i].id = i
ContasNaPosicao == \A i \in DOMAIN contas : contas[i].id = i
IdNaPosicao ==
  /\ <<"topicos">> \notin disputas => TopicosNaPosicao
  /\ <<"contas">> \notin disputas => ContasNaPosicao

\* Ideas keep the order of their identifiers, which are never given twice
\* while the idea exists, whatever was deleted (IdeiaImpl.java:1508).
EmOrdem == \A i, j \in DOMAIN ideias : i < j => ideias[i].id < ideias[j].id
IdeiasPorOrdem == <<"ideias">> \notin disputas => EmOrdem

\* When no call is running, every balance is the initial one less what its
\* user's ideas cost and more what sales brought: each idea created is one
\* investment taken and no credit is lost (IdeiaImpl.java:1727, 1858).
Exacto == Sossego => saldo = devido
DinheiroExacto == Saldos \cap disputas = {} => Exacto

\* Creating ideas never takes a balance below zero (verificarSaldo, 1707).
SemDividas == \A i \in DOMAIN saldo : saldo[i] >= 0
SaldoChega == Saldos \cap disputas = {} => SemDividas

\* What was registered stays: users and topics are never lost, moved or renamed.
Duradouro ==
  /\ <<"contas">> \notin disputas => IsPrefix(contas, contas')
  /\ <<"topicos">> \notin disputas => IsPrefix(topicos, topicos')
RegistoDuradouro == [][Duradouro]_vars
=============================================================================
