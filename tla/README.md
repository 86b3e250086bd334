# A formal model of IdeaBroker

IdeaBroker is a market of ideas: users create topics, publish ideas in them,
and buy and sell percentages ("shares") of the ideas.  This directory holds
TLA+ modules translated from its Java and JSP source (`src/src/java/IdeaBroker`,
`src/web`), the TLC configurations that check them on small instances, and
theorems proved with TLAPS for every instance.  Names are the code's, in
Portuguese, wherever there is one.

## 1. Inventory

One process, the RMI server `IdeiaImpl`, holds all the state in memory.  Two TCP
servers (a primary and a secondary) and a web application (servlets, JSPs and
`IdeaBrokerBean`) call it; each RMI call runs in a thread of its own, and only
`efectuarcompra` and `EditarAccao` are `synchronized`.  The RMI server calls
back: the TCP servers, for notices to sellers, and the bean, for notices and
prices.

| Part | State | Operations | Hard behaviour | Modelled in |
|---|---|---|---|---|
| Stock market (`IdeiaImpl`) | `Topicos` (ideas and their list of `Accao`), `Utilizadores` (balance) | `criarideia`, `EditarAccao`, `ApagarIdeia`, `takeover`, `efectuarcompra` | a purchase is a greedy selection, a settlement lot by lot and a clean-up over list positions; other calls change the lists meanwhile; its "backup" copies are aliases | `Bolsa` |
| Requests (`ClienteTCP.bolsa`, `ComprarAccaoServlet`) | none, but the time between reading and calling | identifier to position, then `efectuarcompra` | stale or confused positions | `Bolsa` |
| Accounts, topics, replies | `Utilizadores`, `Topicos` | `registar`, `adicionartopico`, `criarideia`, `responderideia`, credits | check-then-act and read-then-write without locks, `ArrayList.add` in two halves | `Registo` |
| Persistence | `utilizadores.ser`, `topicos.ser`, `notificacao.ser` | `savedados`, `loaddados` | three files rewritten in turn, exceptions swallowed, operations that never save | `Persistencia` |
| Notifications | `ligacoes`, `WebCliente`, `listaThreads`, pages | `enviarNotificacao(Web)`, `addNotification`, `addNote`, `updateprice` | callbacks under the monitor, one stub per connection, clients without a name yet | `Notificacoes` |
| Server pair (`ClienteUDP`) | `type` ("P" or "S") | a datagram every 2 s, 3 s timeout | lost datagrams, never demoted | `ParServidores` |
| TCP client | `contador`, `Buffer` (at most 5), three kinds of threads | reconnection, replay of buffered requests | requests carried out twice, answers read by another thread | `Cliente` |
| Web sessions | `ServletContext`, session attributes, tokens | `IdeaBrokerServlet`, `FacebookServlet`, `logout` | the name of the user passes through an attribute shared by all | `SessaoWeb` |
| Pages that create and delete | fields of `ApagarIdeia.jsp`, posts on Facebook | `criaIdeia`, `apagarideia`, the page | fields shared by all requests, positions for identifiers, two systems without a transaction | `PaginasWeb` |
| Page of prices (`bolsa.jsp`) | a table, a socket | request, `UpdatePriceServlet` | answer and updates are not ordered | `VistaPrecos` |
| Attachments | port 3335, files | `AnexoCliente`, `AnexoServidor` | one port for all uploads, the client connects before the server listens | `Anexos` |
| Searches and listings | none | JSP, `PesquisarServlet`, `UtilizadoresOnlineServlet` | layout only | - |

How they interact: `Cliente` talks to the servers of `ParServidores`, whose
promise is `Primario`; those call `IdeiaImpl`, whose market is `Bolsa`, whose
lists are written by `Registo` and saved by `Persistencia`; the end of a purchase
(`TerminarCompra` of `Bolsa`) is taken apart in `Notificacoes`, and what the web
does with the prices is `VistaPrecos`.

## 2. How the project is built

Each module models the operations it names with the steps and the failures that
its properties depend on, and the calls to other parts as single steps; the module
of the other part takes those apart.  What a part leaves out is in its entry of
`PROJECT.json` ("components") and in section 7.  Three abstract specifications say what a part promises, and a run or a
theorem shows that the detailed module implements it:

| Promise | Detailed module | Shown by |
|---|---|---|
| `Mercado`: every operation of the market happens at once or not at all, a purchase at least cost | `Bolsa`, through `BolsaRefina` | run `serie`, theorem `ImplementaMercadoEmSerie` |
| `Duravel`: what was answered is found after a restart | `Persistencia` | run `falhas`, theorem `GuardaOQueRespondeu` |
| `Primario`: at most one primary, and one in the end | `ParServidores` | run `par`; the step relation also theorem `EleicaoSegura` |

`Cliente` takes its servers' actions from `Primario` by `INSTANCE`, so client and
election are composed through that promise.

**History variables.**  The code is right under conditions that it does not
enforce.  Rather than leave the other behaviours out, the modules let everything
happen and record in a history variable when the condition was broken; the
properties say what holds until then, and section 5 says what goes wrong after.

| Module | History | Broken when |
|---|---|---|
| `Registo` | `disputas` | two overlapping calls change the same list or balance (per resource) |
| `Persistencia` | `intacto` | an operation does not save all it did (a reply, a token, a price, a takeover, a note, the notice of a deletion), a write fails, or the server stops in the middle of `savedados` |
| `ParServidores` | `ordem` | a datagram is lost, a call fails and is taken for the timeout beside a server that runs, or a server starts beside one that does not answer yet |
| `Cliente` | `reiniciado`, `quedas` | a server is started again; more than one stopped |
| `Notificacoes` | `calma` | a process stops, a page is opened, or somebody connects or logs in, while a sale ends |
| `SessaoWeb` | `ultrapassados` | a browser asks for `FacebookServlet` (coming back, or again) without a login of its own since another user logged in (per browser) |
| `PaginasWeb` | `aVez`, `seguidas`, `completas`, `apagadas` | requests overlap; a creation takes its identifier before another added its idea; a call fails after the post and before the idea, or after the idea went and before its post did; a deletion took another idea |
| `Anexos` | `aVez` (and the phases of a failure: `suspenso`, `cortado`, `falha`) | uploads overlap, or a client connects before its thread listens; a file or a connection fails |
| `VistaPrecos` | `estragada` | an update reaches a page that is coming up, is of another idea, or never comes as a notice failed before it (per page, until its own idea's next update) |

The operators called mutants in comments are faulty variants of the definition
after them.  No specification uses them; each shows that a property notices a
plausible slip (`PROJECT.json`, "mutants").

## 3. Modules

### `Bolsa`, `Mercado`, `BolsaRefina`: the market

| Variable | Code |
|---|---|
| `saldo` | `Utilizador.dinheiro` of every user |
| `ideias` | `Topico.ideia` of one topic: ideas, each with its sequence of holdings `[dono, perc, preco]` (`Accao`) |
| `pedido` | the arguments of a call to `efectuarcompra` on its way to the server |
| `fase`, `compra` | where the running `efectuarcompra` is, and its local variables: `naccoes`, `transacoes`, `actual` (`percentagemactual`), `apagar` (`a_pagar`), `feitas` (the loop index), `meu` (`idaccaocomprador`, 0 for `tem_accoes==0`), and what the transaction between its halves moves |
| `tomada` | the running `takeover`: the position and the loop index |
| `visto`, `pedidos` | history (the market when last at rest) and the count of requests |

| Action | Code |
|---|---|
| `PedirCompra` | `bolsa()` / `ComprarAccaoServlet`: the identifier becomes a position |
| `RecusarCompra`, `IniciarCompra` | argument checks and start of `efectuarcompra` |
| `Selecionar`, `SelecionarFalha` | one iteration of the selection loop; no lot left, or a lot that is gone (exception) |
| `VerificarInvestimento`, `InvestimentoInsuficiente` | "Passo 4" |
| `Pagar`, `PagarFalha`, `Transferir`, `TransferirFalha` | the halves of a transaction: money, then shares and the price of a lot sold in part |
| `EliminarAccao`, `EliminarFim`, `EliminarFalha` | one pass of `eliminaraccoesinvalidas2` |
| `TerminarCompra`, `IdeiaPerdida` | the end; the exception when the idea is gone |
| `CriarIdeia`, `EditarAccao`, `ApagarIdeia` | the operations of one step |
| `IniciarTomada`, `PagarTitular`, `ConcluirTomada`, `TomadaFalha` | `takeover`, one holder per step |

* **One topic.**  Topics are never deleted, so a topic's identifier is its
  position for ever (`IdNaPosicao` of `Registo`), and no operation of the market
  reads two topics.
* **Positions and identifiers start at 1** (0 in the code); position 0 stands
  for the code's -1, not found.
* **Money is an integer** in units of 1/`Moeda` of the currency.  A part of a
  lot costs `q * preco \div perc`, rounded down.  The code computes the amount
  once per use by the same expression, and the same amount leaves the buyer,
  reaches the seller and comes off the asking price; so it is here.  Rounding
  errors of `double` are not modelled.  A division by 0%, which the interleavings
  can reach, is an infinity in the code and a price that no test passes, or an
  amount beyond `Tecto`, here.
* **The list that is loaded** (`ListaValida`) is one saved at rest: holdings of
  distinct owners, each positive, together `Total`.  Only a takeover leaves an
  idea to somebody who may not be registered (root), and then whole.
* **`Total` shares** stand for 100.  Purchases depend on comparisons of sums of
  percentages only.
* **Granularity.**  An iteration of each loop is a step, a settled transaction
  two.  Interleavings inside one (a deletion between two lines of the same
  transaction) are not explored.  The code's `takeover` clears and refills a
  list in two calls; here that is one step.
* **`Concorrente`.**  TRUE is the server as it is: anything but the two
  synchronized methods may run between two steps.  FALSE lets calls reach the
  server one at a time; requests still wait between the client and the server.
  Takeovers do not overlap one another, as only the user called root has the
  page.

`Mercado` is the promise to users, without lists, positions or loops: an idea is
a function from users to a percentage and a price, and each operation is one
step.  `Comprar` takes any cheapest way (`MaisEmConta`) of getting the
percentage.  `BolsaRefina` maps the market of `Bolsa` last seen at rest to it:
a purchase takes effect when it ends, and a failed one does not.

### `Registo`: users, topics, ideas and balances under overlapping calls

A thread of the RMI server runs one call (`pedido`) through the phases of
`fase`: the search, the balance read, the balance written, the new identifier,
the size of the list read, the element stored.  `contas` and `topicos` are the
lists, `vectores` what their arrays hold, beyond the size too: `ArrayList.add`
reads the size n and later stores at n and sets n + 1, so two adds may store at
one place, and the list may shrink.  `saldo` has the balance of each
`Utilizador` object, which a list may have lost.  `criarideia` adds to `ideias`
in one step; `Apagar` and `Responder` are one step as well.  `criartopico` is
the TCP server's call with its arguments exchanged (`TemaRecebido`).

### `Persistencia` and `Duravel`

`memoria` and `disco` are the three lists and files.  Every operation that
changes the lists is a step, followed by `savedados` (`Gravar`) or not
(`NaoGravar`: `EditarAccao`, `takeover`, replies, Facebook tokens, the notes).
The deletion of an idea does both: it saves, and when `savedados` has returned it
adds a notice to the user's list, which no file has (`GravarEAvisar`, `Seguinte`).
Replies and notices are counted, not spelled out.  `savedados` empties each
file (`Abrir`), writes a record a step (`Escrever`), and closes it (`Fechar`);
an exception leaves the file as it is and goes on (`EscreverFalha`); the server
may stop anywhere (`Parar`), and `Reiniciar` is `loaddados`.  Operations that do
not save may run during a save.  Two `savedados` writing one file at once are
not modelled.

### `Primario`, `ParServidores`: the election

`ParServidores` has the thread of `ClienteUDP` of two servers on two machines: its phase,
the seconds to its timeout, and the datagrams on their way.  `Tick` is a second,
and passes only when no thread has anything to do.  `Enviar`, `ReceberPing`,
`ReceberResposta`, `Acordar`, `MudarPrimario`, `AbrirPorta` are the loop; `Cair`,
`Arrancar`, `Perder` the environment.  A call that fails is `EnviarFalha` (a
`SocketException`: the server sleeps and tries again) or `FalhaPromove` (any
other `IOException`: caught where the timeout is, so the server is the primary at
once).  Sockets that cannot be opened are not modelled.

### `Cliente`: the TCP client

`main` connects (`Ligar`, `Religar`), waits for the greeting (`Iniciar`,
`Reiniciar`), notices a failure (`Ler`) and counts on (`Proximo`);
`MenuPrincipal` sends a command and then its data (`Escolher`, `EnviarDados`) or
keeps the request (`GuardarDados`, `RespostaFalha`); each connection has a
`Buffer` thread (`PassoReplica`) that sends the head of the buffer again.  All
of them share one stream, line by line.  The thread of the server
(`AtenderLinha`) takes lines that come in a wrong order for something else.

### `Notificacoes`: the end of a purchase

`Terminar` is the saved sale with its notices; `AvisarServidor` one callback to
one stub, which goes over all threads of that server; `AvisarWeb` and
`ActualizarPrecos` the callbacks to the bean; `AvisarFalha` what a stopped
server, or a vector that grew under its iterator, does.  Clients connect, log
in, stop to read and leave; servers and the web application stop; pages open, stop
to read and close.  The writes to clients (`println`) and to pages
(`writeTextMessage`, `presas` and `tabelaPresa`) wait for who does not read.  A client's connection is two steps, as in `main`: its thread is listed,
and then the server registers once more.

### `SessaoWeb`, `PaginasWeb`, `VistaPrecos`: the web application

`SessaoWeb`: `Entrar` leaves the name in the context; `Voltar` and `Recusar` are
`FacebookServlet` with and without a code, which takes the name into the session
on every request, whoever asks and whatever came before (the servlet has no
guard, and the code stays in the address, so a reload is such a request);
`Guardar` stores the token with the user of that name, `TrocaFalha` is a code that
Facebook does not take (again).

`PaginasWeb`: `Publicar` is the post, which Facebook may refuse or answer in a way
that is not understood; `Pagar` takes the money and computes the identifier, and
`Criar` adds the idea, with other creations between them as in the code
(`geraridideia` and the add are not under a lock); `CriarFalha` is the
`RemoteException` that leaves the post.  `AbrirPagina`, `LerIdeia`, `MostrarFormulario` the request for
`ApagarIdeia.jsp`, whose fields are `pagina`; `Confirmar`, `Apagar`,
`RetirarPublicacao` the deletion, which goes by position: the answer of `Apagar` may
be lost, or be false though the idea went, and Facebook may refuse the token of the
one who deletes, whose answer nobody reads.

`VistaPrecos`: `AbrirVista`, `Pesquisar`, `Mostrar`, `LigarSocket` bring a page
up, in any order of answer and socket; `Comprar` and `ActualizarPrecos` are a
purchase and its update to all pages; `AvisoFalha` is `enviarnotificacoes` ending by
an exception before the update, or with the update at some pages only; `Receber` is
one message of the socket.

### `Anexos`: attachments

The thread of the client (`Anexar` to `EnviarFim`), the name sent by the menu
(`EnviarNome`), and the thread of the server (`Escutar`, `Aceitar`, `LerBloco`,
`Fechar`), with the queue of connections of the port.  Either side may fail: the
client cannot read its file and leaves its socket open (`LerFalha`; the server's
thread then waits and keeps the port), the connection breaks at any point (`Quebra`;
`salvar_ficheiro` catches it like the end of the stream, so the thread ends with a
short file), the server cannot write its file (`GravarFalha`).

## 4. Runs, bounds and fairness

| Run | Question | Result |
|---|---|---|
| `serie` | With calls one at a time, is every operation of the market one step of `Mercado`? | holds, 426 000 states |
| `rmi` | With everything overlapping, does a purchase always release the monitor? | holds, 220 000 |
| `ideia` | Is the idea bought the one asked for (`Ideia.java:12`)? | violated |
| `registo` | Do names, identifiers and balances survive every overlap that is not about the same one? | holds, 8.9 million |
| `falhas` | What is left after stops and failed writes at any record? | holds, 543 000 |
| `par` | One primary, in time, whatever stops and is lost? | holds, 33 000 |
| `repete` | Is a request neither lost nor repeated without cause, and the primary found again? | holds, 2.1 million |
| `avisos` | Is everyone told, and the buyer answered? | holds, 2.7 million |
| `anexo_vez` | Does a file arrive whole and under its name, when uploads overlap and fail? | holds, 445 000 |
| `sessao` | Is a session that of who logged in? | holds, 1.0 million |
| `pagina_uma` | Is the idea deleted the one confirmed, and does its post go with it? | holds, 11.6 million |
| `vista` | Does a page show what is held, and come to show it again? | holds, 847 000 |

The properties:

* market: `SharesSomamTotal`, `DinheiroConservado` (no share or coin is lost or
  made between the steps of a settlement), `SelecaoValida`, `UmaAccaoPorDono`
  (the positions and first-match searches the code relies on), `FalhaSemEfeito`
  (refused or failed means nothing happened), `ImplementaMercado` (greedy
  selection is least cost and all of it one atomic step), `MonitorLibertado`;
* registers: `NomesUnicos`, `IdNaPosicao`, `IdeiasPorOrdem`, `DinheiroExacto`,
  `SaldoChega`, each under its own condition: a dispute about topics excuses
  nothing about users;
* persistence: `RecuperaConfirmado` (`Duravel`), and `IdentificadoresValem`,
  which holds even after torn files: the users found are the first ones there
  were, in order;
* election: `UmPrimario`, `TomaPosse` (at most 5 seconds without a primary,
  whatever is lost), `ImplementaPrimario` with its liveness;
* client: `NadaSePerde`, `RepeticoesContadas`, `VoltaALigar`;
* notifications: `RespondidaEntaoAvisados`, `CompraRespondida`,
  `AvisosPorLigacao`, `AcabaSempre`;
* web: `SessaoDeQuemEntrou`, `AcessoDoProprio`; `ApagaAPedida`, `MostraAPedida`,
  `PublicacaoFica`, `PublicacaoTemIdeia`; `VistaActual`, `VistaActualiza`;
* attachments: `InteiroNoFim`, `FicheiroDoPedido`, `AnexoChega`.

### Bounds

* `Bolsa`: three users, so that a purchase can take two sellers' lots and split
  one; `Total = 4`, enough for lots of 1, 2 and 3 at different prices per share
  and a majority that is not everything; prices 2, 4, 8 and -4 (`Moeda = 4`) for
  ties, dearer and cheaper lots, indivisible parts and the -1 of a takeover (8
  per share reaches `Tecto`); `Carregados`, lists a server may have saved: none,
  shared, whole, after a deletion, in the hall of fame; `MaxPedidos = 3`: a
  purchase and two operations that prepare for it or disturb it.  More requests
  repeat these situations from lists that `Carregados` already starts from.
* `Registo`: two threads overlap in every pair of operations; six calls let a
  user register, create two ideas, delete one and sell while another call runs;
  symmetric in threads and names (safety only).
* `Persistencia`: five operations, two users and topics, two stops: a stop within a save
  after a stop within a save.
* `ParServidores`: four stops, two sends tried again; datagrams lost, and calls
  that fail as if they timed out, without bound.
* `Cliente`: two requests, a buffer of one (5 in the code: full is what matters),
  two connections, two stops.  Safety was also run with three connections (5.9
  million states), liveness with one request and three connections.
* `Notificacoes`: one server, two clients, two notices; of clients and pages one at
  a time does not read, since one is enough to block.  One purchase, since the monitor keeps purchases apart.
* `Anexos`: two uploads of up to two blocks, the last full or not: empty, less than a
  block, whole blocks, and a connection that breaks before, between and after them.
* `SessaoWeb`: three browsers, two users.
* `PaginasWeb`: two users, three ideas, two deletions: the second deletion is the first
  at which positions and identifiers differ.
* `VistaPrecos`: two pages, two ideas, three purchases, at most two of each: enough for an
  update of its own idea on top of one of the other's, and for two of its own.

`CHECK_DEADLOCK FALSE` is set where requests are bounded, as a system that nobody
calls is at rest.  `SessaoWeb` is never at rest and is checked for deadlock.

### Fairness

* `Bolsa` (`rmi`), `Notificacoes`: weak fairness of `PassoCompra`, the thread that
  holds the monitor, which the JVM schedules.  Nothing is assumed of clients, so
  a client or a page that does not read is one of the outcomes of `AcabaSempre`.
* `ParServidores`: each server's thread runs, and time passes.  `Primario`, in
  turn, promises that a pair without a primary elects one.
* `Cliente`: each thread of the client and of the servers runs, and the pair
  elects.  Users and stops are free.
* `Anexos`: the threads run (`Passo`); uploads need not begin, and nothing has to fail.
* `VistaPrecos`: the purchase goes on, to its update or to an exception; a page's requests are answered and its
  messages delivered, each page by itself.

## 5. Where the code and what it says differ

What the history variables excuse does happen in the models; dropping the
condition from a property gives TLC the behaviour in each case.  Only the first
is kept as a run, with its quotation in `PROJECT.json`.

* A purchase works on another idea than the one asked for once one was deleted:
  the web passes an identifier as a position (`ComprarAccaoServlet.java:147`), the
  TCP server a position that is stale (run `ideia`).
* The buyer's balance is never compared with the cost (`IdeiaImpl.java:755`
  compares the amount typed), so it may fall below zero.
* `takeover` leaves the idea for sale at -1 (`IdeiaImpl.java:1863`); where somebody
  is registered as root, buying it pays the buyer.
* `TopicoBackup` and `UtilizadorBackup` are aliases (`IdeiaImpl.java:689`): a
  deletion or takeover between two steps ends a purchase with money moved, or
  with shares taken and not delivered.
* Overlapping registrations give one name, or one identifier, to two users;
  overlapping updates lose money or spend it twice (`Utilizador.java:76`).
* Replies are numbered by the idea at the position equal to the identifier
  (`IdeiaImpl.java:1677`): after a deletion two replies get one number.
* `criartopico` exchanges theme and name (`IdeaBrokerServerTCP.java:790`).
* A stop within `savedados` leaves ideas whose holders are no longer registered
  (`IdeiaImpl.java:554`); a takeover is undone by a restart (line 1864).
* A lost datagram, a failed call to `send`, or two servers started within 3 seconds make
  two primaries for ever
  (`ClienteUDP.java:69`).
* A buffered request is carried out again when its answer was lost
  (`IdeaBrokerClientTCP.java:1194`); with two stops a Buffer thread removes a
  request that was not sent; a request kept after it was sent has no commands
  and blocks the buffer (1178); the Buffer thread may overtake the announcement
  of the user (195), or mix its lines with the menu's (1185); the seventh failed
  attempt indexes the arrays with 2 (155); the client stays with a secondary
  that was started again (117).
* A stopped server, a client that connects or has not logged in, or a seller
  without a page replaces the answer of a saved purchase by an exception
  (`IdeiaImpl.java:661`, `IdeaBrokerServerTCP.java:163`, `IdeaBrokerBean.java:202`);
  notices come once per connection; a client or a page that does not read holds
  the monitor (`IdeaBrokerServerTCP.java:235`, `IdeaBrokerBean.java:202` and 147).
* The first deletion of the web is right, the second may take another idea
  (`IdeaBrokerBean.java:604`); forms of requests that overlap show each other's
  idea (`ApagarIdeia.jsp:14`).
* Two creations that overlap give two ideas one identifier (`IdeiaImpl.java:1764` and
  1770), and then even the first deletion may take the other one.
* An idea that is refused, or whose creation fails, leaves its post
  (`IdeaBrokerBean.java:456`, 498), and so does a deletion whose answer is lost or
  whose removal Facebook refuses (622, 630, 642).
* Two logins at once may end as one user (`IdeaBrokerServlet.java:79`), a reload of
  the page takes the name of who logged in last, and after a logout that name is
  given again without a password (`FacebookServlet.java:45`).
* An upload whose client connects first is refused and its thread listens for
  ever; with two at once a file is saved under the other's name
  (`AnexoServidor.java:54`); a connection that breaks leaves a short file like a
  whole one (78), and a client whose file cannot be read keeps the port for all
  (`AnexoCliente.java:65`).
* A notice that fails after a purchase was saved drops the update of the prices
  (`IdeiaImpl.java:1012`).
* A purchase of another idea fills a page with its holdings (`bolsa.jsp:165`), and
  one while the page comes up is missed or shown twice (58).

## 6. Proofs

All theorems hold for every value of the constants that satisfies the named
assumptions of the module; nothing else is assumed.  `tlapm` checks them with
SMT, Zenon and PTL.

**`BolsaProofs`** (`TotalAssumption`, `NumerosAssumption`, `CarregadosAssumption`).
`TypeCorrect`: `TypeOK` is inductive; one lemma per action, with lemmas on
`retiraraccao`, `adicionaraccao`, `setprecoaccao`, `ComAccoes` and `RemoveAt`.
`UmaAccaoPorDonoSempre`: with operations overlapping or not; the methods of
`Accao` change no owner, deletions keep distinct owners distinct, and
`temaccoes` adds the buyer only after a scan of the whole list.
`SelecaoValidaEmSerie`: `~Concorrente` implies it; `SelecaoValida` alone is not
inductive, and `SelecaoInv` adds that a running purchase is alone and that the
positions chosen are among the `naccoes` first ones, so that a holding added
after them disturbs none.

The rest of the module needs `UtilizadoresAssumption` and `~Concorrente` too (with
overlapping operations the four statements are false, section 5):
`SharesSomamTotalEmSerie`, `DinheiroConservadoEmSerie`, `FalhaSemEfeitoEmSerie`.
`SerieInv` carries a purchase from loop to loop: every idea adds up to `Total`, and
has empty holdings only while a purchase in it settles (`Sas`); the selected lots
still to be settled hold what `actual` says, the last one alone more than is
wanted (`Contas`), so each but the last is bought whole; what a transaction moves
is in its lot (`EmMaos`); the buyer's holding stays where it was found
(`Progresso`), so that no transaction after the first can fail; and the users
have together the money they had at rest (`Historia`).  `RepousoValido` closes the
circle with `CarregadosAssumption`: the list that a server at rest leaves is one
that `ListaValida` allows it to load.  The lemmas on sums (a term that changes, is
appended, or is removed when 0) are inductions, done with the least-number
principle for sets (`MenorElemento`) on the partial sums.

`ImplementaMercadoEmSerie`: under the same condition `Bolsa` implements `Mercado`.
`RefinaInv` carries the abstract purchase that is under way: some `q`, what it takes
from each of the other holders of the idea as last seen at rest, such that the lots
selected so far are the cheapest and all but the last whole (`Escolha`), the code's
running sums are those of `q` (`ContasCertas`), and balances and holdings are those
that paying and moving the first lots of `q` leaves (`Liquidado`), with the other
ideas untouched (`Fora`).  `q` grows with `Selecionar` and then stays; the last step
finds that all of it was moved, and that the list without its empty holdings is the
function `Mercado` asks for; a purchase that gives up does so with the market as it
was seen.  `TomadaCerta` says the same of a takeover: those before `titular` were
paid.  The lists are related to the functions by lemmas of their own
(`PosseDeQuem`, `PosseDeListaQual`), and sums over functions by theirs
(`SomaDeMudar`).

**`RegistoProofs`** (any number of threads, users, calls).  `RInv` has one part per
resource, each under the condition that the resource was not in dispute:
`NasContas` (list and vector agree, at most one registration runs, what it
searched is still absent, what it read is still the size), `NosTopicos`,
`NasIdeias` (the identifier computed is still above all), `NosSaldos` (at most
one change of each balance runs; a balance that no running call has paid for is
what is due; the balance read is the balance).  `Base` ties objects to users.
From it: `TypeCorrect`, `NomesSemRepetir`, `PosicoesCertas`, `OrdemDasIdeias`,
`DinheiroCerto`, `SaldosChegam`, and the action property `NadaSePerdeNosRegistos`.
The step lemmas are one per action and part; `MaiorUltimo` says what `Maior` is
of an increasing list.

**`PersistenciaProofs`**.  `TypeCorrect`, and `GuardaOQueRespondeu`: `Persistencia`
implements `Duravel`, for any number of records, operations and stops.  The
invariant (`Inv`) says what the files hold while `intacto`: until the first is
opened, what was last answered; from then on the files before the open one are
complete, and the open one has the first records of its list.  `SeguinteIgual`:
with nobody to notify, the end of `savedados` leaves the lists alone.  `PosicoesValem`,
an action property without that condition, needs another (`DiscoAntes`): the
files have the first users of the list in memory, and no more topics, whatever
was cut short and however old each file is.

**`ParServidoresProofs`**.  `TypeCorrect`; `UmSoPrimario`: while in order (a failure
taken for the timeout beside a server that runs ends it), two servers that run are
never both outside the second loop, who waits beside the other has
a ping or an answer on its way, and time stands still until it arrives
(`Regencia`).  `EleicaoSegura`: every step is one of `Primario` or changes no
role.  `TomaPosseATempo`, whatever is lost: the time without a primary is
bounded phase by phase by what the sleep or timeout of the phase still allows
(`TempoContado`), and an answer, which starts the wait anew, comes from a primary
that runs.

**`OutrosProofs`** holds the proofs of three small components, which it extends together
(so the names that all modules have carry the component's in two of them:
`SpecVista`, `TypeOKAnexos`).
*`SessaoWeb`.*  `TypeCorrect`, `SessaoCerta`, `AcessoCerto`, from `Ida`: the context is a
user whose password every browser gave that logged in after all others, and what the
request of a browser that was not overtaken read is such a user.
*`VistaPrecos`* (any number of pages, ideas, purchases).  `VistaTipos`, `VistaCerta`.
`VistaActual` speaks of pages with nothing on the way; `VPagina` says what is owed to
the others: a row is good while it says what the idea has or the idea's update was not
sent (`VBoa`); a page that is coming up and not spoilt has no message and at most a
good answer (`VSubir`); one that is up has one good row, or its last message is a good
row, and what comes before that one empties the table (`VCima`).
*`Anexos`* (any number of clients and blocks).  `AnexosTipos`, `FicheiroInteiro`,
`FicheiroDeQuemPediu`.  `ALigada`: what a thread wrote is never more than the client
it accepted sent, and that client goes on, has sent all or failed; each waits in line
once (`AFila`).  While uploads take turns (`AVez`) at most one is under way, none is
refused, and those that wait in line have a thread that listens; so the connection a
thread accepts is of its own client.

**`PaginasWebProofs`** (any number of users, ideas and requests at once).
`TypeCorrect`, `PrimeiraCerta`, `FormularioDaPedida`, `PublicacaoPreservada`,
`SemPublicacoesSoltas`, from one invariant: the numbers in use are counted and
bound the identifiers (`Contagem`, since identifiers come back after a deletion
and numbers do not); the identifier that a creation computed is above all while no
other added an idea since (`Identificadores`), and until the first deletion
identifiers are then positions (`Posicoes`); the fields of the page belong to the
request that has the turn (`Turnos`), the post of a number has that number
(`Publicacoes`), and, unless a call failed, every post has an idea, or a request that
will create or remove it (`Cobertura`).

**`NotificacoesProofs`** (any servers, sessions and notices).  `TypeCorrect`,
`TodosAvisados`, `CalmaResponde`, `AvisosLimitados`.  The invariant follows the
two loops: the notices before the current one reached everybody who is due, the
current one those whose stub the cursor passed (`Entregues`), and no session has
it more often than the cursor passed stubs of its server (`Repetidas`, a
cardinality); `Registos` gives each stub a session of its own, and `Calma` says
why a quiet loop raises no exception.  `Presos` is apart: only an open page keeps
its writer waiting.

**`ClienteProofs`** (any number of requests, connections and stops).  `TypeCorrect`,
`PoucasRepeticoes`, `NenhumSePerde`.  The invariant has four parts.  `Base`: only the
last connection may be open, and one is made for each stop.  `Copias` counts what
`RepeticoesContadas` only bounds: a function says which connection carried each
request that was carried out, no connection carried one twice (`UmaVez`), a request
that the menu sent is on one connection and not in the buffer (`Novos`), one that is
in the buffer was not sent on the first connection, nor on the open one unless its
Buffer thread still waits (`NoBufferUmaVez`); the pigeonhole theorem does the rest.
`Primeira`: the answers of the first connection are the menu's alone.  `Segunda`,
until a second server stops, says why nobody takes an answer on the second
connection before the own request is done or safely on its way: the menu and the
Buffer thread wait for a request that is done, on its way, or for ever
(`MenuEspera`, `ReplicaEspera`), the command of each request comes before its data or
was read (`ComandosAntes`), except for data whose command went to the first server
while nothing else is sent (`Orfao`); and a request that the server may still refuse
is in the buffer or with the menu (`Donos`).  None of the four is inductive without
the others.

Only model-checked: all liveness (`MonitorLibertado`, `AcabaSempre`, `VoltaALigar`,
`AnexoChega`, `VistaActualiza`, the fair part of `ImplementaPrimario`), which needs
fairness and ENABLED.

## 7. Not modelled

* Scribe, commons-fileupload, and the JavaScript libraries and themes under
  `src/web` (jQuery, DataTables and their copies) are other people's code.  They
  are the larger part of the repository; the program itself is its Java and JSP.
* Listings, searches and histories (`PesquisarServlet`, `historico.jsp`,
  `UtilizadoresOnlineServlet`), texts and layout: they read and print.
* `onlineUserWeb`, and the notifications that `savedados` writes: nothing reads
  them.
* Purchases, deletions and listings in the menu of the TCP client, and a server
  that stops while the user logs in.
* `EditarAccao` and `takeover` of the page of prices: they send no update, so a page
  shows the old holdings until the next purchase.
* Two pages of one user, links of a list that is out of date, the comments that
  purchases add to a post.
* Two `savedados` writing one file at once; two takeovers at once; both TCP
  servers on one machine, where the second cannot open port 1235, and any other
  socket that cannot be opened.
* Two overlapping adds to the list of ideas, or an add and a removal, taken apart
  (they are one step each in `Registo` and `PaginasWeb`), and accesses within one step
  of `Bolsa`.
* An answer to `criarideia` that is lost while the server goes on with the call.

## 8. Running

    tlc -config MCBolsa_serie.cfg MCBolsa
    tlapm BolsaProofs.tla

Each run of section 4 is the configuration named in `PROJECT.json`; the longest
take two to three minutes with two workers.
