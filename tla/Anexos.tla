------------------------------- MODULE Anexos -------------------------------
(***************************************************************************)
(* Attachments: the client starts a thread that connects to port 3335 and  *)
(* then sends the name; the server reads the name and starts a thread that *)
(* listens on that port for one connection, and writes what comes from it  *)
(* to a file of that name, block by block, until a block that is not full  *)
(* or an exception: the end of the stream, a connection that broke, a file *)
(* that cannot be written.                                                 *)
(*                                                                         *)
(* One server, one upload for each client.  A file is its number of        *)
(* blocks, and whether the last is full; what a server thread wrote is the *)
(* client it came from and the number of blocks.                           *)
(*                                                                         *)
(* InitAnexos, NextAnexos, SpecAnexos and TypeOKAnexos carry the name of   *)
(* the component: OutrosProofs extends other components too.               *)
(***************************************************************************)
EXTENDS Integers, Sequences

CONSTANTS
  Clientes,  \* clients, one upload each
  Nenhum,    \* no client
  MaxBlocos  \* bound on the blocks of a file

ASSUME ConstantesAnexos == Nenhum \notin Clientes /\ MaxBlocos \in Nat

VARIABLES
  envio,    \* AnexoCliente: its phase, its file, and the blocks it sent
  thread,   \* AnexoServidor, for the upload of each client: its phase, the client
            \* it accepted, and the blocks it wrote
  pedido,   \* the name: not sent, on the way, or read; then the idea is published
  porto,    \* the thread that listens on port 3335
  ligacoes, \* connections to it that were not accepted
  aVez      \* history: every upload began after the one before had ended, and
            \* every client tried to connect after its thread tried to listen

varsAnexos == <<envio, thread, pedido, porto, ligacoes, aVez>>

TypeOKAnexos ==
  /\ \A c \in Clientes :
       /\ envio[c].fase \in {"parado", "ligar", "espera", "enviar", "fim", "erro",
                             "suspenso", "cortado"}
       /\ envio[c].blocos \in 0..MaxBlocos /\ envio[c].cheio \in BOOLEAN
       /\ envio[c].enviados \in 0..envio[c].blocos
       /\ thread[c].fase \in {"nenhuma", "iniciar", "escuta", "ler", "fim", "falha",
                              "erro"}
       /\ thread[c].de \in Clientes \cup {Nenhum} /\ thread[c].escritos \in 0..MaxBlocos
       /\ pedido[c] \in {"nenhum", "nome", "lido", "publicado"}
  /\ porto \in Clientes \cup {Nenhum}
  /\ ligacoes \in Seq(Clientes) /\ aVez \in BOOLEAN
  /\ ligacoes # <<>> => porto # Nenhum
  /\ \A c \in Clientes : porto = c <=> thread[c].fase \in {"escuta", "ler"}

InitAnexos ==
  /\ envio = [c \in Clientes |-> [fase |-> "parado", blocos |-> 0, cheio |-> FALSE,
                                  enviados |-> 0]]
  /\ thread = [c \in Clientes |-> [fase |-> "nenhuma", de |-> Nenhum, escritos |-> 0]]
  /\ pedido = [c \in Clientes |-> "nenhum"]
  /\ porto = Nenhum /\ ligacoes = <<>> /\ aVez = TRUE
-----------------------------------------------------------------------------
(* The client. *)

Acabados == {"fim", "erro", "suspenso", "cortado"}
\* An upload that began and is not over: the client's thread, the request or the
\* server's thread is at work, or listens for a client that broke.
EmCurso(c) ==
  /\ envio[c].fase # "parado"
  /\ \/ envio[c].fase \notin Acabados
     \/ pedido[c] # "publicado"
     \/ thread[c].fase \in {"iniciar", "ler"}
     \/ thread[c].fase = "escuta" /\ envio[c].fase = "cortado"

\* The menu starts the thread, and sends the name after it.
Anexar(c, blocos, cheio) ==
  /\ envio[c].fase = "parado" /\ pedido[c] = "nenhum"
  /\ cheio => blocos > 0
  /\ aVez' = (aVez /\ \A d \in Clientes : ~EmCurso(d))
  /\ envio' = [envio EXCEPT ![c] = [fase |-> "ligar", blocos |-> blocos,
                                    cheio |-> cheio, enviados |-> 0]]
  /\ UNCHANGED <<thread, pedido, porto, ligacoes>>
EnviarNome(c) ==
  /\ pedido[c] = "nenhum" /\ envio[c].fase # "parado"
  /\ pedido' = [pedido EXCEPT ![c] = "nome"]
  /\ UNCHANGED <<envio, thread, porto, ligacoes, aVez>>

NoTempo(c) == aVez' = (aVez /\ thread[c].fase \in {"escuta", "erro"})
Ligar(c) ==
  /\ envio[c].fase = "ligar" /\ NoTempo(c) /\ porto # Nenhum
  /\ envio' = [envio EXCEPT ![c].fase = "espera"]
  /\ ligacoes' = Append(ligacoes, c)
  /\ UNCHANGED <<thread, pedido, porto>>
LigarRecusada(c) ==
  /\ envio[c].fase = "ligar" /\ NoTempo(c) /\ porto = Nenhum
  /\ envio' = [envio EXCEPT ![c].fase = "erro"]
  /\ UNCHANGED <<thread, pedido, porto, ligacoes>>

\* The constructor of the input stream waits for the server; then come the name
\* of the file and its blocks.
EnviarBloco(c) ==
  /\ envio[c].fase = "enviar" /\ envio[c].enviados < envio[c].blocos
  /\ envio' = [envio EXCEPT ![c].enviados = @ + 1]
  /\ UNCHANGED <<thread, pedido, porto, ligacoes, aVez>>
EnviarFim(c) ==
  /\ envio[c].fase = "enviar" /\ envio[c].enviados = envio[c].blocos
  /\ envio' = [envio EXCEPT ![c].fase = "fim"]
  /\ UNCHANGED <<thread, pedido, porto, ligacoes, aVez>>

\* The file cannot be opened or read: the thread ends, and nobody closes its socket.
LerFalha(c) ==
  /\ envio[c].fase = "enviar"
  /\ envio' = [envio EXCEPT ![c].fase = "suspenso"]
  /\ UNCHANGED <<thread, pedido, porto, ligacoes, aVez>>
\* The connect times out, or the connection breaks in the middle: the network, the
\* end of the client's program, or a socket that nobody holds any more.
Quebra(c) ==
  /\ envio[c].fase \in {"ligar", "espera", "enviar", "suspenso"}
  /\ envio' = [envio EXCEPT ![c].fase = "cortado"]
  /\ UNCHANGED <<thread, pedido, porto, ligacoes, aVez>>
-----------------------------------------------------------------------------
(* The server. *)

\* The thread of the client's connection reads the name, starts the thread that
\* receives, and publishes the idea without waiting for the file.
LerNome(c) ==
  /\ pedido[c] = "nome"
  /\ pedido' = [pedido EXCEPT ![c] = "lido"]
  /\ thread' = [thread EXCEPT ![c].fase = "iniciar"]
  /\ UNCHANGED <<envio, porto, ligacoes, aVez>>
Publicar(c) ==
  /\ pedido[c] = "lido"
  /\ pedido' = [pedido EXCEPT ![c] = "publicado"]
  /\ UNCHANGED <<envio, thread, porto, ligacoes, aVez>>

Escutar(t) ==
  /\ thread[t].fase = "iniciar" /\ porto = Nenhum
  /\ thread' = [thread EXCEPT ![t].fase = "escuta"]
  /\ porto' = t
  /\ UNCHANGED <<envio, pedido, ligacoes, aVez>>
EscutarFalha(t) ==
  /\ thread[t].fase = "iniciar" /\ porto # Nenhum
  /\ thread' = [thread EXCEPT ![t].fase = "erro"]
  /\ UNCHANGED <<envio, pedido, porto, ligacoes, aVez>>

\* accept, and a new file of the name that this thread was started with.  The
\* connection may have broken while it waited.
Aceitar(t) ==
  /\ thread[t].fase = "escuta" /\ ligacoes # <<>>
  /\ thread' = [thread EXCEPT ![t].fase = "ler", ![t].de = Head(ligacoes)]
  /\ envio' = [envio EXCEPT ![Head(ligacoes)].fase = IF @ = "espera" THEN "enviar" ELSE @]
  /\ ligacoes' = Tail(ligacoes)
  /\ UNCHANGED <<pedido, porto, aVez>>

\* The last block written was not full.
Parcial(t) ==
  LET e == envio[thread[t].de] IN
    thread[t].escritos = e.blocos /\ e.blocos > 0 /\ ~e.cheio
SemMais(t) == thread[t].escritos = envio[thread[t].de].enviados

LerBloco(t) ==
  /\ thread[t].fase = "ler" /\ ~Parcial(t) /\ ~SemMais(t)
  /\ thread' = [thread EXCEPT ![t].escritos = @ + 1]
  /\ UNCHANGED <<envio, pedido, porto, ligacoes, aVez>>

\* The end of the stream is an exception, caught in salvar_ficheiro, and so is a
\* connection that broke: what was sent and not yet read may be lost with it.
FimDoCanal(t) == envio[thread[t].de].fase = "fim" /\ SemMais(t)
CanalPartido(t) == envio[thread[t].de].fase = "cortado"
\* mutant: only the block that is not full ends the loop.
AcabouSoParcial(t) == Parcial(t)
\* mutant: the loop ends when there is nothing to read yet.
AcabouPorAgora(t) == thread[t].escritos > 0 /\ SemMais(t)
Acabou(t) == Parcial(t) \/ FimDoCanal(t) \/ CanalPartido(t)
Cortar ==
  envio' = [c \in Clientes |-> IF envio[c].fase = "espera"
                                THEN [envio[c] EXCEPT !.fase = "erro"] ELSE envio[c]]
\* servidor_socket.close: those that wait to be accepted are cut off.
Largar(t, fase) ==
  /\ thread' = [thread EXCEPT ![t].fase = fase]
  /\ porto' = Nenhum /\ ligacoes' = <<>>
  /\ Cortar
  /\ UNCHANGED <<pedido, aVez>>
\* mutant: those that wait stay in line.
FecharSemFila(t) ==
  /\ thread[t].fase = "ler" /\ Acabou(t)
  /\ thread' = [thread EXCEPT ![t].fase = "fim"]
  /\ porto' = Nenhum
  /\ UNCHANGED <<envio, ligacoes, pedido, aVez>>
\* mutant: the thread goes on to the next connection.
FecharEEscutar(t) ==
  /\ thread[t].fase = "ler" /\ Acabou(t)
  /\ thread' = [thread EXCEPT ![t] = [fase |-> "escuta", de |-> Nenhum, escritos |-> 0]]
  /\ UNCHANGED <<envio, porto, ligacoes, pedido, aVez>>
Fechar(t) == thread[t].fase = "ler" /\ Acabou(t) /\ Largar(t, "fim")
\* The file cannot be created or written: caught too, and the port is closed.
GravarFalha(t) == thread[t].fase = "ler" /\ Largar(t, "falha")

Passo ==
  \E c \in Clientes :
    \/ EnviarNome(c) \/ Ligar(c) \/ LigarRecusada(c) \/ EnviarBloco(c) \/ EnviarFim(c)
    \/ LerNome(c) \/ Publicar(c) \/ Escutar(c) \/ EscutarFalha(c)
    \/ Aceitar(c) \/ LerBloco(c) \/ Fechar(c)

NextAnexos ==
  \/ \E c \in Clientes, b \in 0..MaxBlocos, cheio \in BOOLEAN : Anexar(c, b, cheio)
  \/ \E c \in Clientes : LerFalha(c) \/ Quebra(c) \/ GravarFalha(c)
  \/ Passo

\* The threads run; an accept and a connect that can proceed do.  Nothing has to fail.
SpecAnexos == InitAnexos /\ [][NextAnexos]_varsAnexos /\ WF_varsAnexos(Passo)
-----------------------------------------------------------------------------
\* A thread that ended has the file of its client to the end, be the last block full
\* or not (the loop at line 62 ends at a block that is not full, line 73), unless the
\* file could not be written or the connection broke: line 78 catches these like the
\* end of the stream, and leaves a shorter file.
InteiroNoFim ==
  \A t \in Clientes : thread[t].fase = "fim" =>
    \/ thread[t].escritos = envio[thread[t].de].blocos
    \/ CanalPartido(t)

\* A file holds what the client sent that gave it its name, as long as uploads
\* take turns (line 52 reads the name that came with the file, line 56 writes to
\* the name of the request).
FicheiroDoPedido == aVez => \A t \in Clientes : thread[t].de \in {Nenhum, t}

\* An idea that was published with an attachment gets all of it, as long as uploads
\* take turns and each client comes when its thread listens, and neither the client's
\* file, nor the connection, nor the server's file fails.
AnexoChega ==
  \A c \in Clientes : pedido[c] = "publicado" ~>
    \/ thread[c].fase = "fim" /\ thread[c].escritos = envio[c].blocos
    \/ envio[c].fase \in {"suspenso", "cortado"} \/ thread[c].fase = "falha"
    \/ ~aVez
=============================================================================
