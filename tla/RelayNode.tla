------------------------------ MODULE RelayNode ------------------------------
(***************************************************************************)
(* One relay process (src/Node): the accept thread, the path-building      *)
(* thread, the pool workers, and the main thread that waits for "quit".    *)
(* The threads share two locked queues and the process's descriptor table. *)
(* Each critical section or system call that touches shared state is one   *)
(* step; what a thread does between two of them is local and rides along.  *)
(*                                                                         *)
(* A connection end is <<c, "client">> (the socket accepted from client c) *)
(* or <<c, "dest">> (the socket connected to the hop c asked for).  Data   *)
(* moves in blocks of BUFFER_SIZE bytes that arrive whole.  The state of a *)
(* TCP connection is kept as far as FIONREAD, read, send and close can     *)
(* tell: this part stands for the kernel, which is not under src/.         *)
(***************************************************************************)
EXTENDS Naturals, Sequences, FiniteSets

CONSTANTS
    Clients,        \* client connections that may be made to this relay
    Workers,        \* pool threads (THREADS_COUNT of them)
    MaxFd,          \* descriptors the process may have open for circuits
    Window,         \* blocks a TCP direction holds before the writer blocks
    Backlog,        \* completed connections the listening socket holds
    MaxBlocks,      \* bound: blocks a client writes, the setup block included
    MaxReplies,     \* bound: blocks a next hop writes
    ClosingSides,   \* sides whose peers may close their end
    SetupOutcomes,  \* what a setup block and the hop it names may turn out to be
    OperatorQuits,  \* whether "quit" may be typed
    None

ASSUME SizesAssumption ==
    /\ MaxFd \in Nat /\ Window \in Nat \ {0} /\ Backlog \in Nat \ {0}
    /\ MaxBlocks \in Nat /\ MaxReplies \in Nat

ASSUME EnvironmentAssumption ==
    /\ ClosingSides \subseteq {"client", "dest"}
    /\ SetupOutcomes \subseteq {"connects", "badKey", "refused", "badAddress", "malformed"}
    /\ OperatorQuits \in BOOLEAN

ASSUME NoneAssumption ==
    /\ None \notin Clients \X {"client", "dest"}
    /\ None \notin 1..MaxFd
    /\ None \notin [dec : 1..MaxFd, enc : 1..MaxFd, rsa : Clients]

Fds == 1..MaxFd
Endpoints == Clients \X {"client", "dest"}
ClientEnd(c) == <<c, "client">>
DestEnd(c) == <<c, "dest">>

\* The n-th block written by the peer at connection end e.
Blocks == [from : Endpoints, n : 1..(MaxBlocks + MaxReplies)]

\* CommunicationData: the two sockets, and whose key RsaHelper encrypts with.
Conversations == [dec : Fds, enc : Fds, rsa : Clients]

\* What the relay wrote: the block and the key of the layer it added, if any.
Written == [blk : Blocks, key : Clients \cup {None}]

PeerStates == {"absent", "open", "fin", "probed", "epipe", "rst", "shut", "gone", "failed"}
ProcStates == {"starting", "running", "drainTest", "drainEnc", "drainPop", "closed", "dead"}

VARIABLES
    proc,           \* the main thread, or "dead" once the process has ended
    listenQ,        \* connections the kernel has completed, not yet accepted
    fdTable,        \* [Fds -> end it refers to, or None]
    peer,           \* [Endpoints -> state of the far side, as the kernel sees it]
    rx,             \* [Endpoints -> blocks received and not yet read]
    sent,           \* [Endpoints -> number of blocks the peer has written]
    tx,             \* [Endpoints -> everything the relay has written]
    unread,         \* [Endpoints -> blocks the relay wrote and the peer has not read]
    newSocket,      \* accept thread: socket returned by accept, not yet queued
    socketsToStart, \* m_socketsToStartConvesrations
    conversations,  \* m_conversations
    pathPc, pathFd, pathOut,             \* createPathThread / buildPath locals
    wpc, wconv, toDecrypt, toEncrypt     \* threadLoop / handleRequest locals

sockets == <<fdTable, peer, rx, sent, tx, unread>>
pathVars == <<pathPc, pathFd, pathOut>>
workerVars == <<wpc, wconv, toDecrypt, toEncrypt>>
vars == <<proc, listenQ, sockets, newSocket, socketsToStart, conversations,
          pathVars, workerVars>>

Init ==
    /\ proc = "starting"
    /\ listenQ = <<>>
    /\ fdTable = [f \in Fds |-> None]
    /\ peer = [e \in Endpoints |-> "absent"]
    /\ rx = [e \in Endpoints |-> <<>>]
    /\ sent = [e \in Endpoints |-> 0]
    /\ tx = [e \in Endpoints |-> <<>>]
    /\ unread = [e \in Endpoints |-> 0]
    /\ newSocket = None
    /\ socketsToStart = <<>>
    /\ conversations = <<>>
    /\ pathPc = "loop" /\ pathFd = None /\ pathOut = None
    /\ wpc = [w \in Workers |-> "idle"]
    /\ wconv = [w \in Workers |-> None]
    /\ toDecrypt = [w \in Workers |-> <<>>]
    /\ toEncrypt = [w \in Workers |-> <<>>]

Alive == proc \notin {"starting", "dead"}

Dies == proc' = "dead" /\ UNCHANGED <<listenQ, sockets, newSocket, socketsToStart,
                                      conversations, pathVars, workerVars>>

------------------------------------------------------------------------------
(* The kernel: descriptors and connections.                                *)

\* accept and socket return the lowest free descriptor.
LowestFree(f) ==
    /\ fdTable[f] = None
    /\ \A g \in Fds : g < f => fdTable[g] # None

TableFull == \A f \in Fds : fdTable[f] # None

\* close of every descriptor in F: the ends disappear, what they held unread too.
CloseAll(F) ==
    LET ends == {fdTable[f] : f \in F}
    IN  /\ fdTable' = [f \in Fds |-> IF f \in F THEN None ELSE fdTable[f]]
        /\ peer' = [e \in Endpoints |-> IF e \in ends THEN "gone" ELSE peer[e]]
        /\ rx' = [e \in Endpoints |-> IF e \in ends THEN <<>> ELSE rx[e]]
        /\ unread' = [e \in Endpoints |-> IF e \in ends THEN 0 ELSE unread[e]]
        /\ UNCHANGED <<sent, tx>>

\* send succeeds while the window has room; after the peer's FIN it succeeds
\* too, but the block is answered by a reset.
CanSend(e) ==
    \/ peer[e] = "open" /\ unread[e] < Window
    \/ peer[e] \in {"fin", "probed"}

SendBlock(e, b) ==
    /\ CanSend(e)
    /\ tx' = [tx EXCEPT ![e] = Append(@, b)]
    /\ unread' = [unread EXCEPT ![e] = IF peer[e] = "open" THEN @ + 1 ELSE @]
    /\ peer' = [peer EXCEPT ![e] = IF @ = "fin" THEN "probed" ELSE @]
    /\ UNCHANGED <<fdTable, rx, sent>>

\* send returns -1 (ECONNRESET), respectively raises SIGPIPE.
SendFails(e) == peer[e] = "rst"
SendRaisesSigpipe(e) == peer[e] \in {"epipe", "shut"}

\* To the listening socket; after shutdown() closed it, to the accept that is
\* still pending, if one is.
Connect(c) ==
    /\ proc = "running" \/ (Alive /\ newSocket = None)
    /\ peer[ClientEnd(c)] = "absent"
    /\ Len(listenQ) < Backlog
    /\ peer' = [peer EXCEPT ![ClientEnd(c)] = "open"]
    /\ listenQ' = Append(listenQ, c)
    /\ UNCHANGED <<proc, fdTable, rx, sent, tx, unread, newSocket, socketsToStart,
                   conversations, pathVars, workerVars>>

WriteBound(e) == IF e[2] = "client" THEN MaxBlocks ELSE MaxReplies

PeerWrites(e) ==
    /\ Alive
    /\ peer[e] = "open"
    /\ sent[e] < WriteBound(e)
    /\ Len(rx[e]) < Window
    /\ sent' = [sent EXCEPT ![e] = @ + 1]
    /\ rx' = [rx EXCEPT ![e] = Append(@, [from |-> e, n |-> sent[e] + 1])]
    /\ UNCHANGED <<proc, listenQ, fdTable, peer, tx, unread, newSocket, socketsToStart,
                   conversations, pathVars, workerVars>>

PeerReads(e) ==
    /\ Alive
    /\ peer[e] = "open"
    /\ unread[e] > 0
    /\ unread' = [unread EXCEPT ![e] = @ - 1]
    /\ UNCHANGED <<proc, listenQ, fdTable, peer, rx, sent, tx, newSocket, socketsToStart,
                   conversations, pathVars, workerVars>>

\* The peer closes: a FIN, or at once a reset if it left data unread.
PeerCloses(e) ==
    /\ Alive
    /\ peer[e] = "open"
    /\ e[2] \in ClosingSides
    /\ peer' = [peer EXCEPT ![e] = IF unread[e] > 0 THEN "rst" ELSE "fin"]
    /\ UNCHANGED <<proc, listenQ, fdTable, rx, sent, tx, unread, newSocket,
                   socketsToStart, conversations, pathVars, workerVars>>

\* The reset that answers a block sent after the peer's FIN arrives.
ResetArrives(e) ==
    /\ Alive
    /\ peer[e] = "probed"
    /\ peer' = [peer EXCEPT ![e] = "epipe"]
    /\ UNCHANGED <<proc, listenQ, fdTable, rx, sent, tx, unread, newSocket,
                   socketsToStart, conversations, pathVars, workerVars>>

------------------------------------------------------------------------------
(* Start-up.  The constructor of the pool starts the workers and only then *)
(* stores the pointer they dereference; run() starts the accept thread.    *)

SetServer ==
    /\ proc = "starting"
    /\ proc' = "running"
    /\ UNCHANGED <<listenQ, sockets, newSocket, socketsToStart, conversations,
                   pathVars, workerVars>>

\* A worker scheduled before the assignment follows an uninitialised pointer.
WorkerBeforeServer(w) ==
    /\ proc = "starting"
    /\ wpc[w] = "idle"
    /\ Dies

------------------------------------------------------------------------------
(* bindAndListen: the accept loop.                                         *)

Accept(f) ==
    /\ Alive
    /\ newSocket = None
    /\ listenQ # <<>>
    /\ LowestFree(f)
    /\ newSocket' = f
    /\ fdTable' = [fdTable EXCEPT ![f] = ClientEnd(Head(listenQ))]
    /\ listenQ' = Tail(listenQ)
    /\ UNCHANGED <<proc, peer, rx, sent, tx, unread, socketsToStart, conversations,
                   pathVars, workerVars>>

\* No descriptor left, or the listening socket was closed by shutdown(): exit.
AcceptFails ==
    /\ Alive
    /\ newSocket = None
    /\ \/ listenQ # <<>> /\ TableFull
       \/ proc # "running"
    /\ Dies

\* After shutdown() closed the listening socket the next accept ends the process.
QueueNewSocket ==
    /\ Alive
    /\ newSocket # None
    /\ socketsToStart' = Append(socketsToStart, newSocket)
    /\ newSocket' = None
    /\ proc' = IF proc = "running" THEN proc ELSE "dead"
    /\ UNCHANGED <<listenQ, sockets, conversations, pathVars, workerVars>>

------------------------------------------------------------------------------
(* createPathThread and buildPath.                                         *)

PathTake ==
    /\ Alive
    /\ pathPc = "loop"
    /\ socketsToStart # <<>>
    /\ pathPc' = "check"
    /\ pathFd' = Head(socketsToStart)
    /\ socketsToStart' = Tail(socketsToStart)
    /\ UNCHANGED <<proc, listenQ, sockets, newSocket, conversations, pathOut, workerVars>>

\* Mutant: a silent client goes back to the head of the queue.
PathPutBackInFront ==
    /\ Alive
    /\ pathPc = "check"
    /\ rx[fdTable[pathFd]] = <<>>
    /\ socketsToStart' = <<pathFd>> \o socketsToStart
    /\ pathPc' = "loop" /\ pathFd' = None
    /\ UNCHANGED <<proc, listenQ, sockets, newSocket, conversations, pathOut, workerVars>>

\* FIONREAD is zero, also when the client is gone: back to the queue.
PathPutBack ==
    /\ Alive
    /\ pathPc = "check"
    /\ rx[fdTable[pathFd]] = <<>>
    /\ socketsToStart' = Append(socketsToStart, pathFd)
    /\ pathPc' = "loop" /\ pathFd' = None
    /\ UNCHANGED <<proc, listenQ, sockets, newSocket, conversations, pathOut, workerVars>>

SetupReadable == Alive /\ pathPc = "check" /\ rx[fdTable[pathFd]] # <<>>

\* The JSON parser throws and nothing catches it.
PathMalformed == SetupReadable /\ "malformed" \in SetupOutcomes /\ Dies

\* buildPath returns -1 sockets, so the caller closes the client's socket.
GiveUpPath ==
    /\ pathPc' = "loop" /\ pathFd' = None /\ pathOut' = None
    /\ UNCHANGED <<proc, listenQ, newSocket, socketsToStart, conversations, workerVars>>

PathNoSocket ==
    /\ SetupReadable
    /\ TableFull
    /\ CloseAll({pathFd})
    /\ GiveUpPath

\* The socket made for the next hop is never closed when its address is bad:
\* it stays in the table, owned by no thread.
PathBadAddress(f) ==
    /\ SetupReadable
    /\ "badAddress" \in SetupOutcomes
    /\ LowestFree(f)
    /\ LET e == fdTable[pathFd]
       IN  /\ fdTable' = [fdTable EXCEPT ![f] = DestEnd(e[1]), ![pathFd] = None]
           /\ peer' = [peer EXCEPT ![DestEnd(e[1])] = "failed", ![e] = "gone"]
           /\ rx' = [rx EXCEPT ![e] = <<>>]
           /\ unread' = [unread EXCEPT ![e] = 0]
    /\ UNCHANGED <<sent, tx>>
    /\ GiveUpPath

\* The setup block is read and the socket made; connect is still to come.
PathSocket(f) ==
    /\ SetupReadable
    /\ LowestFree(f)
    /\ LET e == fdTable[pathFd]
       IN  /\ rx' = [rx EXCEPT ![e] = Tail(@)]
           /\ fdTable' = [fdTable EXCEPT ![f] = DestEnd(e[1])]
    /\ pathPc' = "connect"
    /\ pathOut' = f
    /\ UNCHANGED <<proc, listenQ, peer, sent, tx, unread, newSocket, socketsToStart,
                   conversations, pathFd, workerVars>>

PathConnected ==
    /\ Alive
    /\ pathPc = "connect"
    /\ "connects" \in SetupOutcomes
    /\ peer' = [peer EXCEPT ![fdTable[pathOut]] = "open"]
    /\ conversations' = Append(conversations,
                               [dec |-> pathFd, enc |-> pathOut, rsa |-> fdTable[pathFd][1]])
    /\ pathPc' = "loop" /\ pathFd' = None /\ pathOut' = None
    /\ UNCHANGED <<proc, listenQ, fdTable, rx, sent, tx, unread, newSocket,
                   socketsToStart, workerVars>>

\* connect fails: the client's socket is closed, the new one is left open.
PathConnectFails ==
    /\ Alive
    /\ pathPc = "connect"
    /\ "refused" \in SetupOutcomes
    /\ LET e == fdTable[pathFd]
       IN  /\ fdTable' = [fdTable EXCEPT ![pathFd] = None]
           /\ peer' = [peer EXCEPT ![fdTable[pathOut]] = "failed", ![e] = "gone"]
           /\ rx' = [rx EXCEPT ![e] = <<>>]
           /\ unread' = [unread EXCEPT ![e] = 0]
    /\ UNCHANGED <<sent, tx>>
    /\ GiveUpPath

------------------------------------------------------------------------------
(* threadLoop and handleRequest.                                           *)

DecEnd(w) == fdTable[wconv[w].dec]
EncEnd(w) == fdTable[wconv[w].enc]

Take(w) ==
    /\ Alive
    /\ wpc[w] = "idle"
    /\ conversations # <<>>
    /\ wconv' = [wconv EXCEPT ![w] = Head(conversations)]
    /\ conversations' = Tail(conversations)
    /\ wpc' = [wpc EXCEPT ![w] = "poll"]
    /\ UNCHANGED <<proc, listenQ, sockets, newSocket, socketsToStart, pathVars,
                   toDecrypt, toEncrypt>>

\* FIONREAD on both sockets.
Poll(w) ==
    /\ Alive
    /\ wpc[w] = "poll"
    /\ wpc' = [wpc EXCEPT ![w] = IF rx[DecEnd(w)] = <<>> /\ rx[EncEnd(w)] = <<>>
                                 THEN "requeue" ELSE "readClient"]
    /\ UNCHANGED <<proc, listenQ, sockets, newSocket, socketsToStart, conversations,
                   pathVars, wconv, toDecrypt, toEncrypt>>

\* A block that FIONREAD announced is read whole.
Oldest(q) == IF q = <<>> THEN <<>> ELSE <<Head(q)>>
RestPeeked(q) == q  \* mutant: the block is looked at and left in the socket

Rest(q) == IF q = <<>> THEN <<>> ELSE Tail(q)

ReadClient(w) ==
    /\ Alive
    /\ wpc[w] = "readClient"
    /\ toDecrypt' = [toDecrypt EXCEPT ![w] = Oldest(rx[DecEnd(w)])]
    /\ rx' = [rx EXCEPT ![DecEnd(w)] = Rest(@)]
    /\ wpc' = [wpc EXCEPT ![w] = "readDest"]
    /\ UNCHANGED <<proc, listenQ, fdTable, peer, sent, tx, unread, newSocket,
                   socketsToStart, conversations, pathVars, wconv, toEncrypt>>

ReadDest(w) ==
    /\ Alive
    /\ wpc[w] = "readDest"
    /\ toEncrypt' = [toEncrypt EXCEPT ![w] = Oldest(rx[EncEnd(w)])]
    /\ rx' = [rx EXCEPT ![EncEnd(w)] = Rest(@)]
    /\ wpc' = [wpc EXCEPT ![w] = IF rx[EncEnd(w)] # <<>> THEN "sendClient"
                                 ELSE IF toDecrypt[w] # <<>> THEN "sendDest"
                                 ELSE "requeue"]
    /\ UNCHANGED <<proc, listenQ, fdTable, peer, sent, tx, unread, newSocket,
                   socketsToStart, conversations, pathVars, wconv, toDecrypt>>

\* Mutant: both blocks are taken to have been read.
SendToClientThenDest(w) ==
    /\ Alive
    /\ wpc[w] = "sendClient"
    /\ SendBlock(DecEnd(w), [blk |-> Head(toEncrypt[w]), key |-> wconv[w].rsa])
    /\ toEncrypt' = [toEncrypt EXCEPT ![w] = <<>>]
    /\ wpc' = [wpc EXCEPT ![w] = "sendDest"]
    /\ UNCHANGED <<proc, listenQ, newSocket, socketsToStart, conversations, pathVars,
                   wconv, toDecrypt>>

\* The setup block named a hop that connects and a key that is none, so m_rsa is
\* null: the conversation's first reply is encrypted through it.
KilledByEncrypt(w) ==
    /\ Alive
    /\ wpc[w] = "sendClient"
    /\ "badKey" \in SetupOutcomes
    /\ tx[DecEnd(w)] = <<>>
    /\ Dies

\* The reply goes to the client under a layer of the conversation's key.
SendToClient(w) ==
    /\ Alive
    /\ wpc[w] = "sendClient"
    /\ SendBlock(DecEnd(w), [blk |-> Head(toEncrypt[w]), key |-> wconv[w].rsa])
    /\ toEncrypt' = [toEncrypt EXCEPT ![w] = <<>>]
    /\ wpc' = [wpc EXCEPT ![w] = IF toDecrypt[w] # <<>> THEN "sendDest" ELSE "requeue"]
    /\ UNCHANGED <<proc, listenQ, newSocket, socketsToStart, conversations, pathVars,
                   wconv, toDecrypt>>

\* The block goes on as it was read: the call that would remove this relay's
\* layer is commented out in the code.
SendToDest(w) ==
    /\ Alive
    /\ wpc[w] = "sendDest"
    /\ SendBlock(EncEnd(w), [blk |-> Head(toDecrypt[w]), key |-> None])
    /\ toDecrypt' = [toDecrypt EXCEPT ![w] = <<>>]
    /\ wpc' = [wpc EXCEPT ![w] = "requeue"]
    /\ UNCHANGED <<proc, listenQ, newSocket, socketsToStart, conversations, pathVars,
                   wconv, toEncrypt>>

SendingTo(w, e) ==
    \/ wpc[w] = "sendClient" /\ e = DecEnd(w)
    \/ wpc[w] = "sendDest" /\ e = EncEnd(w)

\* Mutant: the caller ignores handleRequest's false and requeues.
DropButRequeue(w) ==
    /\ Alive
    /\ \E e \in Endpoints : SendingTo(w, e) /\ SendFails(e)
    /\ CloseAll({wconv[w].dec, wconv[w].enc})
    /\ toDecrypt' = [toDecrypt EXCEPT ![w] = <<>>]
    /\ toEncrypt' = [toEncrypt EXCEPT ![w] = <<>>]
    /\ wpc' = [wpc EXCEPT ![w] = "requeue"]
    /\ UNCHANGED <<proc, listenQ, newSocket, socketsToStart, conversations, pathVars, wconv>>

\* Mutant: only the socket that failed is closed.
DropClosingOne(w) ==
    /\ Alive
    /\ \E e \in Endpoints : SendingTo(w, e) /\ SendFails(e)
    /\ CloseAll({wconv[w].dec})
    /\ wconv' = [wconv EXCEPT ![w] = None]
    /\ toDecrypt' = [toDecrypt EXCEPT ![w] = <<>>]
    /\ toEncrypt' = [toEncrypt EXCEPT ![w] = <<>>]
    /\ wpc' = [wpc EXCEPT ![w] = "idle"]
    /\ UNCHANGED <<proc, listenQ, newSocket, socketsToStart, conversations, pathVars>>

\* send returned -1: both sockets are closed and the conversation forgotten,
\* with any block still in hand.
DropConversation(w) ==
    /\ Alive
    /\ \E e \in Endpoints : SendingTo(w, e) /\ SendFails(e)
    /\ CloseAll({wconv[w].dec, wconv[w].enc})
    /\ wconv' = [wconv EXCEPT ![w] = None]
    /\ toDecrypt' = [toDecrypt EXCEPT ![w] = <<>>]
    /\ toEncrypt' = [toEncrypt EXCEPT ![w] = <<>>]
    /\ wpc' = [wpc EXCEPT ![w] = "idle"]
    /\ UNCHANGED <<proc, listenQ, newSocket, socketsToStart, conversations, pathVars>>

\* No handler is installed for SIGPIPE.
KilledBySend(w) ==
    /\ Alive
    /\ \E e \in Endpoints : SendingTo(w, e) /\ SendRaisesSigpipe(e)
    /\ Dies

\* Mutant: the conversation goes back to the head of the queue.
RequeueInFront(w) ==
    /\ Alive
    /\ wpc[w] = "requeue"
    /\ conversations' = <<wconv[w]>> \o conversations
    /\ wconv' = [wconv EXCEPT ![w] = None]
    /\ wpc' = [wpc EXCEPT ![w] = "idle"]
    /\ UNCHANGED <<proc, listenQ, sockets, newSocket, socketsToStart, pathVars,
                   toDecrypt, toEncrypt>>

Requeue(w) ==
    /\ Alive
    /\ wpc[w] = "requeue"
    /\ conversations' = Append(conversations, wconv[w])
    /\ wconv' = [wconv EXCEPT ![w] = None]
    /\ wpc' = [wpc EXCEPT ![w] = "idle"]
    /\ UNCHANGED <<proc, listenQ, sockets, newSocket, socketsToStart, pathVars,
                   toDecrypt, toEncrypt>>

------------------------------------------------------------------------------
(* shutdown(), called by the main thread on "quit".  It takes no lock, and *)
(* reads the front of the queue anew for each of its three uses.           *)

Quit ==
    /\ proc = "running"
    /\ OperatorQuits
    /\ proc' = "drainTest"
    /\ UNCHANGED <<listenQ, sockets, newSocket, socketsToStart, conversations,
                   pathVars, workerVars>>

\* ::shutdown(fd, SHUT_RDWR); an end whose peer already reset is not connected.
ShutBothWays(f) ==
    LET e == fdTable[f]
    IN  /\ peer' = [peer EXCEPT ![e] = IF @ \in {"open", "fin", "probed"}
                                       THEN "shut" ELSE @]
        /\ UNCHANGED <<fdTable, rx, sent, tx, unread>>

\* Mutant: close(fd) while the threads still run.
ShutdownClientCloses ==
    /\ proc = "drainTest"
    /\ conversations # <<>>
    /\ CloseAll({Head(conversations).dec})
    /\ proc' = "drainEnc"
    /\ UNCHANGED <<listenQ, newSocket, socketsToStart, conversations, pathVars, workerVars>>

ShutdownClient ==
    /\ proc = "drainTest"
    /\ conversations # <<>>
    /\ ShutBothWays(Head(conversations).dec)
    /\ proc' = "drainEnc"
    /\ UNCHANGED <<listenQ, newSocket, socketsToStart, conversations, pathVars, workerVars>>

ShutdownDest ==
    /\ proc = "drainEnc"
    /\ conversations # <<>>
    /\ ShutBothWays(Head(conversations).enc)
    /\ proc' = "drainPop"
    /\ UNCHANGED <<listenQ, newSocket, socketsToStart, conversations, pathVars, workerVars>>

ShutdownPop ==
    /\ proc = "drainPop"
    /\ conversations # <<>>
    /\ conversations' = Tail(conversations)
    /\ proc' = "drainTest"
    /\ UNCHANGED <<listenQ, sockets, newSocket, socketsToStart, pathVars, workerVars>>

\* A worker took the last conversation in between: front and pop of an empty
\* queue, unsynchronised.  The process is taken not to survive it.
ShutdownRace ==
    /\ proc \in {"drainEnc", "drainPop"}
    /\ conversations = <<>>
    /\ Dies

ShutdownDone ==
    /\ proc = "drainTest"
    /\ conversations = <<>>
    /\ proc' = "closed"
    /\ UNCHANGED <<listenQ, sockets, newSocket, socketsToStart, conversations,
                   pathVars, workerVars>>

\* main returns two seconds later, and the threads end with it.
Exit == proc = "closed" /\ Dies

------------------------------------------------------------------------------
Environment ==
    \/ \E c \in Clients : Connect(c)
    \/ \E e \in Endpoints :
          PeerWrites(e) \/ PeerReads(e) \/ PeerCloses(e) \/ ResetArrives(e)

AcceptThread == (\E f \in Fds : Accept(f)) \/ AcceptFails \/ QueueNewSocket

PathThread ==
    \/ PathTake \/ PathPutBack \/ PathMalformed \/ PathNoSocket
    \/ \E f \in Fds : PathBadAddress(f) \/ PathSocket(f)
    \/ PathConnected \/ PathConnectFails

Worker(w) ==
    \/ WorkerBeforeServer(w)
    \/ Take(w) \/ Poll(w) \/ ReadClient(w) \/ ReadDest(w)
    \/ SendToClient(w) \/ SendToDest(w) \/ DropConversation(w) \/ KilledBySend(w)
    \/ KilledByEncrypt(w) \/ Requeue(w)

MainThread ==
    \/ SetServer \/ Quit
    \/ ShutdownClient \/ ShutdownDest \/ ShutdownPop \/ ShutdownRace \/ ShutdownDone
    \/ Exit

Next ==
    \/ Environment \/ AcceptThread \/ PathThread \/ MainThread
    \/ \E w \in Workers : Worker(w)

Spec == Init /\ [][Next]_vars

\* Each thread that can take a step does.  Locks are held for one queue
\* operation only and every loop tries again at once, so none is starved.  The
\* peers are assumed to read what they are sent.
Fairness ==
    /\ WF_vars(SetServer)
    /\ WF_vars(AcceptThread)
    /\ WF_vars(PathThread)
    /\ \A w \in Workers : WF_vars(Worker(w))
    /\ \A e \in Endpoints : WF_vars(PeerReads(e))

FairSpec == Spec /\ Fairness

------------------------------------------------------------------------------
(* Properties.                                                             *)

KernelTypes ==
    /\ listenQ \in Seq(Clients)
    /\ fdTable \in [Fds -> Endpoints \cup {None}]
    /\ peer \in [Endpoints -> PeerStates]
    /\ rx \in [Endpoints -> Seq(Blocks)]
    /\ tx \in [Endpoints -> Seq(Written)]
    /\ unread \in [Endpoints -> Nat]

SentTypes ==
    /\ sent \in [Endpoints -> Nat]
    /\ \A e \in Endpoints : sent[e] <= WriteBound(e)

QueueTypes ==
    /\ newSocket \in Fds \cup {None}
    /\ socketsToStart \in Seq(Fds)
    /\ conversations \in Seq(Conversations)

PathTypes ==
    /\ pathPc \in {"loop", "check", "connect"}
    /\ pathFd \in Fds \cup {None} /\ (pathFd # None <=> pathPc # "loop")
    /\ pathOut \in Fds \cup {None} /\ (pathOut # None <=> pathPc = "connect")

WorkerTypes ==
    /\ wpc \in [Workers -> {"idle", "poll", "readClient", "readDest",
                            "sendClient", "sendDest", "requeue"}]
    /\ wconv \in [Workers -> Conversations \cup {None}]
    /\ \A w \in Workers : wconv[w] # None <=> wpc[w] # "idle"
    /\ toDecrypt \in [Workers -> Seq(Blocks)]
    /\ toEncrypt \in [Workers -> Seq(Blocks)]
    /\ \A w \in Workers : wpc[w] = "sendClient" => toEncrypt[w] # <<>>
    /\ \A w \in Workers : wpc[w] = "sendDest" => toDecrypt[w] # <<>>

\* Types of every variable, and which locals each thread's position implies.
TypeOK ==
    /\ proc \in ProcStates
    /\ KernelTypes /\ SentTypes /\ QueueTypes /\ PathTypes /\ WorkerTypes

\* What each place that can keep a descriptor keeps.
Keeps(p, f) ==
    \/ p[1] = "accept" /\ newSocket = f
    \/ p[1] = "path" /\ f \in {pathFd, pathOut}
    \/ p[1] = "start" /\ p[2] \in DOMAIN socketsToStart /\ socketsToStart[p[2]] = f
    \/ p[1] = "conversation" /\ p[2] \in DOMAIN conversations
       /\ f \in {conversations[p[2]].dec, conversations[p[2]].enc}
    \/ p[1] = "worker" /\ wconv[p[2]] # None /\ f \in {wconv[p[2]].dec, wconv[p[2]].enc}

PlacesInUse ==
    {<<"accept", 0>>, <<"path", 0>>}
        \cup ({"start"} \X DOMAIN socketsToStart)
        \cup ({"conversation"} \X DOMAIN conversations)
        \cup ({"worker"} \X Workers)

\* Each descriptor is kept in one place only: no two threads, and no two
\* entries of the queues, ever act on the same socket (Server.cpp:131-133,
\* 274-300, ThreadPool.cpp:43-66).
KeptOnce ==
    \A f \in Fds : \A p, q \in PlacesInUse : Keeps(p, f) /\ Keeps(q, f) => p = q

RefersTo(f, e) == f \in Fds /\ fdTable[f] = e
ClientSocket(f) == \E c \in Clients : RefersTo(f, ClientEnd(c))
Paired(conv) ==
    RefersTo(conv.dec, ClientEnd(conv.rsa)) /\ RefersTo(conv.enc, DestEnd(conv.rsa))

\* A descriptor kept anywhere is open and still refers to the connection it
\* was put there for, and a conversation joins the two sockets of one circuit
\* with the key of its client, although numbers are reused after every close.
EndsMatch ==
    /\ newSocket # None => ClientSocket(newSocket)
    /\ \A i \in DOMAIN socketsToStart : ClientSocket(socketsToStart[i])
    /\ pathFd # None => ClientSocket(pathFd)
    /\ pathOut # None => RefersTo(pathOut, DestEnd(fdTable[pathFd][1]))
    /\ \A i \in DOMAIN conversations : Paired(conversations[i])
    /\ \A w \in Workers : wconv[w] # None => Paired(wconv[w])

DescriptorOwnership == EndsMatch /\ KeptOnce

\* Every open descriptor is kept by some thread or queue, so that something
\* can still close it.  The code has two ways out: the socket of a connect or
\* an address that failed (Server.cpp:352-364), and, once "quit" was typed,
\* the conversations shutdown() pops without closing them.
OpenAndKept ==
    \A f \in Fds : fdTable[f] # None =>
        \/ \E p \in PlacesInUse : Keeps(p, f)
        \/ peer[fdTable[f]] = "failed"
        \/ proc \notin {"starting", "running"}

\* Blocks a worker has taken out of a socket of c and not yet written.
InHand(c, hand) ==
    IF \E w \in Workers : wconv[w] # None /\ wconv[w].rsa = c
    THEN hand[CHOOSE w \in Workers : wconv[w] # None /\ wconv[w].rsa = c]
    ELSE <<>>

LinkOf(c) ==
    IF peer[ClientEnd(c)] = "gone" THEN "cut"
    ELSE IF pathPc = "connect" /\ fdTable[pathFd] = ClientEnd(c) THEN "building"
    ELSE IF peer[DestEnd(c)] # "absent" THEN "open" ELSE "none"

Pipe == INSTANCE RelayPipe WITH
    link   <- [c \in Clients |-> LinkOf(c)],
    toFwd  <- [c \in Clients |-> InHand(c, toDecrypt) \o rx[ClientEnd(c)]],
    fwd    <- [c \in Clients |-> [i \in DOMAIN tx[DestEnd(c)] |-> tx[DestEnd(c)][i].blk]],
    toBack <- [c \in Clients |-> InHand(c, toEncrypt) \o rx[DestEnd(c)]],
    back   <- [c \in Clients |-> tx[ClientEnd(c)]]

\* The relay implements RelayPipe: per circuit both directions are FIFO, no
\* block is lost or repeated or shows up on another circuit, whatever the
\* workers, the path thread and the reuse of descriptors do, and the layer on
\* a reply is that of the circuit's own client (Server.cpp:206-262).
PipeSpec == Pipe!Spec

Circuit(c) == LinkOf(c) = "open"

\* A block the client of an open circuit has written is passed on, unless the
\* circuit is cut or the process ends: the conversation is always returned to
\* the queue and comes round again (ThreadPool.cpp:31-68).
BlocksForwarded ==
    \A c \in Clients : \A n \in 2..MaxBlocks :
        (Circuit(c) /\ sent[ClientEnd(c)] >= n)
            ~> (Len(tx[DestEnd(c)]) >= n - 1 \/ LinkOf(c) = "cut" \/ proc # "running")

\* A client whose setup block has arrived gets a circuit or is hung up on; it
\* is not left waiting behind silent clients in the queue
\* (Server.cpp:269-309).
SetupResolved ==
    \A c \in Clients :
        (LinkOf(c) = "none" /\ sent[ClientEnd(c)] > 0)
            ~> (LinkOf(c) \in {"open", "cut"} \/ proc # "running")

\* Server.cpp:217 and 229 close both sockets "if socket disconnected": a
\* circuit whose client has hung up is torn down.
DisconnectNoticed ==
    \A c \in Clients :
        (Circuit(c) /\ peer[ClientEnd(c)] = "fin")
            ~> (LinkOf(c) = "cut" \/ proc # "running")
=============================================================================
