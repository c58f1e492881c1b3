----------------------------- MODULE ProxyServer -----------------------------
(***************************************************************************)
(* The proxy (src/ProxyServer): the accept thread, which also exchanges    *)
(* keys with each newcomer, the pool workers, which serve the registered   *)
(* clients in turn and ask the database server on their behalf, and the    *)
(* main thread, which waits for "quit".                                    *)
(*                                                                         *)
(* The code never closes an accepted socket, so a descriptor stands for    *)
(* one connection for ever and is written as the peer that made it.  A     *)
(* block is BUFFER_SIZE bytes; what is in it is kept as far as the code's  *)
(* branches tell.  Clients speak in lock-step, as ClientGUI/main.py:38-61  *)
(* does; relays connect and never write (Node/Server.cpp:11, 43).          *)
(***************************************************************************)
EXTENDS Naturals, Sequences, FiniteSets

CONSTANTS
    Clients, Relays,
    Workers,        \* THREADS_COUNT pool threads
    MaxSockets,     \* accepted sockets from which on descriptors may run out
    Backlog,        \* connections the kernel queues for accept
    MaxBlocks,      \* bound: blocks a client writes, its key included
    KeyBlocks,      \* what a first block may be
    RequestBlocks,  \* what a later block may be
    PeersClose,     \* peers that may close their connection
    DatabaseFails,  \* whether the database connection may be refused or end
    OperatorQuits,
    None

ASSUME PeersAssumption ==
    /\ Clients \cap Relays = {} /\ PeersClose \subseteq Clients \cup Relays
    /\ {None, "database", "none", "closed", "reserved"} \cap (Clients \cup Relays) = {}

ASSUME BlocksAssumption ==
    /\ KeyBlocks \subseteq {"key", "malformed"}
    /\ RequestBlocks \subseteq {"login", "signup", "other", "malformed"}
    /\ None \notin {"key", "login", "signup", "other", "malformed"}
    /\ MaxSockets \in Nat /\ Backlog \in Nat /\ MaxBlocks \in Nat
    /\ DatabaseFails \in BOOLEAN /\ OperatorQuits \in BOOLEAN

Peers == Clients \cup Relays
Blocks == KeyBlocks \cup RequestBlocks

VARIABLES
    proc,       \* the main thread, or "dead" once the process has ended
    listenQ,    \* connections the kernel has completed, not yet accepted
    peer,       \* [Peers -> state of the far side, as the kernel sees it]
    rx,         \* [Peers -> blocks received and not yet read]
    sent,       \* [Peers -> number of blocks the peer has written]
    answers,    \* [Peers -> what the proxy has sent]
    accepted,   \* sockets that accept has returned
    apc, asock, \* bindAndListen and startRSAConnversation
    mclients,   \* m_clients: the sockets that have an entry
    tasks,      \* m_tasksQueue
    wpc, wsock, wreq,   \* threadLoop and handleClient
    dbFd,       \* what m_databaseServerSocket refers to
    db,         \* the connection to the database server
    misdirected \* requests for the database written to another socket

kernel == <<listenQ, peer, rx, sent, answers, accepted>>
acceptVars == <<apc, asock>>
workerVars == <<wpc, wsock, wreq>>
dbVars == <<dbFd, db, misdirected>>
vars == <<proc, kernel, acceptVars, mclients, tasks, workerVars, dbVars>>

\* The result of connectToDatabaseServer is not looked at.
Init ==
    /\ proc = "starting"
    /\ listenQ = <<>> /\ accepted = {}
    /\ peer = [p \in Peers |-> "absent"]
    /\ rx = [p \in Peers |-> <<>>]
    /\ sent = [p \in Peers |-> 0]
    /\ answers = [p \in Peers |-> <<>>]
    /\ apc = "accept" /\ asock = None
    /\ mclients = {} /\ tasks = <<>>
    /\ wpc = [w \in Workers |-> "idle"]
    /\ wsock = [w \in Workers |-> None]
    /\ wreq = [w \in Workers |-> None]
    /\ dbFd \in IF DatabaseFails THEN {"database", "none"} ELSE {"database"}
    /\ db = "up" /\ misdirected = {}

Alive == proc \notin {"starting", "dead"}

Dies == proc' = "dead" /\ UNCHANGED <<kernel, acceptVars, mclients, tasks, workerVars, dbVars>>

------------------------------------------------------------------------------
(* The peers and the kernel.                                               *)

\* The listening socket is open, or an accept that has found it keeps it.
Connect(p) ==
    /\ proc = "running" \/ (proc = "closing" /\ apc \in {"entered", "waiting"})
    /\ peer[p] = "absent"
    /\ Len(listenQ) < Backlog
    /\ peer' = [peer EXCEPT ![p] = "open"]
    /\ listenQ' = Append(listenQ, p)
    /\ UNCHANGED <<proc, rx, sent, answers, accepted, acceptVars, mclients, tasks,
                   workerVars, dbVars>>

\* A client writes its key, and each request once the last block was answered.
ClientWrites(c, b) ==
    /\ Alive
    /\ c \in Clients /\ peer[c] = "open"
    /\ sent[c] < MaxBlocks /\ sent[c] = Len(answers[c])
    /\ b \in IF sent[c] = 0 THEN KeyBlocks ELSE RequestBlocks
    /\ sent' = [sent EXCEPT ![c] = @ + 1]
    /\ rx' = [rx EXCEPT ![c] = Append(@, b)]
    /\ UNCHANGED <<proc, listenQ, peer, answers, accepted, acceptVars, mclients, tasks,
                   workerVars, dbVars>>

\* A FIN, or a reset if something the proxy sent was left unread.
PeerCloses(p) ==
    /\ Alive
    /\ p \in PeersClose /\ peer[p] = "open"
    /\ \E s \in IF answers[p] = <<>> /\ (dbFd = p => misdirected = {}) THEN {"fin"} ELSE {"fin", "rst"} :
          peer' = [peer EXCEPT ![p] = s]
    /\ UNCHANGED <<proc, listenQ, rx, sent, answers, accepted, acceptVars, mclients,
                   tasks, workerVars, dbVars>>

\* The reset that answers a block sent after the peer's FIN arrives.
ResetArrives(p) ==
    /\ Alive
    /\ peer[p] = "probed"
    /\ peer' = [peer EXCEPT ![p] = "epipe"]
    /\ UNCHANGED <<proc, listenQ, rx, sent, answers, accepted, acceptVars, mclients,
                   tasks, workerVars, dbVars>>

\* A FIN, or a reset if a request was left unread.
DatabaseCloses ==
    /\ Alive
    /\ DatabaseFails /\ dbFd = "database" /\ db = "up"
    /\ db' \in {"fin"} \cup
          {s \in {"rst"} : \E w \in Workers : wpc[w] = "dbRead" /\ wsock[w] \notin misdirected}
    /\ UNCHANGED <<proc, kernel, acceptVars, mclients, tasks, workerVars, dbFd, misdirected>>

\* send returns the block's length, -1, or raises SIGPIPE.
SendWorks(p) == peer[p] \in {"open", "fin", "probed"}
SendFails(p) == peer[p] = "rst"
SendRaisesSigpipe(p) == peer[p] \in {"epipe", "shut"}

\* A block to a departed peer draws its reset; an error is reported once.
AfterSend(p) ==
    peer' = [peer EXCEPT ![p] = IF @ = "fin" THEN "probed" ELSE IF @ = "rst" THEN "epipe" ELSE @]

Sends(p, a) ==
    /\ answers' = [answers EXCEPT ![p] = Append(@, a)]
    /\ AfterSend(p)

------------------------------------------------------------------------------
(* Start-up: the workers find the queue empty until run().                 *)

Run ==
    /\ proc = "starting"
    /\ proc' = "running"
    /\ UNCHANGED <<kernel, acceptVars, mclients, tasks, workerVars, dbVars>>

------------------------------------------------------------------------------
(* bindAndListen and startRSAConnversation.                                *)

\* accept looks up the listening socket, which it then keeps to its end, reserves
\* the lowest free number for the connection, and waits for one.
EnterAccept ==
    /\ proc = "running"
    /\ apc = "accept"
    /\ apc' = "entered"
    /\ UNCHANGED <<proc, kernel, asock, mclients, tasks, workerVars, dbVars>>

\* The lowest is that of the database connection, which m_databaseServerSocket
\* still holds, if shutdown() has closed it since accept was entered.
ReserveNumber ==
    /\ Alive
    /\ apc = "entered"
    /\ apc' = "waiting"
    /\ dbFd' = IF dbFd = "closed" THEN "reserved" ELSE dbFd
    /\ UNCHANGED <<proc, kernel, asock, mclients, tasks, workerVars, db, misdirected>>

Accept ==
    /\ Alive
    /\ apc = "waiting"
    /\ listenQ # <<>>
    /\ asock' = Head(listenQ)
    /\ listenQ' = Tail(listenQ)
    /\ accepted' = accepted \cup {asock'}
    /\ dbFd' = IF dbFd = "reserved" THEN asock' ELSE dbFd
    /\ apc' = "readKey"
    /\ UNCHANGED <<proc, peer, rx, sent, answers, mclients, tasks, workerVars, db, misdirected>>

\* The listening socket is closed, or no number is left.
AcceptFails ==
    /\ Alive
    /\ \/ apc = "accept" /\ proc # "running"
       \/ apc = "entered" /\ Cardinality(accepted) >= MaxSockets
    /\ Dies

ReadKeyMalformed ==
    /\ Alive
    /\ apc = "readKey"
    /\ rx[asock] # <<>> /\ Head(rx[asock]) = "malformed"
    /\ Dies

\* The read blocks the accept thread until the newcomer writes or closes.
ReadKey ==
    /\ Alive
    /\ apc = "readKey"
    /\ rx[asock] # <<>> /\ Head(rx[asock]) # "malformed"
    /\ rx' = [rx EXCEPT ![asock] = Tail(@)]
    /\ apc' = "sendKey"
    /\ UNCHANGED <<proc, listenQ, peer, sent, answers, accepted, asock, mclients, tasks,
                   workerVars, dbVars>>

Ended(p) == peer[p] \notin {"absent", "open"} /\ rx[p] = <<>>

\* Mutant: an end of file is read again and again.
ReadKeyRetries ==
    /\ Alive
    /\ apc = "readKey"
    /\ Ended(asock)
    /\ UNCHANGED vars

\* nullptr is returned, and the caller registers the socket all the same.
ReadKeyEnded ==
    /\ Alive
    /\ apc = "readKey"
    /\ Ended(asock)
    /\ apc' = "insert"
    /\ UNCHANGED <<proc, kernel, asock, mclients, tasks, workerVars, dbVars>>

SendKey ==
    /\ Alive
    /\ apc = "sendKey"
    /\ SendWorks(asock)
    /\ Sends(asock, "key")
    /\ apc' = "insert"
    /\ UNCHANGED <<proc, listenQ, rx, sent, accepted, asock, mclients, tasks, workerVars, dbVars>>

SendKeyFails ==
    /\ Alive
    /\ apc = "sendKey"
    /\ SendFails(asock)
    /\ AfterSend(asock)
    /\ apc' = "insert"
    /\ UNCHANGED <<proc, listenQ, rx, sent, answers, accepted, asock, mclients, tasks,
                   workerVars, dbVars>>

KilledBySendKey ==
    /\ Alive
    /\ apc = "sendKey"
    /\ SendRaisesSigpipe(asock)
    /\ Dies

Register ==
    /\ Alive
    /\ apc = "insert"
    /\ mclients' = mclients \cup {asock}
    /\ apc' = "addTask"
    /\ UNCHANGED <<proc, kernel, asock, tasks, workerVars, dbVars>>

AddTask ==
    /\ Alive
    /\ apc = "addTask"
    /\ tasks' = Append(tasks, asock)
    /\ apc' = "accept" /\ asock' = None
    /\ UNCHANGED <<proc, kernel, mclients, workerVars, dbVars>>

------------------------------------------------------------------------------
(* threadLoop and handleClient.                                            *)

Take(w) ==
    /\ Alive
    /\ wpc[w] = "idle"
    /\ tasks # <<>>
    /\ wsock' = [wsock EXCEPT ![w] = Head(tasks)]
    /\ tasks' = Tail(tasks)
    /\ wpc' = [wpc EXCEPT ![w] = "poll"]
    /\ UNCHANGED <<proc, kernel, acceptVars, mclients, wreq, dbVars>>

\* FIONREAD; a read that follows finds what it announced.
Poll(w) ==
    /\ Alive
    /\ wpc[w] = "poll"
    /\ LET p == wsock[w]
       IN  IF rx[p] = <<>>
           THEN wpc' = [wpc EXCEPT ![w] = "requeue"] /\ UNCHANGED <<rx, wreq>>
           ELSE /\ wpc' = [wpc EXCEPT ![w] = "handle"]
                /\ wreq' = [wreq EXCEPT ![w] = Head(rx[p])]
                /\ rx' = [rx EXCEPT ![p] = Tail(@)]
    /\ UNCHANGED <<proc, listenQ, peer, sent, answers, accepted, acceptVars, mclients,
                   tasks, wsock, dbVars>>

\* The worker forgets the socket, which stays open.
RemoveClient(w) ==
    /\ mclients' = mclients \ {wsock[w]}
    /\ wpc' = [wpc EXCEPT ![w] = "idle"]
    /\ wsock' = [wsock EXCEPT ![w] = None]
    /\ wreq' = [wreq EXCEPT ![w] = None]

\* Mutant: the client is removed, and the caller told that it is connected.
HandleOtherConnected(w) ==
    /\ Alive
    /\ wpc[w] = "handle" /\ wreq[w] = "other"
    /\ mclients' = mclients \ {wsock[w]}
    /\ wpc' = [wpc EXCEPT ![w] = "requeue"]
    /\ wreq' = [wreq EXCEPT ![w] = None]
    /\ UNCHANGED <<proc, kernel, acceptVars, tasks, wsock, dbVars>>

\* No handler and no answer: the ClientData is deleted, written to, and, as
\* send cannot read a null buffer, deleted again and its entry erased.
HandleOther(w) ==
    /\ Alive
    /\ wpc[w] = "handle" /\ wreq[w] = "other"
    /\ ~SendRaisesSigpipe(wsock[w])
    /\ RemoveClient(w)
    /\ UNCHANGED <<proc, kernel, acceptVars, tasks, dbVars>>

\* What else the use and the second delete of freed memory may do, and SIGPIPE;
\* an exception of the parser ends the process too.
HandleKills(w) ==
    /\ Alive
    /\ wpc[w] = "handle" /\ wreq[w] \in {"other", "malformed"}
    /\ Dies

\* Mutant: a connection that failed is closed, and its number kept.
AskDatabaseCloses(w) ==
    /\ Alive
    /\ wpc[w] = "handle" /\ wreq[w] \in {"login", "signup"}
    /\ dbFd \notin Peers
    /\ wpc' = [wpc EXCEPT ![w] = IF dbFd = "database" /\ db = "up" THEN "dbRead" ELSE "dbFailed"]
    /\ dbFd' = IF dbFd = "database" /\ db # "up" THEN "closed" ELSE dbFd
    /\ UNCHANGED <<proc, kernel, acceptVars, mclients, tasks, wsock, wreq, db, misdirected>>

\* sendRequest: the block goes to whatever m_databaseServerSocket refers to.  (A
\* database that has closed answers it with a reset, which may take its time.)
AskDatabase(w) ==
    /\ Alive
    /\ wpc[w] = "handle" /\ wreq[w] \in {"login", "signup"}
    /\ dbFd \notin Peers
    /\ \/ dbFd = "database" /\ db = "up" /\ UNCHANGED db
       \/ dbFd = "database" /\ db = "fin" /\ db' \in {"fin", "epipe"}
       \/ dbFd = "database" /\ db = "rst" /\ db' = "epipe"
       \/ dbFd \in {"none", "closed", "reserved"} /\ UNCHANGED db
    /\ wpc' = [wpc EXCEPT ![w] = IF dbFd = "database" /\ db = "up" THEN "dbRead" ELSE "dbFailed"]
    /\ UNCHANGED <<proc, kernel, acceptVars, mclients, tasks, wsock, wreq, dbFd, misdirected>>

AskAnotherClient(w) ==
    /\ Alive
    /\ wpc[w] = "handle" /\ wreq[w] \in {"login", "signup"}
    /\ dbFd \in Peers /\ ~SendRaisesSigpipe(dbFd)
    /\ misdirected' = misdirected \cup {wsock[w]}
    /\ AfterSend(dbFd)
    /\ wpc' = [wpc EXCEPT ![w] = IF SendWorks(dbFd) THEN "dbRead" ELSE "dbFailed"]
    /\ UNCHANGED <<proc, listenQ, rx, sent, answers, accepted, acceptVars, mclients,
                   tasks, wsock, wreq, dbFd, db>>

AskDatabaseKills(w) ==
    /\ Alive
    /\ wpc[w] = "handle" /\ wreq[w] \in {"login", "signup"}
    /\ \/ dbFd = "database" /\ db = "epipe"
       \/ dbFd \in Peers /\ SendRaisesSigpipe(dbFd)
    /\ Dies

\* An answer has come: it is decrypted by an RSA_Communication that is null.
DatabaseAnswers(w) ==
    /\ Alive
    /\ wpc[w] = "dbRead"
    /\ \/ db = "up" /\ wsock[w] \notin misdirected
       \/ dbFd \in Peers /\ rx[dbFd] # <<>>
    /\ Dies

\* send or read failed, and sendRequest returns nullptr.
DatabaseFailed(w) ==
    \/ wpc[w] = "dbFailed"
    \/ wpc[w] = "dbRead" /\ \/ db # "up" /\ wsock[w] \notin misdirected
                            \/ dbFd \in {"closed", "reserved"}
                            \/ dbFd \in Peers /\ Ended(dbFd)

\* Mutant: the worker returns early, with the request in hand.
LoginFailsSilently(w) ==
    /\ Alive
    /\ DatabaseFailed(w) /\ wreq[w] = "login"
    /\ wpc' = [wpc EXCEPT ![w] = "requeue"]
    /\ UNCHANGED <<proc, kernel, acceptVars, mclients, tasks, wsock, wreq, dbVars>>

\* login() makes an error of it.  A reset is reported once.
LoginFails(w) ==
    /\ Alive
    /\ DatabaseFailed(w) /\ wreq[w] = "login"
    /\ wpc' = [wpc EXCEPT ![w] = "send"]
    /\ db' = IF wpc[w] = "dbRead" /\ dbFd = "database" /\ db = "rst" THEN "epipe" ELSE db
    /\ UNCHANGED <<proc, kernel, acceptVars, mclients, tasks, wsock, wreq, dbFd, misdirected>>

\* signup() does not look.
SignupFails(w) ==
    /\ Alive
    /\ DatabaseFailed(w) /\ wreq[w] = "signup"
    /\ Dies

SendAnswer(w) ==
    /\ Alive
    /\ wpc[w] = "send"
    /\ SendWorks(wsock[w])
    /\ Sends(wsock[w], "databaseServerError")
    /\ wpc' = [wpc EXCEPT ![w] = "requeue"]
    /\ wreq' = [wreq EXCEPT ![w] = None]
    /\ UNCHANGED <<proc, listenQ, rx, sent, accepted, acceptVars, mclients, tasks, wsock, dbVars>>

SendAnswerFails(w) ==
    /\ Alive
    /\ wpc[w] = "send"
    /\ SendFails(wsock[w])
    /\ AfterSend(wsock[w])
    /\ RemoveClient(w)
    /\ UNCHANGED <<proc, listenQ, rx, sent, answers, accepted, acceptVars, tasks, dbVars>>

KilledBySend(w) ==
    /\ Alive
    /\ wpc[w] = "send"
    /\ SendRaisesSigpipe(wsock[w])
    /\ Dies

\* Mutant: back to the head of the queue.
RequeueInFront(w) ==
    /\ Alive
    /\ wpc[w] = "requeue"
    /\ tasks' = <<wsock[w]>> \o tasks
    /\ wpc' = [wpc EXCEPT ![w] = "idle"]
    /\ wsock' = [wsock EXCEPT ![w] = None]
    /\ UNCHANGED <<proc, kernel, acceptVars, mclients, wreq, dbVars>>

Requeue(w) ==
    /\ Alive
    /\ wpc[w] = "requeue"
    /\ tasks' = Append(tasks, wsock[w])
    /\ wpc' = [wpc EXCEPT ![w] = "idle"]
    /\ wsock' = [wsock EXCEPT ![w] = None]
    /\ UNCHANGED <<proc, kernel, acceptVars, mclients, wreq, dbVars>>

\* m_clients is a std::map used with no lock: an insertion or a removal that
\* meets another use of it may go through, or end the process.
Looking(w) == wpc[w] \in {"handle", "send"}

Removing(w) ==
    \/ wpc[w] = "handle" /\ wreq[w] = "other"
    \/ wpc[w] = "send" /\ SendFails(wsock[w])

MapRace ==
    /\ Alive
    /\ \/ apc = "insert" /\ (proc = "closing" \/ \E w \in Workers : Looking(w))
       \/ \E w \in Workers :
             /\ Removing(w)
             /\ proc = "closing" \/ \E v \in Workers \ {w} : Looking(v)
    /\ Dies

------------------------------------------------------------------------------
(* shutdown(): the listening and the database sockets, then the clients.   *)

Quit ==
    /\ proc = "running"
    /\ OperatorQuits
    /\ proc' = "closing"
    /\ dbFd' = IF dbFd = "database" THEN "closed" ELSE dbFd
    /\ UNCHANGED <<kernel, acceptVars, mclients, tasks, workerVars, db, misdirected>>

Shuttable(p) == p \in mclients /\ peer[p] \in {"open", "fin", "probed"}

ShutdownClient(p) ==
    /\ proc = "closing"
    /\ Shuttable(p)
    /\ peer' = [peer EXCEPT ![p] = "shut"]
    /\ UNCHANGED <<proc, listenQ, rx, sent, answers, accepted, acceptVars, mclients,
                   tasks, workerVars, dbVars>>

\* main returns two seconds after the last client was shut.
Exit ==
    /\ proc = "closing"
    /\ \A p \in Peers : ~Shuttable(p)
    /\ Dies

------------------------------------------------------------------------------
Environment ==
    \/ DatabaseCloses
    \/ \E p \in Peers :
          Connect(p) \/ PeerCloses(p) \/ ResetArrives(p) \/ \E b \in Blocks : ClientWrites(p, b)

AcceptThread ==
    \/ EnterAccept \/ ReserveNumber \/ Accept \/ AcceptFails
    \/ ReadKey \/ ReadKeyMalformed \/ ReadKeyEnded
    \/ SendKey \/ SendKeyFails \/ KilledBySendKey \/ Register \/ AddTask

Worker(w) ==
    \/ Take(w) \/ Poll(w) \/ HandleOther(w) \/ HandleKills(w)
    \/ AskDatabase(w) \/ AskAnotherClient(w) \/ AskDatabaseKills(w)
    \/ LoginFails(w) \/ SignupFails(w)
    \/ SendAnswer(w) \/ SendAnswerFails(w) \/ KilledBySend(w) \/ Requeue(w)

MainThread ==
    Run \/ Quit \/ (\E p \in Peers : ShutdownClient(p)) \/ Exit

Next ==
    \/ Environment \/ AcceptThread \/ MapRace \/ MainThread
    \/ \E w \in Workers : Worker(w) \/ DatabaseAnswers(w)

Spec == Init /\ [][Next]_vars

\* Each thread that can take a step does; locks are held for one queue
\* operation.  Nothing obliges the database to answer: it may be serving another
\* connection, and a worker that waits for it has no timeout.
Fairness ==
    /\ WF_vars(Run)
    /\ WF_vars(AcceptThread)
    /\ \A w \in Workers : WF_vars(Worker(w))

FairSpec == Spec /\ Fairness

------------------------------------------------------------------------------
(* Properties.                                                             *)

PeerStates == {"absent", "open", "fin", "probed", "epipe", "rst", "shut"}

InAccept == {"accept", "entered", "waiting"}

\* Types, and what a thread's position implies for its locals.
TypeOK ==
    /\ proc \in {"starting", "running", "closing", "dead"}
    /\ listenQ \in Seq(Peers)
    /\ peer \in [Peers -> PeerStates]
    /\ rx \in [Peers -> Seq(Blocks)]
    /\ sent \in [Peers -> 0..MaxBlocks]
    /\ answers \in [Peers -> Seq({"key", "databaseServerError"})]
    /\ accepted \subseteq Peers
    /\ apc \in InAccept \cup {"readKey", "sendKey", "insert", "addTask"}
    /\ asock \in Peers \cup {None} /\ (asock # None <=> apc \notin InAccept)
    /\ mclients \subseteq Peers
    /\ tasks \in Seq(Peers)
    /\ wpc \in [Workers -> {"idle", "poll", "handle", "dbRead", "dbFailed", "send", "requeue"}]
    /\ wsock \in [Workers -> Peers \cup {None}]
    /\ wreq \in [Workers -> Blocks \cup {None}]
    /\ \A w \in Workers :
          /\ wsock[w] # None <=> wpc[w] # "idle"
          /\ wreq[w] # None <=> wpc[w] \in {"handle", "dbRead", "dbFailed", "send"}
    /\ dbFd \in Peers \cup {"database", "none", "closed", "reserved"}
    /\ db \in {"up", "fin", "rst", "epipe"}
    /\ misdirected \subseteq Peers

HasTurn(p) == (\E i \in DOMAIN tasks : tasks[i] = p) \/ \E w \in Workers : wsock[w] = p

\* A socket has one turn in the pool at most, in the queue or with a worker.
OneTurn ==
    /\ \A i, j \in DOMAIN tasks : tasks[i] = tasks[j] => i = j
    /\ \A v, w \in Workers : wsock[v] = wsock[w] /\ wsock[v] # None => v = w
    /\ \A w \in Workers : \A i \in DOMAIN tasks : tasks[i] # wsock[w]

\* For as long as a socket has a turn it has its entry in m_clients, and the
\* accept thread is done with it: a worker that looks up its client finds it,
\* and never two work for one client (Server.cpp:116-117, 149-170).
TurnsAreRegistered ==
    OneTurn /\ \A p \in Peers : HasTurn(p) => p \in mclients \ {asock}

\* The newcomer in the accept thread's hands is silent.
AtSilentNewcomer == apc = "readKey" /\ peer[asock] = "open" /\ sent[asock] = 0

\* The accept thread gets past every newcomer that writes or closes, so a
\* client's key is answered, unless the accept thread ends up waiting for ever for
\* one that stays silent (Server.cpp:101-119, RSAHandler.cpp:18-51).
KeyAnswered ==
    \A c \in Clients :
        \/ (sent[c] = 1 /\ peer[c] = "open")
              ~> (answers[c] # <<>> \/ peer[c] # "open" \/ proc # "running")
        \/ <>[](proc = "running" /\ AtSilentNewcomer)

\* A request of a registered client is taken up: no client of the queue is
\* passed over for ever, unless all workers end up waiting for ever for an answer
\* of the database (ThreadPool.cpp:34-68, DatabaseServerCommunication.cpp:36).
RequestTaken ==
    \A c \in Clients :
        \/ (HasTurn(c) /\ rx[c] # <<>>) ~> (rx[c] = <<>> \/ proc # "running")
        \/ <>[](proc = "running" /\ \A w \in Workers : wpc[w] = "dbRead")

\* Until the operator quits, what a client asks of the database is written to
\* the database connection, never to another client, whatever fails
\* (DatabaseServerCommunication.cpp:27, Server.cpp:40-44).
RequestsReachDatabase == proc \in {"starting", "running"} => misdirected = {}

LoginInHand(c) == \E w \in Workers : wsock[w] = c /\ wreq[w] = "login" /\ peer[c] = "open"

\* A login that a worker has taken up is answered in the end, unless the database
\* leaves the worker waiting for ever
\* (LoginRequestHandler.cpp:17-20: "this method can handle: 1. Login request").
LoginAnswered ==
    \A c \in Clients :
        \/ LoginInHand(c) ~> (Len(answers[c]) = sent[c])
        \/ <>[](proc # "dead" /\ \E w \in Workers : wsock[w] = c /\ wpc[w] = "dbRead")

------------------------------------------------------------------------------
(* What the proxy promises.                                                *)

\* How far the proxy is with a peer: the accept thread has it, the pool, or
\* neither.
Stage(p) ==
    IF p \notin accepted \/ (asock = p /\ apc = "readKey") THEN "new"
    ELSE IF asock = p /\ apc = "sendKey" THEN "greeting"
    ELSE IF asock = p \/ HasTurn(p) THEN "served" ELSE "dropped"

Left(p) == peer[p] \notin {"absent", "open"}

InHand(p) == {wreq[w] : w \in {v \in Workers : wsock[v] = p}} \ {None}

Service == INSTANCE ProxyService WITH
    Customers <- Peers,
    dead <- proc = "dead",
    stage <- [p \in Peers |-> Stage(p)],
    left <- [p \in Peers |-> Left(p)],
    inbox <- rx,
    inHand <- [p \in Peers |-> InHand(p)]

\* Threads, queue, kernel, a failing database and shutdown() decide when a client
\* is served and whether the process ends, and nothing else it can tell (but for
\* requests it may get after shutdown(), see misdirected): to each client the
\* proxy is a server of its own, which takes its blocks up one at a time and
\* answers in order (Server.cpp:78-119, 142-176, ThreadPool.cpp:34-68).
ServiceSpec == Service!Spec
=============================================================================
