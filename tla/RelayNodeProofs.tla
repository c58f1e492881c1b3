--------------------------- MODULE RelayNodeProofs ---------------------------
(***************************************************************************)
(* Theorems about RelayNode for every number of clients, workers and       *)
(* descriptors: its types, and that no two threads ever act on the same    *)
(* socket.                                                                 *)
(***************************************************************************)
EXTENDS RelayNodeInv, SequenceTheorems, TLAPS

USE DEF Fds, Endpoints, ClientEnd, DestEnd

------------------------------------------------------------------------------
(* Types.                                                                  *)

\* Each group of types depends on its own variables only.
LEMMA KernelStable ==
    KernelTypes /\ UNCHANGED <<listenQ, fdTable, peer, rx, tx, unread>> => KernelTypes'
BY DEF KernelTypes

\* The numbers of blocks written keep their bounds while nothing is written.
LEMMA SentStable == SentTypes /\ UNCHANGED sent => SentTypes'
BY DEF SentTypes

\* The same for the two queues and the socket the accept thread holds.
LEMMA QueueStable ==
    QueueTypes /\ UNCHANGED <<newSocket, socketsToStart, conversations>> => QueueTypes'
BY DEF QueueTypes

\* The same for the path thread's locals.
LEMMA PathStable == PathTypes /\ UNCHANGED pathVars => PathTypes'
BY DEF PathTypes, pathVars

\* The same for the workers' locals.
LEMMA WorkerStable == WorkerTypes /\ UNCHANGED workerVars => WorkerTypes'
BY DEF WorkerTypes, workerVars

\* The types hold when the process starts.
LEMMA InitTypeOK == Init => TypeOK
<1> SUFFICES ASSUME Init PROVE TypeOK
  OBVIOUS
<1>1. KernelTypes
  BY DEF Init, KernelTypes, PeerStates
<1>2. SentTypes
  BY SizesAssumption DEF Init, SentTypes, WriteBound
<1>3. QueueTypes /\ PathTypes /\ WorkerTypes
  BY NoneAssumption DEF Init, QueueTypes, PathTypes, WorkerTypes
<1> QED
  BY <1>1, <1>2, <1>3 DEF Init, TypeOK, ProcStates

\* The end of the process changes nothing but proc.
LEMMA DiesTypeOK == TypeOK /\ Dies => TypeOK'
BY KernelStable, SentStable, QueueStable, PathStable, WorkerStable
   DEF TypeOK, Dies, ProcStates, sockets

\* close only shrinks what the kernel holds.
LEMMA CloseAllTypes ==
    ASSUME NEW F, KernelTypes, CloseAll(F), UNCHANGED listenQ
    PROVE  KernelTypes'
BY DEF KernelTypes, CloseAll, PeerStates

\* send appends one block and keeps every type.
LEMMA SendBlockTypes ==
    ASSUME NEW e \in Endpoints, NEW b \in Written, KernelTypes, SendBlock(e, b),
           UNCHANGED listenQ
    PROVE  KernelTypes'
BY DEF KernelTypes, SendBlock, PeerStates

\* The peers and the network keep the types.
LEMMA EnvironmentTypeOK == TypeOK /\ Environment => TypeOK'
<1> SUFFICES ASSUME TypeOK, Environment PROVE TypeOK'
  OBVIOUS
<1> USE QueueStable, PathStable, WorkerStable DEF TypeOK
<1>1. ASSUME NEW c \in Clients, Connect(c) PROVE TypeOK'
  <2>1. KernelTypes'
    BY <1>1 DEF KernelTypes, Connect, PeerStates
  <2> QED
    BY <1>1, <2>1, SentStable DEF Connect
<1>2. ASSUME NEW e \in Endpoints, PeerWrites(e) PROVE TypeOK'
  <2>1. [from |-> e, n |-> sent[e] + 1] \in Blocks
    BY <1>2, SizesAssumption DEF SentTypes, PeerWrites, Blocks, WriteBound
  <2>2. KernelTypes'
    BY <1>2, <2>1 DEF KernelTypes, PeerWrites
  <2>3. SentTypes'
    BY <1>2, SizesAssumption DEF SentTypes, PeerWrites, WriteBound
  <2> QED
    BY <1>2, <2>2, <2>3 DEF PeerWrites
<1>3. ASSUME NEW e \in Endpoints, PeerReads(e) PROVE TypeOK'
  <2>1. KernelTypes'
    BY <1>3 DEF KernelTypes, PeerReads
  <2> QED
    BY <1>3, <2>1, SentStable DEF PeerReads
<1>4. ASSUME NEW e \in Endpoints, PeerCloses(e) \/ ResetArrives(e) PROVE TypeOK'
  <2>1. KernelTypes'
    BY <1>4 DEF KernelTypes, PeerCloses, ResetArrives, PeerStates
  <2> QED
    BY <1>4, <2>1, SentStable DEF PeerCloses, ResetArrives
<1> QED
  BY <1>1, <1>2, <1>3, <1>4 DEF Environment

\* The accept loop (Server.cpp:119-135) keeps the types.
LEMMA AcceptThreadTypeOK == TypeOK /\ AcceptThread => TypeOK'
<1> SUFFICES ASSUME TypeOK, AcceptThread PROVE TypeOK'
  OBVIOUS
<1> USE SentStable, PathStable, WorkerStable DEF TypeOK
<1>1. ASSUME NEW f \in Fds, Accept(f) PROVE TypeOK'
  <2>1. KernelTypes'
    BY <1>1, HeadTailProperties DEF KernelTypes, Accept
  <2>2. QueueTypes'
    BY <1>1 DEF QueueTypes, Accept
  <2> QED
    BY <1>1, <2>1, <2>2 DEF Accept
<1>2. CASE AcceptFails
  BY <1>2, DiesTypeOK DEF AcceptFails
<1>3. CASE QueueNewSocket
  <2>1. QueueTypes'
    BY <1>3, AppendProperties DEF QueueTypes, QueueNewSocket
  <2> QED
    BY <1>3, <2>1, KernelStable DEF QueueNewSocket, ProcStates, sockets
<1> QED
  BY <1>1, <1>2, <1>3 DEF AcceptThread

\* The path thread names the next hop's end after the client of its socket.
LEMMA PathClient ==
    ASSUME EndsMatch, PathTypes, pathPc # "loop"
    PROVE  /\ pathFd \in Fds
           /\ \E c \in Clients : fdTable[pathFd] = <<c, "client">>
BY DEF EndsMatch, PathTypes, ClientSocket, RefersTo

\* createPathThread and buildPath keep the types, given what pathFd refers to.
LEMMA PathThreadTypeOK == TypeOK /\ EndsMatch /\ PathThread => TypeOK'
<1> SUFFICES ASSUME TypeOK, EndsMatch, PathThread PROVE TypeOK'
  OBVIOUS
<1> USE SentStable, WorkerStable DEF TypeOK
<1>1. CASE PathTake
  <2>1. /\ Head(socketsToStart) \in Fds
        /\ Tail(socketsToStart) \in Seq(Fds)
    BY <1>1, HeadTailProperties DEF QueueTypes, PathTake
  <2>2. QueueTypes'
    BY <1>1, <2>1 DEF QueueTypes, PathTake
  <2>3. PathTypes'
    BY <1>1, <2>1, NoneAssumption DEF PathTypes, PathTake
  <2> QED
    BY <1>1, <2>2, <2>3, KernelStable DEF PathTake, sockets
<1>2. CASE PathPutBack
  <2>1. QueueTypes' /\ PathTypes'
    BY <1>2, AppendProperties DEF QueueTypes, PathTypes, PathPutBack
  <2> QED
    BY <1>2, <2>1, KernelStable DEF PathPutBack, sockets
<1>3. CASE PathMalformed
  BY <1>3, DiesTypeOK DEF PathMalformed
<1>4. CASE PathNoSocket
  <2>1. KernelTypes'
    BY <1>4, CloseAllTypes DEF PathNoSocket, GiveUpPath
  <2>2. PathTypes'
    BY <1>4 DEF PathTypes, PathNoSocket, GiveUpPath
  <2> QED
    BY <1>4, <2>1, <2>2, QueueStable DEF PathNoSocket, GiveUpPath, CloseAll
<1>5. ASSUME NEW f \in Fds, PathBadAddress(f) PROVE TypeOK'
  <2>1. PICK c \in Clients : pathFd \in Fds /\ fdTable[pathFd] = <<c, "client">>
    BY <1>5, PathClient DEF PathBadAddress, SetupReadable
  <2>2. KernelTypes'
    <3>1. fdTable' = [fdTable EXCEPT ![f] = <<c, "dest">>, ![pathFd] = None]
      BY <1>5, <2>1 DEF PathBadAddress
    <3>2. peer' = [peer EXCEPT ![<<c, "dest">>] = "failed", ![<<c, "client">>] = "gone"]
      BY <1>5, <2>1 DEF PathBadAddress
    <3>3. fdTable' \in [Fds -> Endpoints \cup {None}]
      BY <3>1 DEF KernelTypes
    <3>4. peer' \in [Endpoints -> PeerStates]
      BY <3>2 DEF KernelTypes, PeerStates
    <3>5. rx' \in [Endpoints -> Seq(Blocks)] /\ unread' \in [Endpoints -> Nat]
      BY <1>5, <2>1 DEF KernelTypes, PathBadAddress
    <3> QED
      BY <1>5, <3>3, <3>4, <3>5 DEF KernelTypes, PathBadAddress, GiveUpPath
  <2>3. PathTypes'
    BY <1>5 DEF PathTypes, PathBadAddress, GiveUpPath
  <2> QED
    BY <1>5, <2>2, <2>3, QueueStable DEF PathBadAddress, GiveUpPath
<1>6. ASSUME NEW f \in Fds, PathSocket(f) PROVE TypeOK'
  <2>0. PICK c \in Clients : pathFd \in Fds /\ fdTable[pathFd] = <<c, "client">>
    BY <1>6, PathClient DEF PathSocket, SetupReadable
  <2>1. KernelTypes'
    <3>1. Tail(rx[<<c, "client">>]) \in Seq(Blocks)
      BY <1>6, <2>0, HeadTailProperties DEF KernelTypes, PathSocket, SetupReadable
    <3> QED
      BY SMTT(30), <1>6, <2>0, <3>1 DEF KernelTypes, PathSocket
  <2>2. PathTypes'
    BY <1>6, NoneAssumption DEF PathTypes, PathSocket, SetupReadable
  <2> QED
    BY <1>6, <2>1, <2>2, QueueStable DEF PathSocket
<1>7. CASE PathConnected
  <2>0. PICK c \in Clients : pathFd \in Fds /\ fdTable[pathFd] = <<c, "client">>
    BY <1>7, PathClient DEF PathConnected
  <2>1. KernelTypes'
    BY <1>7 DEF KernelTypes, PathConnected, PeerStates
  <2>2. QueueTypes'
    <3>1. [dec |-> pathFd, enc |-> pathOut, rsa |-> c] \in Conversations
      BY <1>7, <2>0 DEF PathTypes, PathConnected, Conversations
    <3> QED
      BY <1>7, <2>0, <3>1, AppendProperties DEF QueueTypes, PathConnected
  <2>3. PathTypes'
    BY <1>7 DEF PathTypes, PathConnected
  <2> QED
    BY <1>7, <2>1, <2>2, <2>3 DEF PathConnected
<1>8. CASE PathConnectFails
  <2>0. PICK c \in Clients : pathFd \in Fds /\ fdTable[pathFd] = <<c, "client">>
    BY <1>8, PathClient DEF PathConnectFails
  <2>1. KernelTypes'
    <3>1. fdTable' \in [Fds -> Endpoints \cup {None}]
      BY <1>8 DEF KernelTypes, PathConnectFails
    <3>2. peer' \in [Endpoints -> PeerStates]
      BY <1>8 DEF KernelTypes, PathConnectFails, PeerStates
    <3>3. rx' \in [Endpoints -> Seq(Blocks)] /\ unread' \in [Endpoints -> Nat]
      BY <1>8, <2>0 DEF KernelTypes, PathConnectFails
    <3> QED
      BY <1>8, <3>1, <3>2, <3>3 DEF KernelTypes, PathConnectFails, GiveUpPath
  <2>2. PathTypes'
    BY <1>8 DEF PathTypes, PathConnectFails, GiveUpPath
  <2> QED
    BY <1>8, <2>1, <2>2, QueueStable DEF PathConnectFails, GiveUpPath
<1> QED
  BY <1>1, <1>2, <1>3, <1>4, <1>5, <1>6, <1>7, <1>8 DEF PathThread

\* A worker that is at work acts on two open sockets, one of each kind.
LEMMA WorkerEnds ==
    ASSUME NEW w \in Workers, EndsMatch, WorkerTypes, wpc[w] # "idle"
    PROVE  /\ wconv[w] \in Conversations
           /\ DecEnd(w) = <<wconv[w].rsa, "client">> /\ DecEnd(w) \in Endpoints
           /\ EncEnd(w) = <<wconv[w].rsa, "dest">> /\ EncEnd(w) \in Endpoints
<1>1. wconv[w] \in Conversations /\ Paired(wconv[w])
  BY DEF EndsMatch, WorkerTypes
<1> QED
  BY <1>1 DEF Paired, RefersTo, DecEnd, EncEnd, Conversations

\* Reading a block splits a queue into blocks.
LEMMA OldestRest ==
    ASSUME NEW q \in Seq(Blocks)
    PROVE  Oldest(q) \in Seq(Blocks) /\ Rest(q) \in Seq(Blocks)
           /\ (q # <<>> => Oldest(q) # <<>>)
BY HeadTailProperties DEF Oldest, Rest

\* threadLoop and handleRequest keep the types, given what the sockets refer to.
LEMMA WorkerTypeOK ==
    ASSUME NEW w \in Workers
    PROVE  TypeOK /\ EndsMatch /\ Worker(w) => TypeOK'
<1> SUFFICES ASSUME TypeOK, EndsMatch, Worker(w) PROVE TypeOK'
  OBVIOUS
<1> USE SentStable, PathStable DEF TypeOK
<1>1. CASE WorkerBeforeServer(w)
  BY <1>1, DiesTypeOK DEF WorkerBeforeServer
<1>2. CASE Take(w)
  <2>1. /\ Head(conversations) \in Conversations
        /\ Tail(conversations) \in Seq(Conversations)
    BY <1>2, HeadTailProperties DEF QueueTypes, Take
  <2>2. QueueTypes'
    BY <1>2, <2>1 DEF QueueTypes, Take
  <2>3. Head(conversations) # None
    BY <2>1, NoneAssumption DEF Conversations
  <2>4. WorkerTypes'
    BY <1>2, <2>1, <2>3 DEF WorkerTypes, Take
  <2> QED
    BY <1>2, <2>2, <2>4, KernelStable DEF Take, sockets
<1>3. CASE Poll(w)
  <2>1. WorkerTypes'
    BY <1>3 DEF WorkerTypes, Poll
  <2> QED
    BY <1>3, <2>1, KernelStable, QueueStable DEF Poll, sockets
<1>4. CASE ReadClient(w)
  <2>1. DecEnd(w) \in Endpoints
    BY <1>4, WorkerEnds DEF ReadClient
  <2>2. Oldest(rx[DecEnd(w)]) \in Seq(Blocks) /\ Rest(rx[DecEnd(w)]) \in Seq(Blocks)
    BY <2>1, OldestRest DEF KernelTypes
  <2>3. KernelTypes'
    BY <1>4, <2>2 DEF KernelTypes, ReadClient
  <2>4. WorkerTypes'
    BY <1>4, <2>2 DEF WorkerTypes, ReadClient
  <2> QED
    BY <1>4, <2>3, <2>4, QueueStable DEF ReadClient
<1>5. CASE ReadDest(w)
  <2>1. EncEnd(w) \in Endpoints
    BY <1>5, WorkerEnds DEF ReadDest
  <2>2. /\ Oldest(rx[EncEnd(w)]) \in Seq(Blocks) /\ Rest(rx[EncEnd(w)]) \in Seq(Blocks)
        /\ rx[EncEnd(w)] # <<>> => Oldest(rx[EncEnd(w)]) # <<>>
    BY <2>1, OldestRest DEF KernelTypes
  <2>3. KernelTypes'
    BY <1>5, <2>2 DEF KernelTypes, ReadDest
  <2>4. WorkerTypes'
    BY <1>5, <2>2 DEF WorkerTypes, ReadDest
  <2> QED
    BY <1>5, <2>3, <2>4, QueueStable DEF ReadDest
<1>6. CASE SendToClient(w)
  <2>1. wconv[w] \in Conversations /\ DecEnd(w) \in Endpoints
    BY <1>6, WorkerEnds DEF SendToClient
  <2>2. Head(toEncrypt[w]) \in Blocks
    BY <1>6, HeadTailProperties DEF WorkerTypes, SendToClient
  <2>3. [blk |-> Head(toEncrypt[w]), key |-> wconv[w].rsa] \in Written
    BY <2>1, <2>2 DEF Written, Conversations
  <2>4. KernelTypes'
    BY <1>6, <2>1, <2>3, SendBlockTypes DEF SendToClient
  <2>5. WorkerTypes'
    BY <1>6 DEF WorkerTypes, SendToClient
  <2> QED
    BY <1>6, <2>4, <2>5, QueueStable DEF SendToClient, SendBlock
<1>7. CASE SendToDest(w)
  <2>1. EncEnd(w) \in Endpoints
    BY <1>7, WorkerEnds DEF SendToDest
  <2>2. Head(toDecrypt[w]) \in Blocks
    BY <1>7, HeadTailProperties DEF WorkerTypes, SendToDest
  <2>3. [blk |-> Head(toDecrypt[w]), key |-> None] \in Written
    BY <2>2 DEF Written
  <2>4. KernelTypes'
    BY <1>7, <2>1, <2>3, SendBlockTypes DEF SendToDest
  <2>5. WorkerTypes'
    BY <1>7 DEF WorkerTypes, SendToDest
  <2> QED
    BY <1>7, <2>4, <2>5, QueueStable DEF SendToDest, SendBlock
<1>8. CASE DropConversation(w)
  <2>1. KernelTypes'
    BY <1>8, CloseAllTypes DEF DropConversation
  <2>2. WorkerTypes'
    BY <1>8 DEF WorkerTypes, DropConversation
  <2> QED
    BY <1>8, <2>1, <2>2, QueueStable DEF DropConversation, CloseAll
<1>9. CASE KilledBySend(w) \/ KilledByEncrypt(w)
  BY <1>9, DiesTypeOK DEF KilledBySend, KilledByEncrypt
<1>10. CASE Requeue(w)
  <2>1. wconv[w] \in Conversations
    BY <1>10, WorkerEnds DEF Requeue
  <2>2. QueueTypes'
    BY <1>10, <2>1, AppendProperties DEF QueueTypes, Requeue
  <2>3. WorkerTypes'
    BY <1>10 DEF WorkerTypes, Requeue
  <2> QED
    BY <1>10, <2>2, <2>3, KernelStable DEF Requeue, sockets
<1> QED
  BY <1>1, <1>2, <1>3, <1>4, <1>5, <1>6, <1>7, <1>8, <1>9, <1>10 DEF Worker

\* Start-up and shutdown() keep the types.
LEMMA MainThreadTypeOK == TypeOK /\ MainThread => TypeOK'
<1> SUFFICES ASSUME TypeOK, MainThread PROVE TypeOK'
  OBVIOUS
<1> USE SentStable, PathStable, WorkerStable DEF TypeOK
<1>1. CASE SetServer \/ Quit \/ ShutdownDone
  BY <1>1, KernelStable, QueueStable DEF SetServer, Quit, ShutdownDone, ProcStates, sockets
<1>2. ASSUME NEW f, ShutBothWays(f), UNCHANGED listenQ PROVE KernelTypes'
  BY <1>2 DEF KernelTypes, ShutBothWays, PeerStates
<1>3. CASE ShutdownClient
  BY <1>2, <1>3, QueueStable DEF ShutdownClient, ShutBothWays, ProcStates
<1>4. CASE ShutdownDest
  BY <1>2, <1>4, QueueStable DEF ShutdownDest, ShutBothWays, ProcStates
<1>5. CASE ShutdownPop
  <2>1. QueueTypes'
    BY <1>5, HeadTailProperties DEF QueueTypes, ShutdownPop
  <2> QED
    BY <1>5, <2>1, KernelStable DEF ShutdownPop, ProcStates, sockets
<1>6. CASE ShutdownRace \/ Exit
  BY <1>6, DiesTypeOK DEF ShutdownRace, Exit
<1> QED
  BY <1>1, <1>3, <1>4, <1>5, <1>6 DEF MainThread

\* Every step keeps the types.
LEMMA NextTypeOK == TypeOK /\ EndsMatch /\ [Next]_vars => TypeOK'
<1> SUFFICES ASSUME TypeOK, EndsMatch, [Next]_vars PROVE TypeOK'
  OBVIOUS
<1>1. CASE UNCHANGED vars
  BY <1>1, KernelStable, SentStable, QueueStable, PathStable, WorkerStable
     DEF TypeOK, vars, sockets
<1> QED
  BY <1>1, EnvironmentTypeOK, AcceptThreadTypeOK, PathThreadTypeOK, WorkerTypeOK,
     MainThreadTypeOK DEF Next

------------------------------------------------------------------------------
(* Ownership of descriptors.                                               *)

\* Nothing is open or kept when the process starts.
LEMMA InitOwnInv == Init => OwnInv
BY NoneAssumption
   DEF Init, OwnInv, EndsMatch, TableInjective, NotYetAccepted, InTable, NoDestYet,
       YoungHaveNoDest, Apart

\* No connection of a client is forgotten: "absent" only ever comes first.
NoneForgotten ==
    \A c \in Clients : peer'[ClientEnd(c)] = "absent" => peer[ClientEnd(c)] = "absent"

\* Descriptors whose table entry stays keep their meaning.
LEMMA SameSocket ==
    ASSUME NEW g, fdTable'[g] = fdTable[g]
    PROVE  /\ ClientSocket(g)' <=> ClientSocket(g)
           /\ \A e : RefersTo(g, e)' <=> RefersTo(g, e)
BY DEF ClientSocket, RefersTo

\* The same for the two sockets of a conversation.
LEMMA SamePair ==
    ASSUME NEW conv, fdTable'[conv.dec] = fdTable[conv.dec],
           fdTable'[conv.enc] = fdTable[conv.enc]
    PROVE  Paired(conv)' <=> Paired(conv)
BY DEF Paired, RefersTo

\* Each part of the invariant depends on its own variables only.
LEMMA EndsStable ==
    EndsMatch /\ UNCHANGED <<fdTable, newSocket, socketsToStart, conversations,
                             pathVars, wconv>> => EndsMatch'
BY DEF EndsMatch, pathVars, ClientSocket, RefersTo, Paired

\* Two descriptors stay distinct ends while the table stays.
LEMMA TableStable == TableInjective /\ UNCHANGED fdTable => TableInjective'
BY DEF TableInjective

\* What is known of connections not yet accepted depends on these variables.
LEMMA ComingStable ==
    NotYetAccepted /\ NoneForgotten /\ UNCHANGED <<fdTable, listenQ>>
        /\ listenQ \in Seq(Clients) => NotYetAccepted'
BY DEF NotYetAccepted, NoneForgotten, InTable

\* What is known of clients without a circuit depends on these variables.
LEMMA YoungStable ==
    YoungHaveNoDest /\ UNCHANGED <<fdTable, newSocket, socketsToStart, pathVars>>
        => YoungHaveNoDest'
BY DEF YoungHaveNoDest, NoDestYet, InTable, pathVars

\* That no descriptor is kept twice depends on these variables.
LEMMA ApartStable ==
    Apart /\ UNCHANGED <<newSocket, socketsToStart, conversations, pathVars, wconv>> => Apart'
BY DEF Apart, pathVars

\* Steps that move no descriptor keep the invariant.
LEMMA OwnStable ==
    ASSUME TypeOK, OwnInv, NoneForgotten,
           UNCHANGED <<fdTable, listenQ, newSocket, socketsToStart, conversations,
                       pathVars, wconv>>
    PROVE  OwnInv'
BY EndsStable, TableStable, ComingStable, YoungStable, ApartStable
   DEF OwnInv, TypeOK, KernelTypes

\* What the queues hold are descriptors and conversations, not None.
LEMMA QueuedFds ==
    ASSUME QueueTypes
    PROVE  /\ DOMAIN socketsToStart = 1..Len(socketsToStart) /\ Len(socketsToStart) \in Nat
           /\ \A i \in DOMAIN socketsToStart :
                 socketsToStart[i] \in Fds /\ socketsToStart[i] # None
           /\ DOMAIN conversations = 1..Len(conversations) /\ Len(conversations) \in Nat
           /\ \A i \in DOMAIN conversations :
                 conversations[i] \in Conversations /\ conversations[i] # None
<1>1. \A f \in Fds : f # None
  BY NoneAssumption
<1>2. \A conv \in Conversations : conv # None
  BY NoneAssumption DEF Conversations
<1>3. \A i \in DOMAIN socketsToStart : socketsToStart[i] \in Fds
  <2>1. socketsToStart \in Seq(Fds) /\ DOMAIN socketsToStart = 1..Len(socketsToStart)
    BY DEF QueueTypes
  <2> HIDE DEF Fds
  <2> QED
    BY <2>1, ElementOfSeq
<1>4. \A i \in DOMAIN conversations : conversations[i] \in Conversations
  BY DEF QueueTypes
<1> QED
  BY <1>1, <1>2, <1>3, <1>4 DEF QueueTypes

\* A connection that arrives is one the process has never seen.
LEMMA ConnectOwnInv ==
    ASSUME TypeOK, OwnInv, NEW c \in Clients, Connect(c)
    PROVE  OwnInv'
<1> USE DEF TypeOK, OwnInv
<1>1. \A i \in DOMAIN listenQ : listenQ[i] # c
  BY DEF NotYetAccepted, Connect
<1>2. /\ listenQ' \in Seq(Clients) /\ Len(listenQ') = Len(listenQ) + 1
      /\ \A i \in 1..Len(listenQ) : listenQ'[i] = listenQ[i]
      /\ listenQ'[Len(listenQ) + 1] = c
  BY AppendProperties DEF KernelTypes, Connect
<1>3. NotYetAccepted'
  <2>1. \A d \in Clients : peer'[ClientEnd(d)] = "absent" => peer[ClientEnd(d)] = "absent"
    BY DEF Connect, KernelTypes
  <2>2. /\ DOMAIN listenQ = 1..Len(listenQ) /\ Len(listenQ) \in Nat
        /\ DOMAIN listenQ' = 1..(Len(listenQ) + 1)
    BY <1>2 DEF KernelTypes
  <2>3. peer'[ClientEnd(c)] # "absent"
    BY DEF Connect, KernelTypes
  <2>4. \A d \in Clients : d # c => peer'[ClientEnd(d)] = peer[ClientEnd(d)]
    BY DEF Connect, KernelTypes
  <2>5. listenQ \in Seq(Clients)
    BY DEF KernelTypes
  <2> QED
    BY SMTT(30), <1>1, <1>2, <2>1, <2>2, <2>3, <2>4, <2>5 DEF NotYetAccepted, Connect, InTable
<1> QED
  BY ZenonT(40), <1>3 DEF Connect, EndsMatch, TableInjective, InTable, NoDestYet, YoungHaveNoDest,
              Apart, ClientSocket, RefersTo, Paired, pathVars, workerVars

\* accept hands out a free descriptor for a connection not yet in the table.
LEMMA AcceptOwnInv ==
    ASSUME TypeOK, OwnInv, NEW f \in Fds, Accept(f)
    PROVE  OwnInv'
<1> USE DEF TypeOK, OwnInv
<1> DEFINE c == Head(listenQ)
<1>1. /\ c \in Clients /\ c = listenQ[1] /\ 1 \in DOMAIN listenQ
      /\ fdTable[f] = None
      /\ fdTable' = [fdTable EXCEPT ![f] = <<c, "client">>]
      /\ fdTable \in [Fds -> Endpoints \cup {None}]
      /\ newSocket' = f
  BY HeadTailProperties DEF KernelTypes, Accept, LowestFree
<1>2. ~InTable(<<c, "client">>) /\ ~InTable(<<c, "dest">>)
  BY <1>1 DEF NotYetAccepted
<1>3. /\ \A g \in Fds : g # f => fdTable'[g] = fdTable[g]
      /\ fdTable'[f] = <<c, "client">>
  BY <1>1
<1>4. TableInjective'
  BY <1>1, <1>2, <1>3 DEF TableInjective, InTable
<1>5. \A d \in Clients : InTable(<<d, "dest">>)' => InTable(<<d, "dest">>)
  BY <1>1, <1>3 DEF InTable
<1>6. EndsMatch'
  <2>1. \A g : ClientSocket(g) => ClientSocket(g)'
    BY <1>1, <1>3, NoneAssumption DEF ClientSocket, RefersTo
  <2>2. \A g, e : RefersTo(g, e) /\ e # None => RefersTo(g, e)'
    BY <1>1, <1>3 DEF RefersTo
  <2>3. \A conv \in Conversations : Paired(conv) => Paired(conv)'
    BY <2>2, NoneAssumption DEF Paired, Conversations
  <2>4. ClientSocket(newSocket)'
    BY <1>1, <1>3 DEF ClientSocket, RefersTo
  <2>5. /\ UNCHANGED <<socketsToStart, conversations, pathFd, pathOut, wconv>>
    BY DEF Accept, pathVars, workerVars
  <2>6. pathOut # None => RefersTo(pathOut, DestEnd(fdTable[pathFd][1]))'
    <3>1. CASE pathOut # None
      <4>1. PICK d \in Clients : pathFd \in Fds /\ fdTable[pathFd] = <<d, "client">>
        BY <3>1, PathClient DEF PathTypes
      <4>2. fdTable'[pathFd] = fdTable[pathFd]
        BY <1>1, <1>3, <4>1, NoneAssumption
      <4> QED
        BY <1>1, <1>3, <2>5, <3>1, <4>1, <4>2, NoneAssumption DEF EndsMatch, RefersTo
    <3> QED
      BY <2>5, <3>1
  <2>7. /\ \A i \in DOMAIN conversations : conversations[i] \in Conversations
        /\ \A w \in Workers : wconv[w] # None => wconv[w] \in Conversations
    BY DEF QueueTypes, WorkerTypes
  <2> QED
    BY <2>1, <2>3, <2>4, <2>5, <2>6, <2>7 DEF EndsMatch
<1>7. YoungHaveNoDest'
  <2>1. \A g : ClientSocket(g) /\ NoDestYet(g) => NoDestYet(g)'
    BY <1>1, <1>3, <1>5, NoneAssumption DEF ClientSocket, RefersTo, NoDestYet
  <2>2. NoDestYet(newSocket)'
    BY <1>1, <1>2, <1>3, <1>5 DEF NoDestYet
  <2>3. \A i \in DOMAIN socketsToStart' : NoDestYet(socketsToStart[i])'
    BY <2>1 DEF YoungHaveNoDest, EndsMatch, Accept
  <2>4. pathPc' = "check" => NoDestYet(pathFd)'
    BY <2>1 DEF YoungHaveNoDest, EndsMatch, Accept, pathVars, PathTypes
  <2> QED
    BY <1>1, <2>2, <2>3, <2>4 DEF YoungHaveNoDest, NoDestYet, Accept
<1>8. NotYetAccepted'
  <2>1. /\ listenQ' = Tail(listenQ) /\ listenQ \in Seq(Clients) /\ listenQ # <<>>
        /\ peer' = peer
    BY DEF Accept, KernelTypes
  <2>2. /\ DOMAIN listenQ' = 1..(Len(listenQ) - 1) /\ Len(listenQ) \in Nat
        /\ DOMAIN listenQ = 1..Len(listenQ)
        /\ \A i \in DOMAIN listenQ' : listenQ'[i] = listenQ[i + 1] /\ i + 1 \in DOMAIN listenQ
    BY <2>1, HeadTailProperties
  <2>3. \A i \in DOMAIN listenQ' : listenQ'[i] # c
    BY <1>1, <2>2 DEF NotYetAccepted
  <2>4. peer[<<c, "client">>] # "absent"
    BY <1>1 DEF NotYetAccepted
  <2>5. \A d \in Clients : d # c /\ ~InTable(<<d, "client">>) => ~InTable(<<d, "client">>)'
    BY <1>1, <1>3 DEF InTable
  <2>6. ASSUME NEW d \in Clients,
               peer'[<<d, "client">>] = "absent" \/ \E i \in DOMAIN listenQ' : listenQ'[i] = d
        PROVE  ~InTable(<<d, "client">>)' /\ ~InTable(<<d, "dest">>)'
    <3>1. d # c
      BY <2>1, <2>3, <2>4, <2>6
    <3>2. ~InTable(<<d, "client">>) /\ ~InTable(<<d, "dest">>)
      BY <2>1, <2>2, <2>6 DEF NotYetAccepted
    <3> QED
      BY <1>5, <2>5, <3>1, <3>2
  <2>7. \A i \in DOMAIN listenQ' : peer'[<<listenQ'[i], "client">>] # "absent"
    BY <2>1, <2>2 DEF NotYetAccepted
  <2>8. \A i, j \in DOMAIN listenQ' : listenQ'[i] = listenQ'[j] => i = j
    BY <2>2 DEF NotYetAccepted
  <2> QED
    BY <2>6, <2>7, <2>8 DEF NotYetAccepted
<1>9. Apart'
  <2>0. \A g : ClientSocket(g) => g # f
    BY <1>1, NoneAssumption DEF ClientSocket, RefersTo
  <2>1. f # pathFd /\ \A i \in DOMAIN socketsToStart : socketsToStart[i] # f
    BY <2>0, NoneAssumption DEF EndsMatch
  <2> QED
    BY <1>1, <2>1 DEF Apart, Accept, pathVars, workerVars
<1> QED
  BY <1>4, <1>6, <1>7, <1>8, <1>9

\* The accept thread passes its socket on (Server.cpp:131-133).
LEMMA QueueNewSocketOwnInv ==
    ASSUME TypeOK, OwnInv, QueueNewSocket
    PROVE  OwnInv'
<1> USE DEF TypeOK, OwnInv
<1>1. /\ DOMAIN socketsToStart = 1..Len(socketsToStart) /\ Len(socketsToStart) \in Nat
      /\ DOMAIN socketsToStart' = 1..(Len(socketsToStart) + 1)
      /\ \A i \in DOMAIN socketsToStart : socketsToStart'[i] = socketsToStart[i]
      /\ socketsToStart'[Len(socketsToStart) + 1] = newSocket
  BY AppendProperties DEF QueueTypes, QueueNewSocket
<1>2. /\ UNCHANGED <<fdTable, peer, listenQ, conversations, pathVars, wconv>>
      /\ newSocket # None /\ newSocket' = None /\ newSocket \in Fds
  BY DEF QueueNewSocket, sockets, workerVars, QueueTypes
<1>3. EndsMatch'
  <2>1. /\ \A g : ClientSocket(g)' <=> ClientSocket(g)
        /\ \A g, e : RefersTo(g, e)' <=> RefersTo(g, e)
        /\ \A conv : Paired(conv)' <=> Paired(conv)
    BY <1>2 DEF ClientSocket, RefersTo, Paired
  <2>2. \A i \in DOMAIN socketsToStart' : ClientSocket(socketsToStart'[i])
    BY <1>1, <1>2 DEF EndsMatch
  <2> QED
    BY <1>2, <2>1, <2>2 DEF EndsMatch, pathVars, RefersTo
<1>4. YoungHaveNoDest'
  BY <1>1, <1>2 DEF YoungHaveNoDest, NoDestYet, InTable, pathVars
<1>5. Apart'
  <2>1. \A i, j \in DOMAIN socketsToStart' :
           socketsToStart'[i] = socketsToStart'[j] => i = j
    BY <1>1, <1>2 DEF Apart
  <2>2. \A i \in DOMAIN socketsToStart' : socketsToStart'[i] \notin {newSocket', pathFd'}
    <3>1. \A i \in DOMAIN socketsToStart : socketsToStart[i] # None
      BY QueuedFds
    <3> QED
      BY <1>1, <1>2, <3>1 DEF Apart, pathVars
  <2> QED
    BY <1>2, <2>1, <2>2 DEF Apart, pathVars
<1> QED
  BY <1>2, <1>3, <1>4, <1>5 DEF TableInjective, NotYetAccepted, InTable

\* The path thread takes the oldest socket (Server.cpp:279-281).
LEMMA PathTakeOwnInv ==
    ASSUME TypeOK, OwnInv, PathTake
    PROVE  OwnInv'
<1> USE DEF TypeOK, OwnInv
<1>1. /\ UNCHANGED <<fdTable, peer, listenQ, newSocket, conversations, pathOut, wconv>>
      /\ pathPc = "loop" /\ pathFd = None /\ pathOut = None
      /\ pathPc' = "check" /\ pathFd' = socketsToStart[1]
  BY HeadTailProperties DEF PathTake, sockets, workerVars, QueueTypes, PathTypes
<1>2. /\ 1 \in DOMAIN socketsToStart
      /\ DOMAIN socketsToStart' = 1..(Len(socketsToStart) - 1)
      /\ \A i \in DOMAIN socketsToStart' :
            socketsToStart'[i] = socketsToStart[i + 1] /\ i + 1 \in DOMAIN socketsToStart
  BY QueuedFds, HeadTailProperties DEF PathTake, QueueTypes
<1>3. EndsMatch'
  <2>1. /\ \A g : ClientSocket(g)' <=> ClientSocket(g)
        /\ \A conv : Paired(conv)' <=> Paired(conv)
    BY <1>1 DEF ClientSocket, RefersTo, Paired
  <2> QED
    BY <1>1, <1>2, <2>1 DEF EndsMatch
<1>4. YoungHaveNoDest'
  BY <1>1, <1>2 DEF YoungHaveNoDest, NoDestYet, InTable
<1>5. Apart'
  <2>1. \A i \in DOMAIN socketsToStart' : socketsToStart'[i] \notin {newSocket', pathFd'}
    <3>1. ASSUME NEW i \in DOMAIN socketsToStart' PROVE socketsToStart'[i] # pathFd'
      <4>1. i + 1 # 1 /\ i + 1 \in DOMAIN socketsToStart
        BY <1>2, <3>1
      <4> QED
        BY <1>1, <1>2, <3>1, <4>1 DEF Apart
    <3> QED
      BY <1>1, <1>2, <3>1 DEF Apart
  <2>2. \A i, j \in DOMAIN socketsToStart' :
           socketsToStart'[i] = socketsToStart'[j] => i = j
    BY <1>2 DEF Apart
  <2>3. newSocket' # None => newSocket' # pathFd'
    BY <1>1, <1>2 DEF Apart
  <2> QED
    BY <1>1, <2>1, <2>2, <2>3 DEF Apart
<1> QED
  BY <1>1, <1>3, <1>4, <1>5 DEF TableInjective, NotYetAccepted, InTable

\* The path thread returns a silent socket (Server.cpp:288-290).
LEMMA PathPutBackOwnInv ==
    ASSUME TypeOK, OwnInv, PathPutBack
    PROVE  OwnInv'
<1> USE DEF TypeOK, OwnInv
<1>1. /\ UNCHANGED <<fdTable, peer, listenQ, newSocket, conversations, pathOut, wconv>>
      /\ pathPc = "check" /\ pathFd \in Fds
      /\ pathPc' = "loop" /\ pathFd' = None
  BY DEF PathPutBack, sockets, workerVars, PathTypes
<1>2. /\ DOMAIN socketsToStart = 1..Len(socketsToStart) /\ Len(socketsToStart) \in Nat
      /\ DOMAIN socketsToStart' = 1..(Len(socketsToStart) + 1)
      /\ \A i \in DOMAIN socketsToStart : socketsToStart'[i] = socketsToStart[i]
      /\ socketsToStart'[Len(socketsToStart) + 1] = pathFd
  BY <1>1, AppendProperties DEF QueueTypes, PathPutBack
<1>3. EndsMatch'
  <2>1. /\ \A g : ClientSocket(g)' <=> ClientSocket(g)
        /\ \A conv : Paired(conv)' <=> Paired(conv)
    BY <1>1 DEF ClientSocket, RefersTo, Paired
  <2>2. ClientSocket(pathFd) /\ pathOut = None
    BY <1>1, NoneAssumption DEF EndsMatch, PathTypes
  <2> QED
    BY <1>1, <1>2, <2>1, <2>2 DEF EndsMatch
<1>4. YoungHaveNoDest'
  BY <1>1, <1>2 DEF YoungHaveNoDest, NoDestYet, InTable
<1>5. Apart'
  <2>1. /\ \A i \in DOMAIN socketsToStart : socketsToStart[i] # None
        /\ pathFd # None
    BY <1>1, QueuedFds, NoneAssumption
  <2>2. \A i \in DOMAIN socketsToStart' : socketsToStart'[i] \notin {newSocket', pathFd'}
    BY <1>1, <1>2, <2>1 DEF Apart
  <2>3. \A i, j \in DOMAIN socketsToStart' :
           socketsToStart'[i] = socketsToStart'[j] => i = j
    BY <1>2 DEF Apart
  <2> QED
    BY <1>1, <2>2, <2>3 DEF Apart
<1> QED
  BY <1>1, <1>3, <1>4, <1>5 DEF TableInjective, NotYetAccepted, InTable

\* Closing the socket of the path thread frees an entry nobody else keeps.
LEMMA PathCloses ==
    ASSUME TypeOK, OwnInv, pathPc # "loop"
    PROVE  /\ pathFd \in Fds /\ ClientSocket(pathFd)
           /\ newSocket # pathFd
           /\ \A i \in DOMAIN socketsToStart : socketsToStart[i] # pathFd
           /\ \A i \in DOMAIN conversations :
                 conversations[i].dec # pathFd /\ conversations[i].enc # pathFd
           /\ \A w \in Workers : wconv[w] # None =>
                 wconv[w].dec # pathFd /\ wconv[w].enc # pathFd
<1> USE DEF TypeOK, OwnInv
<1>1. PICK c \in Clients : pathFd \in Fds /\ fdTable[pathFd] = <<c, "client">>
  BY PathClient
<1>2. ClientSocket(pathFd)
  BY <1>1 DEF ClientSocket, RefersTo
<1>3. \A i \in DOMAIN socketsToStart : socketsToStart[i] # pathFd
  BY DEF Apart
<1>4. newSocket # pathFd
  BY <1>1, NoneAssumption DEF Apart
<1>5. \A conv : Paired(conv) /\ conv.enc # pathOut => conv.dec # pathFd /\ conv.enc # pathFd
  <2>1. SUFFICES ASSUME NEW conv, Paired(conv), conv.enc # pathOut, conv.dec = pathFd
                 PROVE  FALSE
    BY <1>1 DEF Paired, RefersTo
  <2>2. conv.rsa = c /\ conv.enc \in Fds /\ fdTable[conv.enc] = <<c, "dest">>
    BY <1>1, <2>1 DEF Paired, RefersTo
  <2>3. CASE pathPc = "check"
    BY <1>1, <2>2, <2>3 DEF YoungHaveNoDest, NoDestYet, InTable
  <2>4. CASE pathPc = "connect"
    <3>1. pathOut \in Fds /\ fdTable[pathOut] = <<c, "dest">>
      BY <1>1, <2>4 DEF EndsMatch, RefersTo, PathTypes
    <3> QED
      BY <2>1, <2>2, <3>1, NoneAssumption DEF TableInjective
  <2> QED
    BY <2>3, <2>4 DEF PathTypes
<1> QED
  BY <1>1, <1>2, <1>3, <1>4, <1>5 DEF EndsMatch, Apart

\* The socket of the path thread is closed, and at most one table entry that
\* was free is given to the next hop's end of its client, for good.
LEMMA PathGivesUp ==
    ASSUME TypeOK, OwnInv, pathPc # "loop", GiveUpPath, NoneForgotten,
           \A g \in Fds : fdTable'[g] # None =>
               \/ g # pathFd /\ fdTable'[g] = fdTable[g]
               \/ /\ fdTable[g] = None /\ pathPc = "check"
                  /\ fdTable'[g] = DestEnd(fdTable[pathFd][1])
                  /\ LowestFree(g),
           \A g \in Fds : fdTable[g] # None /\ g # pathFd => fdTable'[g] = fdTable[g]
    PROVE  OwnInv'
<1> USE DEF TypeOK, OwnInv
<1>1. /\ UNCHANGED <<listenQ, newSocket, socketsToStart, conversations, wconv>>
      /\ pathPc' = "loop" /\ pathFd' = None /\ pathOut' = None
  BY DEF GiveUpPath, workerVars
<1>2. PICK c \in Clients : pathFd \in Fds /\ fdTable[pathFd] = <<c, "client">>
  BY PathClient
<1>3. /\ \A g : g # pathFd /\ ClientSocket(g) => ClientSocket(g)'
      /\ \A conv \in Conversations :
            conv.dec # pathFd /\ conv.enc # pathFd /\ Paired(conv) => Paired(conv)'
  <2>1. \A g, e : g # pathFd /\ e # None /\ RefersTo(g, e) => RefersTo(g, e)'
    BY DEF RefersTo
  <2>2. \A d \in Clients : <<d, "client">> # None /\ <<d, "dest">> # None
    BY NoneAssumption
  <2> QED
    BY <2>1, <2>2 DEF ClientSocket, Paired, Conversations
<1>4. /\ \A i \in DOMAIN conversations : conversations[i] \in Conversations
      /\ \A w \in Workers : wconv[w] # None => wconv[w] \in Conversations
  BY QueuedFds DEF WorkerTypes
<1>5. EndsMatch'
  BY <1>1, <1>3, <1>4, PathCloses DEF EndsMatch
<1>6. TableInjective'
  <2>1. ASSUME NEW f \in Fds, NEW g \in Fds, fdTable'[f] = fdTable'[g], fdTable'[f] # None
        PROVE  f = g
    <3>1. CASE fdTable[f] # None /\ fdTable[g] # None
      BY <2>1, <3>1 DEF TableInjective
    <3>2. CASE fdTable[f] = None /\ fdTable[g] = None
      BY <2>1, <3>2 DEF LowestFree
    <3>3. ASSUME NEW h \in Fds, NEW k \in Fds, fdTable[h] = None, fdTable[k] # None,
                 fdTable'[h] = fdTable'[k], fdTable'[h] # None
          PROVE  FALSE
      <4>1. pathPc = "check" /\ fdTable[k] = <<c, "dest">>
        BY <1>2, <3>3
      <4> QED
        BY <1>2, <4>1, <3>3 DEF YoungHaveNoDest, NoDestYet, InTable
    <3> QED
      BY <2>1, <3>1, <3>2, <3>3
  <2> QED
    BY <2>1 DEF TableInjective
<1>7. \A e : InTable(e)' /\ e # None => InTable(e) \/ (pathPc = "check" /\ e = <<c, "dest">>)
  BY <1>2 DEF InTable
<1>8. NotYetAccepted'
  <2>1. ASSUME NEW d \in Clients,
               peer'[<<d, "client">>] = "absent" \/ \E i \in DOMAIN listenQ' : listenQ'[i] = d
        PROVE  ~InTable(<<d, "client">>)' /\ ~InTable(<<d, "dest">>)'
    <3>1. ~InTable(<<d, "client">>) /\ ~InTable(<<d, "dest">>)
      BY <1>1, <2>1 DEF NotYetAccepted, NoneForgotten
    <3>2. d # c
      BY <1>2, <3>1 DEF InTable
    <3> QED
      BY <1>7, <3>1, <3>2, NoneAssumption
  <2>2. \A i \in DOMAIN listenQ : listenQ[i] \in Clients
    BY DEF KernelTypes
  <2> QED
    BY <1>1, <2>1, <2>2 DEF NotYetAccepted, NoneForgotten
<1>9. YoungHaveNoDest'
  <2>1. ASSUME NEW g, g # pathFd, ClientSocket(g), NoDestYet(g) PROVE NoDestYet(g)'
    <3>1. PICK d \in Clients : g \in Fds /\ fdTable[g] = <<d, "client">>
      BY <2>1 DEF ClientSocket, RefersTo
    <3>2. fdTable'[g] = <<d, "client">> /\ d # c
      BY <1>2, <2>1, <3>1, NoneAssumption DEF TableInjective
    <3> QED
      BY <1>7, <2>1, <3>1, <3>2, NoneAssumption DEF NoDestYet
  <2> QED
    BY <1>1, <2>1, PathCloses DEF YoungHaveNoDest, EndsMatch
<1>10. Apart'
  <2>1. \A i \in DOMAIN socketsToStart : socketsToStart[i] # None
    BY QueuedFds
  <2>2. \A conv \in Conversations : conv.enc # None
    BY NoneAssumption DEF Conversations
  <2> QED
    BY <1>1, <1>4, <2>1, <2>2 DEF Apart
<1> QED
  BY <1>5, <1>6, <1>8, <1>9, <1>10

\* No descriptor for the next hop: only the socket of the client is closed.
LEMMA PathNoSocketOwnInv ==
    ASSUME TypeOK, OwnInv, PathNoSocket
    PROVE  OwnInv'
<1>1. pathPc # "loop"
  BY DEF PathNoSocket, SetupReadable
<1>2. \A g \in Fds : fdTable'[g] = IF g = pathFd THEN None ELSE fdTable[g]
  BY DEF PathNoSocket, CloseAll, TypeOK, KernelTypes
<1>3. NoneForgotten
  BY DEF PathNoSocket, CloseAll, NoneForgotten, TypeOK, KernelTypes
<1> QED
  BY <1>1, <1>2, <1>3, PathGivesUp DEF PathNoSocket

\* A bad address leaves the new socket open, kept by nobody.
LEMMA PathBadAddressOwnInv ==
    ASSUME TypeOK, OwnInv, NEW f \in Fds, PathBadAddress(f)
    PROVE  OwnInv'
<1> USE DEF TypeOK, OwnInv
<1>1. pathPc = "check"
  BY DEF PathBadAddress, SetupReadable
<1>2. PICK c \in Clients : pathFd \in Fds /\ fdTable[pathFd] = <<c, "client">>
  BY <1>1, PathClient
<1>3. /\ fdTable' = [fdTable EXCEPT ![f] = <<c, "dest">>, ![pathFd] = None]
      /\ peer' = [peer EXCEPT ![<<c, "dest">>] = "failed", ![<<c, "client">>] = "gone"]
      /\ LowestFree(f) /\ fdTable[f] = None /\ GiveUpPath
  BY <1>2 DEF PathBadAddress, LowestFree
<1>4. f # pathFd
  BY <1>2, <1>3, NoneAssumption
<1>5. \A g \in Fds : fdTable'[g] = IF g = pathFd THEN None
                                   ELSE IF g = f THEN <<c, "dest">> ELSE fdTable[g]
  BY <1>2, <1>3, <1>4 DEF KernelTypes
<1>6. NoneForgotten
  BY <1>3 DEF NoneForgotten, KernelTypes
<1>7. \A g \in Fds : fdTable'[g] # None =>
          \/ g # pathFd /\ fdTable'[g] = fdTable[g]
          \/ /\ fdTable[g] = None /\ pathPc = "check"
             /\ fdTable'[g] = DestEnd(fdTable[pathFd][1])
             /\ LowestFree(g)
  <2>1. ASSUME NEW g \in Fds, fdTable'[g] # None, g # f
        PROVE  g # pathFd /\ fdTable'[g] = fdTable[g]
    BY <1>5, <2>1
  <2>2. fdTable'[f] = DestEnd(fdTable[pathFd][1])
    BY <1>2, <1>4, <1>5
  <2> QED
    BY <1>1, <1>3, <2>1, <2>2
<1>8. \A g \in Fds : fdTable[g] # None /\ g # pathFd => fdTable'[g] = fdTable[g]
  BY <1>3, <1>5
<1> QED
  BY <1>1, <1>3, <1>6, <1>7, <1>8, PathGivesUp

\* So does a connect that fails.
LEMMA PathConnectFailsOwnInv ==
    ASSUME TypeOK, OwnInv, PathConnectFails
    PROVE  OwnInv'
<1> USE DEF TypeOK, OwnInv
<1>1. pathPc # "loop"
  BY DEF PathConnectFails
<1>2. \A g \in Fds : fdTable'[g] = IF g = pathFd THEN None ELSE fdTable[g]
  BY DEF PathConnectFails, KernelTypes
<1>3. NoneForgotten
  BY DEF PathConnectFails, NoneForgotten, KernelTypes
<1> QED
  BY <1>1, <1>2, <1>3, PathGivesUp DEF PathConnectFails

\* The new socket is a free descriptor, kept by the path thread.
LEMMA PathSocketOwnInv ==
    ASSUME TypeOK, OwnInv, NEW f \in Fds, PathSocket(f)
    PROVE  OwnInv'
<1> USE DEF TypeOK, OwnInv
<1>1. /\ UNCHANGED <<listenQ, peer, newSocket, socketsToStart, conversations, pathFd, wconv>>
      /\ pathPc = "check" /\ pathPc' = "connect" /\ pathOut' = f /\ fdTable[f] = None
  BY DEF PathSocket, SetupReadable, workerVars, LowestFree
<1>2. PICK c \in Clients : pathFd \in Fds /\ fdTable[pathFd] = <<c, "client">>
  BY <1>1, PathClient
<1>3. \A g \in Fds : fdTable'[g] = IF g = f THEN <<c, "dest">> ELSE fdTable[g]
  BY <1>2 DEF PathSocket, KernelTypes
<1>4. ~InTable(<<c, "dest">>)
  BY <1>1, <1>2 DEF YoungHaveNoDest, NoDestYet
<1>5. /\ \A g : ClientSocket(g) => ClientSocket(g)' /\ g # f
      /\ \A conv \in Conversations :
            Paired(conv) => Paired(conv)' /\ conv.enc # f /\ conv.dec # f
  <2>1. \A g, e : e # None /\ RefersTo(g, e) => RefersTo(g, e)' /\ g # f
    BY <1>1, <1>3 DEF RefersTo
  <2>2. \A d \in Clients : <<d, "client">> # None /\ <<d, "dest">> # None
    BY NoneAssumption
  <2> QED
    BY <2>1, <2>2 DEF ClientSocket, Paired, Conversations
<1>6. /\ \A i \in DOMAIN conversations : conversations[i] \in Conversations
      /\ \A w \in Workers : wconv[w] # None => wconv[w] \in Conversations
  BY QueuedFds DEF WorkerTypes
<1>7. EndsMatch'
  <2>1. pathFd # f
    BY <1>1, <1>2, NoneAssumption
  <2>2. RefersTo(pathOut, DestEnd(fdTable[pathFd][1]))'
    BY <1>1, <1>2, <1>3, <2>1 DEF RefersTo
  <2> QED
    BY <1>1, <1>5, <1>6, <2>2 DEF EndsMatch
<1>8. TableInjective'
  BY <1>3, <1>4 DEF TableInjective, InTable
<1>9. \A e : InTable(e)' => InTable(e) \/ e = <<c, "dest">>
  BY <1>3 DEF InTable
<1>10. NotYetAccepted'
  <2>1. ASSUME NEW d \in Clients,
               peer[<<d, "client">>] = "absent" \/ \E i \in DOMAIN listenQ : listenQ[i] = d
        PROVE  ~InTable(<<d, "client">>)' /\ ~InTable(<<d, "dest">>)'
    <3>1. ~InTable(<<d, "client">>) /\ ~InTable(<<d, "dest">>)
      BY <2>1 DEF NotYetAccepted
    <3>2. d # c
      BY <1>2, <3>1 DEF InTable
    <3> QED
      BY <1>9, <3>1, <3>2
  <2> QED
    BY <1>1, <2>1 DEF NotYetAccepted
<1>11. YoungHaveNoDest'
  <2>1. ASSUME NEW g, g # pathFd, ClientSocket(g), NoDestYet(g) PROVE NoDestYet(g)'
    <3>1. PICK d \in Clients : g \in Fds /\ fdTable[g] = <<d, "client">>
      BY <2>1 DEF ClientSocket, RefersTo
    <3>2. fdTable'[g] = <<d, "client">> /\ d # c
      BY <1>1, <1>2, <1>3, <2>1, <3>1, NoneAssumption DEF TableInjective
    <3> QED
      BY <1>9, <2>1, <3>1, <3>2 DEF NoDestYet
  <2> QED
    BY <1>1, <2>1, PathCloses DEF YoungHaveNoDest, EndsMatch
<1>12. Apart'
  BY <1>1, <1>5, <1>6 DEF Apart, EndsMatch
<1> QED
  BY <1>7, <1>8, <1>10, <1>11, <1>12

\* Both sockets go from the path thread into one conversation.
LEMMA PathConnectedOwnInv ==
    ASSUME TypeOK, OwnInv, PathConnected
    PROVE  OwnInv'
<1> USE DEF TypeOK, OwnInv
<1>1. /\ UNCHANGED <<listenQ, fdTable, newSocket, socketsToStart, wconv>>
      /\ pathPc = "connect" /\ pathPc' = "loop" /\ pathFd' = None /\ pathOut' = None
  BY DEF PathConnected, workerVars
<1>2. PICK c \in Clients : pathFd \in Fds /\ fdTable[pathFd] = <<c, "client">>
  BY <1>1, PathClient
<1>3. pathOut \in Fds /\ fdTable[pathOut] = <<c, "dest">>
  BY <1>1, <1>2 DEF EndsMatch, RefersTo, PathTypes
<1> DEFINE new == [dec |-> pathFd, enc |-> pathOut, rsa |-> c]
<1>4. /\ DOMAIN conversations = 1..Len(conversations) /\ Len(conversations) \in Nat
      /\ DOMAIN conversations' = 1..(Len(conversations) + 1)
      /\ \A i \in DOMAIN conversations : conversations'[i] = conversations[i]
      /\ conversations'[Len(conversations) + 1] = new
  <2>1. new \in Conversations /\ conversations' = Append(conversations, new)
    BY <1>2, <1>3 DEF PathConnected, Conversations
  <2> QED
    BY <2>1, AppendProperties DEF QueueTypes
<1>5. NoneForgotten
  BY DEF PathConnected, NoneForgotten, KernelTypes
<1>6. NotYetAccepted' /\ TableInjective'
  BY <1>1, <1>5, ComingStable, TableStable DEF KernelTypes
<1>7. /\ \A g : ClientSocket(g)' <=> ClientSocket(g)
      /\ \A conv : Paired(conv)' <=> Paired(conv)
  BY <1>1 DEF ClientSocket, RefersTo, Paired
<1>8. EndsMatch'
  <2>1. Paired(new)
    BY <1>2, <1>3 DEF Paired, RefersTo
  <2> QED
    BY <1>1, <1>4, <1>7, <2>1 DEF EndsMatch
<1>9. YoungHaveNoDest'
  BY <1>1 DEF YoungHaveNoDest, NoDestYet, InTable
<1>10. \A conv \in Conversations : Paired(conv) /\ conv.enc # pathOut => conv.rsa # c
  BY <1>3, NoneAssumption DEF Paired, RefersTo, TableInjective, Conversations
<1>11. /\ \A i \in DOMAIN conversations : conversations[i] \in Conversations
       /\ \A w \in Workers : wconv[w] # None => wconv[w] \in Conversations
  BY QueuedFds DEF WorkerTypes
<1>12. /\ \A i \in DOMAIN conversations : conversations[i].rsa # c
       /\ \A w \in Workers : wconv[w] # None => wconv[w].rsa # c
  BY <1>10, <1>11 DEF Apart, EndsMatch
<1>13. Apart'
  <2>1. \A i, j \in DOMAIN conversations' :
           conversations'[i].rsa = conversations'[j].rsa => i = j
    BY <1>4, <1>12 DEF Apart
  <2>2. \A i \in DOMAIN conversations', w \in Workers :
           wconv[w] # None => conversations'[i].rsa # wconv[w].rsa
    BY <1>4, <1>12 DEF Apart
  <2>3. \A conv \in Conversations : conv.enc # None
    BY NoneAssumption DEF Conversations
  <2>4. \A i \in DOMAIN conversations' : conversations'[i].enc # None
    BY <1>3, <1>4, <1>11, <2>3, NoneAssumption
  <2>5. \A i \in DOMAIN socketsToStart : socketsToStart[i] # None
    BY QueuedFds
  <2> QED
    BY <1>1, <1>11, <2>1, <2>2, <2>3, <2>4, <2>5 DEF Apart
<1> QED
  BY <1>6, <1>8, <1>9, <1>13

\* Taking the first conversation off the queue leaves the others, one further.
LEMMA PopConversation ==
    ASSUME QueueTypes, conversations # <<>>, conversations' = Tail(conversations)
    PROVE  /\ Head(conversations) = conversations[1] /\ 1 \in DOMAIN conversations
           /\ \A i \in DOMAIN conversations' :
                 /\ conversations'[i] = conversations[i + 1]
                 /\ i + 1 \in DOMAIN conversations /\ i + 1 # 1
           /\ \A i, j \in DOMAIN conversations' : i + 1 = j + 1 => i = j
BY QueuedFds, HeadTailProperties DEF QueueTypes

\* A worker takes the oldest conversation (ThreadPool.cpp:42-48).
LEMMA TakeOwnInv ==
    ASSUME TypeOK, OwnInv, NEW w \in Workers, Take(w)
    PROVE  OwnInv'
<1> USE DEF TypeOK, OwnInv
<1>1. /\ UNCHANGED <<fdTable, peer, listenQ, newSocket, socketsToStart, pathVars>>
      /\ conversations' = Tail(conversations) /\ conversations # <<>>
      /\ wconv[w] = None
      /\ \A v \in Workers : wconv'[v] = IF v = w THEN Head(conversations) ELSE wconv[v]
  BY DEF Take, sockets, WorkerTypes
<1>2. /\ Head(conversations) = conversations[1] /\ 1 \in DOMAIN conversations
      /\ \A i \in DOMAIN conversations' :
            /\ conversations'[i] = conversations[i + 1]
            /\ i + 1 \in DOMAIN conversations /\ i + 1 # 1
      /\ \A i, j \in DOMAIN conversations' : i + 1 = j + 1 => i = j
  BY <1>1, PopConversation
<1>3. EndsMatch'
  <2>1. /\ \A g : ClientSocket(g)' <=> ClientSocket(g)
        /\ \A g, e : RefersTo(g, e)' <=> RefersTo(g, e)
        /\ \A conv : Paired(conv)' <=> Paired(conv)
    BY <1>1 DEF ClientSocket, RefersTo, Paired
  <2>2. pathOut' # None => RefersTo(pathOut, DestEnd(fdTable[pathFd][1]))'
    BY <1>1, <2>1 DEF EndsMatch, pathVars
  <2>3. \A v \in Workers : wconv'[v] # None => Paired(wconv'[v])
    BY <1>1, <1>2 DEF EndsMatch
  <2>4. \A i \in DOMAIN conversations' : Paired(conversations'[i])
    BY <1>2 DEF EndsMatch
  <2> QED
    BY <1>1, <2>1, <2>2, <2>3, <2>4 DEF EndsMatch, pathVars
<1>4. Apart'
  <2>1. \A i, j \in DOMAIN conversations' :
           conversations'[i].rsa = conversations'[j].rsa => i = j
    BY <1>2 DEF Apart
  <2>2. \A i \in DOMAIN conversations' : conversations'[i].rsa # Head(conversations).rsa
    BY <1>2 DEF Apart
  <2>3. \A i \in DOMAIN conversations', v \in Workers :
           wconv'[v] # None => conversations'[i].rsa # wconv'[v].rsa
    BY <1>1, <1>2, <2>2 DEF Apart
  <2>4. \A u, v \in Workers :
           wconv'[u] # None /\ wconv'[v] # None /\ wconv'[u].rsa = wconv'[v].rsa => u = v
    BY <1>1, <1>2 DEF Apart
  <2>5. /\ \A i \in DOMAIN conversations' : conversations'[i].enc # pathOut'
        /\ \A v \in Workers : wconv'[v] # None => wconv'[v].enc # pathOut'
    BY <1>1, <1>2 DEF Apart, pathVars
  <2> QED
    BY <1>1, <2>1, <2>3, <2>4, <2>5 DEF Apart, pathVars
<1> QED
  BY <1>1, <1>3, <1>4, TableStable, YoungStable
     DEF NotYetAccepted, InTable

\* A worker returns its conversation (ThreadPool.cpp:63-65).
LEMMA RequeueOwnInv ==
    ASSUME TypeOK, OwnInv, NEW w \in Workers, Requeue(w)
    PROVE  OwnInv'
<1> USE DEF TypeOK, OwnInv
<1>1. /\ UNCHANGED <<fdTable, peer, listenQ, newSocket, socketsToStart, pathVars>>
      /\ wconv[w] # None /\ wconv[w] \in Conversations
      /\ conversations' = Append(conversations, wconv[w])
      /\ \A v \in Workers : wconv'[v] = IF v = w THEN None ELSE wconv[v]
  BY DEF Requeue, sockets, WorkerTypes
<1>2. /\ DOMAIN conversations = 1..Len(conversations) /\ Len(conversations) \in Nat
      /\ DOMAIN conversations' = 1..(Len(conversations) + 1)
      /\ \A i \in DOMAIN conversations : conversations'[i] = conversations[i]
      /\ conversations'[Len(conversations) + 1] = wconv[w]
  BY <1>1, AppendProperties DEF QueueTypes
<1>3. EndsMatch'
  <2>1. /\ \A g : ClientSocket(g)' <=> ClientSocket(g)
        /\ \A g, e : RefersTo(g, e)' <=> RefersTo(g, e)
        /\ \A conv : Paired(conv)' <=> Paired(conv)
    BY <1>1 DEF ClientSocket, RefersTo, Paired
  <2>2. pathOut' # None => RefersTo(pathOut, DestEnd(fdTable[pathFd][1]))'
    BY <1>1, <2>1 DEF EndsMatch, pathVars
  <2>3. \A i \in DOMAIN conversations' : Paired(conversations'[i])
    BY <1>1, <1>2 DEF EndsMatch
  <2> QED
    BY <1>1, <2>1, <2>2, <2>3 DEF EndsMatch, pathVars
<1>4. Apart'
  <2>1. \A i, j \in DOMAIN conversations' :
           conversations'[i].rsa = conversations'[j].rsa => i = j
    BY <1>1, <1>2 DEF Apart
  <2>2. \A i \in DOMAIN conversations', v \in Workers :
           wconv'[v] # None => conversations'[i].rsa # wconv'[v].rsa
    BY <1>1, <1>2 DEF Apart
  <2>3. \A i \in DOMAIN conversations' : conversations'[i].enc # pathOut'
    BY <1>1, <1>2 DEF Apart, pathVars
  <2> QED
    BY <1>1, <2>1, <2>2, <2>3 DEF Apart, pathVars
<1> QED
  BY <1>1, <1>3, <1>4, TableStable, YoungStable
     DEF NotYetAccepted, InTable

\* shutdown() forgets the oldest conversation (Server.cpp:67).
LEMMA ShutdownPopOwnInv ==
    ASSUME TypeOK, OwnInv, ShutdownPop
    PROVE  OwnInv'
<1> USE DEF TypeOK, OwnInv
<1>1. /\ UNCHANGED <<fdTable, peer, listenQ, newSocket, socketsToStart, pathVars, wconv>>
      /\ conversations' = Tail(conversations) /\ conversations # <<>>
  BY DEF ShutdownPop, sockets, workerVars
<1>2. /\ \A i \in DOMAIN conversations' :
            /\ conversations'[i] = conversations[i + 1]
            /\ i + 1 \in DOMAIN conversations
      /\ \A i, j \in DOMAIN conversations' : i + 1 = j + 1 => i = j
  BY <1>1, PopConversation
<1>3. EndsMatch'
  <2>1. /\ \A g : ClientSocket(g)' <=> ClientSocket(g)
        /\ \A g, e : RefersTo(g, e)' <=> RefersTo(g, e)
        /\ \A conv : Paired(conv)' <=> Paired(conv)
    BY <1>1 DEF ClientSocket, RefersTo, Paired
  <2>2. pathOut' # None => RefersTo(pathOut, DestEnd(fdTable[pathFd][1]))'
    BY <1>1, <2>1 DEF EndsMatch, pathVars
  <2>3. \A i \in DOMAIN conversations' : Paired(conversations'[i])
    BY <1>2 DEF EndsMatch
  <2> QED
    BY <1>1, <2>1, <2>2, <2>3 DEF EndsMatch, pathVars
<1>4. Apart'
  <2>1. /\ \A i, j \in DOMAIN conversations' :
              conversations'[i].rsa = conversations'[j].rsa => i = j
        /\ \A i \in DOMAIN conversations' : conversations'[i].enc # pathOut
        /\ \A i \in DOMAIN conversations', v \in Workers :
              wconv[v] # None => conversations'[i].rsa # wconv[v].rsa
    BY <1>2 DEF Apart
  <2> QED
    BY <1>1, <2>1 DEF Apart, pathVars
<1> QED
  BY <1>1, <1>3, <1>4, TableStable, YoungStable
     DEF NotYetAccepted, InTable

\* The two sockets of the conversation in a worker's hands are kept by it only.
LEMMA WorkerKeepsAlone ==
    ASSUME TypeOK, OwnInv, NEW w \in Workers, wconv[w] # None
    PROVE  LET F == {wconv[w].dec, wconv[w].enc}
           IN  /\ newSocket # None => newSocket \notin F
               /\ \A i \in DOMAIN socketsToStart : socketsToStart[i] \notin F
               /\ pathFd # None => pathFd \notin F
               /\ pathOut # None => pathOut \notin F
               /\ \A i \in DOMAIN conversations :
                     conversations[i].dec \notin F /\ conversations[i].enc \notin F
               /\ \A v \in Workers : v # w /\ wconv[v] # None =>
                     wconv[v].dec \notin F /\ wconv[v].enc \notin F
<1> USE DEF TypeOK, OwnInv
<1> DEFINE c == wconv[w].rsa
           F == {wconv[w].dec, wconv[w].enc}
<1>1. /\ wconv[w].dec \in Fds /\ fdTable[wconv[w].dec] = <<c, "client">>
      /\ wconv[w].enc \in Fds /\ fdTable[wconv[w].enc] = <<c, "dest">>
  BY DEF EndsMatch, Paired, RefersTo
<1>2. \A g : ClientSocket(g) /\ NoDestYet(g) => g \notin F
  BY <1>1 DEF ClientSocket, RefersTo, NoDestYet, InTable
<1>3. \A conv : Paired(conv) /\ conv.rsa # c => conv.dec \notin F /\ conv.enc \notin F
  BY <1>1 DEF Paired, RefersTo
<1>4. /\ newSocket # None => newSocket \notin F
      /\ \A i \in DOMAIN socketsToStart : socketsToStart[i] \notin F
  BY <1>2 DEF EndsMatch, YoungHaveNoDest
<1>5. pathPc = "check" => pathFd \notin F /\ pathOut = None
  BY <1>2 DEF EndsMatch, YoungHaveNoDest, PathTypes
<1>6. pathPc = "connect" => pathFd \notin F /\ pathOut \notin F
  <2>1. SUFFICES ASSUME pathPc = "connect" PROVE pathFd \notin F /\ pathOut \notin F
    OBVIOUS
  <2>2. PICK d \in Clients : pathFd \in Fds /\ fdTable[pathFd] = <<d, "client">>
    BY <2>1, PathClient
  <2>3. pathOut \in Fds /\ fdTable[pathOut] = <<d, "dest">>
    BY <2>1, <2>2 DEF EndsMatch, RefersTo, PathTypes
  <2>4. d # c
    <3>1. wconv[w].enc # pathOut
      BY DEF Apart
    <3>2. <<d, "dest">> # None
      BY NoneAssumption
    <3> QED
      BY <1>1, <2>3, <3>1, <3>2 DEF TableInjective
  <2> QED
    BY <1>1, <2>2, <2>3, <2>4
<1>7. pathPc = "loop" => pathFd = None /\ pathOut = None
  BY DEF PathTypes
<1>8. pathPc \in {"loop", "check", "connect"}
  BY DEF PathTypes
<1>9. \A i \in DOMAIN conversations :
         conversations[i].dec \notin F /\ conversations[i].enc \notin F
  BY <1>3 DEF EndsMatch, Apart
<1>10. \A v \in Workers : v # w /\ wconv[v] # None =>
          wconv[v].dec \notin F /\ wconv[v].enc \notin F
  BY <1>3 DEF EndsMatch, Apart
<1> QED
  BY <1>4, <1>5, <1>6, <1>7, <1>8, <1>9, <1>10

\* Closing both sockets frees entries that only this worker kept.
LEMMA DropConversationOwnInv ==
    ASSUME TypeOK, OwnInv, NEW w \in Workers, DropConversation(w)
    PROVE  OwnInv'
<1> USE DEF TypeOK, OwnInv
<1> DEFINE F == {wconv[w].dec, wconv[w].enc}
<1>1. /\ UNCHANGED <<listenQ, newSocket, socketsToStart, conversations, pathVars>>
      /\ wconv[w] # None
      /\ \A v \in Workers : wconv'[v] = IF v = w THEN None ELSE wconv[v]
  BY DEF DropConversation, WorkerTypes, SendingTo
<1>2. \A g \in Fds : fdTable'[g] = IF g \in F THEN None ELSE fdTable[g]
  BY DEF DropConversation, CloseAll
<1>3. NoneForgotten
  BY DEF DropConversation, CloseAll, NoneForgotten, KernelTypes
<1>4. \A e : e # None /\ InTable(e)' => InTable(e)
  BY <1>2 DEF InTable
<1>5. /\ \A g, e : g \notin F /\ RefersTo(g, e) => RefersTo(g, e)'
      /\ \A g : g \notin F /\ ClientSocket(g) => ClientSocket(g)'
      /\ \A conv : conv.dec \notin F /\ conv.enc \notin F /\ Paired(conv) => Paired(conv)'
  BY <1>2 DEF RefersTo, ClientSocket, Paired
<1>6. EndsMatch'
  <2>1. pathOut' # None => RefersTo(pathOut, DestEnd(fdTable[pathFd][1]))'
    <3>1. SUFFICES ASSUME pathOut # None
                   PROVE  RefersTo(pathOut, DestEnd(fdTable[pathFd][1]))'
      BY <1>1 DEF pathVars
    <3>2. pathFd \in Fds /\ pathFd \notin F /\ pathOut \notin F
      BY <1>1, <3>1, WorkerKeepsAlone DEF PathTypes
    <3>3. fdTable'[pathFd] = fdTable[pathFd]
      BY <1>2, <3>2
    <3> QED
      BY <1>1, <1>5, <3>1, <3>2, <3>3 DEF EndsMatch, pathVars, RefersTo
  <2>2. \A v \in Workers : wconv'[v] # None => Paired(wconv[v])'
    BY <1>1, <1>5, WorkerKeepsAlone DEF EndsMatch
  <2>3. \A i \in DOMAIN conversations' : Paired(conversations[i])'
    BY <1>1, <1>5, WorkerKeepsAlone DEF EndsMatch
  <2>4. /\ newSocket' # None => ClientSocket(newSocket)'
        /\ \A i \in DOMAIN socketsToStart' : ClientSocket(socketsToStart[i])'
        /\ pathFd' # None => ClientSocket(pathFd)'
    BY <1>1, <1>5, WorkerKeepsAlone DEF EndsMatch, pathVars
  <2> QED
    BY <2>1, <2>2, <2>3, <2>4 DEF EndsMatch
<1>7. TableInjective'
  BY <1>2 DEF TableInjective
<1>8. \A d \in Clients : <<d, "client">> # None /\ <<d, "dest">> # None
  BY NoneAssumption
<1>9. NotYetAccepted'
  <2>1. \A i \in DOMAIN listenQ : listenQ[i] \in Clients
    BY DEF KernelTypes
  <2> QED
    BY <1>1, <1>3, <1>4, <1>8, <2>1 DEF NotYetAccepted, NoneForgotten
<1>10. YoungHaveNoDest'
  <2>1. ASSUME NEW g, g \notin F, ClientSocket(g), NoDestYet(g) PROVE NoDestYet(g)'
    <3>1. PICK d \in Clients : g \in Fds /\ fdTable[g] = <<d, "client">>
      BY <2>1 DEF ClientSocket, RefersTo
    <3>2. fdTable'[g] = <<d, "client">>
      BY <1>2, <2>1, <3>1
    <3> QED
      BY <1>4, <1>8, <2>1, <3>1, <3>2 DEF NoDestYet
  <2>2. newSocket # None => newSocket \notin F
    BY <1>1, WorkerKeepsAlone
  <2>3. \A i \in DOMAIN socketsToStart : socketsToStart[i] \notin F
    BY <1>1, WorkerKeepsAlone
  <2>4. pathPc = "check" => pathFd # None /\ pathFd \notin F
    BY <1>1, WorkerKeepsAlone DEF PathTypes
  <2> QED
    BY <1>1, <2>1, <2>2, <2>3, <2>4 DEF YoungHaveNoDest, EndsMatch, pathVars
<1>11. Apart'
  BY <1>1 DEF Apart, pathVars
<1> QED
  BY <1>6, <1>7, <1>9, <1>10, <1>11

\* Every step keeps the ownership invariant.
LEMMA NextOwnInv == TypeOK /\ OwnInv /\ [Next]_vars => OwnInv'
<1> SUFFICES ASSUME TypeOK, OwnInv, [Next]_vars PROVE OwnInv'
  OBVIOUS
<1> USE DEF TypeOK, KernelTypes
<1>1. CASE UNCHANGED vars
  BY <1>1, OwnStable DEF vars, sockets, workerVars, NoneForgotten
<1>2. CASE Environment
  <2>1. ASSUME NEW c \in Clients, Connect(c) PROVE OwnInv'
    BY <2>1, ConnectOwnInv
  <2>2. ASSUME NEW e \in Endpoints, PeerWrites(e) PROVE OwnInv'
    BY <2>2, OwnStable DEF PeerWrites, workerVars, NoneForgotten
  <2>3. ASSUME NEW e \in Endpoints, PeerReads(e) PROVE OwnInv'
    BY <2>3, OwnStable DEF PeerReads, workerVars, NoneForgotten
  <2>4. ASSUME NEW e \in Endpoints, PeerCloses(e) PROVE OwnInv'
    BY <2>4, OwnStable DEF PeerCloses, workerVars, NoneForgotten
  <2>5. ASSUME NEW e \in Endpoints, ResetArrives(e) PROVE OwnInv'
    BY <2>5, OwnStable DEF ResetArrives, workerVars, NoneForgotten
  <2> QED
    BY <1>2, <2>1, <2>2, <2>3, <2>4, <2>5 DEF Environment
<1>3. ASSUME Dies PROVE OwnInv'
  BY <1>3, OwnStable DEF Dies, sockets, workerVars, NoneForgotten
<1>4. CASE AcceptThread
  BY <1>3, <1>4, AcceptOwnInv, QueueNewSocketOwnInv DEF AcceptThread, AcceptFails
<1>5. CASE PathThread
  BY <1>3, <1>5, PathTakeOwnInv, PathPutBackOwnInv, PathNoSocketOwnInv,
     PathBadAddressOwnInv, PathSocketOwnInv, PathConnectedOwnInv, PathConnectFailsOwnInv
     DEF PathThread, PathMalformed
<1>6. CASE MainThread
  <2>1. CASE SetServer \/ Quit \/ ShutdownDone
    BY <2>1, OwnStable DEF SetServer, Quit, ShutdownDone, sockets, workerVars, NoneForgotten
  <2>2. ASSUME NEW f, ShutBothWays(f) PROVE NoneForgotten
    BY <2>2 DEF ShutBothWays, NoneForgotten
  <2>3. CASE ShutdownClient \/ ShutdownDest
    BY <2>2, <2>3, OwnStable DEF ShutdownClient, ShutdownDest, ShutBothWays, workerVars
  <2>4. CASE ShutdownPop
    BY <2>4, ShutdownPopOwnInv
  <2>5. CASE ShutdownRace \/ Exit
    BY <1>3, <2>5 DEF ShutdownRace, Exit
  <2> QED
    BY <1>6, <2>1, <2>3, <2>4, <2>5 DEF MainThread
<1>7. ASSUME NEW w \in Workers, Worker(w) PROVE OwnInv'
  <2>1. CASE WorkerBeforeServer(w) \/ KilledBySend(w) \/ KilledByEncrypt(w)
    BY <1>3, <2>1 DEF WorkerBeforeServer, KilledBySend, KilledByEncrypt
  <2>2. CASE Take(w)
    BY <2>2, TakeOwnInv
  <2>3. CASE Poll(w)
    BY <2>3, OwnStable DEF Poll, sockets, NoneForgotten
  <2>4. CASE ReadClient(w) \/ ReadDest(w)
    BY <2>4, OwnStable DEF ReadClient, ReadDest, NoneForgotten
  <2>5. ASSUME NEW e, NEW b, SendBlock(e, b) PROVE NoneForgotten
    BY <2>5 DEF SendBlock, NoneForgotten
  <2>6. CASE SendToClient(w) \/ SendToDest(w)
    BY <2>5, <2>6, OwnStable DEF SendToClient, SendToDest, SendBlock
  <2>7. CASE DropConversation(w)
    BY <2>7, DropConversationOwnInv
  <2>8. CASE Requeue(w)
    BY <2>8, RequeueOwnInv
  <2> QED
    BY <1>7, <2>1, <2>2, <2>3, <2>4, <2>6, <2>7, <2>8 DEF Worker
<1> QED
  BY <1>1, <1>2, <1>4, <1>5, <1>6, <1>7 DEF Next

------------------------------------------------------------------------------
(* The theorems.                                                           *)

\* IInv is an inductive invariant of the relay: it holds at start-up and
\* every step of every thread, of the kernel and of the peers keeps it.
THEOREM Inductive == Spec => []IInv
<1>1. Init => IInv
  BY InitTypeOK, InitOwnInv DEF IInv
<1>2. IInv /\ [Next]_vars => IInv'
  BY NextTypeOK, NextOwnInv DEF IInv, OwnInv
<1> QED
  BY <1>1, <1>2, PTL DEF Spec

\* The variables of the relay have their types, and each thread's locals are
\* what its position in the code implies (Server.cpp:206-379,
\* ThreadPool.cpp:31-68).
THEOREM TypeCorrect == Spec => []TypeOK
<1>1. IInv => TypeOK
  BY DEF IInv
<1> QED
  BY <1>1, Inductive, PTL

\* A descriptor tells which place keeps it.
LEMMA OwnInvKeptOnce == TypeOK /\ OwnInv => KeptOnce
<1> SUFFICES ASSUME TypeOK, OwnInv,
                    NEW f \in Fds, NEW p \in PlacesInUse, NEW q \in PlacesInUse,
                    Keeps(p, f), Keeps(q, f)
             PROVE  p = q
  BY DEF KeptOnce
<1> USE DEF TypeOK, OwnInv
<1> DEFINE Accepted(r) == r = <<"accept", 0>>
           OnPath(r) == r = <<"path", 0>>
           Started(r) == r \in {"start"} \X DOMAIN socketsToStart
           InConversations(r) == r \in {"conversation"} \X DOMAIN conversations
           Worked(r) == r \in {"worker"} \X Workers
<1>1. ASSUME NEW r \in PlacesInUse
      PROVE  Accepted(r) \/ OnPath(r) \/ Started(r) \/ InConversations(r) \/ Worked(r)
  BY DEF PlacesInUse
<1>2. ASSUME NEW r \in PlacesInUse, Keeps(r, f)
      PROVE  /\ Accepted(r) => newSocket = f
             /\ OnPath(r) => f \in {pathFd, pathOut}
             /\ Started(r) => r[2] \in DOMAIN socketsToStart /\ socketsToStart[r[2]] = f
             /\ InConversations(r) => /\ r[2] \in DOMAIN conversations
                                      /\ f \in {conversations[r[2]].dec, conversations[r[2]].enc}
             /\ Worked(r) => /\ r[2] \in Workers /\ wconv[r[2]] # None
                             /\ f \in {wconv[r[2]].dec, wconv[r[2]].enc}
  BY <1>2 DEF Keeps
<1>3. f # None
  BY NoneAssumption
<1>4. ASSUME NEW r \in PlacesInUse, NEW t \in PlacesInUse, Keeps(r, f), Keeps(t, f), Worked(r)
      PROVE  r = t
  <2>1. r[2] \in Workers /\ wconv[r[2]] # None /\ f \in {wconv[r[2]].dec, wconv[r[2]].enc}
    BY <1>2, <1>4
  <2>2. Worked(t) /\ t[2] = r[2]
    BY <1>1, <1>2, <1>3, <1>4, <2>1, WorkerKeepsAlone
  <2> QED
    BY <1>4, <2>2
<1>5. \A conv : Paired(conv) /\ f \in {conv.dec, conv.enc} =>
         /\ f \in Fds /\ fdTable[f][1] = conv.rsa
         /\ f = conv.dec => ~NoDestYet(f)
         /\ f = conv.enc => ~ClientSocket(f)
  BY DEF Paired, RefersTo, NoDestYet, InTable, ClientSocket
<1>6. ASSUME NEW r \in PlacesInUse, NEW t \in PlacesInUse, Keeps(r, f), Keeps(t, f), OnPath(r)
      PROVE  r = t
  <2>1. CASE Worked(t)
    BY <1>4, <1>6, <2>1
  <2>2. CASE f = pathFd
    <3>1. pathPc # "loop"
      BY <1>3, <2>2 DEF PathTypes
    <3> QED
      BY <1>1, <1>2, <1>6, <2>1, <2>2, <3>1, PathCloses
  <2>3. CASE f = pathOut
    <3>1. pathPc = "connect"
      BY <1>3, <2>3 DEF PathTypes
    <3>2. PICK d \in Clients : pathFd \in Fds /\ fdTable[pathFd] = <<d, "client">>
      BY <3>1, PathClient
    <3>3. fdTable[f] = <<d, "dest">>
      BY <1>3, <2>3, <3>2 DEF EndsMatch, RefersTo
    <3>4. ~ClientSocket(f)
      BY <3>3 DEF ClientSocket, RefersTo
    <3>5. ~Accepted(t) /\ ~Started(t)
      BY <1>2, <1>3, <1>6, <3>4 DEF EndsMatch
    <3>6. \A i \in DOMAIN conversations : f # conversations[i].enc /\ f # conversations[i].dec
      BY <2>3, <3>3 DEF Apart, EndsMatch, Paired, RefersTo
    <3> QED
      BY <1>1, <1>2, <1>6, <2>1, <3>5, <3>6
  <2> QED
    BY <1>2, <1>6, <2>2, <2>3
<1>7. ASSUME NEW r \in PlacesInUse, NEW t \in PlacesInUse, Keeps(r, f), Keeps(t, f),
             Accepted(r) \/ Started(r)
      PROVE  r = t
  <2>1. ClientSocket(f) /\ NoDestYet(f)
    BY <1>2, <1>3, <1>7 DEF EndsMatch, YoungHaveNoDest
  <2>2. ~InConversations(t)
    BY <1>2, <1>5, <1>7, <2>1 DEF EndsMatch
  <2>3. CASE Accepted(t)
    BY <1>2, <1>7, <2>3 DEF Apart
  <2>4. CASE Started(t)
    <3>1. CASE Accepted(r)
      BY <1>2, <1>7, <2>4, <3>1 DEF Apart
    <3>2. CASE Started(r)
      <4>1. r[2] = t[2]
        BY <1>2, <1>7, <2>4, <3>2 DEF Apart
      <4> QED
        BY <2>4, <3>2, <4>1
    <3> QED
      BY <1>7, <3>1, <3>2
  <2> QED
    BY <1>1, <1>4, <1>6, <1>7, <2>2, <2>3, <2>4
<1>8. ASSUME InConversations(p), InConversations(q) PROVE p = q
  <2>1. p[2] = q[2]
    BY <1>2, <1>5, <1>8 DEF Apart, EndsMatch
  <2> QED
    BY <1>8, <2>1
<1> QED
  BY <1>1, <1>4, <1>6, <1>7, <1>8

\* No two threads and no two queue entries ever act on the same socket, and a
\* kept descriptor always refers to the connection it was kept for, however
\* often its number is closed and reused (Server.cpp:122-136, 269-309,
\* ThreadPool.cpp:31-68).
THEOREM OwnershipCorrect == Spec => []DescriptorOwnership
<1>1. IInv => DescriptorOwnership
  BY OwnInvKeptOnce DEF IInv, OwnInv, DescriptorOwnership
<1> QED
  BY <1>1, Inductive, PTL
------------------------------------------------------------------------------
(* Nothing is open and forgotten: what a step takes out of one place it puts *)
(* into another, or closes, or it is the socket of a hop that failed.        *)

\* Keeps, for any of the places.
Kept(f) ==
    \/ newSocket = f
    \/ pathFd = f
    \/ pathOut = f
    \/ \E i \in DOMAIN socketsToStart : socketsToStart[i] = f
    \/ \E i \in DOMAIN conversations : f \in {conversations[i].dec, conversations[i].enc}
    \/ \E w \in Workers : wconv[w] # None /\ f \in {wconv[w].dec, wconv[w].enc}

Serving == proc \in {"starting", "running"}

KeptInv ==
    \A f \in Fds : fdTable[f] # None /\ Serving => Kept(f) \/ peer[fdTable[f]] = "failed"

\* A place that keeps f is one of those Kept names, and the other way round.
LEMMA KeptIsKept == \A f : Kept(f) <=> \E p \in PlacesInUse : Keeps(p, f)
<1> SUFFICES ASSUME NEW f PROVE Kept(f) <=> \E p \in PlacesInUse : Keeps(p, f)
  OBVIOUS
<1>1. ASSUME NEW p \in PlacesInUse, Keeps(p, f) PROVE Kept(f)
  BY <1>1 DEF PlacesInUse, Keeps, Kept
<1>2. ASSUME newSocket = f PROVE \E p \in PlacesInUse : Keeps(p, f)
  <2>1. <<"accept", 0>> \in PlacesInUse
    BY DEF PlacesInUse
  <2> QED BY <1>2, <2>1 DEF Keeps
<1>3. ASSUME f \in {pathFd, pathOut} PROVE \E p \in PlacesInUse : Keeps(p, f)
  <2>1. <<"path", 0>> \in PlacesInUse
    BY DEF PlacesInUse
  <2> QED BY <1>3, <2>1 DEF Keeps
<1>4. ASSUME NEW i \in DOMAIN socketsToStart, socketsToStart[i] = f
      PROVE  \E p \in PlacesInUse : Keeps(p, f)
  <2>1. <<"start", i>> \in PlacesInUse
    BY DEF PlacesInUse
  <2> QED BY <1>4, <2>1 DEF Keeps
<1>5. ASSUME NEW i \in DOMAIN conversations, f \in {conversations[i].dec, conversations[i].enc}
      PROVE  \E p \in PlacesInUse : Keeps(p, f)
  <2>1. <<"conversation", i>> \in PlacesInUse
    BY DEF PlacesInUse
  <2> QED BY <1>5, <2>1 DEF Keeps
<1>6. ASSUME NEW w \in Workers, wconv[w] # None, f \in {wconv[w].dec, wconv[w].enc}
      PROVE  \E p \in PlacesInUse : Keeps(p, f)
  <2>1. <<"worker", w>> \in PlacesInUse
    BY DEF PlacesInUse
  <2> QED BY <1>6, <2>1 DEF Keeps
<1> QED BY <1>1, <1>2, <1>3, <1>4, <1>5, <1>6 DEF Kept

\* What pop takes from the front of a queue is all that leaves it.
LEMMA Popped ==
    ASSUME NEW S, NEW q \in Seq(S), q # <<>>, NEW i \in DOMAIN q
    PROVE  q[i] = Head(q) \/ \E j \in DOMAIN Tail(q) : Tail(q)[j] = q[i]
<1>1. CASE i = 1
  BY <1>1
<1>2. CASE i # 1
  <2>1. i - 1 \in DOMAIN Tail(q) /\ Tail(q)[i - 1] = q[i]
    BY <1>2
  <2> QED BY <2>1
<1> QED BY <1>1, <1>2

\* push loses nothing.
LEMMA Pushed ==
    ASSUME NEW S, NEW q \in Seq(S), NEW x \in S
    PROVE  /\ \A i \in DOMAIN q : i \in DOMAIN Append(q, x) /\ Append(q, x)[i] = q[i]
           /\ \E i \in DOMAIN Append(q, x) : Append(q, x)[i] = x
<1>1. Len(q) + 1 \in DOMAIN Append(q, x) /\ Append(q, x)[Len(q) + 1] = x
  OBVIOUS
<1>2. \A i \in DOMAIN q : i \in DOMAIN Append(q, x) /\ Append(q, x)[i] = q[i]
  OBVIOUS
<1> QED BY <1>1, <1>2

Places == <<newSocket, pathFd, pathOut, socketsToStart, conversations, wconv>>

LEMMA PlacesUntouched == \A f : Kept(f) /\ UNCHANGED Places => Kept(f)'
BY DEF Kept, Places

\* The accept loop hands its socket on.
LEMMA AcceptKeeps ==
    ASSUME TypeOK, AcceptThread, NEW f \in Fds, Kept(f), Serving'
    PROVE  Kept(f)'
<1> USE DEF TypeOK
<1>1. ASSUME NEW g \in Fds, Accept(g) PROVE Kept(f)'
  BY <1>1, NoneAssumption DEF Accept, Kept, pathVars, workerVars
<1>2. CASE AcceptFails
  BY <1>2 DEF AcceptFails, Dies, Serving
<1>3. CASE QueueNewSocket
  <2>1. newSocket \in Fds
    BY <1>3 DEF QueueNewSocket, QueueTypes
  <2>2. /\ \A i \in DOMAIN socketsToStart :
              i \in DOMAIN socketsToStart' /\ socketsToStart'[i] = socketsToStart[i]
        /\ \E i \in DOMAIN socketsToStart' : socketsToStart'[i] = newSocket
    BY SMTT(30), <1>3, <2>1, Pushed DEF QueueNewSocket, QueueTypes
  <2> QED
    BY <1>3, <2>2 DEF QueueNewSocket, Kept, pathVars, workerVars
<1> QED
  BY <1>1, <1>2, <1>3 DEF AcceptThread

\* A circuit that is up is queued with both of its sockets.
LEMMA PathConnectedKeeps ==
    ASSUME TypeOK, EndsMatch, PathConnected, NEW f \in Fds, Kept(f)
    PROVE  Kept(f)'
<1> USE DEF TypeOK
<1> DEFINE c == [dec |-> pathFd, enc |-> pathOut, rsa |-> fdTable[pathFd][1]]
<1>1. pathFd \in Fds /\ pathOut \in Fds /\ fdTable[pathFd][1] \in Clients
  BY PathClient DEF PathConnected, PathTypes
<1>2. c \in Conversations /\ c.dec = pathFd /\ c.enc = pathOut
  BY <1>1 DEF Conversations
<1>3. conversations' = Append(conversations, c)
  BY DEF PathConnected
<1> HIDE DEF c
<1>4. /\ \A i \in DOMAIN conversations :
            i \in DOMAIN conversations' /\ conversations'[i] = conversations[i]
      /\ \E i \in DOMAIN conversations' : conversations'[i] = c
  <2>1. conversations \in Seq(Conversations) /\ c \in Conversations
    BY <1>2 DEF QueueTypes
  <2>2. /\ \A i \in DOMAIN conversations : /\ i \in DOMAIN Append(conversations, c)
                                           /\ Append(conversations, c)[i] = conversations[i]
        /\ \E i \in DOMAIN Append(conversations, c) : Append(conversations, c)[i] = c
    BY <2>1, Pushed
  <2> QED
    BY <1>3, <2>2, Zenon
<1>5. UNCHANGED <<newSocket, socketsToStart, wconv>>
  BY DEF PathConnected, workerVars
<1> QED
  BY <1>2, <1>4, <1>5 DEF Kept

\* The path thread passes a circuit to the workers whole, puts a socket back or
\* closes it; what it leaves open is the socket of a hop that failed.
LEMMA PathKeeps ==
    ASSUME TypeOK, EndsMatch, PathThread, NEW f \in Fds, Kept(f), fdTable'[f] # None, Serving'
    PROVE  Kept(f)' \/ peer'[fdTable'[f]] = "failed"
<1> USE DEF TypeOK
<1>0. f # None
  BY NoneAssumption
<1>1. CASE PathTake
  <2>1. \A i \in DOMAIN socketsToStart :
           \/ socketsToStart[i] = pathFd'
           \/ \E j \in DOMAIN socketsToStart' : socketsToStart'[j] = socketsToStart[i]
    BY <1>1, Popped DEF PathTake, QueueTypes
  <2>2. pathFd = None /\ UNCHANGED <<newSocket, pathOut, conversations, wconv>>
    BY <1>1 DEF PathTake, PathTypes, workerVars
  <2> QED
    BY <1>0, <2>1, <2>2 DEF Kept
<1>2. CASE PathPutBack
  <2>1. pathFd \in Fds
    BY <1>2 DEF PathPutBack, PathTypes
  <2>2. /\ \A i \in DOMAIN socketsToStart :
              i \in DOMAIN socketsToStart' /\ socketsToStart'[i] = socketsToStart[i]
        /\ \E i \in DOMAIN socketsToStart' : socketsToStart'[i] = pathFd
    BY <1>2, <2>1, Pushed DEF PathPutBack, QueueTypes
  <2>3. UNCHANGED <<newSocket, pathOut, conversations, wconv>>
    BY <1>2 DEF PathPutBack, workerVars
  <2> QED
    BY <2>2, <2>3 DEF Kept
<1>3. CASE PathMalformed
  BY <1>3 DEF PathMalformed, Dies, Serving
<1>4. ASSUME GiveUpPath, pathOut = None, pathFd # None => fdTable'[pathFd] = None
      PROVE  Kept(f)'
  <2>1. f # pathFd /\ f # pathOut
    BY <1>0, <1>4
  <2>2. UNCHANGED <<newSocket, socketsToStart, conversations, wconv>>
    BY <1>4 DEF GiveUpPath, workerVars
  <2> QED
    BY <2>1, <2>2 DEF Kept
<1>5. CASE PathNoSocket
  <2>1. pathOut = None /\ pathFd \in Fds
    BY <1>5 DEF PathNoSocket, SetupReadable, PathTypes
  <2>2. fdTable'[pathFd] = None /\ GiveUpPath
    BY <1>5, <2>1 DEF PathNoSocket, CloseAll
  <2> QED
    BY <1>4, <2>1, <2>2
<1>6. ASSUME NEW g \in Fds, PathBadAddress(g) PROVE Kept(f)'
  <2>1. pathOut = None /\ pathFd \in Fds
    BY <1>6 DEF PathBadAddress, SetupReadable, PathTypes
  <2>2. fdTable'[pathFd] = None /\ GiveUpPath
    BY <1>6, <2>1 DEF PathBadAddress, KernelTypes
  <2> QED
    BY <1>4, <2>1, <2>2
<1>7. ASSUME NEW g \in Fds, PathSocket(g) PROVE Kept(f)'
  <2>1. pathOut = None
    BY <1>7 DEF PathSocket, SetupReadable, PathTypes
  <2>2. UNCHANGED <<newSocket, pathFd, socketsToStart, conversations, wconv>>
    BY <1>7 DEF PathSocket, workerVars
  <2> QED
    BY <1>0, <2>1, <2>2 DEF Kept
<1>8. CASE PathConnected
  BY <1>8, PathConnectedKeeps
<1>9. CASE PathConnectFails
  <2>1. pathFd \in Fds /\ pathOut \in Fds
    BY <1>9 DEF PathConnectFails, PathTypes
  <2>2. fdTable' = [fdTable EXCEPT ![pathFd] = None]
    BY <1>9 DEF PathConnectFails
  <2>3. f # pathFd
    BY <2>1, <2>2 DEF KernelTypes
  <2>4. CASE f = pathOut
    <3>1. PICK d \in Clients : fdTable[pathFd] = <<d, "client">>
      BY <1>9, PathClient DEF PathConnectFails
    <3>2. fdTable[pathOut] = <<d, "dest">> /\ fdTable'[f] = <<d, "dest">>
      BY <1>0, <2>1, <2>2, <2>3, <2>4, <3>1, NoneAssumption DEF EndsMatch, RefersTo, KernelTypes
    <3>3. peer' = [peer EXCEPT ![fdTable[pathOut]] = "failed", ![fdTable[pathFd]] = "gone"]
      BY <1>9 DEF PathConnectFails
    <3> QED
      BY <3>1, <3>2, <3>3 DEF KernelTypes
  <2>5. CASE f # pathOut
    <3>1. UNCHANGED <<newSocket, socketsToStart, conversations, wconv>>
      BY <1>9 DEF PathConnectFails, GiveUpPath, workerVars
    <3> QED
      BY <2>3, <2>5, <3>1 DEF Kept
  <2> QED BY <2>4, <2>5
<1> QED
  BY <1>1, <1>2, <1>3, <1>5, <1>6, <1>7, <1>8, <1>9 DEF PathThread

\* A worker takes a conversation from the queue and puts it back, or closes both
\* of its sockets.
LEMMA WorkerKeeps ==
    ASSUME TypeOK, OwnInv, NEW w \in Workers, Worker(w), NEW f \in Fds, Kept(f),
           fdTable'[f] # None, Serving'
    PROVE  Kept(f)'
<1> USE DEF TypeOK
<1>1. CASE WorkerBeforeServer(w) \/ KilledBySend(w) \/ KilledByEncrypt(w)
  BY <1>1 DEF WorkerBeforeServer, KilledBySend, KilledByEncrypt, Dies, Serving
<1>2. CASE Poll(w) \/ ReadClient(w) \/ ReadDest(w) \/ SendToClient(w) \/ SendToDest(w)
  <2>1. UNCHANGED Places
    BY <1>2 DEF Places, Poll, ReadClient, ReadDest, SendToClient, SendToDest, pathVars
  <2> QED BY <2>1, PlacesUntouched
<1>3. CASE Take(w)
  <2>1. /\ conversations \in Seq(Conversations) /\ conversations # <<>>
        /\ conversations' = Tail(conversations) /\ wconv' = [wconv EXCEPT ![w] = Head(conversations)]
        /\ UNCHANGED <<newSocket, pathFd, pathOut, socketsToStart>>
        /\ wconv[w] = None
    BY <1>3 DEF Take, QueueTypes, WorkerTypes, pathVars
  <2>2. \A i \in DOMAIN conversations :
           \/ conversations[i] = wconv'[w]
           \/ \E j \in DOMAIN conversations' : conversations'[j] = conversations[i]
    BY <2>1, Popped DEF WorkerTypes
  <2>3. wconv'[w] # None
    <3>1. Head(conversations) \in Conversations
      BY <2>1, HeadTailProperties
    <3> QED BY <2>1, <3>1, NoneAssumption DEF WorkerTypes, Conversations
  <2>4. \A v \in Workers : wconv[v] # None => wconv'[v] = wconv[v]
    BY <2>1 DEF WorkerTypes
  <2> QED
    BY <2>1, <2>2, <2>3, <2>4 DEF Kept
<1>4. CASE DropConversation(w)
  <2>1. wconv[w] # None /\ wconv[w] \in Conversations
    BY <1>4 DEF DropConversation, SendingTo, WorkerTypes
  <2>2. f \notin {wconv[w].dec, wconv[w].enc}
    BY <1>4, <2>1 DEF DropConversation, CloseAll
  <2>3. UNCHANGED <<newSocket, pathFd, pathOut, socketsToStart, conversations>>
    BY <1>4 DEF DropConversation, pathVars
  <2>4. \A v \in Workers : v # w => wconv'[v] = wconv[v]
    BY <1>4 DEF DropConversation, WorkerTypes
  <2> QED
    BY <2>2, <2>3, <2>4 DEF Kept
<1>5. CASE Requeue(w)
  <2>1. /\ conversations \in Seq(Conversations) /\ wconv[w] \in Conversations
        /\ conversations' = Append(conversations, wconv[w])
        /\ UNCHANGED <<newSocket, pathFd, pathOut, socketsToStart>>
    BY <1>5 DEF Requeue, QueueTypes, WorkerTypes, pathVars
  <2>2. /\ \A i \in DOMAIN conversations :
              i \in DOMAIN conversations' /\ conversations'[i] = conversations[i]
        /\ \E i \in DOMAIN conversations' : conversations'[i] = wconv[w]
    <3> DEFINE c == wconv[w]
    <3> HIDE DEF c
    <3>1. conversations \in Seq(Conversations) /\ c \in Conversations
      BY <2>1 DEF c
    <3>2. /\ \A i \in DOMAIN conversations : /\ i \in DOMAIN Append(conversations, c)
                                             /\ Append(conversations, c)[i] = conversations[i]
          /\ \E i \in DOMAIN Append(conversations, c) : Append(conversations, c)[i] = c
      BY <3>1, Pushed
    <3>3. conversations' = Append(conversations, c)
      BY <2>1 DEF c
    <3> QED
      BY <3>2, <3>3, Zenon DEF c
  <2>3. \A v \in Workers : v # w => wconv'[v] = wconv[v]
    BY <1>5 DEF Requeue, WorkerTypes
  <2> QED
    BY <2>1, <2>2, <2>3 DEF Kept
<1> QED
  BY <1>1, <1>2, <1>3, <1>4, <1>5 DEF Worker

\* While the relay serves, nothing that is kept is dropped but by closing it.
LEMMA NextKeeps ==
    ASSUME TypeOK, OwnInv, [Next]_vars, NEW f \in Fds, Kept(f), fdTable'[f] # None, Serving'
    PROVE  Kept(f)' \/ peer'[fdTable'[f]] = "failed"
<1>1. CASE UNCHANGED vars
  BY <1>1, PlacesUntouched DEF vars, Places, pathVars, workerVars
<1>2. CASE Environment
  <2>1. UNCHANGED Places
    BY <1>2 DEF Places, Environment, Connect, PeerWrites, PeerReads, PeerCloses, ResetArrives,
                pathVars, workerVars
  <2> QED BY <2>1, PlacesUntouched
<1>3. CASE AcceptThread
  BY <1>3, AcceptKeeps
<1>4. CASE PathThread
  BY <1>4, PathKeeps DEF OwnInv
<1>5. CASE MainThread
  <2>1. SetServer
    BY <1>5 DEF MainThread, Serving, Quit, ShutdownClient, ShutdownDest, ShutdownPop,
                ShutdownRace, ShutdownDone, Exit, Dies
  <2> QED
    BY <2>1, PlacesUntouched DEF SetServer, Places, pathVars, workerVars
<1>6. CASE \E w \in Workers : Worker(w)
  BY <1>6, WorkerKeeps
<1> QED
  BY <1>1, <1>2, <1>3, <1>4, <1>5, <1>6 DEF Next

\* The end of a hop that failed stays so: its descriptor is the only one that
\* refers to it, and no thread has that.
LEMMA FailedStays ==
    ASSUME TypeOK, OwnInv, [Next]_vars, NEW f \in Fds, fdTable[f] # None,
           fdTable'[f] = fdTable[f], peer[fdTable[f]] = "failed"
    PROVE  peer'[fdTable[f]] = "failed" \/ Kept(f)'
<1> USE DEF TypeOK
<1> DEFINE e == fdTable[f]
<1>0. e \in Endpoints /\ f # None
  BY NoneAssumption DEF KernelTypes
<1>1. ASSUME UNCHANGED peer PROVE peer'[e] = "failed"
  BY <1>1
<1>2. ASSUME NEW F \in SUBSET Fds, CloseAll(F) PROVE peer'[e] = "failed"
  <2>1. f \notin F
    BY <1>2, <1>0, NoneAssumption DEF CloseAll
  <2>2. \A g \in F : fdTable[g] # e
    BY <1>0, <1>2, <2>1 DEF OwnInv, TableInjective
  <2> QED BY <1>0, <1>2, <2>2 DEF CloseAll, KernelTypes
<1>3. ASSUME NEW x, \/ peer' = [peer EXCEPT ![x] = "gone"]
                    \/ peer[x] # "failed" /\ \E s : peer' = [peer EXCEPT ![x] = s],
             x # e \/ peer[x] # "failed"
      PROVE  peer'[e] = "failed"
  BY <1>0, <1>3 DEF KernelTypes
<1>4. CASE UNCHANGED vars
  BY <1>1, <1>4 DEF vars, sockets
<1>5. CASE Environment
  <2>1. ASSUME NEW c \in Clients, Connect(c) PROVE peer'[e] = "failed"
    BY <1>0, <2>1 DEF Connect, KernelTypes
  <2>2. ASSUME NEW x \in Endpoints, PeerWrites(x) \/ PeerReads(x) \/ PeerCloses(x) \/ ResetArrives(x)
        PROVE  peer'[e] = "failed"
    BY <1>0, <2>2 DEF PeerWrites, PeerReads, PeerCloses, ResetArrives, KernelTypes
  <2> QED BY <1>5, <2>1, <2>2 DEF Environment
<1>6. CASE AcceptThread
  BY <1>1, <1>6 DEF AcceptThread, Accept, AcceptFails, QueueNewSocket, Dies, sockets
<1>7. CASE PathThread
  <2>1. CASE PathTake \/ PathPutBack \/ PathMalformed \/ \E g \in Fds : PathSocket(g)
    BY <1>1, <2>1 DEF PathTake, PathPutBack, PathMalformed, PathSocket, Dies, sockets
  <2>2. CASE PathNoSocket
    <3>1. {pathFd} \in SUBSET Fds
      BY <2>2 DEF PathNoSocket, SetupReadable, PathTypes
    <3> QED BY <1>2, <2>2, <3>1 DEF PathNoSocket
  <2>3. ASSUME pathFd \in Fds, fdTable'[pathFd] = None, NEW x \in Endpoints, 
               peer' = [peer EXCEPT ![x] = "failed", ![fdTable[pathFd]] = "gone"]
        PROVE  peer'[e] = "failed"
    <3>1. f # pathFd
      BY <2>3
    <3>2. fdTable[pathFd] # e
      BY <2>3, <3>1 DEF OwnInv, TableInjective
    <3> QED BY <1>0, <2>3, <3>2 DEF KernelTypes
  <2>4. ASSUME NEW g \in Fds, PathBadAddress(g) PROVE peer'[e] = "failed"
    <3>1. pathFd \in Fds
      BY <2>4 DEF PathBadAddress, SetupReadable, PathTypes
    <3>2. PICK d \in Clients : fdTable[pathFd] = <<d, "client">>
      BY <2>4, PathClient DEF OwnInv, PathBadAddress, SetupReadable
    <3>3. /\ fdTable'[pathFd] = None /\ <<d, "dest">> \in Endpoints
          /\ peer' = [peer EXCEPT ![<<d, "dest">>] = "failed", ![fdTable[pathFd]] = "gone"]
      BY <2>4, <3>1, <3>2 DEF PathBadAddress, KernelTypes
    <3> QED BY <2>3, <3>1, <3>3
  <2>5. CASE PathConnectFails
    <3>1. pathFd \in Fds /\ pathOut \in Fds
      BY <2>5 DEF PathConnectFails, PathTypes
    <3>2. PICK d \in Clients : fdTable[pathFd] = <<d, "client">>
      BY <2>5, PathClient DEF OwnInv, PathConnectFails
    <3>3. fdTable[pathOut] = <<d, "dest">> /\ <<d, "dest">> \in Endpoints
      BY <3>1, <3>2, NoneAssumption DEF OwnInv, EndsMatch, RefersTo
    <3>4. /\ fdTable'[pathFd] = None
          /\ peer' = [peer EXCEPT ![<<d, "dest">>] = "failed", ![fdTable[pathFd]] = "gone"]
      BY <2>5, <3>1, <3>3 DEF PathConnectFails, KernelTypes
    <3> QED BY <2>3, <3>1, <3>3, <3>4
  <2>6. CASE PathConnected
    <3>1. pathFd \in Fds /\ pathOut \in Fds /\ peer' = [peer EXCEPT ![fdTable[pathOut]] = "open"]
      BY <2>6 DEF PathConnected, PathTypes
    <3>2. CASE f = pathOut
      <4>1. Kept(f)
        BY <3>2 DEF Kept
      <4> QED BY <2>6, <4>1, PathConnectedKeeps DEF OwnInv
    <3>3. CASE f # pathOut
      <4>1. fdTable[pathOut] # e
        BY <1>0, <3>1, <3>3 DEF OwnInv, TableInjective
      <4> QED BY <1>0, <3>1, <4>1 DEF KernelTypes
    <3> QED BY <3>2, <3>3
  <2> QED BY <1>7, <2>1, <2>2, <2>4, <2>5, <2>6 DEF PathThread
<1>8. CASE \E w \in Workers : Worker(w)
  <2>1. PICK w \in Workers : Worker(w)
    BY <1>8
  <2>2. CASE WorkerBeforeServer(w) \/ KilledBySend(w) \/ KilledByEncrypt(w) \/ Take(w) \/ Poll(w) \/ Requeue(w)
    BY <1>1, <2>2 DEF WorkerBeforeServer, KilledBySend, KilledByEncrypt, Take, Poll, Requeue, Dies, sockets
  <2>3. CASE ReadClient(w) \/ ReadDest(w)
    BY <1>1, <2>3 DEF ReadClient, ReadDest
  <2>4. ASSUME NEW x, NEW b, SendBlock(x, b) PROVE peer'[e] = "failed"
    BY <1>0, <2>4 DEF SendBlock, KernelTypes
  <2>5. CASE SendToClient(w) \/ SendToDest(w)
    BY <2>4, <2>5 DEF SendToClient, SendToDest
  <2>6. CASE DropConversation(w)
    <3>1. wconv[w] \in Conversations
      BY <2>6 DEF DropConversation, SendingTo, WorkerTypes
    <3>2. {wconv[w].dec, wconv[w].enc} \in SUBSET Fds
      BY <3>1 DEF Conversations
    <3> QED BY <1>2, <2>6, <3>2 DEF DropConversation
  <2> QED BY <2>1, <2>2, <2>3, <2>5, <2>6 DEF Worker
<1>9. CASE MainThread
  <2>1. ASSUME NEW g, ShutBothWays(g) PROVE peer'[e] = "failed"
    BY <1>0, <2>1 DEF ShutBothWays, KernelTypes
  <2> QED
    BY <1>1, <1>9, <2>1 DEF MainThread, SetServer, Quit, ShutdownClient, ShutdownDest,
       ShutdownPop, ShutdownRace, ShutdownDone, Exit, Dies, sockets
<1> QED
  BY <1>4, <1>5, <1>6, <1>7, <1>8, <1>9 DEF Next

\* A descriptor that a step opens is kept by the thread that opened it, or is
\* the socket of a hop whose address is bad.
LEMMA OpenedIsKept ==
    ASSUME TypeOK, OwnInv, [Next]_vars, NEW f \in Fds, fdTable'[f] # None,
           fdTable'[f] # fdTable[f]
    PROVE  Kept(f)' \/ peer'[fdTable'[f]] = "failed"
<1> USE DEF TypeOK
<1>1. ASSUME NEW g \in Fds, Accept(g) PROVE Kept(f)'
  BY <1>1 DEF Accept, Kept, KernelTypes
<1>2. ASSUME NEW g \in Fds, PathSocket(g) PROVE Kept(f)'
  BY <1>2 DEF PathSocket, Kept, KernelTypes
<1>3. ASSUME NEW g \in Fds, PathBadAddress(g) PROVE peer'[fdTable'[f]] = "failed"
  <2>1. pathFd \in Fds
    BY <1>3 DEF PathBadAddress, SetupReadable, PathTypes
  <2>2. PICK d \in Clients : fdTable[pathFd] = <<d, "client">>
    BY <1>3, PathClient DEF OwnInv, PathBadAddress, SetupReadable
  <2>3. fdTable' = [fdTable EXCEPT ![g] = <<d, "dest">>, ![pathFd] = None]
    BY <1>3, <2>2 DEF PathBadAddress
  <2>4. fdTable'[f] = <<d, "dest">>
    BY <2>1, <2>3 DEF KernelTypes
  <2>5. peer' = [peer EXCEPT ![<<d, "dest">>] = "failed", ![<<d, "client">>] = "gone"]
    BY <1>3, <2>2 DEF PathBadAddress
  <2> QED BY <2>4, <2>5 DEF KernelTypes
<1>4. ASSUME UNCHANGED fdTable PROVE FALSE
  BY <1>4
<1>5. ASSUME NEW F, CloseAll(F) PROVE FALSE
  BY <1>5 DEF CloseAll
<1>6. CASE AcceptThread
  BY <1>1, <1>4, <1>6 DEF AcceptThread, AcceptFails, QueueNewSocket, Dies, sockets
<1>7. CASE PathThread
  <2>1. CASE PathNoSocket
    BY <1>5, <2>1 DEF PathNoSocket
  <2>2. CASE PathConnectFails
    BY <2>2 DEF PathConnectFails, KernelTypes, PathTypes
  <2>3. CASE PathTake \/ PathPutBack \/ PathMalformed \/ PathConnected
    BY <1>4, <2>3 DEF PathTake, PathPutBack, PathMalformed, PathConnected, Dies, sockets
  <2> QED BY <1>2, <1>3, <1>7, <2>1, <2>2, <2>3 DEF PathThread
<1>8. CASE \E w \in Workers : Worker(w)
  BY <1>4, <1>5, <1>8 DEF Worker, WorkerBeforeServer, KilledBySend, KilledByEncrypt, Take, Poll, ReadClient,
     ReadDest, SendToClient, SendToDest, DropConversation, Requeue, SendBlock, Dies, sockets
<1>9. CASE Environment \/ MainThread \/ UNCHANGED vars
  BY <1>4, <1>9 DEF Environment, Connect, PeerWrites, PeerReads, PeerCloses, ResetArrives,
     MainThread, SetServer, Quit, ShutdownClient, ShutdownDest, ShutdownPop, ShutdownRace,
     ShutdownDone, Exit, ShutBothWays, Dies, sockets, vars
<1> QED
  BY <1>6, <1>7, <1>8, <1>9 DEF Next

\* Nothing begins to serve again.
LEMMA ServedBefore == [Next]_vars /\ Serving' => Serving
BY DEF Next, Serving, Environment, Connect, PeerWrites, PeerReads, PeerCloses, ResetArrives,
   AcceptThread, Accept, AcceptFails, QueueNewSocket, PathThread, PathTake, PathPutBack,
   PathMalformed, PathNoSocket, PathBadAddress, PathSocket, PathConnected, PathConnectFails,
   GiveUpPath, Worker, WorkerBeforeServer, KilledBySend, KilledByEncrypt, Take, Poll, ReadClient, ReadDest,
   SendToClient, SendToDest, DropConversation, Requeue, MainThread, SetServer, Quit,
   ShutdownClient, ShutdownDest, ShutdownPop, ShutdownRace, ShutdownDone, Exit, Dies, Alive, vars

LEMMA NextKeptInv == TypeOK /\ OwnInv /\ KeptInv /\ [Next]_vars => KeptInv'
<1> SUFFICES ASSUME TypeOK, OwnInv, KeptInv, [Next]_vars,
                    NEW f \in Fds, fdTable'[f] # None, Serving'
             PROVE  Kept(f)' \/ peer'[fdTable'[f]] = "failed"
  BY DEF KeptInv, Serving, Kept
<1>1. CASE fdTable'[f] # fdTable[f]
  BY <1>1, OpenedIsKept
<1>2. CASE fdTable'[f] = fdTable[f]
  <2>1. Kept(f) \/ peer[fdTable[f]] = "failed"
    BY <1>2, ServedBefore DEF KeptInv
  <2> QED
    BY <1>2, <2>1, NextKeeps, FailedStays
<1> QED BY <1>1, <1>2

\* As long as "quit" was not typed, every open descriptor is kept by some thread
\* or queue that can still close it, except the socket of a hop that could not
\* be reached (Node/Server.cpp:122-136, 269-379, ThreadPool.cpp:31-68).
THEOREM KeptCorrect == Spec => []OpenAndKept
<1>1. Init => KeptInv
  BY DEF Init, KeptInv
<1>2. IInv /\ KeptInv /\ [Next]_vars => KeptInv'
  BY NextKeptInv DEF IInv
<1>3. KeptInv => OpenAndKept
  BY KeptIsKept DEF KeptInv, OpenAndKept, Serving
<1> QED
  BY <1>1, <1>2, <1>3, Inductive, PTL DEF Spec
=============================================================================
