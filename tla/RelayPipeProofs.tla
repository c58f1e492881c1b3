--------------------------- MODULE RelayPipeProofs ---------------------------
(***************************************************************************)
(* That a relay implements RelayPipe, for every number of clients, workers *)
(* and descriptors: two FIFO pipes for each circuit, whatever the threads, *)
(* the peers and the reuse of descriptors do.                              *)
(***************************************************************************)
EXTENDS RelayNodeProofs

USE DEF Fds, Endpoints, ClientEnd, DestEnd

------------------------------------------------------------------------------
(* PipeInv is inductive: first, how the two ends of a circuit go together. *)

Up == PeerStates \ {"absent", "failed", "gone"}

\* The far side is as before, or was there before and still is.
SamePeer(e) == peer'[e] = peer[e] \/ (peer[e] \in Up /\ peer'[e] \in Up)

\* A circuit that gets no younger and is not taken up anew stays as it was.
LEMMA EndsFrame ==
    ASSUME NEW c \in Clients, EndsTogether(c),
           SamePeer(ClientEnd(c)), SamePeer(DestEnd(c)),
           Young(c)' => Young(c),
           (Queued(c) \/ InTable(ClientEnd(c)))' => Queued(c) \/ InTable(ClientEnd(c)),
           rx'[DestEnd(c)] # <<>> => rx[DestEnd(c)] # <<>> \/ Connected(c),
           Held(c)' => Held(c)
    PROVE  EndsTogether(c)'
<1>1. Connected(c)' <=> Connected(c)
  BY DEF Connected, SamePeer, Up
<1>2. peer'[DestEnd(c)] = "absent" <=> peer[DestEnd(c)] = "absent"
  BY DEF SamePeer, Up
<1>3. peer'[ClientEnd(c)] \in {"absent", "gone"} <=> peer[ClientEnd(c)] \in {"absent", "gone"}
  BY DEF SamePeer, Up
<1> QED
  BY <1>1, <1>2, <1>3 DEF EndsTogether

\* A step that moves no descriptor and neither makes nor ends a connection.
LEMMA EndsStay ==
    ASSUME PeersInv,
           UNCHANGED <<fdTable, listenQ, newSocket, socketsToStart, pathFd,
                       conversations, wconv>>,
           \A e \in Endpoints : SamePeer(e),
           \A c \in Clients :
               rx'[DestEnd(c)] # <<>> => rx[DestEnd(c)] # <<>> \/ Connected(c)
    PROVE  PeersInv'
<1> SUFFICES ASSUME NEW c \in Clients PROVE EndsTogether(c)'
  BY DEF PeersInv
<1>1. peer'[ClientEnd(c)] = "absent" <=> peer[ClientEnd(c)] = "absent"
  BY DEF SamePeer, Up
<1>2. Young(c)' => Young(c)
  BY <1>1 DEF Young, Queued
<1>3. (Queued(c) \/ InTable(ClientEnd(c)))' => Queued(c) \/ InTable(ClientEnd(c))
  BY DEF Queued, InTable
<1>4. Held(c)' => Held(c)
  BY DEF Held
<1> QED
  BY <1>2, <1>3, <1>4, EndsFrame DEF PeersInv

\* The end of the process leaves its state as it was.
LEMMA DiesPeers == PeersInv /\ Dies => PeersInv'
BY EndsStay DEF Dies, sockets, pathVars, workerVars, SamePeer

\* A connection arrives that was not there before.
LEMMA ConnectPeers ==
    ASSUME TypeOK, OwnInv, PeersInv, NEW c \in Clients, Connect(c)
    PROVE  PeersInv'
<1> SUFFICES ASSUME NEW d \in Clients PROVE EndsTogether(d)'
  BY DEF PeersInv
<1> USE DEF TypeOK, KernelTypes
<1>1. /\ UNCHANGED <<fdTable, rx, newSocket, socketsToStart, pathFd, conversations, wconv>>
      /\ peer[ClientEnd(c)] = "absent"
      /\ peer' = [peer EXCEPT ![ClientEnd(c)] = "open"]
      /\ listenQ' = Append(listenQ, c)
  BY DEF Connect, pathVars, workerVars
<1>2. Held(d)' => Held(d)
  BY <1>1 DEF Held
<1>3. CASE d = c
  <2>1. Young(c) /\ peer[DestEnd(c)] = "absent"
    BY <1>1 DEF PeersInv, EndsTogether, Young
  <2>2. peer'[DestEnd(c)] = "absent" /\ peer'[ClientEnd(c)] = "open"
    BY <1>1, <2>1
  <2> QED
    BY <1>1, <1>2, <1>3, <2>1, <2>2 DEF PeersInv, EndsTogether, Connected
<1>4. CASE d # c
  <2>1. Queued(d)' => Queued(d)
    BY <1>1, <1>4 DEF Queued
  <2>2. Young(d)' => Young(d)
    BY <1>1, <1>4, <2>1 DEF Young
  <2>3. SamePeer(ClientEnd(d)) /\ SamePeer(DestEnd(d))
    BY <1>1, <1>4 DEF SamePeer
  <2>4. InTable(ClientEnd(d))' => InTable(ClientEnd(d))
    BY <1>1 DEF InTable
  <2> QED
    BY <1>1, <1>2, <2>1, <2>2, <2>3, <2>4, EndsFrame DEF PeersInv
<1> QED
  BY <1>3, <1>4

\* The kernel, the peers and the network keep the two ends together.
LEMMA EnvironmentPeers == TypeOK /\ OwnInv /\ PeersInv /\ Environment => PeersInv'
<1> SUFFICES ASSUME TypeOK, OwnInv, PeersInv, Environment PROVE PeersInv'
  OBVIOUS
<1> USE DEF TypeOK, KernelTypes
<1>1. ASSUME NEW c \in Clients, Connect(c) PROVE PeersInv'
  BY <1>1, ConnectPeers
<1>2. ASSUME NEW e \in Endpoints, PeerWrites(e) PROVE PeersInv'
  <2>1. /\ UNCHANGED <<fdTable, peer, listenQ, newSocket, socketsToStart, pathFd,
                       conversations, wconv>>
        /\ peer[e] = "open"
        /\ \A d \in Endpoints : d # e => rx'[d] = rx[d]
    BY <1>2 DEF PeerWrites, pathVars, workerVars
  <2>2. ASSUME NEW c \in Clients, rx'[DestEnd(c)] # <<>>
        PROVE  rx[DestEnd(c)] # <<>> \/ Connected(c)
    BY <2>1, <2>2 DEF Connected
  <2> QED
    BY <2>1, <2>2, EndsStay DEF SamePeer
<1>3. ASSUME NEW e \in Endpoints, PeerReads(e) PROVE PeersInv'
  BY <1>3, EndsStay DEF PeerReads, pathVars, workerVars, SamePeer
<1>4. ASSUME NEW e \in Endpoints, PeerCloses(e) \/ ResetArrives(e) PROVE PeersInv'
  <2>1. /\ UNCHANGED <<fdTable, rx, listenQ, newSocket, socketsToStart, pathFd,
                       conversations, wconv>>
        /\ \A d \in Endpoints : SamePeer(d)
    BY <1>4 DEF PeerCloses, ResetArrives, pathVars, workerVars, SamePeer, Up, PeerStates
  <2> QED
    BY <2>1, EndsStay
<1> QED
  BY <1>1, <1>2, <1>3, <1>4 DEF Environment

\* A client in the kernel's queue gets its descriptor, and is still young.
LEMMA AcceptPeers ==
    ASSUME TypeOK, OwnInv, PeersInv, AcceptThread
    PROVE  PeersInv'
<1> USE DEF TypeOK, KernelTypes
<1>1. ASSUME NEW f \in Fds, Accept(f) PROVE PeersInv'
  <2> SUFFICES ASSUME NEW d \in Clients PROVE EndsTogether(d)'
    BY DEF PeersInv
  <2>1. /\ UNCHANGED <<peer, rx, socketsToStart, pathFd, conversations, wconv>>
        /\ listenQ # <<>> /\ listenQ' = Tail(listenQ) /\ newSocket' = f
        /\ fdTable[f] = None
        /\ fdTable' = [fdTable EXCEPT ![f] = ClientEnd(Head(listenQ))]
    BY <1>1 DEF Accept, LowestFree, pathVars, workerVars
  <2>2. Head(listenQ) = listenQ[1] /\ 1 \in DOMAIN listenQ
    BY <2>1
  <2>3. Queued(d)' => Queued(d)
    BY <2>1 DEF Queued
  <2>4. \A g \in Fds : fdTable'[g] = ClientEnd(d) => fdTable[g] = ClientEnd(d) \/ Queued(d)
    BY <2>1, <2>2 DEF Queued
  <2>5. InTable(ClientEnd(d))' => InTable(ClientEnd(d)) \/ Queued(d)
    BY <2>4 DEF InTable
  <2>6. Young(d)' => Young(d)
    <3>1. \A i \in DOMAIN socketsToStart : socketsToStart[i] \in Fds
      BY QueuedFds
    <3>2. pathFd # None => pathFd \in Fds
      BY DEF PathTypes
    <3>3. ClientEnd(d) # None
      BY NoneAssumption
    <3>4. fdTable'[f] = ClientEnd(d) => Queued(d)
      BY <2>1, <2>4, <3>3
    <3> QED
      BY <2>1, <2>3, <2>4, <3>1, <3>2, <3>4 DEF Young
  <2>7. Held(d)' => Held(d)
    BY <2>1 DEF Held
  <2> QED
    BY <2>1, <2>3, <2>5, <2>6, <2>7, EndsFrame DEF PeersInv, SamePeer
<1>2. CASE AcceptFails
  BY <1>2, DiesPeers DEF AcceptFails
<1>3. CASE QueueNewSocket
  <2> SUFFICES ASSUME NEW d \in Clients PROVE EndsTogether(d)'
    BY DEF PeersInv
  <2>1. /\ UNCHANGED <<fdTable, peer, rx, listenQ, pathFd, conversations, wconv>>
        /\ newSocket \in Fds /\ newSocket # None /\ newSocket' = None
        /\ socketsToStart' = Append(socketsToStart, newSocket)
    BY <1>3 DEF QueueNewSocket, QueueTypes, sockets, pathVars, workerVars
  <2>2. \A i \in DOMAIN socketsToStart' :
            \/ socketsToStart'[i] = newSocket
            \/ i \in DOMAIN socketsToStart /\ socketsToStart'[i] = socketsToStart[i]
    BY <2>1 DEF QueueTypes
  <2>3. Young(d)' => Young(d)
    BY <2>1, <2>2 DEF Young, Queued
  <2> QED
    BY <2>1, <2>3, EndsFrame DEF PeersInv, SamePeer, Queued, InTable, Held
<1> QED
  BY <1>1, <1>2, <1>3 DEF AcceptThread

\* The path thread's client is one for which no hop was connected yet.
LEMMA PathIsYoung ==
    ASSUME TypeOK, OwnInv, PeersInv, pathPc # "loop"
    PROVE  \E c \in Clients :
             /\ pathFd \in Fds /\ fdTable[pathFd] = ClientEnd(c)
             /\ fdTable[pathFd] = <<c, "client">> /\ fdTable[pathFd][1] = c
             /\ peer[DestEnd(c)] = "absent" /\ rx[DestEnd(c)] = <<>>
             /\ peer[ClientEnd(c)] \notin {"absent", "gone"}
             /\ ~Queued(c) /\ ~Held(c)
<1> USE DEF TypeOK, OwnInv
<1>1. PICK c \in Clients : pathFd \in Fds /\ fdTable[pathFd] = <<c, "client">>
  BY PathClient
<1>2. Young(c) /\ InTable(ClientEnd(c))
  BY <1>1, NoneAssumption DEF Young, InTable
<1>3. peer[DestEnd(c)] = "absent" /\ ~Connected(c)
  BY <1>2 DEF PeersInv, EndsTogether, Connected
<1>4. ~Queued(c)
  BY <1>2 DEF NotYetAccepted, Queued
<1> QED
  BY <1>1, <1>2, <1>3, <1>4 DEF PeersInv, EndsTogether

\* Once the path thread lets go of its client, nothing holds it as young.
LEMMA PathLetsGo ==
    ASSUME TypeOK, OwnInv, PeersInv, NEW c \in Clients,
           pathFd \in Fds, fdTable[pathFd] = ClientEnd(c), pathPc # "loop",
           UNCHANGED <<listenQ, newSocket, socketsToStart>>, pathFd' = None,
           \A g \in Fds : g # pathFd /\ fdTable[g] # None => fdTable'[g] = fdTable[g],
           peer'[ClientEnd(c)] # "absent"
    PROVE  ~Young(c)'
<1> USE DEF TypeOK, OwnInv, KernelTypes
<1>1. ~Queued(c)
  BY NoneAssumption DEF NotYetAccepted, Queued, InTable
<1>2. ~Queued(c)'
  BY <1>1 DEF Queued
<1>3. \A g \in Fds : ClientSocket(g) /\ g # pathFd => fdTable'[g] # ClientEnd(c)
  <2>1. \A d \in Clients : ClientEnd(d) # None
    BY NoneAssumption
  <2>2. \A g \in Fds : ClientSocket(g) => fdTable[g] # None
    BY <2>1 DEF ClientSocket, RefersTo
  <2> QED
    BY <2>1, <2>2 DEF TableInjective
<1>4. newSocket # None =>
         newSocket \in Fds /\ ClientSocket(newSocket) /\ newSocket # pathFd
  BY PathCloses DEF QueueTypes, EndsMatch
<1>5. \A i \in DOMAIN socketsToStart :
         /\ socketsToStart[i] \in Fds /\ ClientSocket(socketsToStart[i])
         /\ socketsToStart[i] # pathFd
  BY PathCloses, QueuedFds DEF EndsMatch
<1>6. newSocket' # None => fdTable'[newSocket'] # ClientEnd(c)
  BY <1>3, <1>4
<1>7. \A i \in DOMAIN socketsToStart' : fdTable'[socketsToStart'[i]] # ClientEnd(c)
  BY <1>3, <1>5
<1> QED
  BY <1>2, <1>6, <1>7 DEF Young

\* The path thread hangs up on its client, whatever became of the new socket.
LEMMA HangUpPeers ==
    ASSUME TypeOK, OwnInv, PeersInv, pathPc # "loop", GiveUpPath,
           NEW c \in Clients, pathFd \in Fds, fdTable[pathFd] = ClientEnd(c),
           peer'[ClientEnd(c)] = "gone", peer'[DestEnd(c)] \in {"absent", "failed"},
           rx'[DestEnd(c)] = rx[DestEnd(c)],
           \A e \in Endpoints \ {ClientEnd(c), DestEnd(c)} :
               peer'[e] = peer[e] /\ rx'[e] = rx[e],
           fdTable'[pathFd] = None,
           \A g \in Fds : fdTable'[g] \in {fdTable[g], DestEnd(c), None},
           \A g \in Fds : g # pathFd /\ fdTable[g] # None => fdTable'[g] = fdTable[g]
    PROVE  PeersInv'
<1> USE DEF TypeOK, OwnInv, KernelTypes
<1> SUFFICES ASSUME NEW d \in Clients PROVE EndsTogether(d)'
  BY DEF PeersInv
<1>1. /\ UNCHANGED <<listenQ, newSocket, socketsToStart, conversations, wconv>>
      /\ pathFd' = None
  BY DEF GiveUpPath, workerVars
<1>2. \A e : e # None /\ e # DestEnd(c) /\ InTable(e)' => InTable(e)
  BY DEF InTable
<1>3. Held(d)' => Held(d)
  BY <1>1 DEF Held
<1>4. ClientEnd(d) # None
  BY NoneAssumption
<1>5. CASE d = c
  <2>1. /\ peer[DestEnd(c)] = "absent" /\ rx[DestEnd(c)] = <<>>
        /\ ~Queued(c) /\ ~Held(c)
    BY ZenonT(40), PathIsYoung
  <2>2. ~Young(c)'
    BY <1>1, PathLetsGo
  <2>3. ~InTable(ClientEnd(c))'
    <3>1. \A g \in Fds : g # pathFd => fdTable[g] # ClientEnd(c)
      BY <1>4, <1>5 DEF TableInjective
    <3> QED
      BY <1>4, <1>5, <3>1 DEF InTable
  <2>4. ~Queued(c)' /\ ~Held(c)' /\ ~Connected(c)'
    BY <1>1, <1>3, <1>5, <2>1 DEF Queued, Connected
  <2> QED
    BY <1>5, <2>1, <2>2, <2>3, <2>4 DEF EndsTogether
<1>6. CASE d # c
  <2>1. Young(d)' => Young(d)
    <3>1. \A g \in Fds : fdTable'[g] = ClientEnd(d) => fdTable[g] = ClientEnd(d)
      <4>1. ClientEnd(d) # DestEnd(c)
        OBVIOUS
      <4> HIDE DEF ClientEnd, DestEnd, Fds
      <4> QED
        BY <1>4, <4>1
    <3>2. newSocket # None => newSocket \in Fds
      BY DEF QueueTypes
    <3>3. \A i \in DOMAIN socketsToStart : socketsToStart[i] \in Fds
      BY QueuedFds
    <3> QED
      BY <1>1, <1>6, <3>1, <3>2, <3>3 DEF Young, Queued
  <2>2. (Queued(d) \/ InTable(ClientEnd(d)))' => Queued(d) \/ InTable(ClientEnd(d))
    BY <1>1, <1>2, <1>4 DEF Queued
  <2>3. SamePeer(ClientEnd(d)) /\ SamePeer(DestEnd(d)) /\ rx'[DestEnd(d)] = rx[DestEnd(d)]
    BY <1>6 DEF SamePeer
  <2> QED
    BY <1>3, <2>1, <2>2, <2>3, EndsFrame DEF PeersInv
<1> QED
  BY <1>5, <1>6

\* createPathThread and buildPath keep the two ends together.
LEMMA PathPeers == TypeOK /\ OwnInv /\ PeersInv /\ PathThread => PeersInv'
<1> SUFFICES ASSUME TypeOK, OwnInv, PeersInv, PathThread PROVE PeersInv'
  OBVIOUS
<1> USE DEF TypeOK, KernelTypes
<1>1. CASE PathTake
  <2>1. /\ UNCHANGED <<fdTable, peer, rx, listenQ, newSocket, conversations, wconv>>
        /\ socketsToStart # <<>> /\ socketsToStart' = Tail(socketsToStart)
        /\ pathFd' = Head(socketsToStart)
    BY <1>1 DEF PathTake, sockets, workerVars
  <2>2. /\ Head(socketsToStart) = socketsToStart[1] /\ 1 \in DOMAIN socketsToStart
        /\ \A i \in DOMAIN socketsToStart' :
              i + 1 \in DOMAIN socketsToStart /\ socketsToStart'[i] = socketsToStart[i + 1]
    BY <2>1 DEF QueueTypes
  <2>3. ASSUME NEW c \in Clients PROVE Young(c)' => Young(c)
    BY <2>1, <2>2 DEF Young, Queued
  <2> QED
    BY <2>1, <2>3, EndsFrame DEF PeersInv, SamePeer, Queued, InTable, Held
<1>2. CASE PathPutBack
  <2>1. /\ UNCHANGED <<fdTable, peer, rx, listenQ, newSocket, conversations, wconv>>
        /\ pathFd \in Fds /\ pathFd # None /\ pathFd' = None
        /\ socketsToStart' = Append(socketsToStart, pathFd)
    BY <1>2, NoneAssumption DEF PathPutBack, PathTypes, sockets, workerVars
  <2>2. \A i \in DOMAIN socketsToStart' :
            \/ socketsToStart'[i] = pathFd
            \/ i \in DOMAIN socketsToStart /\ socketsToStart'[i] = socketsToStart[i]
    BY <2>1 DEF QueueTypes
  <2>3. ASSUME NEW c \in Clients PROVE Young(c)' => Young(c)
    BY <2>1, <2>2 DEF Young, Queued
  <2> QED
    BY <2>1, <2>3, EndsFrame DEF PeersInv, SamePeer, Queued, InTable, Held
<1>3. CASE PathMalformed
  BY <1>3, DiesPeers DEF PathMalformed
<1>4. CASE PathNoSocket
  <2>1. PICK c \in Clients : /\ pathFd \in Fds /\ fdTable[pathFd] = ClientEnd(c)
                             /\ peer[DestEnd(c)] = "absent"
    BY <1>4, PathIsYoung DEF PathNoSocket, SetupReadable
  <2>2. {fdTable[f] : f \in {pathFd}} = {ClientEnd(c)}
    BY <2>1
  <2>3. /\ peer' = [e \in Endpoints |-> IF e = ClientEnd(c) THEN "gone" ELSE peer[e]]
        /\ rx' = [e \in Endpoints |-> IF e = ClientEnd(c) THEN <<>> ELSE rx[e]]
        /\ fdTable' = [f \in Fds |-> IF f = pathFd THEN None ELSE fdTable[f]]
    BY <1>4, <2>2 DEF PathNoSocket, CloseAll
  <2>4. GiveUpPath /\ pathPc # "loop"
    BY <1>4 DEF PathNoSocket, SetupReadable
  <2> QED
    BY <2>1, <2>3, <2>4, HangUpPeers
<1>5. ASSUME NEW f \in Fds, PathBadAddress(f) PROVE PeersInv'
  <2>1. PICK c \in Clients : /\ pathFd \in Fds /\ fdTable[pathFd] = ClientEnd(c)
                             /\ fdTable[pathFd][1] = c
    BY <1>5, PathIsYoung DEF PathBadAddress, SetupReadable
  <2>2. /\ fdTable' = [fdTable EXCEPT ![f] = DestEnd(c), ![pathFd] = None]
        /\ peer' = [peer EXCEPT ![DestEnd(c)] = "failed", ![ClientEnd(c)] = "gone"]
        /\ rx' = [rx EXCEPT ![ClientEnd(c)] = <<>>]
        /\ fdTable[f] = None
    BY <1>5, <2>1 DEF PathBadAddress, LowestFree
  <2>3. GiveUpPath /\ pathPc # "loop"
    BY <1>5 DEF PathBadAddress, SetupReadable
  <2> QED
    BY <2>1, <2>2, <2>3, HangUpPeers
<1>6. CASE PathConnectFails
  <2>1. PICK c \in Clients : /\ pathFd \in Fds /\ fdTable[pathFd] = ClientEnd(c)
                             /\ fdTable[pathFd][1] = c
    BY <1>6, PathIsYoung DEF PathConnectFails
  <2>2. fdTable[pathOut] = DestEnd(c)
    BY <1>6, <2>1 DEF PathConnectFails, PathTypes, OwnInv, EndsMatch, RefersTo
  <2>3. /\ fdTable' = [fdTable EXCEPT ![pathFd] = None]
        /\ peer' = [peer EXCEPT ![DestEnd(c)] = "failed", ![ClientEnd(c)] = "gone"]
        /\ rx' = [rx EXCEPT ![ClientEnd(c)] = <<>>]
    BY <1>6, <2>1, <2>2 DEF PathConnectFails
  <2>4. GiveUpPath /\ pathPc # "loop"
    BY <1>6 DEF PathConnectFails
  <2> QED
    BY <2>1, <2>3, <2>4, HangUpPeers
<1>7. ASSUME NEW f \in Fds, PathSocket(f) PROVE PeersInv'
  <2>1. PICK c \in Clients : /\ pathFd \in Fds /\ fdTable[pathFd] = ClientEnd(c)
                             /\ fdTable[pathFd][1] = c
    BY <1>7, PathIsYoung DEF PathSocket, SetupReadable
  <2>2. /\ UNCHANGED <<peer, listenQ, newSocket, socketsToStart, pathFd, conversations, wconv>>
        /\ fdTable' = [fdTable EXCEPT ![f] = DestEnd(c)]
        /\ rx' = [rx EXCEPT ![ClientEnd(c)] = Tail(@)]
    BY <1>7, <2>1 DEF PathSocket, workerVars
  <2>3. ASSUME NEW d \in Clients PROVE EndsTogether(d)'
    <3>1. \A g \in Fds : fdTable'[g] = ClientEnd(d) => fdTable[g] = ClientEnd(d)
      BY <2>2
    <3>2. Young(d)' => Young(d)
      <4>1. newSocket # None => newSocket \in Fds
        BY DEF QueueTypes
      <4>2. \A i \in DOMAIN socketsToStart : socketsToStart[i] \in Fds
        BY QueuedFds
      <4> QED
        BY <2>1, <2>2, <3>1, <4>1, <4>2 DEF Young, Queued
    <3>3. InTable(ClientEnd(d))' => InTable(ClientEnd(d))
      BY <3>1 DEF InTable
    <3>4. (Queued(d)' => Queued(d)) /\ (Held(d)' => Held(d)) /\ rx'[DestEnd(d)] = rx[DestEnd(d)]
      BY <2>2 DEF Queued, Held
    <3> QED
      BY <2>2, <3>2, <3>3, <3>4, EndsFrame DEF PeersInv, SamePeer
  <2> QED
    BY <2>3 DEF PeersInv
<1>8. CASE PathConnected
  <2>1. PICK c \in Clients : /\ pathFd \in Fds /\ fdTable[pathFd] = ClientEnd(c)
                             /\ fdTable[pathFd][1] = c
                             /\ peer[ClientEnd(c)] \notin {"absent", "gone"}
    BY <1>8, PathIsYoung DEF PathConnected
  <2>2. fdTable[pathOut] = DestEnd(c)
    BY <1>8, <2>1 DEF PathConnected, PathTypes, OwnInv, EndsMatch, RefersTo
  <2>3. /\ UNCHANGED <<fdTable, rx, listenQ, newSocket, socketsToStart, wconv>>
        /\ peer' = [peer EXCEPT ![DestEnd(c)] = "open"]
        /\ conversations' =
              Append(conversations, [dec |-> pathFd, enc |-> pathOut, rsa |-> c])
        /\ pathFd' = None /\ pathPc # "loop"
    BY <1>8, <2>1, <2>2 DEF PathConnected, workerVars
  <2>4. \A i \in DOMAIN conversations' :
            \/ conversations'[i].rsa = c
            \/ i \in DOMAIN conversations /\ conversations'[i] = conversations[i]
    <3> DEFINE conv == [dec |-> pathFd, enc |-> pathOut, rsa |-> c]
    <3>1. conv.rsa = c
      OBVIOUS
    <3>2. conversations' = Append(conversations, conv) /\ conversations \in Seq(Conversations)
      BY <2>3 DEF QueueTypes
    <3> HIDE DEF conv
    <3> QED
      BY <3>1, <3>2
  <2>5. EndsTogether(c)'
    <3>1. ~Young(c)'
      BY <2>1, <2>3, PathLetsGo
    <3>2. Connected(c)' /\ peer'[ClientEnd(c)] \notin {"absent", "gone"}
      BY <2>1, <2>3 DEF Connected
    <3> QED
      BY <3>1, <3>2 DEF EndsTogether
  <2>6. ASSUME NEW d \in Clients, d # c PROVE EndsTogether(d)'
    <3>1. Young(d)' => Young(d)
      BY <2>3, <2>6 DEF Young, Queued
    <3>2. Held(d)' => Held(d)
      BY <2>3, <2>4, <2>6 DEF Held
    <3>3. SamePeer(ClientEnd(d)) /\ SamePeer(DestEnd(d))
      BY <2>3, <2>6 DEF SamePeer
    <3> QED
      BY <2>3, <3>1, <3>2, <3>3, EndsFrame DEF PeersInv, Queued, InTable
  <2> QED
    BY <2>5, <2>6 DEF PeersInv
<1> QED
  BY <1>1, <1>2, <1>3, <1>4, <1>5, <1>6, <1>7, <1>8 DEF PathThread

\* A circuit whose send failed is closed on both sides.
LEMMA DropPeers ==
    ASSUME TypeOK, OwnInv, PeersInv, NEW w \in Workers, DropConversation(w)
    PROVE  PeersInv'
<1> USE DEF TypeOK, OwnInv, KernelTypes
<1>1. /\ UNCHANGED <<listenQ, newSocket, socketsToStart, pathFd, conversations>>
      /\ wconv[w] # None
      /\ \A v \in Workers : wconv'[v] = IF v = w THEN None ELSE wconv[v]
  BY DEF DropConversation, WorkerTypes, SendingTo, pathVars
<1>2. PICK c \in Clients :
         /\ wconv[w].rsa = c
         /\ wconv[w].dec \in Fds /\ fdTable[wconv[w].dec] = ClientEnd(c)
         /\ wconv[w].enc \in Fds /\ fdTable[wconv[w].enc] = DestEnd(c)
  <2>1. wconv[w] \in Conversations /\ Paired(wconv[w])
    BY <1>1 DEF EndsMatch, WorkerTypes
  <2> QED
    BY <2>1 DEF Paired, RefersTo, Conversations
<1>3. {fdTable[f] : f \in {wconv[w].dec, wconv[w].enc}} = {ClientEnd(c), DestEnd(c)}
  BY <1>2
<1>4. /\ \A e \in Endpoints : e \in {ClientEnd(c), DestEnd(c)} =>
             peer'[e] = "gone" /\ rx'[e] = <<>>
      /\ \A e \in Endpoints : e \notin {ClientEnd(c), DestEnd(c)} =>
             peer'[e] = peer[e] /\ rx'[e] = rx[e]
      /\ \A g \in Fds : fdTable'[g] =
             IF g \in {wconv[w].dec, wconv[w].enc} THEN None ELSE fdTable[g]
  BY <1>3 DEF DropConversation, CloseAll
<1>5. ASSUME NEW d \in Clients PROVE EndsTogether(d)'
  <2>1. ClientEnd(d) # None
    BY NoneAssumption
  <2>2. \A g \in Fds : fdTable'[g] = ClientEnd(d) => fdTable[g] = ClientEnd(d)
    BY <1>4, <2>1
  <2>3. InTable(ClientEnd(d))' => InTable(ClientEnd(d))
    BY <2>2 DEF InTable
  <2>4. peer'[ClientEnd(d)] = "absent" => peer[ClientEnd(d)] = "absent"
    BY <1>2, <1>4
  <2>5. Young(d)' => Young(d)
    <3>1. newSocket # None => newSocket \in Fds
      BY DEF QueueTypes
    <3>2. \A i \in DOMAIN socketsToStart : socketsToStart[i] \in Fds
      BY QueuedFds
    <3>3. pathFd # None => pathFd \in Fds
      BY DEF PathTypes
    <3> QED
      BY <1>1, <2>2, <2>4, <3>1, <3>2, <3>3 DEF Young, Queued
  <2>6. Held(d)' => Held(d)
    BY <1>1 DEF Held
  <2>7. CASE d = c
    <3>1. Held(c) /\ ~Young(c) /\ ~Queued(c)
      <4>1. Held(c)
        BY <1>1, <1>2 DEF Held
      <4> QED
        BY <1>2, <4>1 DEF PeersInv, EndsTogether, Connected, Young
    <3>2. ~Held(c)'
      BY <1>1, <1>2 DEF Held, Apart
    <3>3. ~InTable(ClientEnd(c))'
      <4>1. \A g \in Fds : g # wconv[w].dec => fdTable[g] # ClientEnd(c)
        BY <1>2, <2>1, <2>7 DEF TableInjective
      <4> QED
        BY <1>4, <2>1, <2>7, <4>1 DEF InTable
    <3>4. ~Connected(c)' /\ rx'[DestEnd(c)] = <<>>
      BY <1>2, <1>4 DEF Connected
    <3>5. ~Queued(c)'
      BY <1>1, <3>1 DEF Queued
    <3>6. ~Young(c)'
      BY <2>5, <2>7, <3>1
    <3> QED
      BY <2>7, <3>2, <3>3, <3>4, <3>5, <3>6 DEF EndsTogether
  <2>8. CASE d # c
    <3>1. SamePeer(ClientEnd(d)) /\ SamePeer(DestEnd(d)) /\ rx'[DestEnd(d)] = rx[DestEnd(d)]
      BY <1>4, <2>8 DEF SamePeer
    <3> QED
      BY <1>1, <2>3, <2>5, <2>6, <3>1, EndsFrame DEF PeersInv, Queued
  <2> QED
    BY <2>7, <2>8
<1> QED
  BY <1>5 DEF PeersInv

\* What is sent changes the far side from one that is there to one that is.
LEMMA SendPeers ==
    ASSUME KernelTypes, NEW e \in Endpoints, NEW b, SendBlock(e, b)
    PROVE  /\ \A d \in Endpoints : SamePeer(d)
           /\ UNCHANGED <<fdTable, rx>>
BY DEF KernelTypes, SendBlock, CanSend, SamePeer, Up, PeerStates

\* threadLoop and handleRequest keep the two ends together.
LEMMA WorkerPeers ==
    ASSUME TypeOK, OwnInv, PeersInv, NEW w \in Workers, Worker(w)
    PROVE  PeersInv'
<1> USE DEF TypeOK, OwnInv, KernelTypes
<1>1. CASE WorkerBeforeServer(w) \/ KilledBySend(w) \/ KilledByEncrypt(w)
  BY <1>1, DiesPeers DEF WorkerBeforeServer, KilledBySend, KilledByEncrypt
<1>2. CASE Take(w)
  <2>1. /\ UNCHANGED <<fdTable, peer, rx, listenQ, newSocket, socketsToStart, pathFd>>
        /\ conversations # <<>> /\ conversations' = Tail(conversations)
        /\ \A v \in Workers : wconv'[v] = IF v = w THEN Head(conversations) ELSE wconv[v]
    BY <1>2 DEF Take, sockets, pathVars, WorkerTypes
  <2>2. /\ Head(conversations) = conversations[1] /\ 1 \in DOMAIN conversations
        /\ \A i \in DOMAIN conversations' :
              /\ conversations'[i] = conversations[i + 1]
              /\ i + 1 \in DOMAIN conversations
    BY <2>1, PopConversation
  <2>3. ASSUME NEW c \in Clients PROVE Held(c)' => Held(c)
    BY <2>1, <2>2 DEF Held
  <2> QED
    BY <2>1, <2>3, EndsFrame DEF PeersInv, SamePeer, Queued, InTable, Young
<1>3. CASE Poll(w)
  BY <1>3, EndsStay DEF Poll, sockets, pathVars, SamePeer
<1>4. CASE ReadClient(w) \/ ReadDest(w)
  <2>1. /\ UNCHANGED <<fdTable, peer, listenQ, newSocket, socketsToStart, pathFd,
                       conversations, wconv>>
        /\ \A e \in Endpoints : rx'[e] \in {rx[e], Rest(rx[e])}
    BY <1>4 DEF ReadClient, ReadDest, pathVars
  <2>2. ASSUME NEW c \in Clients PROVE rx'[DestEnd(c)] # <<>> => rx[DestEnd(c)] # <<>>
    BY <2>1 DEF Rest
  <2> QED
    BY <2>1, <2>2, EndsStay DEF SamePeer
<1>5. CASE SendToClient(w) \/ SendToDest(w)
  <2>1. wpc[w] # "idle"
    BY <1>5 DEF SendToClient, SendToDest
  <2>2. PICK e \in Endpoints : \E b : SendBlock(e, b)
    BY <1>5, <2>1, WorkerEnds DEF SendToClient, SendToDest
  <2>3. UNCHANGED <<listenQ, newSocket, socketsToStart, pathFd, conversations, wconv>>
    BY <1>5 DEF SendToClient, SendToDest, pathVars
  <2>4. /\ \A d \in Endpoints : SamePeer(d)
        /\ UNCHANGED <<fdTable, rx>>
    BY <2>2, SendPeers
  <2> QED
    BY <2>3, <2>4, EndsStay
<1>6. CASE DropConversation(w)
  BY <1>6, DropPeers
<1>7. CASE Requeue(w)
  <2>1. /\ UNCHANGED <<fdTable, peer, rx, listenQ, newSocket, socketsToStart, pathFd>>
        /\ wconv[w] \in Conversations /\ wconv[w] # None
        /\ conversations' = Append(conversations, wconv[w])
        /\ \A v \in Workers : wconv'[v] = IF v = w THEN None ELSE wconv[v]
    BY <1>7 DEF Requeue, sockets, pathVars, WorkerTypes
  <2>2. \A i \in DOMAIN conversations' :
            \/ conversations'[i] = wconv[w]
            \/ i \in DOMAIN conversations /\ conversations'[i] = conversations[i]
    BY <2>1 DEF QueueTypes
  <2>3. ASSUME NEW c \in Clients PROVE Held(c)' => Held(c)
    BY <2>1, <2>2 DEF Held
  <2> QED
    BY <2>1, <2>3, EndsFrame DEF PeersInv, SamePeer, Queued, InTable, Young
<1> QED
  BY <1>1, <1>2, <1>3, <1>4, <1>5, <1>6, <1>7 DEF Worker

\* shutdown() ends connections but closes none.
LEMMA MainPeers == TypeOK /\ OwnInv /\ PeersInv /\ MainThread => PeersInv'
<1> SUFFICES ASSUME TypeOK, OwnInv, PeersInv, MainThread PROVE PeersInv'
  OBVIOUS
<1> USE DEF TypeOK, KernelTypes
<1>1. CASE SetServer \/ Quit \/ ShutdownDone
  BY <1>1, EndsStay
     DEF SetServer, Quit, ShutdownDone, sockets, pathVars, workerVars, SamePeer
<1>2. CASE ShutdownClient \/ ShutdownDest
  <2>1. PICK f : ShutBothWays(f)
    BY <1>2 DEF ShutdownClient, ShutdownDest
  <2>2. \A e \in Endpoints : SamePeer(e)
    BY <2>1 DEF ShutBothWays, SamePeer, Up, PeerStates
  <2>3. UNCHANGED <<fdTable, rx, listenQ, newSocket, socketsToStart, pathFd,
                    conversations, wconv>>
    BY <1>2, <2>1 DEF ShutdownClient, ShutdownDest, ShutBothWays, pathVars, workerVars
  <2> QED
    BY <2>2, <2>3, EndsStay
<1>3. CASE ShutdownPop
  <2>1. /\ UNCHANGED <<fdTable, peer, rx, listenQ, newSocket, socketsToStart, pathFd, wconv>>
        /\ conversations # <<>> /\ conversations' = Tail(conversations)
    BY <1>3 DEF ShutdownPop, sockets, pathVars, workerVars
  <2>2. \A i \in DOMAIN conversations' :
            /\ conversations'[i] = conversations[i + 1]
            /\ i + 1 \in DOMAIN conversations
    BY <2>1, PopConversation
  <2>3. ASSUME NEW c \in Clients PROVE Held(c)' => Held(c)
    BY <2>1, <2>2 DEF Held
  <2> QED
    BY <2>1, <2>3, EndsFrame DEF PeersInv, SamePeer, Queued, InTable, Young
<1>4. CASE ShutdownRace \/ Exit
  BY <1>4, DiesPeers DEF ShutdownRace, Exit
<1> QED
  BY <1>1, <1>2, <1>3, <1>4 DEF MainThread

\* Every step keeps the two ends of every circuit together.
LEMMA NextPeers == TypeOK /\ OwnInv /\ PeersInv /\ [Next]_vars => PeersInv'
<1> SUFFICES ASSUME TypeOK, OwnInv, PeersInv, [Next]_vars PROVE PeersInv'
  OBVIOUS
<1>1. CASE UNCHANGED vars
  BY <1>1, EndsStay DEF vars, sockets, pathVars, workerVars, SamePeer
<1> QED
  BY <1>1, EnvironmentPeers, AcceptPeers, PathPeers, WorkerPeers, MainPeers DEF Next

------------------------------------------------------------------------------
(* PipeInv is inductive: what a worker holds.                              *)

\* One block at most is taken from a socket, and it leaves the rest.
LEMMA OneTaken ==
    ASSUME NEW q \in Seq(Blocks)
    PROVE  Len(Oldest(q)) <= 1 /\ Oldest(q) \in Seq(Blocks) /\ (q = <<>> => Oldest(q) = <<>>)
BY HeadTailProperties DEF Oldest

\* Only a worker's own steps change what it holds and where it stands.
LEMMA HandFrame ==
    ASSUME TypeOK, HandInv, NEW w \in Workers,
           \A v \in Workers \ {w} : /\ toDecrypt'[v] = toDecrypt[v]
                                    /\ toEncrypt'[v] = toEncrypt[v] /\ wpc'[v] = wpc[v],
           Len(toDecrypt'[w]) <= 1 /\ Len(toEncrypt'[w]) <= 1,
           wpc'[w] \notin {"readDest", "sendClient", "sendDest"} => toDecrypt'[w] = <<>>,
           wpc'[w] # "sendClient" => toEncrypt'[w] = <<>>
    PROVE  HandInv'
<1> SUFFICES ASSUME NEW v \in Workers
             PROVE  /\ Len(toDecrypt'[v]) <= 1 /\ Len(toEncrypt'[v]) <= 1
                    /\ wpc'[v] \notin {"readDest", "sendClient", "sendDest"}
                          => toDecrypt'[v] = <<>>
                    /\ wpc'[v] # "sendClient" => toEncrypt'[v] = <<>>
  BY DEF HandInv
<1>1. CASE v = w
  BY <1>1
<1>2. CASE v # w
  BY <1>2 DEF HandInv
<1> QED
  BY <1>1, <1>2

\* Each step of a worker leaves it with the blocks its position says.
LEMMA WorkerHand ==
    ASSUME TypeOK, EndsMatch, HandInv, NEW w \in Workers, Worker(w)
    PROVE  HandInv'
<1> USE DEF TypeOK, WorkerTypes
<1>0. /\ Len(toDecrypt[w]) <= 1 /\ Len(toEncrypt[w]) <= 1
      /\ wpc[w] \notin {"readDest", "sendClient", "sendDest"} => toDecrypt[w] = <<>>
      /\ wpc[w] # "sendClient" => toEncrypt[w] = <<>>
  BY DEF HandInv
<1>1. CASE WorkerBeforeServer(w) \/ KilledBySend(w) \/ KilledByEncrypt(w)
  BY <1>1 DEF WorkerBeforeServer, KilledBySend, KilledByEncrypt, Dies, workerVars, HandInv
<1>2. CASE Take(w) \/ Poll(w) \/ Requeue(w)
  <2>1. /\ UNCHANGED <<toDecrypt, toEncrypt>>
        /\ wpc[w] \notin {"readDest", "sendClient", "sendDest"}
        /\ wpc'[w] \notin {"readDest", "sendClient", "sendDest"}
        /\ \A v \in Workers \ {w} : wpc'[v] = wpc[v]
    BY <1>2 DEF Take, Poll, Requeue
  <2> QED
    BY <1>0, <2>1, HandFrame
<1>3. CASE ReadClient(w)
  <2>1. DecEnd(w) \in Endpoints
    BY <1>3, WorkerEnds DEF ReadClient
  <2>2. rx[DecEnd(w)] \in Seq(Blocks)
    BY <2>1 DEF KernelTypes
  <2>3. /\ toDecrypt' = [toDecrypt EXCEPT ![w] = Oldest(rx[DecEnd(w)])]
        /\ wpc' = [wpc EXCEPT ![w] = "readDest"] /\ wpc[w] = "readClient"
        /\ UNCHANGED toEncrypt
    BY <1>3 DEF ReadClient
  <2>4. Len(Oldest(rx[DecEnd(w)])) <= 1
    BY <2>2, OneTaken
  <2>5. toDecrypt'[w] = Oldest(rx[DecEnd(w)]) /\ wpc'[w] = "readDest"
    BY <2>3
  <2> QED
    BY <1>0, <2>3, <2>4, <2>5, HandFrame
<1>4. CASE ReadDest(w)
  <2>1. EncEnd(w) \in Endpoints
    BY <1>4, WorkerEnds DEF ReadDest
  <2>2. rx[EncEnd(w)] \in Seq(Blocks)
    BY <2>1 DEF KernelTypes
  <2>3. /\ toEncrypt' = [toEncrypt EXCEPT ![w] = Oldest(rx[EncEnd(w)])]
        /\ wpc' = [wpc EXCEPT ![w] = IF rx[EncEnd(w)] # <<>> THEN "sendClient"
                                     ELSE IF toDecrypt[w] # <<>> THEN "sendDest"
                                     ELSE "requeue"]
        /\ UNCHANGED toDecrypt
    BY <1>4 DEF ReadDest
  <2>4. /\ Len(Oldest(rx[EncEnd(w)])) <= 1
        /\ rx[EncEnd(w)] = <<>> => Oldest(rx[EncEnd(w)]) = <<>>
    BY <2>2, OneTaken
  <2>5. /\ toEncrypt'[w] = Oldest(rx[EncEnd(w)])
        /\ wpc'[w] = "sendClient" \/ rx[EncEnd(w)] = <<>>
        /\ wpc'[w] \in {"sendClient", "sendDest"} \/ toDecrypt[w] = <<>>
    BY <2>3
  <2> QED
    BY <1>0, <2>3, <2>4, <2>5, HandFrame
<1>5. CASE SendToClient(w)
  <2>1. /\ UNCHANGED toDecrypt /\ toEncrypt' = [toEncrypt EXCEPT ![w] = <<>>]
        /\ wpc' = [wpc EXCEPT ![w] = IF toDecrypt[w] # <<>> THEN "sendDest" ELSE "requeue"]
    BY <1>5 DEF SendToClient
  <2> QED
    BY <1>0, <2>1, HandFrame
<1>6. CASE SendToDest(w)
  <2>1. /\ UNCHANGED toEncrypt /\ toDecrypt' = [toDecrypt EXCEPT ![w] = <<>>]
        /\ wpc' = [wpc EXCEPT ![w] = "requeue"] /\ wpc[w] = "sendDest"
    BY <1>6 DEF SendToDest
  <2> QED
    BY <1>0, <2>1, HandFrame
<1>7. CASE DropConversation(w)
  <2>1. /\ toDecrypt' = [toDecrypt EXCEPT ![w] = <<>>]
        /\ toEncrypt' = [toEncrypt EXCEPT ![w] = <<>>]
        /\ wpc' = [wpc EXCEPT ![w] = "idle"]
    BY <1>7 DEF DropConversation
  <2> QED
    BY <2>1, HandFrame
<1> QED
  BY <1>1, <1>2, <1>3, <1>4, <1>5, <1>6, <1>7 DEF Worker

\* No other thread touches what a worker holds.
LEMMA NextHand == TypeOK /\ EndsMatch /\ HandInv /\ [Next]_vars => HandInv'
<1> SUFFICES ASSUME TypeOK, EndsMatch, HandInv, [Next]_vars PROVE HandInv'
  OBVIOUS
<1>1. ASSUME NEW w \in Workers, Worker(w) PROVE HandInv'
  BY <1>1, WorkerHand
<1>2. UNCHANGED workerVars => HandInv'
  BY DEF HandInv, workerVars
<1>3. Environment => UNCHANGED workerVars
  BY DEF Environment, Connect, PeerWrites, PeerReads, PeerCloses, ResetArrives, workerVars
<1>4. AcceptThread => UNCHANGED workerVars
  BY DEF AcceptThread, Accept, AcceptFails, QueueNewSocket, Dies, workerVars
<1>5. PathThread => UNCHANGED workerVars
  BY DEF PathThread, PathTake, PathPutBack, PathMalformed, PathNoSocket, PathBadAddress,
         PathSocket, PathConnected, PathConnectFails, GiveUpPath, Dies, workerVars
<1>6. MainThread => UNCHANGED workerVars
  BY DEF MainThread, SetServer, Quit, ShutdownClient, ShutdownDest, ShutdownPop,
         ShutdownRace, ShutdownDone, Exit, Dies, workerVars
<1> QED
  BY <1>1, <1>2, <1>3, <1>4, <1>5, <1>6 DEF Next, vars

\* No circuit exists when the process starts.
LEMMA InitPipeInv == Init => PipeInv
<1> SUFFICES ASSUME Init PROVE PipeInv
  OBVIOUS
<1>1. HandInv
  BY DEF Init, HandInv
<1>2. ASSUME NEW c \in Clients PROVE EndsTogether(c)
  <2>1. ~Queued(c) /\ ~Held(c) /\ ~Connected(c) /\ rx[DestEnd(c)] = <<>>
    BY DEF Init, Queued, Held, Connected
  <2>2. ~InTable(ClientEnd(c)) /\ peer[DestEnd(c)] = "absent"
    BY NoneAssumption DEF Init, InTable
  <2> QED
    BY <2>1, <2>2 DEF EndsTogether
<1> QED
  BY <1>1, <1>2 DEF PipeInv, PeersInv

\* In every reachable state of a relay of any size, a circuit that is queued or
\* in a worker's hands has both its ends, a young one has no next hop, and a
\* worker holds one block of each direction at most (Server.cpp:206-379).
THEOREM PipeInvariant == Spec => []PipeInv
<1>1. IInv /\ PipeInv /\ [Next]_vars => PipeInv'
  BY NextPeers, NextHand DEF IInv, OwnInv, PipeInv
<1> QED
  BY <1>1, InitPipeInv, Inductive, PTL DEF Spec

------------------------------------------------------------------------------
(* The abstract steps, in terms of the state of each circuit.              *)

ToFwd(c) == InHand(c, toDecrypt) \o rx[ClientEnd(c)]
Fwd(c) == [i \in DOMAIN tx[DestEnd(c)] |-> tx[DestEnd(c)][i].blk]
ToBack(c) == InHand(c, toEncrypt) \o rx[DestEnd(c)]
Back(c) == tx[ClientEnd(c)]

Pipes(c) == <<LinkOf(c), ToFwd(c), Fwd(c), ToBack(c), Back(c)>>

\* A step that changes no circuit is none of RelayPipe.
LEMMA StutterStep ==
    ASSUME \A c \in Clients : UNCHANGED Pipes(c), UNCHANGED sent
    PROVE  UNCHANGED Pipe!pipeVars
BY DEF Pipes, ToFwd, Fwd, ToBack, Back, Pipe!pipeVars

\* One circuit changes, and no other: each step of RelayPipe in turn.
OnlyCircuit(c) == \A d \in Clients \ {c} : UNCHANGED Pipes(d)

\* A block of the client's joins the pipe forwards.
LEMMA ClientWritesStep ==
    ASSUME NEW c \in Clients, OnlyCircuit(c), LinkOf(c) # "cut",
           ToFwd(c)' = Append(ToFwd(c), [from |-> ClientEnd(c), n |-> sent[ClientEnd(c)] + 1]),
           sent' = [sent EXCEPT ![ClientEnd(c)] = @ + 1],
           UNCHANGED <<LinkOf(c), Fwd(c), ToBack(c), Back(c)>>
    PROVE  Pipe!Next
<1>1. Pipe!ClientWrites(c)
  BY DEF OnlyCircuit, Pipes, ToFwd, Fwd, ToBack, Back, Pipe!ClientWrites, Pipe!NextBlock
<1> QED
  BY <1>1 DEF Pipe!Next

\* A block of the next hop's joins the pipe back.
LEMMA NextHopWritesStep ==
    ASSUME NEW c \in Clients, OnlyCircuit(c), LinkOf(c) = "open",
           ToBack(c)' = Append(ToBack(c), [from |-> DestEnd(c), n |-> sent[DestEnd(c)] + 1]),
           sent' = [sent EXCEPT ![DestEnd(c)] = @ + 1],
           UNCHANGED <<LinkOf(c), ToFwd(c), Fwd(c), Back(c)>>
    PROVE  Pipe!Next
<1>1. Pipe!NextHopWrites(c)
  BY DEF OnlyCircuit, Pipes, ToFwd, Fwd, ToBack, Back, Pipe!NextHopWrites, Pipe!NextBlock
<1> QED
  BY <1>1 DEF Pipe!Next

\* The first block is taken by the relay itself.
LEMMA SetupStep ==
    ASSUME NEW c \in Clients, OnlyCircuit(c), UNCHANGED sent,
           LinkOf(c) = "none", ToFwd(c) # <<>>,
           LinkOf(c)' = "building", ToFwd(c)' = Tail(ToFwd(c)),
           UNCHANGED <<Fwd(c), ToBack(c), Back(c)>>
    PROVE  Pipe!Next
<1>1. Pipe!Setup(c)
  BY DEF OnlyCircuit, Pipes, ToFwd, Fwd, ToBack, Back, Pipe!Setup
<1> QED
  BY <1>1 DEF Pipe!Next

\* The next hop is connected.
LEMMA EstablishedStep ==
    ASSUME NEW c \in Clients, OnlyCircuit(c), UNCHANGED sent,
           LinkOf(c) = "building", LinkOf(c)' = "open",
           UNCHANGED <<ToFwd(c), Fwd(c), ToBack(c), Back(c)>>
    PROVE  Pipe!Next
<1>1. Pipe!Established(c)
  BY DEF OnlyCircuit, Pipes, ToFwd, Fwd, ToBack, Back, Pipe!Established
<1> QED
  BY <1>1 DEF Pipe!Next

\* The first block of the pipe forwards comes out of it.
LEMMA ForwardStep ==
    ASSUME NEW c \in Clients, OnlyCircuit(c), UNCHANGED sent,
           LinkOf(c) = "open", ToFwd(c) # <<>>,
           Fwd(c)' = Append(Fwd(c), Head(ToFwd(c))), ToFwd(c)' = Tail(ToFwd(c)),
           UNCHANGED <<LinkOf(c), ToBack(c), Back(c)>>
    PROVE  Pipe!Next
<1>1. Pipe!Forward(c)
  BY ZenonT(40) DEF OnlyCircuit, Pipes, ToFwd, Fwd, ToBack, Back, Pipe!Forward
<1> QED
  BY <1>1 DEF Pipe!Next

\* The first block of the pipe back comes out of it, under the client's key.
LEMMA ReplyStep ==
    ASSUME NEW c \in Clients, OnlyCircuit(c), UNCHANGED sent,
           LinkOf(c) = "open", ToBack(c) # <<>>,
           Back(c)' = Append(Back(c), [blk |-> Head(ToBack(c)), key |-> c]),
           ToBack(c)' = Tail(ToBack(c)),
           UNCHANGED <<LinkOf(c), ToFwd(c), Fwd(c)>>
    PROVE  Pipe!Next
<1>1. Pipe!Reply(c)
  BY DEF OnlyCircuit, Pipes, ToFwd, Fwd, ToBack, Back, Pipe!Reply
<1> QED
  BY <1>1 DEF Pipe!Next

\* Both pipes are emptied, for good.
LEMMA CutStep ==
    ASSUME NEW c \in Clients, OnlyCircuit(c), UNCHANGED sent,
           LinkOf(c) # "cut", LinkOf(c)' = "cut", ToFwd(c)' = <<>>, ToBack(c)' = <<>>,
           UNCHANGED <<Fwd(c), Back(c)>>
    PROVE  Pipe!Next
<1>1. Pipe!Cut(c)
  BY DEF OnlyCircuit, Pipes, ToFwd, Fwd, ToBack, Back, Pipe!Cut
<1> QED
  BY <1>1 DEF Pipe!Next

------------------------------------------------------------------------------
(* What a step does to one circuit.                                        *)

\* One worker at most holds a circuit, so that what it holds is well defined.
LEMMA HolderIs ==
    ASSUME NEW conv, NEW hand, NEW c,
           \A v, w \in Workers :
               conv[v] # None /\ conv[w] # None /\ conv[v].rsa = conv[w].rsa => v = w,
           NEW u \in Workers, conv[u] # None, conv[u].rsa = c
    PROVE  (CHOOSE w \in Workers : conv[w] # None /\ conv[w].rsa = c) = u
OBVIOUS

\* So it is for what the workers hold now ...
LEMMA InHandIs ==
    ASSUME Apart, NEW w \in Workers, wconv[w] # None, NEW c, wconv[w].rsa = c
    PROVE  InHand(c, toDecrypt) = toDecrypt[w] /\ InHand(c, toEncrypt) = toEncrypt[w]
<1>1. \A v, u \in Workers :
         wconv[v] # None /\ wconv[u] # None /\ wconv[v].rsa = wconv[u].rsa => v = u
  BY DEF Apart
<1>2. (CHOOSE u \in Workers : wconv[u] # None /\ wconv[u].rsa = c) = w
  BY <1>1, HolderIs
<1> QED
  BY <1>2 DEF InHand

\* ... and for what they hold after a step.
LEMMA InHandIsNext ==
    ASSUME Apart', NEW w \in Workers, wconv'[w] # None, NEW c, wconv'[w].rsa = c
    PROVE  /\ InHand(c, toDecrypt)' = toDecrypt'[w]
           /\ InHand(c, toEncrypt)' = toEncrypt'[w]
<1>1. \A v, u \in Workers :
         wconv'[v] # None /\ wconv'[u] # None /\ wconv'[v].rsa = wconv'[u].rsa => v = u
  BY DEF Apart
<1>2. (CHOOSE u \in Workers : wconv'[u] # None /\ wconv'[u].rsa = c) = w
  BY <1>1, HolderIs
<1> QED
  BY <1>2 DEF InHand

Holds(w, c) == wconv[w] # None /\ wconv[w].rsa = c

\* A circuit no worker holds has nothing in hand.
LEMMA InNoHand ==
    ASSUME NEW c, \A w \in Workers : ~Holds(w, c)
    PROVE  InHand(c, toDecrypt) = <<>> /\ InHand(c, toEncrypt) = <<>>
BY DEF InHand, Holds

\* The same after a step.
LEMMA InNoHandNext ==
    ASSUME NEW c, \A w \in Workers : ~Holds(w, c)'
    PROVE  InHand(c, toDecrypt)' = <<>> /\ InHand(c, toEncrypt)' = <<>>
BY DEF InHand, Holds

\* What a worker goes on holding stays in hand.
LEMMA HandsStay ==
    ASSUME Apart, Apart', NEW c,
           \A w \in Workers : Holds(w, c)' <=> Holds(w, c),
           \A w \in Workers :
               Holds(w, c) => toDecrypt'[w] = toDecrypt[w] /\ toEncrypt'[w] = toEncrypt[w]
    PROVE  UNCHANGED <<InHand(c, toDecrypt), InHand(c, toEncrypt)>>
<1>1. CASE \E w \in Workers : Holds(w, c)
  <2>1. PICK w \in Workers : Holds(w, c) /\ Holds(w, c)'
    BY <1>1
  <2> QED
    BY <2>1, InHandIs, InHandIsNext DEF Holds
<1>2. CASE \A w \in Workers : ~Holds(w, c)
  BY <1>2, InNoHand, InNoHandNext
<1> QED
  BY <1>1, <1>2

Building(c) == pathPc = "connect" /\ fdTable[pathFd] = ClientEnd(c)

\* The phase of a circuit is read off these three facts.
LEMMA LinkStays ==
    ASSUME NEW c \in Clients, Building(c)' <=> Building(c),
           peer'[ClientEnd(c)] = "gone" <=> peer[ClientEnd(c)] = "gone",
           peer'[DestEnd(c)] = "absent" <=> peer[DestEnd(c)] = "absent"
    PROVE  UNCHANGED LinkOf(c)
BY DEF LinkOf, Building

\* A circuit whose sockets and whose worker a step leaves alone is unchanged.
LEMMA CircuitStays ==
    ASSUME Apart, Apart', NEW c \in Clients, UNCHANGED LinkOf(c),
           \A e \in {ClientEnd(c), DestEnd(c)} : rx'[e] = rx[e] /\ tx'[e] = tx[e],
           \A w \in Workers : Holds(w, c)' <=> Holds(w, c),
           \A w \in Workers :
               Holds(w, c) => toDecrypt'[w] = toDecrypt[w] /\ toEncrypt'[w] = toEncrypt[w]
    PROVE  UNCHANGED Pipes(c)
<1>1. UNCHANGED <<InHand(c, toDecrypt), InHand(c, toEncrypt)>>
  BY HandsStay
<1> QED
  BY <1>1 DEF Pipes, ToFwd, Fwd, ToBack, Back

\* A circuit with its hop connected is open.
LEMMA ConnectedIsOpen ==
    ASSUME TypeOK, PeersInv, NEW c \in Clients, Connected(c)
    PROVE  LinkOf(c) = "open"
<1>1. peer[ClientEnd(c)] # "gone" /\ peer[DestEnd(c)] # "absent" /\ ~Young(c)
  BY DEF PeersInv, EndsTogether, Connected
<1>2. ~Building(c)
  BY <1>1 DEF Young, Building, TypeOK, PathTypes
<1> QED
  BY <1>1, <1>2 DEF LinkOf, Building

\* What is in hand is a sequence of blocks.
LEMMA InHandType ==
    ASSUME TypeOK, Apart, NEW c
    PROVE  InHand(c, toDecrypt) \in Seq(Blocks) /\ InHand(c, toEncrypt) \in Seq(Blocks)
<1>1. CASE \E w \in Workers : Holds(w, c)
  <2>1. PICK w \in Workers : Holds(w, c)
    BY <1>1
  <2> QED
    BY <2>1, InHandIs DEF Holds, TypeOK, WorkerTypes
<1>2. CASE \A w \in Workers : ~Holds(w, c)
  <2>1. <<>> \in Seq(Blocks)
    OBVIOUS
  <2>2. InHand(c, toDecrypt) = <<>> /\ InHand(c, toEncrypt) = <<>>
    BY <1>2, InNoHand
  <2> QED
    BY <2>1, <2>2, Zenon
<1> QED
  BY <1>1, <1>2

------------------------------------------------------------------------------
(* Every step of the relay is one of RelayPipe, or none.                   *)

Mapped == Pipe!Next \/ UNCHANGED Pipe!pipeVars

\* Steps that move no block and change no phase.
LEMMA QuietStep ==
    ASSUME Apart, Apart', UNCHANGED <<rx, tx, sent>>,
           \A w \in Workers, c \in Clients :
               /\ Holds(w, c)' <=> Holds(w, c)
               /\ Holds(w, c) => toDecrypt'[w] = toDecrypt[w] /\ toEncrypt'[w] = toEncrypt[w],
           \A c \in Clients : /\ Building(c)' <=> Building(c)
                              /\ peer'[ClientEnd(c)] = "gone" <=> peer[ClientEnd(c)] = "gone"
                              /\ peer'[DestEnd(c)] = "absent" <=> peer[DestEnd(c)] = "absent"
    PROVE  Mapped
<1>1. ASSUME NEW c \in Clients PROVE UNCHANGED Pipes(c)
  <2>1. UNCHANGED LinkOf(c)
    BY LinkStays
  <2> QED
    BY <2>1, CircuitStays
<1> QED
  BY <1>1, StutterStep DEF Mapped

\* The same, where the workers and the path thread stand still.
LEMMA StillStep ==
    ASSUME Apart, Apart', UNCHANGED <<rx, tx, sent, wconv, toDecrypt, toEncrypt>>,
           UNCHANGED <<pathPc, pathFd, fdTable>>, \A e \in Endpoints : SamePeer(e)
    PROVE  Mapped
<1>1. ASSUME NEW w \in Workers, NEW c \in Clients
      PROVE  /\ Holds(w, c)' <=> Holds(w, c)
             /\ toDecrypt'[w] = toDecrypt[w] /\ toEncrypt'[w] = toEncrypt[w]
  BY DEF Holds
<1>2. ASSUME NEW c \in Clients
      PROVE  /\ Building(c)' <=> Building(c)
             /\ peer'[ClientEnd(c)] = "gone" <=> peer[ClientEnd(c)] = "gone"
             /\ peer'[DestEnd(c)] = "absent" <=> peer[DestEnd(c)] = "absent"
  BY DEF Building, SamePeer, Up
<1> QED
  BY <1>1, <1>2, QuietStep

\* A block written joins the end of its pipe.
LEMMA JoinsEnd ==
    ASSUME NEW S, NEW p \in Seq(S), NEW q \in Seq(S), NEW b \in S
    PROVE  p \o Append(q, b) = Append(p \o q, b)
OBVIOUS

\* A peer's block joins the end of the pipe it belongs to.
LEMMA PeerWritesMapped ==
    ASSUME TypeOK, OwnInv, OwnInv', PeersInv, NEW e \in Endpoints, PeerWrites(e)
    PROVE  Mapped
<1> USE DEF TypeOK, OwnInv, KernelTypes
<1> DEFINE b == [from |-> e, n |-> sent[e] + 1]
<1>1. /\ UNCHANGED <<fdTable, peer, tx, pathPc, pathFd, wconv, toDecrypt, toEncrypt>>
      /\ sent' = [sent EXCEPT ![e] = @ + 1]
      /\ rx' = [rx EXCEPT ![e] = Append(@, b)]
      /\ peer[e] = "open"
  BY DEF PeerWrites, pathVars, workerVars
<1>2. b \in Blocks
  BY SizesAssumption DEF SentTypes, PeerWrites, Blocks, WriteBound
<1> HIDE DEF b
<1>3. ASSUME NEW d \in Clients
      PROVE  /\ UNCHANGED LinkOf(d)
             /\ UNCHANGED <<InHand(d, toDecrypt), InHand(d, toEncrypt)>>
             /\ \A w \in Workers : Holds(w, d)' <=> Holds(w, d)
  <2>1. \A w \in Workers : Holds(w, d)' <=> Holds(w, d)
    BY <1>1 DEF Holds
  <2>2. Building(d)' <=> Building(d)
    BY <1>1 DEF Building
  <2> QED
    BY <1>1, <2>1, <2>2, LinkStays, HandsStay
<1>4. ASSUME NEW d \in Clients, e \notin {ClientEnd(d), DestEnd(d)} PROVE UNCHANGED Pipes(d)
  <2>1. \A u \in {ClientEnd(d), DestEnd(d)} : rx'[u] = rx[u] /\ tx'[u] = tx[u]
    BY <1>1, <1>4
  <2> QED
    BY <1>1, <1>3, <2>1, CircuitStays
<1>5. ASSUME NEW c \in Clients
      PROVE  InHand(c, toDecrypt) \in Seq(Blocks) /\ InHand(c, toEncrypt) \in Seq(Blocks)
  BY InHandType
<1>6. ASSUME NEW c \in Clients, e = ClientEnd(c) PROVE Mapped
  <2>1. OnlyCircuit(c)
    BY <1>4, <1>6 DEF OnlyCircuit
  <2>2. LinkOf(c) # "cut"
    BY <1>1, <1>6 DEF LinkOf
  <2>3. ToFwd(c)' = Append(ToFwd(c), b)
    <3>1. rx'[e] = Append(rx[e], b) /\ rx[e] \in Seq(Blocks)
      BY <1>1
    <3>2. InHand(c, toDecrypt) \o Append(rx[e], b) = Append(InHand(c, toDecrypt) \o rx[e], b)
      <4>1. InHand(c, toDecrypt) \in Seq(Blocks)
        BY <1>5
      <4>2. rx[e] \in Seq(Blocks)
        BY <3>1
      <4> QED
        BY ONLY <1>2, <4>1, <4>2, JoinsEnd
    <3> QED
      BY <1>3, <1>6, <3>1, <3>2 DEF ToFwd
  <2>4. UNCHANGED <<LinkOf(c), Fwd(c), ToBack(c), Back(c)>>
    <3>1. rx'[DestEnd(c)] = rx[DestEnd(c)]
      BY <1>1, <1>6
    <3> QED
      BY <1>1, <1>3, <3>1 DEF Fwd, ToBack, Back
  <2> QED
    BY <1>1, <1>6, <2>1, <2>2, <2>3, <2>4, ClientWritesStep DEF Mapped, b
<1>7. ASSUME NEW c \in Clients, e = DestEnd(c) PROVE Mapped
  <2>1. OnlyCircuit(c)
    BY <1>4, <1>7 DEF OnlyCircuit
  <2>2. LinkOf(c) = "open"
    BY <1>1, <1>7, ConnectedIsOpen DEF Connected
  <2>3. ToBack(c)' = Append(ToBack(c), b)
    <3>1. rx'[e] = Append(rx[e], b) /\ rx[e] \in Seq(Blocks)
      BY <1>1
    <3>2. InHand(c, toEncrypt) \o Append(rx[e], b) = Append(InHand(c, toEncrypt) \o rx[e], b)
      <4>1. InHand(c, toEncrypt) \in Seq(Blocks)
        BY <1>5
      <4>2. rx[e] \in Seq(Blocks)
        BY <3>1
      <4> QED
        BY ONLY <1>2, <4>1, <4>2, JoinsEnd
    <3> QED
      BY <1>3, <1>7, <3>1, <3>2 DEF ToBack
  <2>4. UNCHANGED <<LinkOf(c), ToFwd(c), Fwd(c), Back(c)>>
    <3>1. rx'[ClientEnd(c)] = rx[ClientEnd(c)]
      BY <1>1, <1>7
    <3> QED
      BY <1>1, <1>3, <3>1 DEF Fwd, ToFwd, Back
  <2> QED
    BY <1>1, <1>7, <2>1, <2>2, <2>3, <2>4, NextHopWritesStep DEF Mapped, b
<1> QED
  BY <1>6, <1>7

\* The end of the process moves no block.
LEMMA DiesMapped == Apart /\ Apart' /\ Dies => Mapped
BY StillStep DEF Dies, sockets, pathVars, workerVars, SamePeer

\* Of what the kernel and the peers do, only the writing shows in a pipe.
LEMMA EnvironmentMapped ==
    ASSUME TypeOK, OwnInv, OwnInv', PeersInv, Environment
    PROVE  Mapped
<1> USE DEF TypeOK, OwnInv, KernelTypes
<1>1. ASSUME NEW c \in Clients, Connect(c) PROVE Mapped
  <2>1. /\ UNCHANGED <<fdTable, rx, tx, sent, pathPc, pathFd, wconv, toDecrypt, toEncrypt>>
        /\ peer[ClientEnd(c)] = "absent"
        /\ peer' = [peer EXCEPT ![ClientEnd(c)] = "open"]
    BY <1>1 DEF Connect, pathVars, workerVars
  <2>2. ASSUME NEW w \in Workers, NEW d \in Clients
        PROVE  /\ Holds(w, d)' <=> Holds(w, d)
               /\ toDecrypt'[w] = toDecrypt[w] /\ toEncrypt'[w] = toEncrypt[w]
    BY <2>1 DEF Holds
  <2>3. ASSUME NEW d \in Clients
        PROVE  /\ Building(d)' <=> Building(d)
               /\ peer'[ClientEnd(d)] = "gone" <=> peer[ClientEnd(d)] = "gone"
               /\ peer'[DestEnd(d)] = "absent" <=> peer[DestEnd(d)] = "absent"
    BY <2>1 DEF Building
  <2> QED
    BY <2>1, <2>2, <2>3, QuietStep
<1>2. ASSUME NEW e \in Endpoints, PeerWrites(e) PROVE Mapped
  BY <1>2, PeerWritesMapped
<1>3. ASSUME NEW e \in Endpoints, PeerReads(e) \/ PeerCloses(e) \/ ResetArrives(e)
      PROVE  Mapped
  <2>1. \A d \in Endpoints : SamePeer(d)
    BY <1>3 DEF PeerReads, PeerCloses, ResetArrives, SamePeer, Up, PeerStates
  <2> QED
    BY <1>3, <2>1, StillStep DEF PeerReads, PeerCloses, ResetArrives, pathVars, workerVars
<1> QED
  BY <1>1, <1>2, <1>3 DEF Environment

\* Nor does the accept loop.
LEMMA AcceptMapped ==
    ASSUME TypeOK, OwnInv, OwnInv', PeersInv, AcceptThread
    PROVE  Mapped
<1> USE DEF TypeOK, OwnInv, KernelTypes
<1>1. ASSUME NEW f \in Fds, Accept(f) PROVE Mapped
  <2>1. /\ UNCHANGED <<peer, rx, tx, sent, pathPc, pathFd, wconv, toDecrypt, toEncrypt>>
        /\ fdTable[f] = None /\ \A g \in Fds \ {f} : fdTable'[g] = fdTable[g]
    BY <1>1 DEF Accept, LowestFree, pathVars, workerVars
  <2>2. ASSUME NEW w \in Workers, NEW d \in Clients
        PROVE  /\ Holds(w, d)' <=> Holds(w, d)
               /\ toDecrypt'[w] = toDecrypt[w] /\ toEncrypt'[w] = toEncrypt[w]
    BY <2>1 DEF Holds
  <2>3. pathPc = "connect" => fdTable'[pathFd] = fdTable[pathFd]
    <3>1. SUFFICES ASSUME pathPc = "connect" PROVE fdTable'[pathFd] = fdTable[pathFd]
      OBVIOUS
    <3>2. PICK c \in Clients : pathFd \in Fds /\ fdTable[pathFd] = <<c, "client">>
      BY <3>1, PathClient
    <3>3. <<c, "client">> # None
      BY NoneAssumption
    <3>4. pathFd # f
      BY <2>1, <3>2, <3>3
    <3> QED
      BY <2>1, <3>2, <3>4
  <2>4. ASSUME NEW d \in Clients PROVE Building(d)' <=> Building(d)
    BY <2>1, <2>3 DEF Building
  <2> QED
    BY <2>1, <2>2, <2>4, QuietStep
<1>2. CASE AcceptFails
  BY <1>2, DiesMapped DEF AcceptFails
<1>3. CASE QueueNewSocket
  BY <1>3, StillStep DEF QueueNewSocket, sockets, pathVars, workerVars, SamePeer
<1> QED
  BY <1>1, <1>2, <1>3 DEF AcceptThread

\* shutdown() leaves the blocks where they are.
LEMMA MainMapped ==
    ASSUME TypeOK, OwnInv, OwnInv', PeersInv, MainThread
    PROVE  Mapped
<1> USE DEF TypeOK, OwnInv, KernelTypes
<1>1. CASE SetServer \/ Quit \/ ShutdownDone \/ ShutdownPop
  BY <1>1, StillStep
     DEF SetServer, Quit, ShutdownDone, ShutdownPop, sockets, pathVars, workerVars, SamePeer
<1>2. CASE ShutdownClient \/ ShutdownDest
  <2>1. PICK f : ShutBothWays(f)
    BY <1>2 DEF ShutdownClient, ShutdownDest
  <2>2. \A e \in Endpoints : SamePeer(e)
    BY <2>1 DEF ShutBothWays, SamePeer, Up, PeerStates
  <2> QED
    BY <1>2, <2>1, <2>2, StillStep
       DEF ShutdownClient, ShutdownDest, ShutBothWays, pathVars, workerVars
<1>3. CASE ShutdownRace \/ Exit
  BY <1>3, DiesMapped DEF ShutdownRace, Exit
<1> QED
  BY <1>1, <1>2, <1>3 DEF MainThread

\* Nothing of the path thread's circuit is in a worker's hand.
LEMMA NotHeld ==
    ASSUME NEW c, ~Held(c), UNCHANGED wconv
    PROVE  /\ InHand(c, toDecrypt) = <<>> /\ InHand(c, toEncrypt) = <<>>
           /\ InHand(c, toDecrypt)' = <<>> /\ InHand(c, toEncrypt)' = <<>>
<1>1. \A w \in Workers : ~Holds(w, c) /\ ~Holds(w, c)'
  BY DEF Held, Holds
<1> QED
  BY <1>1, InNoHand, InNoHandNext

\* Hanging up on the client cuts its circuit.
LEMMA HangUpMapped ==
    ASSUME TypeOK, OwnInv, OwnInv', PeersInv, pathPc # "loop", GiveUpPath,
           NEW c \in Clients, pathFd \in Fds, fdTable[pathFd] = ClientEnd(c),
           peer[ClientEnd(c)] # "gone", peer'[ClientEnd(c)] = "gone",
           rx[DestEnd(c)] = <<>>, rx'[DestEnd(c)] = <<>>, rx'[ClientEnd(c)] = <<>>,
           ~Held(c), UNCHANGED <<tx, sent>>,
           \A e \in Endpoints \ {ClientEnd(c), DestEnd(c)} :
               peer'[e] = peer[e] /\ rx'[e] = rx[e]
    PROVE  Mapped
<1> USE DEF TypeOK, OwnInv, KernelTypes
<1>1. UNCHANGED <<wconv, toDecrypt, toEncrypt>> /\ pathPc' = "loop"
  BY DEF GiveUpPath, workerVars
<1>2. OnlyCircuit(c)
  <2> SUFFICES ASSUME NEW d \in Clients, d # c PROVE UNCHANGED Pipes(d)
    BY DEF OnlyCircuit
  <2>1. /\ peer'[ClientEnd(d)] = peer[ClientEnd(d)] /\ rx'[ClientEnd(d)] = rx[ClientEnd(d)]
        /\ peer'[DestEnd(d)] = peer[DestEnd(d)] /\ rx'[DestEnd(d)] = rx[DestEnd(d)]
    OBVIOUS
  <2>2. ~Building(d) /\ ~Building(d)'
    BY <1>1 DEF Building
  <2>3. UNCHANGED LinkOf(d)
    BY <2>1, <2>2, LinkStays
  <2>4. \A w \in Workers : Holds(w, d)' <=> Holds(w, d)
    BY <1>1 DEF Holds
  <2> QED
    BY <1>1, <2>1, <2>3, <2>4, CircuitStays
<1>3. LinkOf(c)' = "cut"
  BY DEF LinkOf
<1>4. LinkOf(c) # "cut"
  BY DEF LinkOf
<1>5. ToFwd(c)' = <<>> /\ ToBack(c)' = <<>>
  BY <1>1, NotHeld DEF ToFwd, ToBack
<1>6. UNCHANGED <<Fwd(c), Back(c)>>
  BY DEF Fwd, Back
<1> QED
  BY <1>2, <1>3, <1>4, <1>5, <1>6, CutStep DEF Mapped

\* createPathThread and buildPath set circuits up, or cut them.
LEMMA PathMapped ==
    ASSUME TypeOK, OwnInv, OwnInv', PeersInv, PathThread
    PROVE  Mapped
<1> USE DEF TypeOK, OwnInv, KernelTypes
<1>1. CASE PathTake \/ PathPutBack
  <2>1. /\ UNCHANGED <<fdTable, peer, rx, tx, sent, wconv, toDecrypt, toEncrypt>>
        /\ pathPc # "connect" /\ pathPc' # "connect"
    BY <1>1 DEF PathTake, PathPutBack, sockets, workerVars
  <2>2. ASSUME NEW w \in Workers, NEW d \in Clients PROVE Holds(w, d)' <=> Holds(w, d)
    BY <2>1 DEF Holds
  <2> QED
    BY <2>1, <2>2, QuietStep DEF Building
<1>2. CASE PathMalformed
  BY <1>2, DiesMapped DEF PathMalformed
<1>3. CASE pathPc # "loop"
  <2>1. PICK c \in Clients :
           /\ pathFd \in Fds /\ fdTable[pathFd] = ClientEnd(c) /\ fdTable[pathFd][1] = c
           /\ peer[DestEnd(c)] = "absent" /\ rx[DestEnd(c)] = <<>>
           /\ peer[ClientEnd(c)] # "gone" /\ ~Held(c)
    BY <1>3, PathIsYoung
  <2>2. CASE PathNoSocket
    <3>1. {fdTable[f] : f \in {pathFd}} = {ClientEnd(c)}
      BY <2>1
    <3>2. /\ peer' = [e \in Endpoints |-> IF e = ClientEnd(c) THEN "gone" ELSE peer[e]]
          /\ rx' = [e \in Endpoints |-> IF e = ClientEnd(c) THEN <<>> ELSE rx[e]]
          /\ UNCHANGED <<tx, sent>>
      BY <2>2, <3>1 DEF PathNoSocket, CloseAll
    <3>3. GiveUpPath
      BY <2>2 DEF PathNoSocket
    <3> QED
      BY <1>3, <2>1, <3>2, <3>3, HangUpMapped
  <2>3. ASSUME NEW f \in Fds, PathBadAddress(f) PROVE Mapped
    <3>1. /\ peer' = [peer EXCEPT ![DestEnd(c)] = "failed", ![ClientEnd(c)] = "gone"]
          /\ rx' = [rx EXCEPT ![ClientEnd(c)] = <<>>]
          /\ UNCHANGED <<tx, sent>> /\ GiveUpPath
      BY <2>1, <2>3 DEF PathBadAddress
    <3> QED
      BY <1>3, <2>1, <3>1, HangUpMapped
  <2>4. CASE PathConnectFails
    <3>1. fdTable[pathOut] = DestEnd(c)
      BY <2>1, <2>4 DEF PathConnectFails, PathTypes, EndsMatch, RefersTo
    <3>2. /\ peer' = [peer EXCEPT ![DestEnd(c)] = "failed", ![ClientEnd(c)] = "gone"]
          /\ rx' = [rx EXCEPT ![ClientEnd(c)] = <<>>]
          /\ UNCHANGED <<tx, sent>> /\ GiveUpPath
      BY <2>1, <2>4, <3>1 DEF PathConnectFails
    <3> QED
      BY <1>3, <2>1, <3>2, HangUpMapped
  <2>5. ASSUME NEW f \in Fds, PathSocket(f) PROVE Mapped
    <3>1. /\ UNCHANGED <<peer, tx, sent, pathFd, wconv, toDecrypt, toEncrypt>>
          /\ fdTable' = [fdTable EXCEPT ![f] = DestEnd(c)] /\ fdTable[f] = None
          /\ rx' = [rx EXCEPT ![ClientEnd(c)] = Tail(@)] /\ rx[ClientEnd(c)] # <<>>
          /\ pathPc = "check" /\ pathPc' = "connect"
      BY <2>1, <2>5 DEF PathSocket, SetupReadable, LowestFree, workerVars
    <3>2. fdTable'[pathFd] = ClientEnd(c)
      <4>1. ClientEnd(c) # None
        BY NoneAssumption
      <4> QED
        BY <2>1, <3>1, <4>1
    <3>3. OnlyCircuit(c)
      <4> SUFFICES ASSUME NEW d \in Clients, d # c PROVE UNCHANGED Pipes(d)
        BY DEF OnlyCircuit
      <4>1. ~Building(d) /\ ~Building(d)'
        BY <3>1, <3>2 DEF Building
      <4>2. UNCHANGED LinkOf(d)
        BY <3>1, <4>1, LinkStays
      <4>3. \A w \in Workers : Holds(w, d)' <=> Holds(w, d)
        BY <3>1 DEF Holds
      <4>4. rx'[ClientEnd(d)] = rx[ClientEnd(d)] /\ rx'[DestEnd(d)] = rx[DestEnd(d)]
        BY <3>1
      <4> QED
        BY <3>1, <4>2, <4>3, <4>4, CircuitStays
    <3>4. LinkOf(c) = "none" /\ LinkOf(c)' = "building"
      BY <2>1, <3>1, <3>2 DEF LinkOf
    <3>5. rx[ClientEnd(c)] \in Seq(Blocks) /\ rx'[ClientEnd(c)] = Tail(rx[ClientEnd(c)])
      BY <3>1
    <3>6. /\ InHand(c, toDecrypt) = <<>> /\ InHand(c, toEncrypt) = <<>>
          /\ InHand(c, toDecrypt)' = <<>> /\ InHand(c, toEncrypt)' = <<>>
      BY <2>1, <3>1, NotHeld
    <3>7. ToFwd(c) = rx[ClientEnd(c)] /\ ToFwd(c)' = rx'[ClientEnd(c)]
      BY <3>1, <3>5, <3>6 DEF ToFwd
    <3>8. UNCHANGED <<Fwd(c), ToBack(c), Back(c)>>
      BY <3>1, <3>6 DEF Fwd, ToBack, Back
    <3> QED
      BY <3>1, <3>3, <3>4, <3>5, <3>7, <3>8, SetupStep DEF Mapped
  <2>6. CASE PathConnected
    <3>1. fdTable[pathOut] = DestEnd(c)
      BY <2>1, <2>6 DEF PathConnected, PathTypes, EndsMatch, RefersTo
    <3>2. /\ UNCHANGED <<fdTable, rx, tx, sent, wconv, toDecrypt, toEncrypt>>
          /\ peer' = [peer EXCEPT ![DestEnd(c)] = "open"]
          /\ pathPc = "connect" /\ pathPc' = "loop"
      BY <2>6, <3>1 DEF PathConnected, workerVars
    <3>3. OnlyCircuit(c)
      <4> SUFFICES ASSUME NEW d \in Clients, d # c PROVE UNCHANGED Pipes(d)
        BY DEF OnlyCircuit
      <4>1. ~Building(d) /\ ~Building(d)'
        BY <2>1, <3>2 DEF Building
      <4>2. UNCHANGED LinkOf(d)
        BY <3>2, <4>1, LinkStays
      <4>3. \A w \in Workers : Holds(w, d)' <=> Holds(w, d)
        BY <3>2 DEF Holds
      <4> QED
        BY <3>2, <4>2, <4>3, CircuitStays
    <3>4. LinkOf(c) = "building" /\ LinkOf(c)' = "open"
      BY <2>1, <3>2 DEF LinkOf
    <3>5. UNCHANGED <<InHand(c, toDecrypt), InHand(c, toEncrypt)>>
      BY <2>1, <3>2, NotHeld
    <3>6. UNCHANGED <<ToFwd(c), Fwd(c), ToBack(c), Back(c)>>
      BY <3>2, <3>5 DEF ToFwd, Fwd, ToBack, Back
    <3> QED
      BY <3>2, <3>3, <3>4, <3>6, EstablishedStep DEF Mapped
  <2> QED
    BY <1>1, <1>2, <2>2, <2>3, <2>4, <2>5, <2>6 DEF PathThread
<1>4. pathPc = "loop" => PathTake
  BY DEF PathThread, PathPutBack, PathMalformed, PathNoSocket, PathBadAddress, PathSocket,
         PathConnected, PathConnectFails, SetupReadable
<1> QED
  BY <1>1, <1>3, <1>4

\* A worker in its turn has the sockets and the blocks of one open circuit.
LEMMA WorkerHasCircuit ==
    ASSUME TypeOK, OwnInv, PeersInv, NEW w \in Workers, wpc[w] # "idle"
    PROVE  \E c \in Clients :
             /\ Holds(w, c) /\ wconv[w].rsa = c /\ LinkOf(c) = "open"
             /\ DecEnd(w) = ClientEnd(c) /\ EncEnd(w) = DestEnd(c)
             /\ InHand(c, toDecrypt) = toDecrypt[w] /\ InHand(c, toEncrypt) = toEncrypt[w]
<1> USE DEF TypeOK, OwnInv
<1>1. PICK c \in Clients : Holds(w, c) /\ wconv[w].rsa = c
  BY DEF WorkerTypes, Conversations, Holds
<1>2. DecEnd(w) = ClientEnd(c) /\ EncEnd(w) = DestEnd(c)
  BY <1>1, WorkerEnds
<1>3. Connected(c)
  BY <1>1 DEF PeersInv, EndsTogether, Held, Holds
<1> QED
  BY <1>1, <1>2, <1>3, ConnectedIsOpen, InHandIs DEF Holds

\* A worker's step leaves the circuits it does not hold alone.
LEMMA OthersStay ==
    ASSUME OwnInv, OwnInv', NEW w \in Workers, NEW c \in Clients,
           \A d \in Clients \ {c} : ~Holds(w, d) /\ ~Holds(w, d)',
           \A v \in Workers \ {w} : /\ wconv'[v] = wconv[v]
                                    /\ toDecrypt'[v] = toDecrypt[v] /\ toEncrypt'[v] = toEncrypt[v],
           \A e \in Endpoints \ {ClientEnd(c), DestEnd(c)} :
               /\ rx'[e] = rx[e] /\ tx'[e] = tx[e]
               /\ peer'[e] = "gone" <=> peer[e] = "gone"
               /\ peer'[e] = "absent" <=> peer[e] = "absent",
           \A d \in Clients \ {c} : Building(d)' <=> Building(d)
    PROVE  OnlyCircuit(c)
<1> SUFFICES ASSUME NEW d \in Clients, d # c PROVE UNCHANGED Pipes(d)
  BY DEF OnlyCircuit
<1>1. UNCHANGED LinkOf(d)
  BY LinkStays
<1>2. \A v \in Workers : Holds(v, d)' <=> Holds(v, d)
  BY DEF Holds
<1>3. \A v \in Workers :
         Holds(v, d) => toDecrypt'[v] = toDecrypt[v] /\ toEncrypt'[v] = toEncrypt[v]
  OBVIOUS
<1>4. \A e \in {ClientEnd(d), DestEnd(d)} : rx'[e] = rx[e] /\ tx'[e] = tx[e]
  OBVIOUS
<1> QED
  BY <1>1, <1>2, <1>3, <1>4, CircuitStays DEF OwnInv

\* Where nothing is in hand and no block moves, the circuit stays too.
LEMMA IdleHandStays ==
    ASSUME NEW c \in Clients, UNCHANGED <<rx, tx, LinkOf(c)>>,
           UNCHANGED <<InHand(c, toDecrypt), InHand(c, toEncrypt)>>
    PROVE  UNCHANGED Pipes(c)
BY DEF Pipes, ToFwd, Fwd, ToBack, Back

\* A step that changes no other circuit, nor this one, changes nothing.
LEMMA OneCircuitStutters ==
    ASSUME NEW c \in Clients, OnlyCircuit(c), UNCHANGED Pipes(c), UNCHANGED sent
    PROVE  Mapped
<1>1. \A d \in Clients : UNCHANGED Pipes(d)
  BY DEF OnlyCircuit
<1> QED
  BY <1>1, StutterStep DEF Mapped

\* A circuit passes between the queue and a worker with nothing in hand.
LEMMA TakeMapped ==
    ASSUME TypeOK, OwnInv, OwnInv', HandInv, NEW w \in Workers, Take(w)
    PROVE  Mapped
<1> USE DEF TypeOK, OwnInv
<1>1. /\ UNCHANGED <<fdTable, peer, rx, tx, sent, pathPc, pathFd, toDecrypt, toEncrypt>>
      /\ conversations # <<>> /\ wconv[w] = None
      /\ \A v \in Workers : wconv'[v] = IF v = w THEN Head(conversations) ELSE wconv[v]
  BY DEF Take, sockets, pathVars, WorkerTypes
<1>2. /\ Head(conversations) = conversations[1] /\ 1 \in DOMAIN conversations
      /\ conversations[1] \in Conversations /\ conversations[1] # None
  BY <1>1, QueuedFds DEF QueueTypes
<1>3. PICK c \in Clients : conversations[1].rsa = c
  BY <1>2 DEF Conversations
<1>4. \A d \in Clients : (Building(d)' <=> Building(d)) /\ UNCHANGED LinkOf(d)
  BY <1>1, LinkStays DEF Building
<1>5. OnlyCircuit(c)
  <2>1. \A d \in Clients \ {c} : ~Holds(w, d) /\ ~Holds(w, d)'
    BY <1>1, <1>2, <1>3 DEF Holds
  <2> QED
    BY <1>1, <1>4, <2>1, OthersStay
<1>6. toDecrypt[w] = <<>> /\ toEncrypt[w] = <<>>
  BY DEF Take, HandInv
<1>7. InHand(c, toDecrypt) = <<>> /\ InHand(c, toEncrypt) = <<>>
  <2>1. \A v \in Workers : ~Holds(v, c)
    BY <1>2, <1>3 DEF Apart, Holds
  <2> QED
    BY <2>1, InNoHand
<1>8. InHand(c, toDecrypt)' = <<>> /\ InHand(c, toEncrypt)' = <<>>
  <2>1. wconv'[w] # None /\ wconv'[w].rsa = c
    BY <1>1, <1>2, <1>3
  <2> QED
    BY <1>1, <1>6, <2>1, InHandIsNext
<1> QED
  BY <1>1, <1>4, <1>5, <1>7, <1>8, IdleHandStays, OneCircuitStutters

\* The same when it goes back to the queue.
LEMMA RequeueMapped ==
    ASSUME TypeOK, OwnInv, OwnInv', PeersInv, HandInv, NEW w \in Workers, Requeue(w)
    PROVE  Mapped
<1> USE DEF TypeOK, OwnInv
<1>1. /\ UNCHANGED <<fdTable, peer, rx, tx, sent, pathPc, pathFd, toDecrypt, toEncrypt>>
      /\ wpc[w] = "requeue"
      /\ \A v \in Workers : wconv'[v] = IF v = w THEN None ELSE wconv[v]
  BY DEF Requeue, sockets, pathVars, WorkerTypes
<1>2. PICK c \in Clients :
         /\ Holds(w, c) /\ wconv[w].rsa = c
         /\ InHand(c, toDecrypt) = toDecrypt[w] /\ InHand(c, toEncrypt) = toEncrypt[w]
  BY <1>1, WorkerHasCircuit
<1>3. \A d \in Clients : (Building(d)' <=> Building(d)) /\ UNCHANGED LinkOf(d)
  BY <1>1, LinkStays DEF Building
<1>4. OnlyCircuit(c)
  <2>1. \A d \in Clients \ {c} : ~Holds(w, d) /\ ~Holds(w, d)'
    BY <1>1, <1>2 DEF Holds
  <2> QED
    BY <1>1, <1>3, <2>1, OthersStay
<1>5. InHand(c, toDecrypt) = <<>> /\ InHand(c, toEncrypt) = <<>>
  BY <1>1, <1>2 DEF HandInv
<1>6. InHand(c, toDecrypt)' = <<>> /\ InHand(c, toEncrypt)' = <<>>
  <2>1. \A v \in Workers : ~Holds(v, c)'
    BY <1>1, <1>2 DEF Apart, Holds
  <2> QED
    BY <2>1, InNoHandNext
<1> QED
  BY <1>1, <1>3, <1>4, <1>5, <1>6, IdleHandStays, OneCircuitStutters

\* Reading moves the oldest block from the socket to the hand.
LEMMA ReadSplits ==
    ASSUME NEW q \in Seq(Blocks)
    PROVE  Oldest(q) \o Rest(q) = q /\ <<>> \o q = q
<1>1. CASE q = <<>>
  BY <1>1 DEF Oldest, Rest
<1>2. CASE q # <<>>
  <2>1. <<Head(q)>> \o Tail(q) = q
    BY <1>2
  <2> QED
    BY <1>2, <2>1 DEF Oldest, Rest
<1> QED
  BY <1>1, <1>2

\* A block that is read stays in its pipe, now in the worker's hand.
LEMMA ReadMapped ==
    ASSUME TypeOK, OwnInv, OwnInv', PeersInv, HandInv, NEW w \in Workers,
           ReadClient(w) \/ ReadDest(w)
    PROVE  Mapped
<1> USE DEF TypeOK, OwnInv, KernelTypes
<1>1. /\ UNCHANGED <<fdTable, peer, tx, sent, pathPc, pathFd, wconv>>
      /\ wpc[w] # "idle"
      /\ \A v \in Workers \ {w} : toDecrypt'[v] = toDecrypt[v] /\ toEncrypt'[v] = toEncrypt[v]
  BY DEF ReadClient, ReadDest, pathVars, WorkerTypes
<1>2. PICK c \in Clients :
         /\ Holds(w, c) /\ wconv[w].rsa = c
         /\ DecEnd(w) = ClientEnd(c) /\ EncEnd(w) = DestEnd(c)
         /\ InHand(c, toDecrypt) = toDecrypt[w] /\ InHand(c, toEncrypt) = toEncrypt[w]
  BY <1>1, WorkerHasCircuit
<1>3. \A d \in Clients : (Building(d)' <=> Building(d)) /\ UNCHANGED LinkOf(d)
  BY <1>1, LinkStays DEF Building
<1>4. InHand(c, toDecrypt)' = toDecrypt'[w] /\ InHand(c, toEncrypt)' = toEncrypt'[w]
  BY <1>1, <1>2, InHandIsNext DEF Holds
<1>5. OnlyCircuit(c)
  <2>1. \A d \in Clients \ {c} : ~Holds(w, d) /\ ~Holds(w, d)'
    BY <1>1, <1>2 DEF Holds
  <2>2. \A e \in Endpoints \ {ClientEnd(c), DestEnd(c)} : rx'[e] = rx[e]
    BY <1>2 DEF ReadClient, ReadDest
  <2> QED
    BY <1>1, <1>3, <2>1, <2>2, OthersStay
<1>6. CASE ReadClient(w)
  <2>1. /\ toDecrypt'[w] = Oldest(rx[ClientEnd(c)]) /\ toEncrypt'[w] = toEncrypt[w]
        /\ rx'[ClientEnd(c)] = Rest(rx[ClientEnd(c)]) /\ rx'[DestEnd(c)] = rx[DestEnd(c)]
    BY <1>2, <1>6 DEF ReadClient, WorkerTypes
  <2>2. toDecrypt[w] = <<>>
    BY <1>6 DEF ReadClient, HandInv
  <2>3. ToFwd(c) = rx[ClientEnd(c)] /\ ToFwd(c)' = rx[ClientEnd(c)]
    <3>1. rx[ClientEnd(c)] \in Seq(Blocks)
      OBVIOUS
    <3> QED
      BY ZenonT(40), <1>2, <1>4, <2>1, <2>2, <3>1, ReadSplits DEF ToFwd
  <2>4. UNCHANGED Pipes(c)
    BY <1>1, <1>2, <1>3, <1>4, <2>1, <2>3 DEF Pipes, Fwd, ToBack, Back
  <2> QED
    BY <1>1, <1>5, <2>4, OneCircuitStutters
<1>7. CASE ReadDest(w)
  <2>1. /\ toEncrypt'[w] = Oldest(rx[DestEnd(c)]) /\ toDecrypt'[w] = toDecrypt[w]
        /\ rx'[DestEnd(c)] = Rest(rx[DestEnd(c)]) /\ rx'[ClientEnd(c)] = rx[ClientEnd(c)]
    BY <1>2, <1>7 DEF ReadDest, WorkerTypes
  <2>2. toEncrypt[w] = <<>>
    BY <1>7 DEF ReadDest, HandInv
  <2>3. ToBack(c) = rx[DestEnd(c)] /\ ToBack(c)' = rx[DestEnd(c)]
    <3>1. rx[DestEnd(c)] \in Seq(Blocks)
      OBVIOUS
    <3> QED
      BY <1>2, <1>4, <2>1, <2>2, <3>1, ReadSplits DEF ToBack
  <2>4. UNCHANGED Pipes(c)
    BY <1>1, <1>2, <1>3, <1>4, <2>1, <2>3 DEF Pipes, Fwd, ToFwd, Back
  <2> QED
    BY <1>1, <1>5, <2>4, OneCircuitStutters
<1> QED
  BY <1>6, <1>7

\* The block in hand is the first of its pipe; without it the rest remains.
LEMMA HandFirst ==
    ASSUME NEW h \in Seq(Blocks), Len(h) <= 1, h # <<>>, NEW q \in Seq(Blocks)
    PROVE  h \o q # <<>> /\ Head(h \o q) = Head(h) /\ Tail(h \o q) = q /\ <<>> \o q = q
<1>1. h = <<Head(h)>> /\ Head(h) \in Blocks
  BY SMTT(30)
<1>2. \A b \in Blocks : <<b>> \o q # <<>> /\ Head(<<b>> \o q) = b /\ Tail(<<b>> \o q) = q
  OBVIOUS
<1>3. <<>> \o q = q
  OBVIOUS
<1> QED
  BY <1>1, <1>2, <1>3, Zenon

\* The blocks of what was written, when one more is.
LEMMA BlocksOf ==
    ASSUME NEW t \in Seq(Written), NEW x \in Written
    PROVE  [i \in DOMAIN Append(t, x) |-> Append(t, x)[i].blk]
              = Append([i \in DOMAIN t |-> t[i].blk], x.blk)
<1> DEFINE s == [i \in DOMAIN t |-> t[i].blk]
<1>1. s \in Seq(Blocks) /\ Len(s) = Len(t) /\ x.blk \in Blocks
  <2>1. \A y \in Written : y.blk \in Blocks
    BY DEF Written
  <2>2. \A i \in 1..Len(t) : t[i] \in Written
    OBVIOUS
  <2>3. DOMAIN t = 1..Len(t) /\ Len(t) \in Nat
    OBVIOUS
  <2>4. s \in [1..Len(t) -> Blocks]
    BY <2>1, <2>2, <2>3
  <2> QED
    BY <2>1, <2>3, <2>4
<1>2. DOMAIN Append(t, x) = 1..(Len(t) + 1) /\ DOMAIN Append(s, x.blk) = 1..(Len(t) + 1)
  BY <1>1
<1>3. ASSUME NEW i \in 1..(Len(t) + 1) PROVE Append(t, x)[i].blk = Append(s, x.blk)[i]
  BY <1>1
<1> QED
  BY <1>1, <1>2, <1>3

\* A block sent comes out of the pipe it was in, and out of no other.
LEMMA SendMapped ==
    ASSUME TypeOK, OwnInv, OwnInv', PeersInv, HandInv, NEW w \in Workers,
           SendToClient(w) \/ SendToDest(w)
    PROVE  Mapped
<1> USE DEF TypeOK, OwnInv, KernelTypes
<1>1. /\ UNCHANGED <<fdTable, rx, sent, pathPc, pathFd, wconv>> /\ wpc[w] # "idle"
      /\ \A v \in Workers \ {w} : toDecrypt'[v] = toDecrypt[v] /\ toEncrypt'[v] = toEncrypt[v]
  BY DEF SendToClient, SendToDest, SendBlock, pathVars, WorkerTypes
<1>2. PICK c \in Clients :
         /\ Holds(w, c) /\ wconv[w].rsa = c /\ LinkOf(c) = "open"
         /\ DecEnd(w) = ClientEnd(c) /\ EncEnd(w) = DestEnd(c)
         /\ InHand(c, toDecrypt) = toDecrypt[w] /\ InHand(c, toEncrypt) = toEncrypt[w]
  BY <1>1, WorkerHasCircuit
<1>3. InHand(c, toDecrypt)' = toDecrypt'[w] /\ InHand(c, toEncrypt)' = toEncrypt'[w]
  BY <1>1, <1>2, InHandIsNext DEF Holds
<1>4. \A e \in Endpoints : SamePeer(e)
  <2>1. PICK e \in Endpoints : \E b : SendBlock(e, b)
    BY <1>2 DEF SendToClient, SendToDest
  <2> QED
    BY <2>1, SendPeers
<1>5. ASSUME NEW d \in Clients
      PROVE  /\ Building(d)' <=> Building(d)
             /\ UNCHANGED LinkOf(d)
  <2>1. Building(d)' <=> Building(d)
    BY <1>1 DEF Building
  <2>2. SamePeer(ClientEnd(d)) /\ SamePeer(DestEnd(d))
    BY <1>4
  <2> QED
    BY <2>1, <2>2, LinkStays DEF SamePeer, Up
<1>6. OnlyCircuit(c)
  <2>1. \A d \in Clients \ {c} : ~Holds(w, d) /\ ~Holds(w, d)'
    BY <1>1, <1>2 DEF Holds
  <2>2. \A e \in Endpoints \ {ClientEnd(c), DestEnd(c)} : tx'[e] = tx[e]
    BY <1>2 DEF SendToClient, SendToDest, SendBlock
  <2>3. \A e \in Endpoints : /\ peer'[e] = "gone" <=> peer[e] = "gone"
                             /\ peer'[e] = "absent" <=> peer[e] = "absent"
    BY <1>4 DEF SamePeer, Up
  <2>4. \A d \in Clients \ {c} : Building(d)' <=> Building(d)
    BY <1>5
  <2>5. \A v \in Workers \ {w} :
            wconv'[v] = wconv[v] /\ toDecrypt'[v] = toDecrypt[v] /\ toEncrypt'[v] = toEncrypt[v]
    BY <1>1
  <2>6. \A e \in Endpoints \ {ClientEnd(c), DestEnd(c)} :
            /\ rx'[e] = rx[e] /\ tx'[e] = tx[e]
            /\ peer'[e] = "gone" <=> peer[e] = "gone"
            /\ peer'[e] = "absent" <=> peer[e] = "absent"
    <3> SUFFICES ASSUME NEW e \in Endpoints \ {ClientEnd(c), DestEnd(c)}
                 PROVE  /\ rx'[e] = rx[e] /\ tx'[e] = tx[e]
                        /\ peer'[e] = "gone" <=> peer[e] = "gone"
                        /\ peer'[e] = "absent" <=> peer[e] = "absent"
      OBVIOUS
    <3>1. rx'[e] = rx[e]
      BY <1>1
    <3>2. tx'[e] = tx[e]
      BY <2>2
    <3>3. /\ peer'[e] = "gone" <=> peer[e] = "gone"
          /\ peer'[e] = "absent" <=> peer[e] = "absent"
      BY <2>3
    <3> QED
      BY <3>1, <3>2, <3>3
  <2>7. OwnInv /\ OwnInv'
    OBVIOUS
  <2> HIDE DEF TypeOK, KernelTypes, OwnInv, ClientEnd, DestEnd, Endpoints
  <2> QED
    BY <2>1, <2>4, <2>5, <2>6, <2>7, OthersStay
<1>7. /\ toDecrypt[w] \in Seq(Blocks) /\ Len(toDecrypt[w]) <= 1
      /\ toEncrypt[w] \in Seq(Blocks) /\ Len(toEncrypt[w]) <= 1
      /\ rx[ClientEnd(c)] \in Seq(Blocks) /\ rx[DestEnd(c)] \in Seq(Blocks)
      /\ tx[ClientEnd(c)] \in Seq(Written) /\ tx[DestEnd(c)] \in Seq(Written)
  BY DEF WorkerTypes, HandInv
<1>8. CASE SendToClient(w)
  <2>1. /\ toEncrypt[w] # <<>> /\ toEncrypt'[w] = <<>> /\ toDecrypt'[w] = toDecrypt[w]
        /\ tx'[ClientEnd(c)] =
              Append(tx[ClientEnd(c)], [blk |-> Head(toEncrypt[w]), key |-> c])
        /\ tx'[DestEnd(c)] = tx[DestEnd(c)]
    <3>1. toEncrypt' = [toEncrypt EXCEPT ![w] = <<>>] /\ UNCHANGED toDecrypt
      BY <1>8 DEF SendToClient
    <3>2. tx' = [tx EXCEPT ![ClientEnd(c)] =
                            Append(@, [blk |-> Head(toEncrypt[w]), key |-> c])]
      BY <1>2, <1>8 DEF SendToClient, SendBlock
    <3>3. toEncrypt[w] # <<>>
      BY <1>8 DEF SendToClient, WorkerTypes
    <3>4. ClientEnd(c) \in Endpoints /\ DestEnd(c) \in Endpoints /\ ClientEnd(c) # DestEnd(c)
      OBVIOUS
    <3> HIDE DEF ClientEnd, DestEnd, Endpoints
    <3> QED
      BY <3>1, <3>2, <3>3, <3>4 DEF WorkerTypes
  <2>2. /\ ToBack(c) # <<>> /\ Head(ToBack(c)) = Head(toEncrypt[w])
        /\ Tail(ToBack(c)) = rx[DestEnd(c)] /\ <<>> \o rx[DestEnd(c)] = rx[DestEnd(c)]
    BY ZenonT(40), <1>2, <1>7, <2>1, HandFirst DEF ToBack
  <2>3. ToBack(c)' = Tail(ToBack(c))
    BY <1>1, <1>3, <2>1, <2>2 DEF ToBack
  <2>4. Back(c)' = Append(Back(c), [blk |-> Head(ToBack(c)), key |-> c])
    BY <2>1, <2>2 DEF Back
  <2>5. UNCHANGED <<LinkOf(c), ToFwd(c), Fwd(c)>>
    BY <1>1, <1>2, <1>3, <1>5, <2>1 DEF ToFwd, Fwd
  <2> QED
    BY <1>1, <1>2, <1>6, <2>2, <2>3, <2>4, <2>5, ReplyStep DEF Mapped
<1>9. CASE SendToDest(w)
  <2> DEFINE x == [blk |-> Head(toDecrypt[w]), key |-> None]
  <2>1. /\ toDecrypt[w] # <<>> /\ toDecrypt'[w] = <<>> /\ toEncrypt'[w] = toEncrypt[w]
        /\ tx'[DestEnd(c)] = Append(tx[DestEnd(c)], x)
        /\ tx'[ClientEnd(c)] = tx[ClientEnd(c)]
    <3>1. toDecrypt' = [toDecrypt EXCEPT ![w] = <<>>] /\ UNCHANGED toEncrypt
      BY <1>9 DEF SendToDest
    <3>2. tx' = [tx EXCEPT ![DestEnd(c)] = Append(@, x)]
      BY <1>2, <1>9 DEF SendToDest, SendBlock
    <3>3. toDecrypt[w] # <<>>
      BY <1>9 DEF SendToDest, WorkerTypes
    <3>4. ClientEnd(c) \in Endpoints /\ DestEnd(c) \in Endpoints /\ ClientEnd(c) # DestEnd(c)
      OBVIOUS
    <3> HIDE DEF ClientEnd, DestEnd, Endpoints
    <3> QED
      BY <3>1, <3>2, <3>3, <3>4 DEF WorkerTypes
  <2>2. /\ ToFwd(c) # <<>> /\ Head(ToFwd(c)) = Head(toDecrypt[w])
        /\ Tail(ToFwd(c)) = rx[ClientEnd(c)] /\ <<>> \o rx[ClientEnd(c)] = rx[ClientEnd(c)]
    BY ZenonT(40), <1>2, <1>7, <2>1, HandFirst DEF ToFwd
  <2>3. ToFwd(c)' = Tail(ToFwd(c))
    BY <1>1, <1>3, <2>1, <2>2 DEF ToFwd
  <2>4. Fwd(c)' = Append(Fwd(c), Head(ToFwd(c)))
    <3>1. x \in Written /\ x.blk = Head(toDecrypt[w])
      BY SMTT(30), <1>7, <2>1 DEF Written
    <3> HIDE DEF x
    <3>2. [i \in DOMAIN Append(tx[DestEnd(c)], x) |-> Append(tx[DestEnd(c)], x)[i].blk]
             = Append(Fwd(c), x.blk)
      BY <1>7, <3>1, BlocksOf DEF Fwd
    <3> QED
      BY <2>1, <2>2, <3>1, <3>2 DEF Fwd
  <2>5. UNCHANGED <<LinkOf(c), ToBack(c), Back(c)>>
    BY <1>1, <1>2, <1>3, <1>5, <2>1 DEF ToBack, Back
  <2> QED
    BY <1>1, <1>2, <1>6, <2>2, <2>3, <2>4, <2>5, ForwardStep DEF Mapped
<1> QED
  BY <1>8, <1>9

\* A failed send cuts the circuit, and loses what is in its pipes.
LEMMA DropMapped ==
    ASSUME TypeOK, OwnInv, OwnInv', PeersInv, NEW w \in Workers, DropConversation(w)
    PROVE  Mapped
<1> USE DEF TypeOK, OwnInv, KernelTypes
<1>1. /\ UNCHANGED <<tx, sent, pathPc, pathFd>> /\ wpc[w] # "idle"
      /\ \A v \in Workers : wconv'[v] = IF v = w THEN None ELSE wconv[v]
      /\ \A v \in Workers \ {w} : toDecrypt'[v] = toDecrypt[v] /\ toEncrypt'[v] = toEncrypt[v]
  BY DEF DropConversation, CloseAll, SendingTo, pathVars, WorkerTypes
<1>2. PICK c \in Clients :
         /\ Holds(w, c) /\ wconv[w].rsa = c /\ LinkOf(c) = "open"
         /\ DecEnd(w) = ClientEnd(c) /\ EncEnd(w) = DestEnd(c)
  BY <1>1, WorkerHasCircuit
<1>3. {fdTable[f] : f \in {wconv[w].dec, wconv[w].enc}} = {ClientEnd(c), DestEnd(c)}
  BY <1>2 DEF DecEnd, EncEnd
<1>4. /\ \A e \in {ClientEnd(c), DestEnd(c)} : peer'[e] = "gone" /\ rx'[e] = <<>>
      /\ \A e \in Endpoints \ {ClientEnd(c), DestEnd(c)} :
             peer'[e] = peer[e] /\ rx'[e] = rx[e]
      /\ \A g \in Fds \ {wconv[w].dec, wconv[w].enc} : fdTable'[g] = fdTable[g]
  BY <1>3 DEF DropConversation, CloseAll
<1>5. ASSUME NEW d \in Clients \ {c} PROVE Building(d)' <=> Building(d)
  <2>1. pathPc = "connect" => fdTable'[pathFd] = fdTable[pathFd]
    <3>1. SUFFICES ASSUME pathPc = "connect" PROVE fdTable'[pathFd] = fdTable[pathFd]
      OBVIOUS
    <3>2. pathFd \in Fds /\ wconv[w] # None
      BY <1>2, <3>1, PathClient DEF Holds
    <3>3. wconv[w].dec # pathFd /\ wconv[w].enc # pathFd
      BY <3>1, <3>2, PathCloses
    <3> QED
      BY <1>4, <3>2, <3>3
  <2> QED
    BY <1>1, <2>1 DEF Building
<1>6. OnlyCircuit(c)
  <2>1. \A d \in Clients \ {c} : ~Holds(w, d) /\ ~Holds(w, d)'
    BY <1>1, <1>2 DEF Holds
  <2> QED
    BY ZenonT(40), <1>1, <1>4, <1>5, <2>1, OthersStay
<1>7. InHand(c, toDecrypt)' = <<>> /\ InHand(c, toEncrypt)' = <<>>
  <2>1. \A v \in Workers : v # w => ~Holds(v, c)
    BY <1>2 DEF Apart, Holds
  <2>2. \A v \in Workers : ~Holds(v, c)'
    BY <1>1, <2>1 DEF Holds
  <2> QED
    BY <2>2, InNoHandNext
<1>8. ToFwd(c)' = <<>> /\ ToBack(c)' = <<>>
  BY <1>4, <1>7 DEF ToFwd, ToBack
<1>9. LinkOf(c)' = "cut"
  BY <1>4 DEF LinkOf
<1>10. UNCHANGED <<Fwd(c), Back(c)>>
  BY <1>1 DEF Fwd, Back
<1> QED
  BY <1>1, <1>2, <1>6, <1>8, <1>9, <1>10, CutStep DEF Mapped

\* threadLoop and handleRequest move blocks from end to end, or cut.
LEMMA WorkerMapped ==
    ASSUME TypeOK, OwnInv, OwnInv', PeersInv, HandInv, NEW w \in Workers, Worker(w)
    PROVE  Mapped
<1> USE DEF OwnInv
<1>1. CASE WorkerBeforeServer(w) \/ KilledBySend(w) \/ KilledByEncrypt(w)
  BY <1>1, DiesMapped DEF WorkerBeforeServer, KilledBySend, KilledByEncrypt
<1>2. CASE Poll(w)
  BY <1>2, StillStep DEF Poll, sockets, pathVars, SamePeer
<1> QED
  BY <1>1, <1>2, TakeMapped, RequeueMapped, ReadMapped, SendMapped, DropMapped DEF Worker

\* Every step maps to a step of RelayPipe or changes nothing in it.
LEMMA NextMapped == IInv /\ IInv' /\ PipeInv /\ [Next]_vars => [Pipe!Next]_Pipe!pipeVars
<1> SUFFICES ASSUME IInv, IInv', PipeInv, [Next]_vars PROVE Mapped
  BY DEF Mapped
<1> USE DEF IInv, PipeInv
<1>1. CASE UNCHANGED vars
  <2>1. Apart /\ Apart'
    BY DEF OwnInv
  <2> QED
    BY <1>1, <2>1, StillStep DEF vars, sockets, pathVars, workerVars, SamePeer
<1> QED
  BY <1>1, EnvironmentMapped, AcceptMapped, PathMapped, MainMapped, WorkerMapped DEF Next

\* A relay that was just started has empty pipes.
LEMMA InitMapped == Init => Pipe!Init
<1> SUFFICES ASSUME Init PROVE Pipe!Init
  OBVIOUS
<1>1. ASSUME NEW c \in Clients
      PROVE  LinkOf(c) = "none" /\ ToFwd(c) = <<>> /\ ToBack(c) = <<>> /\ Fwd(c) = <<>>
  <2>1. \A w \in Workers : ~Holds(w, c)
    BY DEF Init, Holds
  <2>2. InHand(c, toDecrypt) = <<>> /\ InHand(c, toEncrypt) = <<>>
    BY <2>1, InNoHand
  <2>3. LinkOf(c) = "none"
    BY DEF Init, LinkOf
  <2>4. tx[DestEnd(c)] = <<>> /\ rx[DestEnd(c)] = <<>> /\ rx[ClientEnd(c)] = <<>>
    BY DEF Init
  <2> QED
    BY <2>2, <2>3, <2>4 DEF ToFwd, ToBack, Fwd
<1> QED
  BY <1>1 DEF Init, ToFwd, ToBack, Fwd, Pipe!Init

\* The relay implements RelayPipe: for any number of clients, workers and
\* descriptors, both directions of each circuit are FIFO pipes that lose,
\* repeat and mix up nothing until the circuit is cut, and replies carry a
\* layer of their own client's key (Server.cpp:206-262).
THEOREM ImplementsPipe == Spec => PipeSpec
<1>1. Spec => [](IInv /\ PipeInv)
  BY Inductive, PipeInvariant, PTL
<1>2. IInv /\ PipeInv /\ IInv' /\ [Next]_vars => [Pipe!Next]_Pipe!pipeVars
  BY NextMapped
<1> QED
  BY <1>1, <1>2, InitMapped, PTL DEF Spec, PipeSpec, Pipe!Spec
=============================================================================
