---------------------------- MODULE RelayNodeInv ----------------------------
(***************************************************************************)
(* The inductive invariant behind DescriptorOwnership.  What is kept where *)
(* is not inductive by itself: it also takes that a connection end is in   *)
(* the descriptor table at most once, and how far each client has come, so *)
(* that a fresh end is never one the table already holds.                  *)
(***************************************************************************)
EXTENDS RelayNode

InTable(e) == \E f \in Fds : fdTable[f] = e

\* No two open descriptors refer to the same connection end.
TableInjective ==
    \A f, g \in Fds : fdTable[f] = fdTable[g] /\ fdTable[f] # None => f = g

\* A client that is not accepted yet has no socket, and is queued once.
NotYetAccepted ==
    /\ \A c \in Clients :
          (peer[ClientEnd(c)] = "absent" \/ \E i \in DOMAIN listenQ : listenQ[i] = c)
              => ~InTable(ClientEnd(c)) /\ ~InTable(DestEnd(c))
    /\ \A i \in DOMAIN listenQ : peer[ClientEnd(listenQ[i])] # "absent"
    /\ \A i, j \in DOMAIN listenQ : listenQ[i] = listenQ[j] => i = j

\* A client whose setup block was not read yet has no socket to the next hop.
NoDestYet(f) == ~InTable(DestEnd(fdTable[f][1]))

YoungHaveNoDest ==
    /\ newSocket # None => NoDestYet(newSocket)
    /\ \A i \in DOMAIN socketsToStart : NoDestYet(socketsToStart[i])
    /\ pathPc = "check" => NoDestYet(pathFd)

\* The pairs of places the facts above leave open.
Apart ==
    /\ \A i, j \in DOMAIN socketsToStart : socketsToStart[i] = socketsToStart[j] => i = j
    /\ \A i \in DOMAIN socketsToStart : socketsToStart[i] \notin {newSocket, pathFd}
    /\ newSocket # None => newSocket # pathFd
    /\ \A i, j \in DOMAIN conversations :
          conversations[i].rsa = conversations[j].rsa => i = j
    /\ \A i \in DOMAIN conversations : conversations[i].enc # pathOut
    /\ \A w \in Workers : wconv[w] # None => wconv[w].enc # pathOut
    /\ \A i \in DOMAIN conversations, w \in Workers :
          wconv[w] # None => conversations[i].rsa # wconv[w].rsa
    /\ \A v, w \in Workers :
          wconv[v] # None /\ wconv[w] # None /\ wconv[v].rsa = wconv[w].rsa => v = w

OwnInv == EndsMatch /\ TableInjective /\ NotYetAccepted /\ YoungHaveNoDest /\ Apart

\* Inductive: every step keeps it, and it implies DescriptorOwnership.
IInv == TypeOK /\ OwnInv

------------------------------------------------------------------------------
(* What it takes besides to implement RelayPipe.                           *)

Queued(c) == \E i \in DOMAIN listenQ : listenQ[i] = c

\* The relay has not made a connection for this client, or is making it.
Young(c) ==
    \/ peer[ClientEnd(c)] = "absent" \/ Queued(c)
    \/ newSocket # None /\ fdTable[newSocket] = ClientEnd(c)
    \/ \E i \in DOMAIN socketsToStart : fdTable[socketsToStart[i]] = ClientEnd(c)
    \/ pathFd # None /\ fdTable[pathFd] = ClientEnd(c)

Connected(c) == peer[DestEnd(c)] \notin {"absent", "failed", "gone"}

\* The circuit is in a worker's hands or waiting for one.
Held(c) ==
    \/ \E i \in DOMAIN conversations : conversations[i].rsa = c
    \/ \E w \in Workers : wconv[w] # None /\ wconv[w].rsa = c

\* How the two ends of a circuit go together.
EndsTogether(c) ==
    /\ Young(c) => peer[DestEnd(c)] = "absent"
    /\ Queued(c) \/ InTable(ClientEnd(c)) \/ Connected(c)
          => peer[ClientEnd(c)] \notin {"absent", "gone"}
    /\ rx[DestEnd(c)] # <<>> => Connected(c)
    /\ Held(c) => Connected(c)

PeersInv == \A c \in Clients : EndsTogether(c)

\* A worker holds a block of each direction at most, and only in its turn.
HandInv ==
    \A w \in Workers :
        /\ Len(toDecrypt[w]) <= 1 /\ Len(toEncrypt[w]) <= 1
        /\ wpc[w] \notin {"readDest", "sendClient", "sendDest"} => toDecrypt[w] = <<>>
        /\ wpc[w] # "sendClient" => toEncrypt[w] = <<>>

\* Inductive together with IInv; a step of the relay is one of RelayPipe, or none.
PipeInv == PeersInv /\ HandInv
=============================================================================
