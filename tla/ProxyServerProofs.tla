-------------------------- MODULE ProxyServerProofs --------------------------
(***************************************************************************)
(* Proofs about ProxyServer: types, that a client has one turn in the pool *)
(* at most and is registered for as long as it has it, where requests for  *)
(* the database go, and that ProxyServer implements ProxyService.          *)
(***************************************************************************)
EXTENDS ProxyServer, SequenceTheorems, TLAPS

\* A peer connects once, waits in the kernel's queue once, and is accepted
\* once: what accept returns was never accepted before.
ConnectionInv ==
    /\ \A i, j \in DOMAIN listenQ : listenQ[i] = listenQ[j] => i = j
    /\ \A i \in DOMAIN listenQ : listenQ[i] \notin accepted /\ peer[listenQ[i]] # "absent"
    /\ \A p \in accepted : peer[p] # "absent"

\* Only accepted sockets are registered, and the one the accept thread still
\* holds gets its turn after its entry.
TurnInv ==
    /\ TurnsAreRegistered
    /\ mclients \subseteq accepted
    /\ asock # None => asock \in accepted
    /\ apc = "addTask" => asock \in mclients

IInv == TypeOK /\ ConnectionInv /\ TurnInv

------------------------------------------------------------------------------
(* Actions by what they leave alone.                                       *)

\* Steps after which the process is gone.
Ends ==
    \/ AcceptFails \/ ReadKeyMalformed \/ KilledBySendKey \/ MapRace \/ Exit
    \/ \E w \in Workers : HandleKills(w) \/ AskDatabaseKills(w) \/ DatabaseAnswers(w)
                             \/ SignupFails(w) \/ KilledBySend(w)

\* Steps of the environment and of the threads that move no turn.
Apart ==
    \/ DatabaseCloses \/ Run \/ EnterAccept \/ ReserveNumber \/ Quit
    \/ \E p \in Peers :
          PeerCloses(p) \/ ResetArrives(p) \/ ShutdownClient(p) \/ \E b \in Blocks : ClientWrites(p, b)

\* Steps of the accept thread between accept and addTask.
KeyExchange == ReadKey \/ ReadKeyEnded \/ SendKey \/ SendKeyFails

\* Steps of a worker between Take and Requeue that keep the client.
Working(w) ==
    Poll(w) \/ AskDatabase(w) \/ AskAnotherClient(w) \/ LoginFails(w) \/ SendAnswer(w)

\* Steps of a worker that drop it.
Dropping(w) == HandleOther(w) \/ SendAnswerFails(w)

Moving(w) == Take(w) \/ Working(w) \/ Dropping(w) \/ Requeue(w)

\* Every step belongs to one of these groups.
LEMMA NextCases ==
    ASSUME Next
    PROVE  \/ Ends \/ Apart \/ KeyExchange \/ Accept \/ Register \/ AddTask
           \/ (\E p \in Peers : Connect(p)) \/ (\E w \in Workers : Moving(w))
  <1>1. CASE Environment
    BY <1>1 DEF Environment, Apart
  <1>2. CASE AcceptThread
    BY <1>2 DEF AcceptThread, KeyExchange, Ends, Apart
  <1>3. CASE MapRace
    BY <1>3 DEF Ends
  <1>4. CASE MainThread
    BY <1>4 DEF MainThread, Apart, Ends
  <1>5. CASE \E w \in Workers : Worker(w) \/ DatabaseAnswers(w)
    BY <1>5 DEF Worker, Moving, Working, Dropping, Ends
  <1>6. QED
    BY <1>1, <1>2, <1>3, <1>4, <1>5 DEF Next

------------------------------------------------------------------------------
(* Types.                                                                  *)

USE PeersAssumption, BlocksAssumption DEF Peers, Blocks, PeerStates, InAccept

\* Values that the code's own names are not.
LEMMA Distinct == None \notin Peers /\ None \notin Blocks
  OBVIOUS

\* A send leaves the peer in a state a peer may be in.
LEMMA AfterSendType ==
    ASSUME TypeOK, NEW p \in Peers, AfterSend(p)
    PROVE  peer' \in [Peers -> PeerStates]
  BY DEF TypeOK, AfterSend

\* An answer is added to what was sent.
LEMMA SendsType ==
    ASSUME TypeOK, NEW p \in Peers, NEW a \in {"key", "databaseServerError"}, Sends(p, a)
    PROVE  /\ peer' \in [Peers -> PeerStates]
           /\ answers' \in [Peers -> Seq({"key", "databaseServerError"})]
  <1>1. peer' \in [Peers -> PeerStates]
    BY AfterSendType DEF Sends
  <1>2. answers' \in [Peers -> Seq({"key", "databaseServerError"})]
    BY DEF TypeOK, Sends
  <1>3. QED
    BY <1>1, <1>2

\* An action that ends the process changes nothing else.
LEMMA EndsDie ==
    ASSUME Ends PROVE Dies
  BY DEF Ends, AcceptFails, ReadKeyMalformed, KilledBySendKey, MapRace, Exit,
         HandleKills, AskDatabaseKills, DatabaseAnswers, SignupFails, KilledBySend

\* Types are kept by the environment, by quit and by the accept thread.
LEMMA OutsideTypes ==
    ASSUME TypeOK,
           Ends \/ Apart \/ KeyExchange \/ Accept \/ Register \/ AddTask \/ \E p \in Peers : Connect(p)
    PROVE  TypeOK'
  <1>1. CASE Ends
    BY <1>1, EndsDie DEF TypeOK, Dies, kernel, acceptVars, workerVars, dbVars
  <1>2. CASE DatabaseCloses \/ Run \/ EnterAccept \/ ReserveNumber \/ Quit
    BY <1>2 DEF TypeOK, DatabaseCloses, Run, EnterAccept, ReserveNumber, Quit, kernel, acceptVars, workerVars, dbVars
  <1>3. CASE \E p \in Peers : PeerCloses(p) \/ ResetArrives(p) \/ ShutdownClient(p)
    <2>1. PICK p \in Peers : PeerCloses(p) \/ ResetArrives(p) \/ ShutdownClient(p)
      BY <1>3
    <2>2. PICK s \in PeerStates : peer' = [peer EXCEPT ![p] = s]
      BY <2>1 DEF PeerCloses, ResetArrives, ShutdownClient
    <2>3. UNCHANGED <<proc, listenQ, rx, sent, answers, accepted, acceptVars, mclients, tasks,
                      workerVars, dbVars>>
      BY <2>1 DEF PeerCloses, ResetArrives, ShutdownClient
    <2>4. QED
      BY SMTT(30), <2>2, <2>3 DEF TypeOK, acceptVars, workerVars, dbVars
  <1>4. ASSUME NEW c \in Peers, NEW b \in Blocks, ClientWrites(c, b)
        PROVE  TypeOK'
    <2>0. /\ sent[c] < MaxBlocks /\ sent' = [sent EXCEPT ![c] = @ + 1]
          /\ rx' = [rx EXCEPT ![c] = Append(@, b)]
      BY <1>4 DEF ClientWrites
    <2>1. sent' \in [Peers -> 0..MaxBlocks]
      <3>1. sent[c] + 1 \in 0..MaxBlocks
        <4>1. sent[c] \in 0..MaxBlocks
          BY DEF TypeOK
        <4>2. MaxBlocks \in Nat
          BY BlocksAssumption
        <4>3. QED
          BY <2>0, <4>1, <4>2
      <3>2. QED
        BY <2>0, <3>1 DEF TypeOK
    <2>2. rx' \in [Peers -> Seq(Blocks)]
      <3>1. Append(rx[c], b) \in Seq(Blocks)
        BY DEF TypeOK
      <3>2. QED
        BY <2>0, <3>1 DEF TypeOK
    <2>3. QED
      BY SMTT(30), <1>4, <2>1, <2>2 DEF TypeOK, ClientWrites, acceptVars, workerVars, dbVars
  <1>5. CASE Apart
    BY <1>2, <1>3, <1>4, <1>5 DEF Apart
  <1>6. CASE ReadKey
    <2>1. asock \in Peers
      BY <1>6 DEF TypeOK, ReadKey
    <2>2. rx' \in [Peers -> Seq(Blocks)]
      BY SMTT(30), <1>6, <2>1 DEF TypeOK, ReadKey
    <2>3. QED
      BY <1>6, <2>2 DEF TypeOK, ReadKey, workerVars, dbVars
  <1>7. CASE ReadKeyEnded
    BY <1>7 DEF TypeOK, ReadKeyEnded, kernel, workerVars, dbVars
  <1>8. CASE SendKey
    <2>1. asock \in Peers
      BY <1>8 DEF TypeOK, SendKey
    <2>2. QED
      BY ZenonT(40), <1>8, <2>1, SendsType DEF TypeOK, SendKey, workerVars, dbVars
  <1>9. CASE SendKeyFails
    <2>1. asock \in Peers
      BY <1>9 DEF TypeOK, SendKeyFails
    <2>2. QED
      BY <1>9, <2>1, AfterSendType DEF TypeOK, SendKeyFails, workerVars, dbVars
  <1>10. CASE Accept
    <2>1. Head(listenQ) \in Peers /\ Tail(listenQ) \in Seq(Peers)
      BY <1>10 DEF TypeOK, Accept
    <2>2. QED
      BY <1>10, <2>1, Distinct DEF TypeOK, Accept, workerVars
  <1>11. CASE Register
    BY <1>11 DEF TypeOK, Register, kernel, workerVars, dbVars
  <1>12. CASE AddTask
    BY <1>12 DEF TypeOK, AddTask, kernel, workerVars, dbVars
  <1>13. CASE \E p \in Peers : Connect(p)
    <2>1. PICK p \in Peers : Connect(p)
      BY <1>13
    <2>2. listenQ' \in Seq(Peers) /\ peer' \in [Peers -> PeerStates]
      BY <2>1 DEF TypeOK, Connect, PeerStates
    <2>3. QED
      BY <2>1, <2>2 DEF TypeOK, Connect, acceptVars, workerVars, dbVars
  <1>14. QED
    BY <1>1, <1>5, <1>6, <1>7, <1>8, <1>9, <1>10, <1>11, <1>12, <1>13 DEF KeyExchange

\* Types are kept by the workers.
LEMMA WorkerTypes ==
    ASSUME TypeOK, NEW w \in Workers, Moving(w)
    PROVE  TypeOK'
  <1>0. wsock[w] # None => wsock[w] \in Peers
    BY DEF TypeOK
  <1>1. CASE Take(w)
    <2>1. Head(tasks) \in Peers /\ Tail(tasks) \in Seq(Peers)
      BY <1>1 DEF TypeOK, Take
    <2>2. QED
      BY SMTT(30), <1>1, <2>1, Distinct DEF TypeOK, Take, kernel, acceptVars, dbVars
  <1>2. CASE Poll(w)
    <2>1. wsock[w] \in Peers
      BY <1>0, <1>2 DEF TypeOK, Poll
    <2>5. wpc[w] = "poll" /\ wreq[w] = None
      BY <1>2 DEF TypeOK, Poll
    <2>2. CASE rx[wsock[w]] = <<>>
      <3>1. wpc' = [wpc EXCEPT ![w] = "requeue"] /\ UNCHANGED <<rx, wreq>>
        BY <1>2, <2>2 DEF Poll
      <3>2. QED
        BY <1>2, <2>1, <2>5, <3>1 DEF TypeOK, Poll, acceptVars, dbVars
    <2>3. CASE rx[wsock[w]] # <<>>
      <3>1. Head(rx[wsock[w]]) \in Blocks /\ Tail(rx[wsock[w]]) \in Seq(Blocks)
        BY <2>1, <2>3 DEF TypeOK
      <3>2. QED
        <4>1. /\ wpc' = [wpc EXCEPT ![w] = "handle"]
              /\ wreq' = [wreq EXCEPT ![w] = Head(rx[wsock[w]])]
              /\ rx' = [rx EXCEPT ![wsock[w]] = Tail(@)]
          BY <1>2, <2>3 DEF Poll
        <4>2. UNCHANGED <<proc, listenQ, peer, sent, answers, accepted, acceptVars, mclients,
                          tasks, wsock, dbVars>>
          BY <1>2 DEF Poll
        <4>3. wsock[w] # None /\ Head(rx[wsock[w]]) # None
          BY <2>1, <3>1, Distinct
        <4>4. rx' \in [Peers -> Seq(Blocks)] /\ wreq' \in [Workers -> Blocks \cup {None}]
          BY <2>1, <3>1, <4>1 DEF TypeOK
        <4>5. QED
          BY SMTT(30), <4>1, <4>2, <4>3, <4>4 DEF TypeOK, acceptVars, dbVars
    <2>4. QED
      BY <2>2, <2>3
  <1>3. CASE AskDatabase(w)
    BY <1>3 DEF TypeOK, AskDatabase, kernel, acceptVars, dbVars
  <1>4. CASE AskAnotherClient(w)
    <2>1. wsock[w] \in Peers /\ dbFd \in Peers
      BY <1>0, <1>4 DEF TypeOK, AskAnotherClient
    <2>2. peer' \in [Peers -> PeerStates]
      BY <1>4, <2>1, AfterSendType DEF AskAnotherClient
    <2>3. QED
      BY SMTT(30), <1>4, <2>1, <2>2 DEF TypeOK, AskAnotherClient, acceptVars, dbVars
  <1>5. CASE LoginFails(w)
    BY <1>5 DEF TypeOK, LoginFails, DatabaseFailed, kernel, acceptVars, dbVars
  <1>6. CASE SendAnswer(w)
    <2>1. wsock[w] \in Peers
      BY <1>0, <1>6 DEF TypeOK, SendAnswer
    <2>2. /\ peer' \in [Peers -> PeerStates]
          /\ answers' \in [Peers -> Seq({"key", "databaseServerError"})]
      BY <1>6, <2>1, SendsType DEF SendAnswer
    <2>3. QED
      BY SMTT(30), <1>6, <2>1, <2>2, Distinct DEF TypeOK, SendAnswer, acceptVars, dbVars
  <1>7. CASE HandleOther(w)
    BY <1>7 DEF TypeOK, HandleOther, RemoveClient, kernel, acceptVars, dbVars
  <1>8. CASE SendAnswerFails(w)
    <2>1. wsock[w] \in Peers
      BY <1>0, <1>8 DEF TypeOK, SendAnswerFails
    <2>2. peer' \in [Peers -> PeerStates]
      BY <1>8, <2>1, AfterSendType DEF SendAnswerFails
    <2>3. QED
      BY SMTT(30), <1>8, <2>1, <2>2 DEF TypeOK, SendAnswerFails, RemoveClient, acceptVars, dbVars
  <1>9. CASE Requeue(w)
    <2>1. wsock[w] \in Peers /\ wreq[w] = None
      BY <1>0, <1>9 DEF TypeOK, Requeue
    <2>2. tasks' \in Seq(Peers)
      BY <1>9, <2>1 DEF TypeOK, Requeue
    <2>3. QED
      BY SMTT(30), <1>9, <2>1, <2>2 DEF TypeOK, Requeue, kernel, acceptVars, dbVars
  <1>10. QED
    BY <1>1, <1>2, <1>3, <1>4, <1>5, <1>6, <1>7, <1>8, <1>9 DEF Moving, Working, Dropping

------------------------------------------------------------------------------
(* Connections.                                                            *)

\* A step that neither queues, accepts nor forgets a connection keeps what is
\* known of them.
LEMMA ConnectionsKept ==
    ASSUME TypeOK, ConnectionInv, UNCHANGED <<listenQ, accepted>>,
           \A p \in Peers : peer[p] # "absent" => peer'[p] # "absent"
    PROVE  ConnectionInv'
  <1>1. \A i \in DOMAIN listenQ : listenQ[i] \in Peers
    BY DEF TypeOK
  <1>2. accepted \subseteq Peers
    BY DEF TypeOK
  <1>3. QED
    BY <1>1, <1>2 DEF ConnectionInv

\* Nothing makes a peer absent again.
LEMMA NobodyAbsentAgain ==
    ASSUME TypeOK, Next
    PROVE  \A p \in Peers : peer[p] # "absent" => peer'[p] # "absent"
  <1>1. CASE Ends
    BY <1>1, EndsDie DEF Dies, kernel
  <1>2. CASE Apart
    BY <1>2 DEF TypeOK, Apart, DatabaseCloses, Run, EnterAccept, ReserveNumber, Quit, PeerCloses, ResetArrives,
                ShutdownClient, ClientWrites, kernel
  <1>3. CASE KeyExchange
    BY <1>3 DEF TypeOK, KeyExchange, ReadKey, ReadKeyEnded, SendKey, SendKeyFails, Sends, AfterSend, kernel
  <1>4. CASE Accept \/ Register \/ AddTask
    BY <1>4 DEF Accept, Register, AddTask, kernel
  <1>5. CASE \E p \in Peers : Connect(p)
    BY <1>5 DEF TypeOK, Connect
  <1>6. ASSUME NEW w \in Workers, Moving(w)
        PROVE  \A p \in Peers : peer[p] # "absent" => peer'[p] # "absent"
    <2>1. CASE Take(w) \/ Poll(w) \/ AskDatabase(w) \/ LoginFails(w) \/ HandleOther(w) \/ Requeue(w)
      BY <2>1 DEF Take, Poll, AskDatabase, LoginFails, HandleOther, Requeue, kernel
    <2>2. CASE AskAnotherClient(w) \/ SendAnswer(w) \/ SendAnswerFails(w)
      BY <2>2 DEF TypeOK, AskAnotherClient, SendAnswer, SendAnswerFails, Sends, AfterSend
    <2>3. QED
      BY <1>6, <2>1, <2>2 DEF Moving, Working, Dropping
  <1>7. QED
    BY <1>1, <1>2, <1>3, <1>4, <1>5, <1>6, NextCases

\* A connection is queued once and accepted once.
LEMMA ConnectionsStep ==
    ASSUME TypeOK, ConnectionInv, Next
    PROVE  ConnectionInv'
  <1>1. \A i \in DOMAIN listenQ : listenQ[i] \in Peers
    BY DEF TypeOK
  <1>2. CASE Ends \/ Apart \/ KeyExchange \/ Register \/ AddTask \/ \E w \in Workers : Moving(w)
    <2>1. UNCHANGED <<listenQ, accepted>>
      <3>1. CASE Ends
        BY <3>1, EndsDie DEF Dies, kernel
      <3>2. CASE Apart
        BY <3>2 DEF Apart, DatabaseCloses, Run, EnterAccept, ReserveNumber, Quit, PeerCloses, ResetArrives,
                    ShutdownClient, ClientWrites, kernel
      <3>3. CASE KeyExchange \/ Register \/ AddTask
        BY <3>3 DEF KeyExchange, ReadKey, ReadKeyEnded, SendKey, SendKeyFails, Register, AddTask, kernel
      <3>4. CASE \E w \in Workers : Moving(w)
        BY <3>4 DEF Moving, Working, Dropping, Take, Poll, AskDatabase, AskAnotherClient, LoginFails,
                    SendAnswer, HandleOther, SendAnswerFails, Requeue, kernel
      <3>5. QED
        BY <1>2, <3>1, <3>2, <3>3, <3>4
    <2>2. QED
      BY <2>1, ConnectionsKept, NobodyAbsentAgain
  <1>3. ASSUME NEW p \in Peers, Connect(p)
        PROVE  ConnectionInv'
    <2>1. /\ peer[p] = "absent" /\ listenQ' = Append(listenQ, p) /\ accepted' = accepted
          /\ peer' = [peer EXCEPT ![p] = "open"]
      BY <1>3 DEF Connect
    <2>2. \A i \in DOMAIN listenQ : listenQ[i] # p
      BY <2>1 DEF ConnectionInv
    <2>3. p \notin accepted
      BY <2>1 DEF ConnectionInv
    <2>4. \A i \in DOMAIN listenQ' :
              \/ i \in DOMAIN listenQ /\ listenQ'[i] = listenQ[i]
              \/ i = Len(listenQ) + 1 /\ listenQ'[i] = p
      BY <2>1 DEF TypeOK
    <2>5. peer'[p] = "open" /\ \A q \in Peers \ {p} : peer'[q] = peer[q]
      BY <2>1 DEF TypeOK
    <2>6. \A i, j \in DOMAIN listenQ' : listenQ'[i] = listenQ'[j] => i = j
      BY <2>2, <2>4 DEF ConnectionInv
    <2>7. \A i \in DOMAIN listenQ' : listenQ'[i] \notin accepted' /\ peer'[listenQ'[i]] # "absent"
      BY <1>1, <2>1, <2>2, <2>3, <2>4, <2>5 DEF ConnectionInv
    <2>8. \A q \in accepted' : peer'[q] # "absent"
      BY <2>1, <2>5 DEF ConnectionInv, TypeOK
    <2>9. QED
      BY <2>6, <2>7, <2>8 DEF ConnectionInv
  <1>4. CASE Accept
    <2>1. /\ listenQ # <<>> /\ listenQ' = Tail(listenQ) /\ peer' = peer
          /\ accepted' = accepted \cup {Head(listenQ)}
      BY <1>4 DEF Accept
    <2>2. \A i \in DOMAIN listenQ' : i + 1 \in DOMAIN listenQ /\ listenQ'[i] = listenQ[i + 1] /\ i \in Nat \ {0}
      BY <2>1 DEF TypeOK
    <2>3. 1 \in DOMAIN listenQ /\ Head(listenQ) = listenQ[1]
      BY <2>1 DEF TypeOK
    <2>4. \A i, j \in DOMAIN listenQ' : listenQ'[i] = listenQ'[j] => i = j
      BY <2>2 DEF ConnectionInv
    <2>5. \A i \in DOMAIN listenQ' : listenQ'[i] # Head(listenQ)
      BY <2>2, <2>3 DEF ConnectionInv
    <2>6. QED
      BY <2>1, <2>2, <2>3, <2>4, <2>5 DEF ConnectionInv
  <1>5. QED
    BY <1>2, <1>3, <1>4, NextCases

------------------------------------------------------------------------------
(* Turns.                                                                  *)

\* A step that moves no turn and registers nobody keeps TurnInv.
LEMMA TurnsKept ==
    ASSUME TypeOK, TurnInv, UNCHANGED <<tasks, wsock, mclients, asock, accepted>>,
           apc' = apc \/ apc' # "addTask"
    PROVE  TurnInv'
  BY DEF TurnInv, TurnsAreRegistered, OneTurn, HasTurn

\* The steps that move no turn.
LEMMA IdleTurns ==
    ASSUME TypeOK, TurnInv,
           \/ Ends \/ Apart \/ KeyExchange \/ (\E p \in Peers : Connect(p))
           \/ \E w \in Workers : Working(w)
    PROVE  TurnInv'
  <1>1. CASE Ends
    BY <1>1, EndsDie, TurnsKept DEF Dies, kernel, acceptVars, workerVars
  <1>2. CASE Apart
    BY <1>2, TurnsKept DEF Apart, DatabaseCloses, Run, EnterAccept, ReserveNumber, Quit, PeerCloses, ResetArrives,
                           ShutdownClient, ClientWrites, kernel, acceptVars, workerVars
  <1>3. CASE KeyExchange
    BY <1>3, TurnsKept DEF KeyExchange, ReadKey, ReadKeyEnded, SendKey, SendKeyFails, kernel, workerVars
  <1>4. CASE \E p \in Peers : Connect(p)
    BY <1>4, TurnsKept DEF Connect, acceptVars, workerVars
  <1>5. CASE \E w \in Workers : Working(w)
    BY <1>5, TurnsKept DEF Working, Poll, AskDatabase, AskAnotherClient, LoginFails, SendAnswer,
                           kernel, acceptVars
  <1>6. QED
    BY <1>1, <1>2, <1>3, <1>4, <1>5

\* The accept thread registers a socket nobody has a turn of, then gives it one.
LEMMA AcceptThreadTurns ==
    ASSUME TypeOK, ConnectionInv, TurnInv, Accept \/ Register \/ AddTask
    PROVE  TurnInv'
  <1>1. CASE Accept
    <2>1. /\ listenQ # <<>> /\ asock' = Head(listenQ) /\ accepted' = accepted \cup {asock'}
          /\ apc' = "readKey" /\ UNCHANGED <<tasks, wsock, mclients>>
      BY <1>1 DEF Accept, workerVars
    <2>2. asock' = listenQ[1] /\ 1 \in DOMAIN listenQ
      BY <2>1 DEF TypeOK
    <2>3. asock' \notin accepted
      BY <2>2 DEF ConnectionInv
    <2>4. asock' \notin mclients
      BY <2>3 DEF TurnInv
    <2>5. QED
      BY <2>1, <2>4 DEF TurnInv, TurnsAreRegistered, OneTurn, HasTurn
  <1>2. CASE Register
    <2>1. /\ mclients' = mclients \cup {asock} /\ apc' = "addTask" /\ apc = "insert"
          /\ UNCHANGED <<tasks, wsock, asock, accepted>>
      BY <1>2 DEF Register, kernel, workerVars
    <2>2. asock # None
      BY <2>1 DEF TypeOK
    <2>3. QED
      BY <2>1, <2>2 DEF TurnInv, TurnsAreRegistered, OneTurn, HasTurn
  <1>3. CASE AddTask
    <2>1. /\ tasks' = Append(tasks, asock) /\ asock' = None /\ apc = "addTask" /\ apc' = "accept"
          /\ UNCHANGED <<wsock, mclients, accepted>>
      BY <1>3 DEF AddTask, kernel, workerVars
    <2>2. asock \in Peers /\ asock \in mclients
      BY <2>1 DEF TypeOK, TurnInv
    <2>3. /\ \A i \in DOMAIN tasks : tasks[i] # asock
          /\ \A v \in Workers : wsock[v] # asock
      BY <2>2 DEF TurnInv, TurnsAreRegistered, HasTurn
    <2>4. \A i \in DOMAIN tasks' :
              \/ i \in DOMAIN tasks /\ tasks'[i] = tasks[i]
              \/ i = Len(tasks) + 1 /\ tasks'[i] = asock
      BY <2>1, <2>2 DEF TypeOK
    <2>5. OneTurn'
      BY <2>1, <2>3, <2>4 DEF TurnInv, TurnsAreRegistered, OneTurn
    <2>6. \A p \in Peers : HasTurn(p)' => p \in mclients'
      BY <2>1, <2>2, <2>4 DEF TurnInv, TurnsAreRegistered, HasTurn
    <2>7. QED
      BY <2>1, <2>5, <2>6, Distinct DEF TurnInv, TurnsAreRegistered
  <1>4. QED
    BY <1>1, <1>2, <1>3

\* A worker takes the turn at the head of the queue, and gives it back at the
\* end or drops it with the client's entry.
LEMMA WorkerTurns ==
    ASSUME TypeOK, TurnInv, NEW w \in Workers, Take(w) \/ Dropping(w) \/ Requeue(w)
    PROVE  TurnInv'
  <1>0. TurnsAreRegistered /\ OneTurn
    BY DEF TurnInv, TurnsAreRegistered
  <1>1. CASE Take(w)
    <2>1. /\ wpc[w] = "idle" /\ tasks # <<>> /\ tasks' = Tail(tasks)
          /\ wsock' = [wsock EXCEPT ![w] = Head(tasks)]
          /\ UNCHANGED <<mclients, asock, apc, accepted>>
      BY <1>1 DEF Take, kernel, acceptVars
    <2>2. \A i \in DOMAIN tasks' : i \in Nat \ {0} /\ i + 1 \in DOMAIN tasks /\ tasks'[i] = tasks[i + 1]
      BY <2>1 DEF TypeOK
    <2>3. 1 \in DOMAIN tasks /\ Head(tasks) = tasks[1] /\ tasks[1] \in Peers
      BY <2>1 DEF TypeOK
    <2>4. wsock'[w] = tasks[1] /\ \A v \in Workers \ {w} : wsock'[v] = wsock[v]
      BY <2>1, <2>3 DEF TypeOK
    <2>5. \A i, j \in DOMAIN tasks' : tasks'[i] = tasks'[j] => i = j
      BY <1>0, <2>2 DEF OneTurn
    <2>6. \A u, v \in Workers : wsock'[u] = wsock'[v] /\ wsock'[u] # None => u = v
      BY <1>0, <2>3, <2>4 DEF OneTurn
    <2>7. \A v \in Workers : \A i \in DOMAIN tasks' : tasks'[i] # wsock'[v]
      BY <1>0, <2>2, <2>3, <2>4 DEF OneTurn
    <2>8. \A p \in Peers : HasTurn(p)' => HasTurn(p)
      BY <2>2, <2>3, <2>4 DEF HasTurn
    <2>9. QED
      BY <2>1, <2>5, <2>6, <2>7, <2>8 DEF TurnInv, TurnsAreRegistered, OneTurn
  <1>2. CASE Dropping(w)
    <2>1. /\ RemoveClient(w) /\ wpc[w] # "idle" /\ UNCHANGED <<tasks, asock, apc, accepted>>
      BY <1>2 DEF Dropping, HandleOther, SendAnswerFails, kernel, acceptVars
    <2>2. wsock[w] \in Peers /\ wsock[w] # None
      BY <2>1 DEF TypeOK
    <2>3. wsock'[w] = None /\ \A v \in Workers \ {w} : wsock'[v] = wsock[v]
      BY <2>1 DEF TypeOK, RemoveClient
    <2>4. mclients' = mclients \ {wsock[w]}
      BY <2>1 DEF RemoveClient
    <2>5. HasTurn(wsock[w]) /\ wsock[w] # asock
      BY <1>0, <2>2 DEF HasTurn, TurnsAreRegistered
    <2>6. \A i \in DOMAIN tasks : tasks[i] \in Peers /\ tasks[i] # None
      BY Distinct DEF TypeOK
    <2>7. OneTurn'
      BY <1>0, <2>1, <2>3, <2>6 DEF OneTurn
    <2>8. \A p \in Peers : HasTurn(p)' => HasTurn(p) /\ p # wsock[w]
      BY <1>0, <2>1, <2>2, <2>3, Distinct DEF HasTurn, OneTurn
    <2>9. QED
      BY <2>1, <2>4, <2>5, <2>7, <2>8 DEF TurnInv, TurnsAreRegistered
  <1>3. CASE Requeue(w)
    <2>1. /\ wpc[w] = "requeue" /\ tasks' = Append(tasks, wsock[w])
          /\ wsock' = [wsock EXCEPT ![w] = None]
          /\ UNCHANGED <<mclients, asock, apc, accepted>>
      BY <1>3 DEF Requeue, kernel, acceptVars
    <2>2. wsock[w] \in Peers /\ wsock[w] # None
      BY <2>1 DEF TypeOK
    <2>3. wsock'[w] = None /\ \A v \in Workers \ {w} : wsock'[v] = wsock[v]
      BY <2>1 DEF TypeOK
    <2>4. \A i \in DOMAIN tasks' :
              \/ i \in DOMAIN tasks /\ tasks'[i] = tasks[i]
              \/ i = Len(tasks) + 1 /\ tasks'[i] = wsock[w]
      BY <2>1, <2>2 DEF TypeOK
    <2>5. \A i \in DOMAIN tasks : tasks[i] \in Peers /\ tasks[i] # None
      BY Distinct DEF TypeOK
    <2>6. OneTurn'
      BY <1>0, <2>2, <2>3, <2>4, <2>5 DEF OneTurn
    <2>7. \A p \in Peers : HasTurn(p)' => HasTurn(p)
      BY <2>3, <2>4, Distinct DEF HasTurn
    <2>8. QED
      BY <1>0, <2>1, <2>6, <2>7 DEF TurnInv, TurnsAreRegistered
  <1>4. QED
    BY <1>1, <1>2, <1>3

------------------------------------------------------------------------------
(* Theorems.                                                               *)

\* IInv holds of the initial states.
LEMMA InitialIInv ==
    ASSUME Init PROVE IInv
  <1>1. TypeOK
    BY DEF Init, TypeOK
  <1>2. ConnectionInv
    BY DEF Init, ConnectionInv
  <1>3. TurnInv
    BY Distinct DEF Init, TurnInv, TurnsAreRegistered, OneTurn, HasTurn
  <1>4. QED
    BY <1>1, <1>2, <1>3 DEF IInv

\* No step of the proxy, its peers or the kernel breaks IInv.
LEMMA StepIInv ==
    ASSUME IInv, [Next]_vars PROVE IInv'
  <1>1. CASE Next
    <2>1. TypeOK'
      BY <1>1, NextCases, OutsideTypes, WorkerTypes DEF IInv
    <2>2. ConnectionInv'
      BY <1>1, ConnectionsStep DEF IInv
    <2>3. TurnInv'
      BY <1>1, NextCases, IdleTurns, AcceptThreadTurns, WorkerTurns DEF IInv, Moving
    <2>4. QED
      BY <2>1, <2>2, <2>3 DEF IInv
  <1>2. CASE UNCHANGED vars
    BY <1>2 DEF vars, kernel, acceptVars, workerVars, dbVars, IInv, TypeOK, ConnectionInv, TurnInv,
                TurnsAreRegistered, OneTurn, HasTurn
  <1>3. QED
    BY <1>1, <1>2

\* IInv is an invariant of the proxy, for any number of clients and workers.
THEOREM ProxyInductive == Spec => []IInv
  BY InitialIInv, StepIInv, PTL DEF Spec

\* The types of the proxy's state, and what the position of a thread implies
\* for its locals (threadLoop, handleClient, bindAndListen).
THEOREM ProxyTypes == Spec => []TypeOK
  <1>1. IInv => TypeOK
    BY DEF IInv
  <1>2. QED
    BY <1>1, ProxyInductive, PTL

\* A client has one turn in the pool at most, and its entry in m_clients for
\* as long as it has one (Server.cpp:116-117, ThreadPool.cpp:34-68).
THEOREM TurnsCorrect == Spec => []TurnsAreRegistered
  <1>1. IInv => TurnsAreRegistered
    BY DEF IInv, TurnInv
  <1>2. QED
    BY <1>1, ProxyInductive, PTL

\* Until quit m_databaseServerSocket refers to no client, so no request is
\* written to one.
DatabaseInv ==
    proc \in {"starting", "running"} => misdirected = {} /\ dbFd \in {"database", "none"}

LEMMA NextDatabaseInv == DatabaseInv /\ [Next]_vars => DatabaseInv'
  <1> SUFFICES ASSUME DatabaseInv, [Next]_vars PROVE DatabaseInv'
    OBVIOUS
  <1> USE PeersAssumption DEF DatabaseInv, Peers
  <1>1. CASE Ends
    BY <1>1 DEF Ends, AcceptFails, ReadKeyMalformed, KilledBySendKey,
                MapRace, Exit, HandleKills, AskDatabaseKills, DatabaseAnswers, SignupFails,
                KilledBySend, Dies
  <1>2. CASE Apart
    BY <1>2 DEF Apart, DatabaseCloses, Run, EnterAccept, ReserveNumber, Quit, PeerCloses, ResetArrives,
                ShutdownClient, ClientWrites, dbVars
  <1>3. CASE KeyExchange
    BY <1>3 DEF KeyExchange, ReadKey, ReadKeyEnded, SendKey, SendKeyFails, dbVars
  <1>4. CASE Accept \/ Register \/ AddTask
    BY <1>4 DEF Accept, Register, AddTask, dbVars
  <1>5. CASE \E p \in Peers : Connect(p)
    BY <1>5 DEF Connect, dbVars
  <1>6. ASSUME NEW w \in Workers, Moving(w)
        PROVE  DatabaseInv'
    <2>1. CASE Take(w) \/ Poll(w) \/ Dropping(w) \/ Requeue(w) \/ LoginFails(w) \/ SendAnswer(w)
      BY <2>1 DEF Take, Poll, Dropping, HandleOther, SendAnswerFails, Requeue, LoginFails,
                  SendAnswer, dbVars
    <2>2. CASE AskDatabase(w) \/ AskAnotherClient(w)
      BY <2>2 DEF AskDatabase, AskAnotherClient
    <2> QED BY <1>6, <2>1, <2>2 DEF Moving, Working
  <1>7. CASE UNCHANGED vars
    BY <1>7 DEF vars, dbVars
  <1> QED BY <1>1, <1>2, <1>3, <1>4, <1>5, <1>6, <1>7, NextCases

\* Until quit a request for the database is written to the database's socket,
\* for any number of clients, workers and failures (Server.cpp:40-44).
THEOREM RequestsCorrect == Spec => []RequestsReachDatabase
  <1>1. Init => DatabaseInv
    BY DEF Init, DatabaseInv
  <1>2. DatabaseInv => RequestsReachDatabase
    BY DEF DatabaseInv, RequestsReachDatabase
  <1> QED BY <1>1, <1>2, NextDatabaseInv, PTL DEF Spec

------------------------------------------------------------------------------
(* The proxy implements ProxyService.                                      *)

\* Where a client and the proxy are with each other: nothing asked, a block on
\* its way, the key or a request taken, or a client that will never be answered.
NothingAsked(p) ==
    /\ rx[p] = <<>> /\ InHand(p) = {} /\ sent[p] = Len(answers[p])
    /\ Stage(p) # "greeting"
    /\ Stage(p) = "new" => sent[p] = 0
    /\ Stage(p) # "new" => sent[p] # 0 \/ Left(p)

Asked(p) ==
    /\ \E b \in IF sent[p] = 1 THEN KeyBlocks ELSE RequestBlocks : rx[p] = <<b>>
    /\ InHand(p) = {} /\ sent[p] = Len(answers[p]) + 1
    /\ Stage(p) # "greeting"
    /\ Stage(p) = "new" <=> sent[p] = 1

KeyTaken(p) ==
    rx[p] = <<>> /\ InHand(p) = {} /\ Stage(p) = "greeting" /\ sent[p] = 1 /\ answers[p] = <<>>

RequestInHand(p) ==
    /\ rx[p] = <<>> /\ Stage(p) = "served" /\ sent[p] = Len(answers[p]) + 1
    /\ \E b \in RequestBlocks : InHand(p) = {b}

Forsaken(p) ==
    /\ rx[p] = <<>> /\ InHand(p) = {} /\ sent[p] = Len(answers[p]) + 1
    /\ Stage(p) \notin {"new", "greeting"}
    /\ Left(p) \/ Stage(p) = "dropped"

Conversation(p) ==
    NothingAsked(p) \/ Asked(p) \/ KeyTaken(p) \/ RequestInHand(p) \/ Forsaken(p)

ConversationInv ==
    /\ \A p \in Peers : Conversation(p)
    /\ \A w \in Workers : wpc[w] = "send" => wreq[w] = "login"

\* A step is none of ProxyService if it neither ends the process nor changes
\* what a client can tell.
LEMMA Stutters ==
    ASSUME proc # "dead", proc' # "dead", UNCHANGED <<rx, sent, answers>>,
           \A p \in Peers : Stage(p)' = Stage(p) /\ Left(p)' = Left(p) /\ InHand(p)' = InHand(p)
    PROVE  UNCHANGED Service!serviceVars
  BY DEF Service!serviceVars

\* Stages depend on where a connection is, not on what is done for it.
LEMMA StageKept ==
    ASSUME UNCHANGED <<accepted, asock, apc, tasks, wsock>>, NEW p \in Peers
    PROVE  Stage(p)' = Stage(p)
  BY DEF Stage, HasTurn

\* What a worker has in hand is changed with its client or its request.
LEMMA InHandKept ==
    ASSUME UNCHANGED <<wsock, wreq>>, NEW p \in Peers
    PROVE  InHand(p)' = InHand(p)
  BY DEF InHand

\* A send closes no connection.
LEMMA SendLeavesNobody ==
    ASSUME TypeOK, NEW p \in Peers, AfterSend(p), NEW q \in Peers
    PROVE  Left(q)' = Left(q)
  BY DEF TypeOK, AfterSend, Left

\* A worker's client is served, is out of the accept thread's hands and has
\* no other worker: what is in hand is this worker's request.
LEMMA WorkersClient ==
    ASSUME TypeOK, TurnInv, NEW w \in Workers, wpc[w] # "idle"
    PROVE  /\ wsock[w] \in Peers /\ wsock[w] \in accepted /\ wsock[w] # asock
           /\ Stage(wsock[w]) = "served"
           /\ InHand(wsock[w]) = {wreq[w]} \ {None}
  <1>1. wsock[w] \in Peers /\ wsock[w] # None
    BY DEF TypeOK
  <1>2. HasTurn(wsock[w])
    BY <1>1 DEF HasTurn
  <1>3. wsock[w] \in accepted /\ wsock[w] # asock
    BY <1>1, <1>2 DEF TurnInv, TurnsAreRegistered
  <1>4. Stage(wsock[w]) = "served"
    BY <1>2, <1>3 DEF Stage
  <1>5. \A v \in Workers : wsock[v] = wsock[w] => v = w
    BY <1>1 DEF TurnInv, TurnsAreRegistered, OneTurn
  <1>6. InHand(wsock[w]) = {wreq[w]} \ {None}
    BY <1>5 DEF InHand
  <1>7. QED
    BY <1>1, <1>3, <1>4, <1>6

\* The steps of ProxyServer as steps of ProxyService.
LEMMA EndsMap ==
    ASSUME Ends
    PROVE  Service!Next
  <1>1. Dies /\ proc # "dead"
    BY EndsDie DEF Ends, AcceptFails, ReadKeyMalformed, KilledBySendKey, MapRace, Exit,
         HandleKills, AskDatabaseKills, DatabaseAnswers, SignupFails, KilledBySend, Alive
  <1>2. \A p \in Peers : Stage(p)' = Stage(p) /\ Left(p)' = Left(p) /\ InHand(p)' = InHand(p)
    BY <1>1, StageKept, InHandKept DEF Dies, kernel, acceptVars, workerVars, Left
  <1>3. Service!Die
    BY <1>1, <1>2 DEF Dies, kernel, Service!Die
  <1>4. QED
    BY <1>1, <1>3 DEF Service!Next

\* What peers and the main thread do is seen by a client as a departure or as
\* what it has written itself.
LEMMA ApartMaps ==
    ASSUME TypeOK, Apart \/ \E p \in Peers : Connect(p)
    PROVE  Service!Next \/ UNCHANGED Service!serviceVars
  <1>1. \A p \in Peers : Stage(p)' = Stage(p) /\ InHand(p)' = InHand(p)
    <2>1. CASE EnterAccept \/ ReserveNumber
      <3>1. asock = None /\ UNCHANGED <<accepted, asock, tasks, wsock, wreq>>
        BY <2>1 DEF EnterAccept, ReserveNumber, kernel, workerVars, TypeOK
      <3>2. QED
        BY <3>1, InHandKept, Distinct DEF Stage, HasTurn
    <2>2. CASE ~(EnterAccept \/ ReserveNumber)
      BY <2>2, StageKept, InHandKept DEF Apart, DatabaseCloses, Run, Quit, PeerCloses, ResetArrives,
            ShutdownClient, ClientWrites, Connect, kernel, acceptVars, workerVars
    <2>3. QED
      BY <2>1, <2>2
  <1>2. proc # "dead" /\ proc' # "dead"
    BY DEF Apart, DatabaseCloses, Run, EnterAccept, ReserveNumber, Quit, PeerCloses, ResetArrives,
            ShutdownClient, ClientWrites, Connect, Alive
  <1>3. CASE DatabaseCloses \/ Run \/ EnterAccept \/ ReserveNumber \/ Quit
    BY <1>1, <1>2, <1>3, Stutters DEF DatabaseCloses, Run, EnterAccept, ReserveNumber, Quit, kernel, Left
  <1>4. ASSUME NEW p \in Peers, ResetArrives(p) \/ Connect(p)
        PROVE  UNCHANGED Service!serviceVars
    <2>1. UNCHANGED <<rx, sent, answers>>
      BY <1>4 DEF ResetArrives, Connect
    <2>2. \A q \in Peers : Left(q)' = Left(q)
      BY <1>4 DEF ResetArrives, Connect, Left, TypeOK
    <2>3. QED
      BY <1>1, <1>2, <2>1, <2>2, Stutters
  <1>5. ASSUME NEW p \in Peers, PeerCloses(p) \/ ShutdownClient(p)
        PROVE  Service!Next
    <2>1. UNCHANGED <<rx, sent, answers>>
      BY <1>5 DEF PeerCloses, ShutdownClient
    <2>2. Left(p)' = TRUE /\ \A q \in Peers \ {p} : Left(q)' = Left(q)
      BY <1>5 DEF PeerCloses, ShutdownClient, Left, TypeOK
    <2>3. Service!Leave(p)
      BY <1>1, <1>2, <2>1, <2>2 DEF Service!Leave
    <2>4. QED
      BY <1>2, <2>3 DEF Service!Next
  <1>6. ASSUME NEW p \in Peers, NEW b \in Blocks, ClientWrites(p, b)
        PROVE  Service!Next
    <2>1. \A q \in Peers : Left(q)' = Left(q)
      BY <1>6 DEF ClientWrites, Left
    <2>2. ~Left(p)
      BY <1>6 DEF ClientWrites, Left
    <2>3. Service!Write(p, b)
      BY <1>1, <1>2, <1>6, <2>1, <2>2 DEF ClientWrites, Service!Write
    <2>4. QED
      BY <1>2, <2>3 DEF Service!Next
  <1>7. QED
    BY <1>3, <1>4, <1>5, <1>6 DEF Apart

\* The accept thread exchanges keys with one newcomer at a time.
LEMMA KeyExchangeMaps ==
    ASSUME IInv, ConversationInv, KeyExchange
    PROVE  Service!Next
  <1> DEFINE p == asock
  <1>1. TypeOK /\ TurnInv /\ p \in Peers /\ p \in accepted /\ Conversation(p)
    <2>1. TypeOK /\ TurnInv
      BY DEF IInv
    <2>2. apc \notin InAccept
      BY DEF KeyExchange, ReadKey, ReadKeyEnded, SendKey, SendKeyFails
    <2>3. p \in Peers /\ p # None
      BY <2>1, <2>2 DEF TypeOK
    <2>4. QED
      BY <2>1, <2>3 DEF TurnInv, ConversationInv
  <1>2. proc # "dead" /\ proc' # "dead"
    BY DEF KeyExchange, ReadKey, ReadKeyEnded, SendKey, SendKeyFails, Alive
  <1>3. UNCHANGED <<accepted, asock, tasks, wsock, wreq, sent>>
    BY DEF KeyExchange, ReadKey, ReadKeyEnded, SendKey, SendKeyFails, kernel, workerVars
  <1>4. \A q \in Peers : InHand(q)' = InHand(q)
    BY <1>3, InHandKept
  <1>5. \A q \in Peers \ {p} : Stage(q)' = Stage(q)
    BY <1>3 DEF Stage, HasTurn
  <1>6. \A q \in Peers : Left(q)' = Left(q)
    <2>1. CASE ReadKey \/ ReadKeyEnded
      BY <2>1 DEF ReadKey, ReadKeyEnded, kernel, Left
    <2>2. CASE SendKey \/ SendKeyFails
      BY <1>1, <2>2, SendLeavesNobody DEF SendKey, SendKeyFails, Sends
    <2>3. QED
      BY <2>1, <2>2 DEF KeyExchange
  <1>7. CASE ReadKey
    <2>1. Stage(p) = "new" /\ Stage(p)' = "greeting"
      BY <1>1, <1>3, <1>7 DEF Stage, ReadKey
    <2>2. rx[p] # <<>> /\ Head(rx[p]) # "malformed"
      BY <1>7 DEF ReadKey
    <2>3. Asked(p) /\ sent[p] = 1
      BY <1>1, <2>1, <2>2 DEF Conversation, NothingAsked, Asked, KeyTaken, RequestInHand, Forsaken
    <2>4. rx[p] = <<"key">>
      <3>1. PICK b \in KeyBlocks : rx[p] = <<b>>
        BY <2>3 DEF Asked
      <3>2. b # "malformed"
        BY <2>2, <3>1
      <3>3. QED
        BY <3>1, <3>2, BlocksAssumption
    <2>5. rx' = [rx EXCEPT ![p] = <<>>] /\ UNCHANGED answers
      BY <1>7, <2>4 DEF ReadKey
    <2>6. Service!TakeKey(p)
      BY <1>1, <1>2, <1>3, <1>4, <1>5, <1>6, <2>1, <2>4, <2>5 DEF Service!TakeKey
    <2>7. QED
      BY <1>1, <1>2, <2>6 DEF Service!Next
  <1>8. CASE ReadKeyEnded
    <2>1. Stage(p) = "new" /\ Stage(p)' = "served" /\ rx[p] = <<>> /\ Left(p)
      BY <1>1, <1>3, <1>8 DEF Stage, ReadKeyEnded, Ended, Left
    <2>2. UNCHANGED <<rx, answers>>
      BY <1>8 DEF ReadKeyEnded, kernel
    <2>3. Service!Ungreeted(p)
      BY <1>1, <1>2, <1>3, <1>4, <1>5, <1>6, <2>1, <2>2 DEF Service!Ungreeted
    <2>4. QED
      BY <1>1, <1>2, <2>3 DEF Service!Next
  <1>9. CASE SendKey \/ SendKeyFails
    <2>1. Stage(p) = "greeting" /\ Stage(p)' = "served"
      BY <1>1, <1>3, <1>9 DEF Stage, SendKey, SendKeyFails
    <2>2. KeyTaken(p)
      BY <1>1, <2>1 DEF Conversation, NothingAsked, Asked, RequestInHand, Forsaken
    <2>3. UNCHANGED rx
      BY <1>9 DEF SendKey, SendKeyFails
    <2>4. CASE SendKey
      <3>1. answers' = [answers EXCEPT ![p] = <<"key">>]
        BY <2>2, <2>4 DEF SendKey, Sends, KeyTaken
      <3>2. Service!Greet(p)
        BY <1>1, <1>2, <1>3, <1>4, <1>5, <1>6, <2>1, <2>2, <2>3, <3>1 DEF Service!Greet, KeyTaken
      <3>3. QED
        BY <1>1, <1>2, <3>2 DEF Service!Next
    <2>5. CASE SendKeyFails
      <3>1. Left(p) /\ UNCHANGED answers
        BY <2>5 DEF SendKeyFails, SendFails, Left
      <3>2. Service!Ungreeted(p)
        BY <1>1, <1>2, <1>3, <1>4, <1>5, <1>6, <2>1, <2>2, <2>3, <3>1 DEF Service!Ungreeted, KeyTaken
      <3>3. QED
        BY <1>1, <1>2, <3>2 DEF Service!Next
    <2>6. QED
      BY <1>9, <2>4, <2>5
  <1>10. QED
    BY <1>7, <1>8, <1>9 DEF KeyExchange

\* Accepting, registering and queueing a socket are nothing to its client.
LEMMA AcceptThreadMaps ==
    ASSUME IInv, Accept \/ Register \/ AddTask
    PROVE  Service!Next \/ UNCHANGED Service!serviceVars
  <1>0. TypeOK /\ ConnectionInv /\ TurnInv
    BY DEF IInv
  <1>1. UNCHANGED <<rx, sent, answers, peer, wsock, wreq>> /\ proc # "dead"
    BY DEF Accept, Register, AddTask, kernel, workerVars, Alive
  <1>2. \A p \in Peers : InHand(p)' = InHand(p) /\ Left(p)' = Left(p)
    BY <1>1, InHandKept DEF Left
  <1>3. CASE Accept
    <2>1. /\ listenQ # <<>> /\ asock' = Head(listenQ) /\ accepted' = accepted \cup {asock'}
          /\ apc = "waiting" /\ apc' = "readKey" /\ UNCHANGED <<tasks, wsock, proc>>
      BY <1>3 DEF Accept, workerVars
    <2>2. asock' \notin accepted
      <3>1. asock' = listenQ[1] /\ 1 \in DOMAIN listenQ
        BY <1>0, <2>1 DEF TypeOK
      <3>2. QED
        BY <1>0, <3>1 DEF ConnectionInv
    <2>3. asock = None
      BY <1>0, <2>1 DEF TypeOK
    <2>4. \A p \in Peers : Stage(p)' = Stage(p)
      BY <2>1, <2>2, <2>3, Distinct DEF Stage, HasTurn
    <2>5. QED
      BY <1>1, <1>2, <2>1, <2>4, Stutters
  <1>4. CASE Register
    <2>1. UNCHANGED <<accepted, asock, tasks, wsock, proc>> /\ apc = "insert" /\ apc' = "addTask"
      BY <1>4 DEF Register, kernel, workerVars
    <2>2. \A p \in Peers : Stage(p)' = Stage(p)
      BY <2>1 DEF Stage, HasTurn
    <2>3. QED
      BY <1>1, <1>2, <2>1, <2>2, Stutters
  <1>5. CASE AddTask
    <2>1. /\ tasks' = Append(tasks, asock) /\ asock' = None /\ apc = "addTask" /\ apc' = "accept"
          /\ UNCHANGED <<wsock, accepted, proc>>
      BY <1>5 DEF AddTask, kernel, workerVars
    <2>2. asock \in Peers /\ asock \in accepted
      BY <1>0, <2>1 DEF TypeOK, TurnInv
    <2>3. \A p \in Peers : HasTurn(p)' <=> HasTurn(p) \/ p = asock
      <3>1. /\ \A i \in DOMAIN tasks : i \in DOMAIN tasks' /\ tasks'[i] = tasks[i]
            /\ Len(tasks) + 1 \in DOMAIN tasks' /\ tasks'[Len(tasks) + 1] = asock
            /\ \A i \in DOMAIN tasks' : i \in DOMAIN tasks \/ i = Len(tasks) + 1
        BY <1>0, <2>1, <2>2 DEF TypeOK
      <3>2. QED
        BY <2>1, <3>1 DEF HasTurn
    <2>4. \A p \in Peers : Stage(p)' = Stage(p)
      BY <2>1, <2>2, <2>3, Distinct DEF Stage
    <2>5. QED
      BY <1>1, <1>2, <2>1, <2>4, Stutters
  <1>6. QED
    BY <1>3, <1>4, <1>5

\* A worker takes a request, answers it or drops the client, for the client it
\* has and no other.
LEMMA WorkerMaps ==
    ASSUME IInv, ConversationInv, NEW w \in Workers, Moving(w)
    PROVE  Service!Next \/ UNCHANGED Service!serviceVars
  <1>0. TypeOK /\ TurnInv /\ OneTurn
    BY DEF IInv, TurnInv, TurnsAreRegistered
  <1>1. UNCHANGED <<proc, accepted, asock, apc, sent>> /\ proc # "dead"
    BY DEF Moving, Working, Dropping, Take, Poll, AskDatabase, AskAnotherClient, LoginFails,
           SendAnswer, HandleOther, SendAnswerFails, Requeue, kernel, acceptVars, Alive
  <1>2. CASE Take(w)
    <2>1. /\ wpc[w] = "idle" /\ tasks # <<>> /\ tasks' = Tail(tasks)
          /\ wsock' = [wsock EXCEPT ![w] = Head(tasks)]
          /\ UNCHANGED <<peer, rx, answers, wreq>>
      BY <1>2 DEF Take, kernel
    <2>2. wsock[w] = None /\ wreq[w] = None /\ Head(tasks) \in Peers
      <3>1. wsock[w] = None /\ wreq[w] = None
        BY <1>0, <2>1 DEF TypeOK
      <3>2. tasks \in Seq(Peers)
        BY <1>0 DEF TypeOK
      <3>3. QED
        BY <2>1, <3>1, <3>2
    <2>3. wsock'[w] = Head(tasks) /\ \A v \in Workers \ {w} : wsock'[v] = wsock[v]
      BY <1>0, <2>1 DEF TypeOK
    <2>4. \A q \in Peers : HasTurn(q)' <=> HasTurn(q)
      <3>1. \A q \in Peers : (\E i \in DOMAIN tasks : tasks[i] = q)
                                 <=> (\E i \in DOMAIN tasks' : tasks'[i] = q) \/ q = Head(tasks)
        <4>1. \A i \in DOMAIN tasks' : i + 1 \in DOMAIN tasks /\ tasks'[i] = tasks[i + 1]
          BY <1>0, <2>1 DEF TypeOK
        <4>2. \A i \in DOMAIN tasks : i = 1 \/ (i - 1 \in DOMAIN tasks' /\ tasks'[i - 1] = tasks[i])
          BY SMTT(30), <1>0, <2>1 DEF TypeOK
        <4>3. 1 \in DOMAIN tasks /\ tasks[1] = Head(tasks)
          BY <1>0, <2>1 DEF TypeOK
        <4>4. QED
          BY <4>1, <4>2, <4>3
      <3>2. QED
        BY <2>2, <2>3, <3>1, Distinct DEF HasTurn
    <2>5. \A q \in Peers : InHand(q)' = InHand(q)
      BY <2>1, <2>2, <2>3, Distinct DEF InHand
    <2>6. \A q \in Peers : Stage(q)' = Stage(q) /\ Left(q)' = Left(q)
      BY <1>1, <2>1, <2>4 DEF Stage, Left
    <2>7. QED
      BY <1>1, <2>1, <2>5, <2>6, Stutters
  <1>3. CASE Requeue(w)
    <2>1. /\ wpc[w] = "requeue" /\ tasks' = Append(tasks, wsock[w])
          /\ wsock' = [wsock EXCEPT ![w] = None]
          /\ UNCHANGED <<peer, rx, answers, wreq>>
      BY <1>3 DEF Requeue, kernel
    <2>2. wsock[w] \in Peers /\ wreq[w] = None
      BY <1>0, <2>1 DEF TypeOK
    <2>3. wsock'[w] = None /\ \A v \in Workers \ {w} : wsock'[v] = wsock[v]
      BY <1>0, <2>1 DEF TypeOK
    <2>4. \A q \in Peers : HasTurn(q)' <=> HasTurn(q)
      <3>1. /\ \A i \in DOMAIN tasks : i \in DOMAIN tasks' /\ tasks'[i] = tasks[i]
            /\ Len(tasks) + 1 \in DOMAIN tasks' /\ tasks'[Len(tasks) + 1] = wsock[w]
            /\ \A i \in DOMAIN tasks' : i \in DOMAIN tasks \/ i = Len(tasks) + 1
        BY <1>0, <2>1, <2>2 DEF TypeOK
      <3>2. QED
        BY <2>2, <2>3, <3>1, Distinct DEF HasTurn
    <2>5. \A q \in Peers : InHand(q)' = InHand(q)
      BY <2>1, <2>2, <2>3, Distinct DEF InHand
    <2>6. \A q \in Peers : Stage(q)' = Stage(q) /\ Left(q)' = Left(q)
      BY <1>1, <2>1, <2>4 DEF Stage, Left
    <2>7. QED
      BY <1>1, <2>1, <2>5, <2>6, Stutters
  <1>4. CASE Working(w) \/ Dropping(w)
    <2>0. wpc[w] # "idle"
      BY <1>4, <1>0 DEF Working, Dropping, Poll, AskDatabase, AskAnotherClient, LoginFails, DatabaseFailed,
                        SendAnswer, HandleOther, SendAnswerFails
    <2>a. PICK p \in Peers : p = wsock[w]
      BY <1>0, <2>0, WorkersClient
    <2> USE <2>a
    <2>1. /\ p \in Peers /\ p \in accepted /\ p # asock /\ Stage(p) = "served"
          /\ InHand(p) = {wreq[w]} \ {None}
      BY <1>0, <2>0, WorkersClient
    <2>2. Conversation(p)
      BY <2>1 DEF ConversationInv
    <2>3. \A q \in Peers : Left(q)' = Left(q)
      <3>1. CASE Poll(w) \/ AskDatabase(w) \/ LoginFails(w) \/ HandleOther(w)
        BY <3>1 DEF Poll, AskDatabase, LoginFails, HandleOther, kernel, Left
      <3>2. CASE AskAnotherClient(w)
        BY <1>0, <3>2, SendLeavesNobody DEF AskAnotherClient
      <3>3. CASE SendAnswer(w) \/ SendAnswerFails(w)
        BY <1>0, <2>1, <3>3, SendLeavesNobody DEF SendAnswer, SendAnswerFails, Sends
      <3>4. QED
        BY <1>4, <3>1, <3>2, <3>3 DEF Working, Dropping
    <2>4. CASE Working(w)
      <3>1. UNCHANGED <<tasks, wsock>>
        BY <2>4 DEF Working, Poll, AskDatabase, AskAnotherClient, LoginFails, SendAnswer
      <3>2. \A q \in Peers : Stage(q)' = Stage(q)
        BY <1>1, <3>1, StageKept
      <3>3. CASE AskDatabase(w) \/ AskAnotherClient(w) \/ LoginFails(w)
        <4>1. UNCHANGED <<rx, answers, wreq>>
          BY <3>3 DEF AskDatabase, AskAnotherClient, LoginFails, kernel
        <4>2. QED
          BY <1>1, <2>3, <3>1, <3>2, <4>1, InHandKept, Stutters
      <3>4. CASE Poll(w) /\ rx[p] = <<>>
        <4>1. UNCHANGED <<rx, answers, wreq>>
          BY <3>4 DEF Poll
        <4>2. QED
          BY <1>1, <2>3, <3>1, <3>2, <4>1, InHandKept, Stutters
      <3>5. CASE Poll(w) /\ rx[p] # <<>>
        <4>1. /\ wreq' = [wreq EXCEPT ![w] = Head(rx[p])]
              /\ rx' = [rx EXCEPT ![p] = Tail(@)] /\ UNCHANGED answers /\ wpc[w] = "poll"
          BY <3>5 DEF Poll
        <4>2. wreq[w] = None
          BY <1>0, <4>1 DEF TypeOK
        <4>3. Asked(p) /\ sent[p] # 1
          BY <2>1, <2>2, <3>5 DEF Conversation, NothingAsked, Asked, KeyTaken, RequestInHand, Forsaken
        <4>4. PICK b \in RequestBlocks : rx[p] = <<b>>
          BY <4>3 DEF Asked
        <4>5. rx' = [rx EXCEPT ![p] = <<>>] /\ wreq' = [wreq EXCEPT ![w] = b]
          BY <4>1, <4>4
        <4>6. InHand(p)' = {b}
          <5>1. b # None
            BY BlocksAssumption
          <5>2. \A v \in Workers : wsock'[v] = p <=> v = w
            BY <1>0, <2>1, <3>1, Distinct DEF OneTurn
          <5>3. wreq'[w] = b
            BY <1>0, <4>5 DEF TypeOK
          <5>4. QED
            BY <2>1, <3>1, <5>1, <5>2, <5>3 DEF InHand
        <4>7. \A q \in Peers \ {p} : InHand(q)' = InHand(q)
          BY SMTT(30), <1>0, <3>1, <4>5 DEF InHand, TypeOK
        <4>8. InHand(p) = {}
          BY <2>1, <4>2
        <4>9. Service!Take(p)
          <5>1. [q \in Peers |-> InHand(q)]' = [[q \in Peers |-> InHand(q)] EXCEPT ![p] = {b}]
            BY <2>1, <4>6, <4>7
          <5>2. \E a \in RequestBlocks :
                   rx[p] = <<a>> /\ [q \in Peers |-> InHand(q)]'
                                       = [[q \in Peers |-> InHand(q)] EXCEPT ![p] = {a}]
            BY <4>4, <5>1
          <5>3. [q \in Peers |-> Stage(q)][p] = "served" /\ [q \in Peers |-> InHand(q)][p] = {}
            BY <2>1, <4>8
          <5>4. UNCHANGED <<proc, [q \in Peers |-> Stage(q)], [q \in Peers |-> Left(q)], sent, answers>>
            BY <1>1, <2>3, <3>2, <4>1
          <5>5. QED
            BY <4>5, <5>2, <5>3, <5>4 DEF Service!Take
        <4>10. QED
          BY <1>1, <2>1, <4>9 DEF Service!Next
      <3>6. CASE SendAnswer(w)
        <4>1. /\ wpc[w] = "send" /\ wreq' = [wreq EXCEPT ![w] = None] /\ UNCHANGED rx
              /\ answers' = [answers EXCEPT ![p] = Append(@, "databaseServerError")]
          BY <3>6 DEF SendAnswer, Sends
        <4>2. InHand(p) = {"login"}
          BY <2>1, <4>1, BlocksAssumption DEF ConversationInv
        <4>3. sent[p] = Len(answers[p]) + 1
          BY <2>2, <4>2 DEF Conversation, NothingAsked, Asked, KeyTaken, RequestInHand, Forsaken
        <4>4. InHand(p)' = {}
          <5>1. \A v \in Workers : wsock'[v] = p <=> v = w
            BY <1>0, <2>1, <3>1, Distinct DEF OneTurn
          <5>2. wreq'[w] = None
            BY <1>0, <4>1 DEF TypeOK
          <5>3. QED
            BY <5>1, <5>2 DEF InHand
        <4>5. \A q \in Peers \ {p} : InHand(q)' = InHand(q)
          BY SMTT(30), <1>0, <3>1, <4>1 DEF InHand, TypeOK
        <4>6. Service!Answer(p)
          BY <1>1, <2>1, <2>3, <3>2, <4>1, <4>2, <4>3, <4>4, <4>5 DEF Service!Answer
        <4>7. QED
          BY <1>1, <2>1, <4>6 DEF Service!Next
      <3>7. QED
        BY <2>4, <3>3, <3>4, <3>5, <3>6 DEF Working
    <2>5. CASE Dropping(w)
      <3>1. RemoveClient(w) /\ UNCHANGED <<tasks, rx, answers>>
        BY <2>5 DEF Dropping, HandleOther, SendAnswerFails, kernel
      <3>2. wsock'[w] = None /\ \A v \in Workers \ {w} : wsock'[v] = wsock[v] /\ wreq'[v] = wreq[v]
        BY <1>0, <3>1 DEF TypeOK, RemoveClient
      <3>3. \/ InHand(p) = {"other"}
            \/ InHand(p) = {"login"} /\ Left(p)
        <4>1. CASE HandleOther(w)
          BY <2>1, <4>1, BlocksAssumption DEF HandleOther
        <4>2. CASE SendAnswerFails(w)
          <5>1. Left(p) /\ wpc[w] = "send"
            BY <4>2 DEF SendAnswerFails, SendFails, Left
          <5>2. QED
            BY <2>1, <5>1, BlocksAssumption DEF ConversationInv
        <4>3. QED
          BY <2>5, <4>1, <4>2 DEF Dropping
      <3>4. InHand(p)' = {} /\ Stage(p)' = "dropped"
        <4>1. \A v \in Workers : wsock'[v] # p
          BY <1>0, <2>1, <3>2, Distinct DEF OneTurn
        <4>2. \A i \in DOMAIN tasks : tasks[i] # p
          BY <1>0 DEF OneTurn
        <4>3. InHand(p)' = {}
          BY <4>1 DEF InHand
        <4>4. ~HasTurn(p)'
          BY <3>1, <4>1, <4>2 DEF HasTurn
        <4>5. QED
          BY <1>1, <2>1, <4>3, <4>4 DEF Stage
      <3>5. \A q \in Peers \ {p} : InHand(q)' = InHand(q) /\ Stage(q)' = Stage(q)
        <4>1. \A q \in Peers \ {p} : \A v \in Workers : wsock'[v] = q <=> wsock[v] = q
          BY <3>2, Distinct
        <4>2. \A q \in Peers \ {p} : InHand(q)' = InHand(q)
          BY <3>2, <4>1, Distinct DEF InHand
        <4>3. \A q \in Peers \ {p} : HasTurn(q)' <=> HasTurn(q)
          BY <3>1, <4>1 DEF HasTurn
        <4>4. QED
          BY <1>1, <4>2, <4>3 DEF Stage
      <3>6. Service!Drop(p)
        BY <1>1, <2>1, <2>3, <3>1, <3>3, <3>4, <3>5 DEF Service!Drop
      <3>7. QED
        BY <1>1, <2>1, <3>6 DEF Service!Next
    <2>6. QED
      BY <1>4, <2>4, <2>5
  <1>5. QED
    BY <1>2, <1>3, <1>4 DEF Moving

\* A client that a step is not about, but that may leave, is where it was.
LEMMA ConversationKept ==
    ASSUME NEW q \in Peers, Conversation(q), Left(q) => Left(q)',
           Stage(q)' = Stage(q), InHand(q)' = InHand(q),
           rx'[q] = rx[q], sent'[q] = sent[q], answers'[q] = answers[q]
    PROVE  Conversation(q)'
  BY DEF Conversation, NothingAsked, Asked, KeyTaken, RequestInHand, Forsaken

\* What a step of ProxyService does for p it does for p only.
LEMMA OthersKept ==
    ASSUME TypeOK, NEW p \in Peers,
           \/ \E b \in Blocks : Service!Write(p, b)
           \/ Service!Leave(p) \/ Service!TakeKey(p) \/ Service!Greet(p) \/ Service!Ungreeted(p)
           \/ Service!Take(p) \/ Service!Answer(p) \/ Service!Drop(p)
    PROVE  \A q \in Peers \ {p} :
              /\ Left(q)' = Left(q) /\ Stage(q)' = Stage(q) /\ InHand(q)' = InHand(q)
              /\ rx'[q] = rx[q] /\ sent'[q] = sent[q] /\ answers'[q] = answers[q]
  <1> SUFFICES ASSUME NEW q \in Peers \ {p}
               PROVE  /\ Left(q)' = Left(q) /\ Stage(q)' = Stage(q) /\ InHand(q)' = InHand(q)
                      /\ rx'[q] = rx[q] /\ sent'[q] = sent[q] /\ answers'[q] = answers[q]
    OBVIOUS
  <1>1. /\ [x \in Peers |-> Left(x)]'[q] = [x \in Peers |-> Left(x)][q]
        /\ [x \in Peers |-> Stage(x)]'[q] = [x \in Peers |-> Stage(x)][q]
        /\ [x \in Peers |-> InHand(x)]'[q] = [x \in Peers |-> InHand(x)][q]
    BY DEF Service!Write, Service!Leave, Service!TakeKey, Service!Greet, Service!Ungreeted,
           Service!Take, Service!Answer, Service!Drop
  <1>2. rx'[q] = rx[q] /\ sent'[q] = sent[q] /\ answers'[q] = answers[q]
    BY DEF TypeOK, Service!Write, Service!Leave, Service!TakeKey, Service!Greet, Service!Ungreeted,
           Service!Take, Service!Answer, Service!Drop
  <1>3. QED
    BY <1>1, <1>2

\* A step of ProxyService leads a conversation to its next place.
LEMMA ConversationAdvances ==
    ASSUME TypeOK, NEW p \in Peers, Conversation(p),
           \/ \E b \in Blocks : Service!Write(p, b)
           \/ Service!Leave(p) \/ Service!TakeKey(p) \/ Service!Greet(p) \/ Service!Ungreeted(p)
           \/ Service!Take(p) \/ Service!Answer(p) \/ Service!Drop(p)
    PROVE  Conversation(p)'
  <1>0. /\ sent[p] \in Nat /\ rx[p] \in Seq(Blocks) /\ Len(answers[p]) \in Nat
        /\ DOMAIN rx = Peers /\ DOMAIN sent = Peers /\ DOMAIN answers = Peers
        /\ answers[p] \in Seq({"key", "databaseServerError"})
    BY DEF TypeOK
  <1>1. ASSUME NEW b \in Blocks, Service!Write(p, b)
        PROVE  Conversation(p)'
    <2>1. /\ ~Left(p) /\ sent[p] = Len(answers[p])
          /\ b \in IF sent[p] = 0 THEN KeyBlocks ELSE RequestBlocks
          /\ rx'[p] = Append(rx[p], b) /\ sent'[p] = sent[p] + 1
          /\ Stage(p)' = Stage(p) /\ Left(p)' = Left(p) /\ InHand(p)' = InHand(p) /\ answers' = answers
      <3>1. /\ [x \in Peers |-> Left(x)]'[p] = [x \in Peers |-> Left(x)][p]
            /\ [x \in Peers |-> Stage(x)]'[p] = [x \in Peers |-> Stage(x)][p]
            /\ [x \in Peers |-> InHand(x)]'[p] = [x \in Peers |-> InHand(x)][p]
            /\ ~[x \in Peers |-> Left(x)][p]
        BY <1>1 DEF Service!Write
      <3>2. QED
        BY <1>0, <1>1, <3>1 DEF Service!Write
    <2>2. NothingAsked(p)
      BY <1>0, <2>1 DEF Conversation, Asked, KeyTaken, RequestInHand, Forsaken
    <2>3. rx'[p] = <<b>>
      BY <2>1, <2>2 DEF NothingAsked
    <2>4. Asked(p)'
      BY <1>0, <2>1, <2>2, <2>3 DEF NothingAsked, Asked
    <2>5. QED
      BY <2>4 DEF Conversation
  <1>2. CASE Service!Leave(p)
    <2>1. /\ Left(p)' /\ Stage(p)' = Stage(p) /\ InHand(p)' = InHand(p)
          /\ rx' = rx /\ sent' = sent /\ answers' = answers
      <3>1. /\ [x \in Peers |-> Left(x)]'[p]
            /\ [x \in Peers |-> Stage(x)]'[p] = [x \in Peers |-> Stage(x)][p]
            /\ [x \in Peers |-> InHand(x)]'[p] = [x \in Peers |-> InHand(x)][p]
        BY <1>2 DEF Service!Leave
      <3>2. QED
        BY <1>2, <3>1 DEF Service!Leave
    <2>2. QED
      BY <2>1, ConversationKept
  <1>3. CASE Service!TakeKey(p)
    <2>1. /\ Stage(p) = "new" /\ rx[p] = <<"key">> /\ Stage(p)' = "greeting"
          /\ rx'[p] = <<>> /\ InHand(p)' = InHand(p) /\ sent' = sent /\ answers' = answers
      <3>1. /\ [x \in Peers |-> Stage(x)][p] = "new"
            /\ [x \in Peers |-> Stage(x)]'[p] = "greeting"
            /\ [x \in Peers |-> InHand(x)]'[p] = [x \in Peers |-> InHand(x)][p]
        BY <1>3 DEF Service!TakeKey
      <3>2. QED
        BY <1>0, <1>3, <3>1 DEF Service!TakeKey
    <2>2. Asked(p)
      BY <2>1 DEF Conversation, NothingAsked, KeyTaken, RequestInHand, Forsaken
    <2>3. KeyTaken(p)'
      BY <1>0, <2>1, <2>2 DEF Asked, KeyTaken
    <2>4. QED
      BY <2>3 DEF Conversation
  <1>4. CASE Service!Greet(p)
    <2>1. /\ Stage(p) = "greeting" /\ Stage(p)' = "served" /\ answers'[p] = <<"key">>
          /\ InHand(p)' = InHand(p) /\ rx' = rx /\ sent' = sent
      <3>1. /\ [x \in Peers |-> Stage(x)][p] = "greeting"
            /\ [x \in Peers |-> Stage(x)]'[p] = "served"
            /\ [x \in Peers |-> InHand(x)]'[p] = [x \in Peers |-> InHand(x)][p]
        BY <1>4 DEF Service!Greet
      <3>2. QED
        BY <1>0, <1>4, <3>1 DEF Service!Greet
    <2>2. KeyTaken(p)
      BY <2>1 DEF Conversation, NothingAsked, Asked, RequestInHand, Forsaken
    <2>3. NothingAsked(p)'
      BY <2>1, <2>2 DEF KeyTaken, NothingAsked
    <2>4. QED
      BY <2>3 DEF Conversation
  <1>5. CASE Service!Ungreeted(p)
    <2>1. /\ Stage(p) \in {"new", "greeting"} /\ Left(p) /\ rx[p] = <<>>
          /\ Stage(p)' = "served" /\ Left(p)' = Left(p) /\ InHand(p)' = InHand(p)
          /\ rx' = rx /\ sent' = sent /\ answers' = answers
      <3>1. /\ [x \in Peers |-> Stage(x)][p] \in {"new", "greeting"}
            /\ [x \in Peers |-> Stage(x)]'[p] = "served"
            /\ [x \in Peers |-> Left(x)][p]
            /\ [x \in Peers |-> Left(x)]'[p] = [x \in Peers |-> Left(x)][p]
            /\ [x \in Peers |-> InHand(x)]'[p] = [x \in Peers |-> InHand(x)][p]
        BY <1>5 DEF Service!Ungreeted
      <3>2. QED
        BY <1>5, <3>1 DEF Service!Ungreeted
    <2>2. NothingAsked(p) \/ KeyTaken(p)
      BY <2>1 DEF Conversation, Asked, RequestInHand, Forsaken
    <2>3. NothingAsked(p)' \/ Forsaken(p)'
      BY <2>1, <2>2 DEF KeyTaken, NothingAsked, Forsaken
    <2>4. QED
      BY <2>3 DEF Conversation
  <1>6. CASE Service!Take(p)
    <2>1. PICK b \in RequestBlocks :
            /\ Stage(p) = "served" /\ rx[p] = <<b>> /\ InHand(p)' = {b}
            /\ Stage(p)' = Stage(p) /\ rx'[p] = <<>> /\ sent' = sent /\ answers' = answers
      <3>1. PICK b \in RequestBlocks :
              /\ rx[p] = <<b>>
              /\ [x \in Peers |-> InHand(x)]' = [[x \in Peers |-> InHand(x)] EXCEPT ![p] = {b}]
        BY <1>6 DEF Service!Take
      <3>2. /\ [x \in Peers |-> Stage(x)][p] = "served"
            /\ [x \in Peers |-> Stage(x)]'[p] = [x \in Peers |-> Stage(x)][p]
            /\ [x \in Peers |-> InHand(x)]'[p] = {b}
        BY <1>6, <3>1 DEF Service!Take
      <3>3. QED
        BY <1>0, <1>6, <3>1, <3>2 DEF Service!Take
    <2>2. Asked(p)
      BY <2>1 DEF Conversation, NothingAsked, KeyTaken, RequestInHand, Forsaken
    <2>3. RequestInHand(p)'
      BY <2>1, <2>2 DEF Asked, RequestInHand
    <2>4. QED
      BY <2>3 DEF Conversation
  <1>7. CASE Service!Answer(p)
    <2>1. /\ InHand(p) = {"login"} /\ InHand(p)' = {} /\ Stage(p)' = Stage(p)
          /\ answers'[p] = Append(answers[p], "databaseServerError")
          /\ rx' = rx /\ sent' = sent
      <3>1. /\ [x \in Peers |-> InHand(x)][p] = {"login"}
            /\ [x \in Peers |-> InHand(x)]'[p] = {}
            /\ [x \in Peers |-> Stage(x)]'[p] = [x \in Peers |-> Stage(x)][p]
        BY <1>7 DEF Service!Answer
      <3>2. QED
        BY <1>0, <1>7, <3>1 DEF Service!Answer
    <2>2. RequestInHand(p)
      BY <2>1 DEF Conversation, NothingAsked, Asked, KeyTaken, Forsaken
    <2>3. Len(answers'[p]) = Len(answers[p]) + 1
      BY <1>0, <2>1
    <2>4. NothingAsked(p)'
      BY <1>0, <2>1, <2>2, <2>3 DEF RequestInHand, NothingAsked
    <2>5. QED
      BY <2>4 DEF Conversation
  <1>8. CASE Service!Drop(p)
    <2>1. /\ InHand(p) # {} /\ InHand(p)' = {} /\ Stage(p)' = "dropped"
          /\ rx' = rx /\ sent' = sent /\ answers' = answers
      <3>1. /\ [x \in Peers |-> InHand(x)][p] # {}
            /\ [x \in Peers |-> InHand(x)]'[p] = {}
            /\ [x \in Peers |-> Stage(x)]'[p] = "dropped"
        BY <1>8 DEF Service!Drop
      <3>2. QED
        BY <1>8, <3>1 DEF Service!Drop
    <2>2. RequestInHand(p)
      BY <2>1 DEF Conversation, NothingAsked, Asked, KeyTaken, Forsaken
    <2>3. Forsaken(p)'
      BY <2>1, <2>2 DEF RequestInHand, Forsaken
    <2>4. QED
      BY <2>3 DEF Conversation
  <1>9. QED
    BY <1>1, <1>2, <1>3, <1>4, <1>5, <1>6, <1>7, <1>8

\* Every step of the proxy is a step of ProxyService or none.
LEMMA ServiceStep ==
    ASSUME IInv, ConversationInv, [Next]_vars
    PROVE  [Service!Next]_Service!serviceVars
  <1>0. TypeOK
    BY DEF IInv
  <1>1. CASE Next
    BY <1>0, <1>1, NextCases, EndsMap, ApartMaps, KeyExchangeMaps, AcceptThreadMaps, WorkerMaps
  <1>2. CASE UNCHANGED vars
    BY <1>2, StageKept, InHandKept DEF vars, kernel, acceptVars, workerVars, dbVars, Left, Service!serviceVars
  <1>3. QED
    BY <1>1, <1>2

\* With ServiceStep, the places a conversation may be in are all there are.
LEMMA ConversationStep ==
    ASSUME IInv, ConversationInv, [Next]_vars
    PROVE  ConversationInv'
  <1>0. TypeOK
    BY DEF IInv
  <1>1. \A p \in Peers : Conversation(p)'
    <2>1. CASE Service!Die \/ UNCHANGED Service!serviceVars
      <3> SUFFICES ASSUME NEW q \in Peers PROVE Conversation(q)'
        OBVIOUS
      <3>1. /\ [x \in Peers |-> Left(x)]'[q] = [x \in Peers |-> Left(x)][q]
            /\ [x \in Peers |-> Stage(x)]'[q] = [x \in Peers |-> Stage(x)][q]
            /\ [x \in Peers |-> InHand(x)]'[q] = [x \in Peers |-> InHand(x)][q]
            /\ rx' = rx /\ sent' = sent /\ answers' = answers
        BY <2>1 DEF Service!Die, Service!serviceVars
      <3>2. Left(q)' = Left(q) /\ Stage(q)' = Stage(q) /\ InHand(q)' = InHand(q)
        BY <3>1
      <3>3. QED
        BY <3>1, <3>2, ConversationKept DEF ConversationInv
    <2>2. ASSUME NEW p \in Peers,
                 \/ \E b \in Blocks : Service!Write(p, b)
                 \/ Service!Leave(p) \/ Service!TakeKey(p) \/ Service!Greet(p) \/ Service!Ungreeted(p)
                 \/ Service!Take(p) \/ Service!Answer(p) \/ Service!Drop(p)
          PROVE  \A q \in Peers : Conversation(q)'
      <3>1. Conversation(p)'
        BY <1>0, <2>2, ConversationAdvances DEF ConversationInv
      <3>2. ASSUME NEW q \in Peers \ {p} PROVE Conversation(q)'
        BY <1>0, <2>2, OthersKept, ConversationKept DEF ConversationInv
      <3>3. QED
        BY <3>1, <3>2
    <2>3. [Service!Next]_Service!serviceVars
      BY ServiceStep
    <2>4. QED
      BY <2>1, <2>2, <2>3 DEF Service!Next
  <1>2. \A w \in Workers : wpc'[w] = "send" => wreq'[w] = "login"
    <2>1. CASE UNCHANGED <<wpc, wreq>>
      BY <2>1 DEF ConversationInv
    <2>2. CASE Ends \/ Apart \/ KeyExchange \/ Accept \/ Register \/ AddTask \/ \E p \in Peers : Connect(p)
      <3>1. CASE Ends
        BY <2>1, <3>1, EndsDie DEF Dies, workerVars
      <3>2. CASE Apart
        BY <2>1, <3>2 DEF Apart, DatabaseCloses, Run, EnterAccept, ReserveNumber, Quit, PeerCloses, ResetArrives,
                          ShutdownClient, ClientWrites, workerVars
      <3>3. CASE KeyExchange \/ Accept \/ Register \/ AddTask \/ \E p \in Peers : Connect(p)
        BY <2>1, <3>3 DEF KeyExchange, ReadKey, ReadKeyEnded, SendKey, SendKeyFails, Accept, Register,
                          AddTask, Connect, workerVars
      <3>4. QED
        BY <2>2, <3>1, <3>2, <3>3
    <2>3. ASSUME NEW w \in Workers, Moving(w), NEW v \in Workers, wpc'[v] = "send"
          PROVE  wreq'[v] = "login"
      <3>1. CASE v # w
        BY <1>0, <2>3, <3>1
           DEF ConversationInv, TypeOK, Moving, Working, Dropping, Take, Poll, AskDatabase, AskAnotherClient,
               LoginFails, SendAnswer, HandleOther, SendAnswerFails, RemoveClient, Requeue
      <3>2. CASE v = w
        <4>1. LoginFails(w)
          BY <1>0, <2>3, <3>2
             DEF TypeOK, Moving, Working, Dropping, Take, Poll, AskDatabase, AskAnotherClient,
                 SendAnswer, HandleOther, SendAnswerFails, RemoveClient, Requeue
        <4>2. QED
          BY <3>2, <4>1 DEF LoginFails
      <3>3. QED
        BY <3>1, <3>2
    <2>4. CASE UNCHANGED vars
      BY <2>1, <2>4 DEF vars, workerVars
    <2>5. QED
      BY <2>2, <2>3, <2>4, NextCases
  <1>3. QED
    BY <1>1, <1>2 DEF ConversationInv

\* ProxyServer implements ProxyService, for any number of clients, workers,
\* sockets and blocks: whatever the threads, the kernel, the database and quit
\* do, each client is served as by a server of its own
\* (Server.cpp:78-119, 142-176, ThreadPool.cpp:34-68).
THEOREM ImplementsService == Spec => ServiceSpec
  <1>1. Init => IInv /\ ConversationInv
    <2> SUFFICES ASSUME Init PROVE IInv /\ ConversationInv
      OBVIOUS
    <2>1. IInv
      BY InitialIInv
    <2>2. ASSUME NEW p \in Peers PROVE NothingAsked(p)
      BY Distinct DEF Init, NothingAsked, Stage, InHand
    <2>3. \A w \in Workers : wpc[w] # "send"
      BY DEF Init
    <2>4. QED
      BY <2>1, <2>2, <2>3 DEF ConversationInv, Conversation
  <1>2. Init => Service!Init
    <2> SUFFICES ASSUME Init PROVE Service!Init
      OBVIOUS
    <2>1. \A p \in Peers : Stage(p) = "new" /\ Left(p) = FALSE /\ InHand(p) = {}
      BY DEF Init, Stage, Left, InHand
    <2>2. QED
      BY <2>1 DEF Init, Service!Init
  <1>3. IInv /\ ConversationInv /\ [Next]_vars => (IInv /\ ConversationInv)'
    BY StepIInv, ConversationStep
  <1>4. IInv /\ ConversationInv /\ [Next]_vars => [Service!Next]_Service!serviceVars
    BY ServiceStep
  <1>5. QED
    BY <1>1, <1>2, <1>3, <1>4, PTL DEF Spec, ServiceSpec, Service!Spec
=============================================================================
