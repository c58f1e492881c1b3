---------------------------- MODULE StartupProofs ----------------------------
(***************************************************************************)
(* Proofs about KeyFiles and Startup: the keys of a process belong         *)
(* together and are never replaced, wherever it is killed, and a relay     *)
(* that runs is connected to both servers.                                 *)
(***************************************************************************)
EXTENDS Startup, TLAPS

(* The key files.  A private key is on disk only beside its public key,    *)
(* and while a pair is being made there is no private key on disk.         *)
KeyInv ==
    /\ KeyTypeOK
    /\ KeysBelongTogether
    /\ \A p \in Procs :
          /\ file[p].priv \in Nat => file[p].pub = file[p].priv
          /\ kpc[p] \in {"create", "createPrivate", "savePublic", "savePrivate"}
                => file[p].priv \notin Nat
          /\ kpc[p] = "savePrivate" => file[p].pub = made[p]

LEMMA InitKeyInv == KeyInit => KeyInv
  BY ContentsAssumption, PairsAssumption
  DEF KeyInit, KeyInv, KeyTypeOK, KeysBelongTogether, Complete, Contents

\* The keys of a process are its own affair: one step of one of them.
LEMMA KeyStepKeepsInv ==
    ASSUME KeyInv, NEW p \in Procs, Enter(p) \/ KeyWork(p) \/ Forget(p)
    PROVE  KeyInv'
  <1> USE ContentsAssumption, PairsAssumption DEF KeyInv, KeyTypeOK, KeysBelongTogether,
        Complete, Contents, BothExist, KeyStep
  <1>1. CASE Enter(p)
    BY <1>1 DEF Enter
  <1>2. CASE Reuse(p)
    BY <1>2 DEF Reuse
  <1>3. CASE Generate(p)
    BY <1>3 DEF Generate
  <1>4. CASE GenerateFails(p)
    BY <1>4 DEF GenerateFails
  <1>5. CASE CreatePublic(p)
    BY <1>5 DEF CreatePublic
  <1>6. CASE CreatePrivate(p)
    BY <1>6 DEF CreatePrivate
  <1>7. CASE SavePublic(p)
    BY <1>7 DEF SavePublic
  <1>8. CASE SavePrivate(p)
    BY <1>8 DEF SavePrivate
  <1>9. CASE Load(p)
    BY <1>9 DEF Load
  <1>10. CASE Forget(p)
    BY <1>10 DEF Forget
  <1> QED BY <1>1, <1>2, <1>3, <1>4, <1>5, <1>6, <1>7, <1>8, <1>9, <1>10 DEF KeyWork

LEMMA KeysUntouched == KeyInv /\ UNCHANGED keyVars => KeyInv'
  BY DEF KeyInv, KeyTypeOK, KeysBelongTogether, keyVars

\* No step of a process replaces a complete pair.
LEMMA PairKept ==
    ASSUME KeyInv, NEW p \in Procs, Enter(p) \/ KeyWork(p) \/ Forget(p),
           NEW q \in Procs, Complete(file[q])
    PROVE  file'[q] = file[q]
  <1> USE ContentsAssumption DEF KeyInv, KeyTypeOK, Complete, KeyStep
  <1>1. CASE CreatePublic(p) \/ CreatePrivate(p) \/ SavePublic(p) \/ SavePrivate(p)
    BY <1>1 DEF CreatePublic, CreatePrivate, SavePublic, SavePrivate
  <1>2. CASE UNCHANGED file
    BY <1>2
  <1> QED
    BY <1>1, <1>2 DEF Enter, KeyWork, Forget, Reuse, Generate, GenerateFails, Load

\* Every step of the network is a step of one process's keys, or of none.
LEMMA StartupStepsKeys ==
    ASSUME Next, ProcsAssumption
    PROVE  \/ \E p \in Procs : Enter(p) \/ KeyWork(p) \/ Forget(p)
           \/ UNCHANGED keyVars
  <1>1. Proxy \in Procs /\ Relays \subseteq Procs
    BY DEF ProcsAssumption
  <1>2. CASE StartDatabase \/ ServeNext \/ KillDatabase
    BY <1>2 DEF StartDatabase, ServeNext, KillDatabase
  <1>3. CASE StartProxy \/ ProxyAborts \/ KillProxy
    BY <1>1, <1>3 DEF StartProxy, ProxyAborts, KillProxy, ProxyEnds
  <1>4. CASE ProxyWorks
    BY <1>1, <1>4 DEF ProxyWorks, ProxyKeys, ProxyConnects, ProxyAccepts, ProxyAnswers,
                      ProxyReadsEnd, KeyWork
  <1>5. ASSUME NEW r \in Relays, StartRelay(r) \/ RelayStarts(r) \/ RelayBuildsPath(r) \/ KillRelay(r)
        PROVE  (Enter(r) \/ KeyWork(r) \/ Forget(r)) \/ UNCHANGED keyVars
    <2>1. CASE StartRelay(r)
      BY <2>1 DEF StartRelay
    <2>2. CASE RelayStarts(r)
      BY <2>2 DEF RelayStarts, RelayConnectsDatabase, RelayConnectsProxy, RelayKeys,
                  RelayRuns, RelayThrows, RelayEnds
    <2>3. CASE RelayBuildsPath(r)
      BY <2>3 DEF RelayBuildsPath
    <2>4. CASE KillRelay(r)
      BY <2>4 DEF KillRelay, RelayEnds
    <2> QED BY <1>5, <2>1, <2>2, <2>3, <2>4
  <1>6. ASSUME NEW c \in Clients, ClientConnects(c) \/ ClientWrites(c) \/ KillClient(c)
        PROVE  UNCHANGED keyVars
    BY <1>6 DEF ClientConnects, ClientWrites, KillClient
  <1> QED BY <1>1, <1>2, <1>3, <1>4, <1>5, <1>6 DEF Next

\* The halves of the pair a process has read belong together, for any number
\* of processes, kills and restarts.
THEOREM KeysCorrect == Spec => []KeysBelongTogether
  <1>1. Init => KeyInv
    BY InitKeyInv DEF Init
  <1>2. KeyInv /\ [Next]_vars => KeyInv'
    BY StartupStepsKeys, KeyStepKeepsInv, KeysUntouched, ProcsAssumption DEF vars
  <1>3. KeyInv => KeysBelongTogether
    BY DEF KeyInv
  <1> QED BY <1>1, <1>2, <1>3, PTL DEF Spec

\* A pair that is on disk stays there, for any number of processes and kills.
THEOREM StableCorrect == Spec => KeysStable
  <1>1. Init => KeyInv
    BY InitKeyInv DEF Init
  <1>2. KeyInv /\ [Next]_vars => KeyInv'
    BY StartupStepsKeys, KeyStepKeepsInv, KeysUntouched, ProcsAssumption DEF vars
  <1>3. KeyInv /\ [Next]_vars =>
            [\A p \in Procs : Complete(file[p]) => file'[p] = file[p]]_keyVars
    BY StartupStepsKeys, PairKept, ProcsAssumption DEF vars
  <1> QED BY <1>1, <1>2, <1>3, PTL DEF Spec, KeysStable

------------------------------------------------------------------------------
(* Types.                                                                  *)

\* The queues stay sequences when something is put in, taken out or left.
LEMMA QueueTypes ==
    ASSUME NEW S, NEW q \in Seq(S \cup {None}), NEW p \in S
    PROVE  /\ Append(q, p) \in Seq(S \cup {None})
           /\ Without(q, p) \in Seq(S \cup {None})
           /\ <<>> \in Seq(S \cup {None})
           /\ q # <<>> => Head(q) \in S \cup {None} /\ Tail(q) \in Seq(S \cup {None})
  <1>1. Without(q, p) \in [1..Len(q) -> S \cup {None}]
    BY DEF Without
  <1>2. Without(q, p) \in Seq(S \cup {None})
    BY <1>1, Len(q) \in Nat
  <1> QED BY <1>2

Newcomers == Relays \cup Clients

\* What the proofs need of TypeOK beside the keys.
NetTypeOK ==
    /\ dbUp \in BOOLEAN
    /\ dbQ \in Seq(Procs \cup {None}) /\ dbConn \in Procs \cup {None}
    /\ pc \in [Procs -> {"off", "keys", "accept", "readKey", "database", "proxy", "running"}]
    /\ failed \subseteq Relays
    /\ proxyQ \in Seq(Newcomers \cup {None})
    /\ asock \in Newcomers \cup {None} /\ (asock # None => pc[Proxy] = "readKey")
    /\ client \in [Clients -> {"off", "connected", "waiting", "answered"}]
    /\ kills \in 0..MaxKills /\ killed \subseteq Procs \cup Clients \cup {Database}

LEMMA TypesSplit == TypeOK <=> KeyTypeOK /\ NetTypeOK
  BY DEF TypeOK, NetTypeOK, Newcomers

LEMMA KillTypes ==
    ASSUME NetTypeOK, NEW x \in Procs \cup Clients \cup {Database}, Kill(x)
    PROVE  kills' \in 0..MaxKills /\ killed' \subseteq Procs \cup Clients \cup {Database}
  BY BoundsAssumption DEF NetTypeOK, Kill

LEMMA InitNetTypes == Init => NetTypeOK
  <1> SUFFICES ASSUME Init PROVE NetTypeOK
    OBVIOUS
  <1>1. dbQ \in Seq(Procs \cup {None}) /\ proxyQ \in Seq(Newcomers \cup {None})
    BY DEF Init
  <1>2. 0 \in 0..MaxKills
    BY BoundsAssumption
  <1> QED BY <1>1, <1>2 DEF Init, NetTypeOK

LEMMA NextNetTypes ==
    ASSUME NetTypeOK, Next
    PROVE  NetTypeOK'
  <1> USE ProcsAssumption
  <1> USE DEF NetTypeOK, dbVars, proxyVars, relayVars, Goto
  <1>1. CASE StartDatabase
    BY <1>1 DEF StartDatabase
  <1>2. CASE ServeNext
    BY <1>2 DEF ServeNext
  <1>3. CASE KillDatabase
    <2>1. kills' \in 0..MaxKills /\ killed' \subseteq Procs \cup Clients \cup {Database}
      BY <1>3, KillTypes DEF KillDatabase
    <2>2. dbQ' \in Seq(Procs \cup {None})
      BY <1>3 DEF KillDatabase
    <2> QED BY <1>3, <2>1, <2>2 DEF KillDatabase
  <1>4. CASE StartProxy
    BY <1>4 DEF StartProxy
  <1>5. CASE ProxyKeys
    BY <1>5 DEF ProxyKeys
  <1>6. CASE ProxyConnects
    <2>1. Append(dbQ, Proxy) \in Seq(Procs \cup {None})
      BY QueueTypes
    <2>2. dbUp' \in BOOLEAN /\ dbQ' \in Seq(Procs \cup {None}) /\ dbConn' \in Procs \cup {None}
      BY <1>6, <2>1 DEF ProxyConnects, ConnectDatabase
    <2> QED BY <1>6, <2>2 DEF ProxyConnects
  <1>7. CASE ProxyAccepts
    BY <1>7 DEF ProxyAccepts
  <1>8. CASE ProxyAnswers
    BY <1>8 DEF ProxyAnswers
  <1>9. CASE ProxyReadsEnd
    BY <1>9 DEF ProxyReadsEnd
  <1>10. CASE ProxyAborts \/ KillProxy
    <2>1. Without(dbQ, Proxy) \in Seq(Procs \cup {None})
      BY QueueTypes
    <2>2. kills' \in 0..MaxKills /\ killed' \subseteq Procs \cup Clients \cup {Database}
      BY <1>10, KillTypes DEF ProxyAborts, KillProxy
    <2>3. ProxyEnds
      BY <1>10 DEF ProxyAborts, KillProxy
    <2> QED BY <2>1, <2>2, <2>3 DEF ProxyEnds, Left
  <1>11. ASSUME NEW r \in Relays, StartRelay(r) \/ RelayStarts(r) \/ RelayBuildsPath(r) \/ KillRelay(r)
         PROVE  NetTypeOK'
    <2>1. r \in Procs /\ r # Proxy
      OBVIOUS
    <2>2. CASE StartRelay(r)
      BY <2>1, <2>2 DEF StartRelay
    <2>3. CASE RelayConnectsDatabase(r)
      <3>1. Append(dbQ, r) \in Seq(Procs \cup {None})
        BY <2>1, QueueTypes
      <3>2. /\ dbUp' \in BOOLEAN /\ dbQ' \in Seq(Procs \cup {None})
            /\ dbConn' \in Procs \cup {None} /\ failed' \subseteq Relays
        BY <2>3, <3>1 DEF RelayConnectsDatabase, ConnectDatabase
      <3> QED BY <2>1, <2>3, <3>2 DEF RelayConnectsDatabase
    <2>4. CASE RelayConnectsProxy(r)
      <3>1. Append(proxyQ, r) \in Seq(Newcomers \cup {None})
        BY QueueTypes DEF Newcomers
      <3>2. proxyQ' \in Seq(Newcomers \cup {None}) /\ failed' \subseteq Relays
        BY <2>4, <3>1 DEF RelayConnectsProxy
      <3> QED BY <2>1, <2>4, <3>2 DEF RelayConnectsProxy
    <2>5. CASE RelayKeys(r) \/ RelayBuildsPath(r)
      BY <2>5 DEF RelayKeys, RelayBuildsPath
    <2>6. CASE RelayRuns(r)
      BY <2>1, <2>6 DEF RelayRuns
    <2>7. ASSUME RelayEnds(r),
                 kills' \in 0..MaxKills /\ killed' \subseteq Procs \cup Clients \cup {Database}
          PROVE  NetTypeOK'
      <3>1. Without(dbQ, r) \in Seq(Procs \cup {None})
        BY <2>1, QueueTypes
      <3>2. Without(proxyQ, r) \in Seq(Newcomers \cup {None})
        BY QueueTypes DEF Newcomers
      <3> QED BY <2>1, <2>7, <3>1, <3>2 DEF RelayEnds, Left
    <2>8. CASE RelayThrows(r)
      BY <2>7, <2>8 DEF RelayThrows
    <2>9. CASE KillRelay(r)
      BY <2>1, <2>7, <2>9, KillTypes DEF KillRelay
    <2> QED BY <1>11, <2>2, <2>3, <2>4, <2>5, <2>6, <2>8, <2>9 DEF RelayStarts
  <1>12. ASSUME NEW c \in Clients, ClientConnects(c) \/ ClientWrites(c) \/ KillClient(c)
         PROVE  NetTypeOK'
    <2>1. Append(proxyQ, c) \in Seq(Newcomers \cup {None}) /\ Without(proxyQ, c) \in Seq(Newcomers \cup {None})
      BY QueueTypes DEF Newcomers
    <2>2. CASE ClientConnects(c)
      BY <2>1, <2>2 DEF ClientConnects
    <2>3. CASE ClientWrites(c)
      BY <2>3 DEF ClientWrites
    <2>4. CASE KillClient(c)
      <3>1. kills' \in 0..MaxKills /\ killed' \subseteq Procs \cup Clients \cup {Database}
        BY <2>4, KillTypes DEF KillClient
      <3> QED BY <2>1, <2>4, <3>1 DEF KillClient, Left
    <2> QED BY <1>12, <2>2, <2>3, <2>4
  <1> QED
    BY <1>1, <1>2, <1>3, <1>4, <1>5, <1>6, <1>7, <1>8, <1>9, <1>10, <1>11, <1>12
    DEF Next, ProxyWorks

LEMMA NetTypesKept == NetTypeOK /\ [Next]_vars => NetTypeOK'
  <1>1. NetTypeOK /\ UNCHANGED vars => NetTypeOK'
    BY DEF NetTypeOK, vars, dbVars, proxyVars, relayVars
  <1> QED BY <1>1, NextNetTypes

\* TypeOK is an invariant, for any number of relays, clients and kills.
THEOREM StartupTypes == Spec => []TypeOK
  <1>1. Init => KeyInv /\ NetTypeOK
    BY InitKeyInv, InitNetTypes DEF Init
  <1>2. KeyInv /\ NetTypeOK /\ [Next]_vars => (KeyInv /\ NetTypeOK)'
    BY StartupStepsKeys, KeyStepKeepsInv, KeysUntouched, NetTypesKept, ProcsAssumption DEF vars
  <1>3. KeyInv /\ NetTypeOK => TypeOK
    BY TypesSplit DEF KeyInv
  <1> QED BY <1>1, <1>2, <1>3, PTL DEF Spec

------------------------------------------------------------------------------
(* A relay that runs is connected.                                         *)

LEMMA InQueueFacts ==
    ASSUME NEW S, NEW q \in Seq(S), NEW p \in S, NEW r
    PROVE  /\ InQueue(Append(q, p), r) <=> InQueue(q, r) \/ p = r
           /\ q # <<>> => (InQueue(q, r) <=> Head(q) = r \/ InQueue(Tail(q), r))
           /\ r # p /\ InQueue(q, r) => InQueue(Without(q, p), r)
  <1>1. InQueue(Append(q, p), r) <=> InQueue(q, r) \/ p = r
    <2>1. ASSUME NEW i \in DOMAIN q PROVE i \in DOMAIN Append(q, p) /\ Append(q, p)[i] = q[i]
      OBVIOUS
    <2>2. Len(q) + 1 \in DOMAIN Append(q, p) /\ Append(q, p)[Len(q) + 1] = p
      OBVIOUS
    <2>3. ASSUME NEW i \in DOMAIN Append(q, p) PROVE i = Len(q) + 1 \/ i \in DOMAIN q
      OBVIOUS
    <2> QED BY <2>1, <2>2, <2>3 DEF InQueue
  <1>2. ASSUME q # <<>> PROVE InQueue(q, r) <=> Head(q) = r \/ InQueue(Tail(q), r)
    <2>1. 1 \in DOMAIN q /\ Head(q) = q[1]
      BY <1>2
    <2>2. ASSUME NEW i \in DOMAIN Tail(q) PROVE i + 1 \in DOMAIN q /\ Tail(q)[i] = q[i + 1]
      BY <1>2
    <2>3. ASSUME NEW i \in DOMAIN q, i # 1 PROVE i - 1 \in DOMAIN Tail(q) /\ Tail(q)[i - 1] = q[i]
      BY <1>2, <2>3
    <2> QED BY SMTT(30), <2>1, <2>2, <2>3 DEF InQueue
  <1>3. r # p /\ InQueue(q, r) => InQueue(Without(q, p), r)
    BY DEF InQueue, Without
  <1> QED BY <1>1, <1>2, <1>3

\* Until it ends, a relay stays with the database server if that is not killed.
LEMMA DatabaseKeepsRelay ==
    ASSUME NetTypeOK, Next, NEW r \in Relays, AtDatabase(r) \/ Database \in killed
    PROVE  AtDatabase(r)' \/ Database \in killed' \/ pc'[r] = "off"
  <1> USE ProcsAssumption DEF dbVars, relayVars
  <1>1. r # None /\ r \in Procs /\ r # Proxy
    OBVIOUS
  <1>2. dbQ \in Seq(Procs \cup {None})
    BY DEF NetTypeOK
  <1>3. ASSUME NEW p \in Procs, dbQ' = Append(dbQ, p), UNCHANGED <<dbConn, killed>>
        PROVE  AtDatabase(r)' \/ Database \in killed'
    BY <1>2, <1>3, InQueueFacts DEF AtDatabase
  <1>4. ASSUME NEW p \in Procs, p # r, dbQ' = Without(dbQ, p), dbConn' = Left(dbConn, p),
               Database \in killed => Database \in killed'
        PROVE  AtDatabase(r)' \/ Database \in killed'
    BY <1>2, <1>4, InQueueFacts DEF AtDatabase, Left
  <1>5. CASE ServeNext
    <2>1. dbConn # r /\ dbConn' = Head(dbQ) /\ dbQ' = Tail(dbQ) /\ dbQ # <<>> /\ killed' = killed
      BY <1>1, <1>5 DEF ServeNext
    <2>2. InQueue(dbQ, r) => Head(dbQ) = r \/ InQueue(Tail(dbQ), r)
      BY <1>1, <1>2, <2>1, InQueueFacts
    <2> QED BY <2>1, <2>2 DEF AtDatabase
  <1>6. CASE KillDatabase
    BY <1>6 DEF KillDatabase, Kill
  <1>7. CASE ProxyAborts \/ KillProxy
    BY <1>1, <1>4, <1>7 DEF ProxyAborts, KillProxy, ProxyEnds, Kill
  <1>8. CASE ProxyConnects
    BY <1>3, <1>8 DEF ProxyConnects, ConnectDatabase, AtDatabase
  <1>9. CASE \E s \in Relays : RelayConnectsDatabase(s)
    BY <1>3, <1>9 DEF RelayConnectsDatabase, ConnectDatabase, AtDatabase
  <1>10. ASSUME NEW s \in Relays, RelayThrows(s) \/ KillRelay(s)
         PROVE  AtDatabase(r)' \/ Database \in killed' \/ pc'[r] = "off"
    <2>1. pc' = [pc EXCEPT ![s] = "off"] /\ dbQ' = Without(dbQ, s) /\ dbConn' = Left(dbConn, s)
          /\ (Database \in killed => Database \in killed')
      BY <1>10 DEF RelayThrows, KillRelay, RelayEnds, Kill
    <2>2. CASE s = r
      BY <1>1, <2>1, <2>2 DEF NetTypeOK
    <2>3. CASE s # r
      BY <1>4, <2>1, <2>3
    <2> QED BY <2>2, <2>3
  <1>11. ASSUME UNCHANGED <<dbQ, dbConn>>, Database \in killed => Database \in killed'
         PROVE  AtDatabase(r)' \/ Database \in killed'
    BY <1>11 DEF AtDatabase
  <1>12. CASE StartDatabase \/ StartProxy \/ ProxyKeys \/ ProxyAccepts \/ ProxyAnswers \/ ProxyReadsEnd
    BY <1>11, <1>12 DEF StartDatabase, StartProxy, ProxyKeys, ProxyAccepts, ProxyAnswers, ProxyReadsEnd
  <1>13. ASSUME NEW s \in Relays, \/ StartRelay(s) \/ RelayConnectsProxy(s) \/ RelayKeys(s)
                                  \/ RelayRuns(s) \/ RelayBuildsPath(s)
         PROVE  AtDatabase(r)' \/ Database \in killed'
    BY <1>11, <1>13 DEF StartRelay, RelayConnectsProxy, RelayKeys, RelayRuns, RelayBuildsPath
  <1>14. ASSUME NEW c \in Clients, ClientConnects(c) \/ ClientWrites(c) \/ KillClient(c)
         PROVE  AtDatabase(r)' \/ Database \in killed'
    BY <1>11, <1>14 DEF ClientConnects, ClientWrites, KillClient, Kill
  <1> QED
    BY <1>5, <1>6, <1>7, <1>8, <1>9, <1>10, <1>12, <1>13, <1>14 DEF Next, ProxyWorks, RelayStarts

\* Until it ends, a relay stays with the proxy if that is not killed.
LEMMA ProxyKeepsRelay ==
    ASSUME NetTypeOK, Next, NEW r \in Relays, AtProxy(r) \/ Proxy \in killed
    PROVE  AtProxy(r)' \/ Proxy \in killed' \/ pc'[r] = "off"
  <1> USE ProcsAssumption DEF proxyVars, relayVars
  <1>1. r # None /\ r \in Procs /\ r # Proxy /\ r \notin Clients /\ r \in Newcomers
    BY DEF Newcomers
  <1>2. proxyQ \in Seq(Newcomers \cup {None})
    BY DEF NetTypeOK
  <1>3. ASSUME NEW p \in Newcomers, proxyQ' = Append(proxyQ, p), UNCHANGED <<asock, killed>>
        PROVE  AtProxy(r)' \/ Proxy \in killed'
    BY <1>2, <1>3, InQueueFacts DEF AtProxy
  <1>4. ASSUME NEW p \in Newcomers, p # r, proxyQ' = Without(proxyQ, p), asock' = Left(asock, p),
               Proxy \in killed => Proxy \in killed'
        PROVE  AtProxy(r)' \/ Proxy \in killed'
    BY <1>2, <1>4, InQueueFacts DEF AtProxy, Left
  <1>5. CASE ProxyAccepts
    <2>1. asock # r /\ asock' = Head(proxyQ) /\ proxyQ' = Tail(proxyQ) /\ proxyQ # <<>> /\ killed' = killed
      BY <1>1, <1>5 DEF ProxyAccepts, Goto, NetTypeOK
    <2>2. InQueue(proxyQ, r) => Head(proxyQ) = r \/ InQueue(Tail(proxyQ), r)
      BY <1>1, <1>2, <2>1, InQueueFacts
    <2> QED BY <2>1, <2>2 DEF AtProxy
  <1>6. CASE ProxyAnswers
    BY <1>1, <1>6 DEF ProxyAnswers, AtProxy
  <1>7. CASE ProxyAborts \/ KillProxy
    BY <1>7 DEF ProxyAborts, KillProxy, Kill
  <1>8. CASE \E s \in Relays : RelayConnectsProxy(s)
    BY <1>3, <1>8 DEF RelayConnectsProxy, AtProxy, Newcomers
  <1>9. CASE \E c \in Clients : ClientConnects(c)
    BY <1>3, <1>9 DEF ClientConnects, Newcomers
  <1>10. CASE \E c \in Clients : KillClient(c)
    BY <1>1, <1>4, <1>10 DEF KillClient, Kill, Newcomers
  <1>11. ASSUME NEW s \in Relays, RelayThrows(s) \/ KillRelay(s)
         PROVE  AtProxy(r)' \/ Proxy \in killed' \/ pc'[r] = "off"
    <2>1. pc' = [pc EXCEPT ![s] = "off"] /\ proxyQ' = Without(proxyQ, s) /\ asock' = Left(asock, s)
          /\ (Proxy \in killed => Proxy \in killed')
      BY <1>11 DEF RelayThrows, KillRelay, RelayEnds, Kill
    <2>2. CASE s = r
      BY <1>1, <2>1, <2>2 DEF NetTypeOK
    <2>3. CASE s # r
      BY <1>4, <2>1, <2>3 DEF Newcomers
    <2> QED BY <2>2, <2>3
  <1>12. ASSUME UNCHANGED <<proxyQ, asock>>, Proxy \in killed => Proxy \in killed'
         PROVE  AtProxy(r)' \/ Proxy \in killed'
    BY <1>12 DEF AtProxy
  <1>13. CASE StartDatabase \/ ServeNext \/ KillDatabase
    BY <1>12, <1>13 DEF StartDatabase, ServeNext, KillDatabase, Kill
  <1>14. CASE StartProxy \/ ProxyKeys \/ ProxyConnects \/ ProxyReadsEnd
    BY <1>12, <1>14 DEF StartProxy, ProxyKeys, ProxyConnects, ProxyReadsEnd
  <1>15. ASSUME NEW s \in Relays, \/ StartRelay(s) \/ RelayConnectsDatabase(s) \/ RelayKeys(s)
                                  \/ RelayRuns(s) \/ RelayBuildsPath(s)
         PROVE  AtProxy(r)' \/ Proxy \in killed'
    BY <1>12, <1>15 DEF StartRelay, RelayConnectsDatabase, RelayKeys, RelayRuns, RelayBuildsPath
  <1>16. CASE \E c \in Clients : ClientWrites(c)
    BY <1>12, <1>16 DEF ClientWrites
  <1> QED
    BY <1>5, <1>6, <1>7, <1>8, <1>9, <1>10, <1>11, <1>13, <1>14, <1>15, <1>16
    DEF Next, ProxyWorks, RelayStarts

\* The three steps that lead a relay to "running"; the others leave it where it
\* is or take it back to the start.
LEMMA RelayMoves ==
    ASSUME NetTypeOK, Next, NEW r \in Relays
    PROVE  \/ pc'[r] = pc[r] /\ (r \in failed' <=> r \in failed)
           \/ pc'[r] \in {"off", "database"}
           \/ RelayConnectsDatabase(r) \/ RelayConnectsProxy(r) \/ RelayRuns(r)
  <1> USE ProcsAssumption DEF relayVars, Goto
  <1>1. r \in Procs /\ r # Proxy /\ pc \in [Procs -> {"off", "keys", "accept", "readKey", "database", "proxy", "running"}]
    BY DEF NetTypeOK
  <1>2. CASE StartDatabase \/ ServeNext \/ KillDatabase
    BY <1>2 DEF StartDatabase, ServeNext, KillDatabase
  <1>3. CASE StartProxy \/ ProxyWorks \/ ProxyAborts \/ KillProxy
    BY <1>1, <1>3 DEF StartProxy, ProxyWorks, ProxyKeys, ProxyConnects, ProxyAccepts,
                      ProxyAnswers, ProxyReadsEnd, ProxyAborts, KillProxy, ProxyEnds
  <1>4. CASE \E c \in Clients : ClientConnects(c) \/ ClientWrites(c) \/ KillClient(c)
    BY <1>4 DEF ClientConnects, ClientWrites, KillClient
  <1>5. CASE \E s \in Relays : StartRelay(s) \/ RelayThrows(s) \/ KillRelay(s)
    BY <1>1, <1>5 DEF StartRelay, RelayThrows, KillRelay, RelayEnds
  <1>6. CASE \E s \in Relays : RelayKeys(s) \/ RelayBuildsPath(s)
    BY <1>6 DEF RelayKeys, RelayBuildsPath
  <1>7. ASSUME NEW s \in Relays, RelayConnectsDatabase(s) \/ RelayConnectsProxy(s) \/ RelayRuns(s),
               s # r
        PROVE  pc'[r] = pc[r] /\ (r \in failed' <=> r \in failed)
    BY <1>1, <1>7 DEF RelayConnectsDatabase, RelayConnectsProxy, RelayRuns
  <1> QED BY <1>2, <1>3, <1>4, <1>5, <1>6, <1>7 DEF Next, RelayStarts

\* A relay none of whose connects failed has the connections it has come to.
ConnInv ==
    \A r \in Relays :
        /\ pc[r] \in {"proxy", "keys", "running"} /\ r \notin failed
              => AtDatabase(r) \/ Database \in killed
        /\ pc[r] \in {"keys", "running"} /\ r \notin failed
              => AtProxy(r) \/ Proxy \in killed
        /\ pc[r] = "running" => r \notin failed

LEMMA NextConnInv ==
    ASSUME NetTypeOK, ConnInv, Next
    PROVE  ConnInv'
  <1> USE ProcsAssumption
  <1> SUFFICES ASSUME NEW r \in Relays
      PROVE  (/\ pc[r] \in {"proxy", "keys", "running"} /\ r \notin failed
                    => AtDatabase(r) \/ Database \in killed
              /\ pc[r] \in {"keys", "running"} /\ r \notin failed
                    => AtProxy(r) \/ Proxy \in killed
              /\ pc[r] = "running" => r \notin failed)'
    BY DEF ConnInv
  <1>1. r \in Procs /\ pc \in [Procs -> {"off", "keys", "accept", "readKey", "database", "proxy", "running"}]
    BY DEF NetTypeOK
  <1>2. CASE pc'[r] = pc[r] /\ (r \in failed' <=> r \in failed)
    BY <1>2, DatabaseKeepsRelay, ProxyKeepsRelay DEF ConnInv
  <1>3. CASE pc'[r] \in {"off", "database"}
    BY <1>3
  <1>4. CASE RelayConnectsDatabase(r)
    <2>1. dbQ \in Seq(Procs \cup {None}) /\ pc'[r] = "proxy"
      BY <1>1, <1>4 DEF NetTypeOK, RelayConnectsDatabase, Goto
    <2>2. r \notin failed' => AtDatabase(r)'
      <3>1. InQueue(Append(dbQ, r), r)
        BY <1>1, <2>1, InQueueFacts
      <3> QED BY <1>4, <3>1 DEF RelayConnectsDatabase, ConnectDatabase, AtDatabase
    <2> QED BY <2>1, <2>2
  <1>5. CASE RelayConnectsProxy(r)
    <2>1. proxyQ \in Seq(Newcomers \cup {None}) /\ r \in Newcomers
          /\ pc[r] = "proxy" /\ pc'[r] = "keys" /\ (r \in failed => r \in failed')
      BY <1>1, <1>5 DEF NetTypeOK, Newcomers, RelayConnectsProxy, Goto
    <2>2. r \notin failed' => AtProxy(r)'
      <3>1. InQueue(Append(proxyQ, r), r)
        BY <2>1, InQueueFacts
      <3> QED BY <1>5, <3>1 DEF RelayConnectsProxy, AtProxy
    <2> QED BY <2>1, <2>2, DatabaseKeepsRelay DEF ConnInv
  <1>6. CASE RelayRuns(r)
    <2>1. pc[r] = "keys" /\ pc'[r] = "running" /\ r \notin failed /\ failed' = failed
      BY <1>1, <1>6 DEF RelayRuns, Goto
    <2> QED BY <2>1, DatabaseKeepsRelay, ProxyKeepsRelay DEF ConnInv
  <1> QED BY <1>2, <1>3, <1>4, <1>5, <1>6, RelayMoves

\* A relay that runs is connected to both servers, as long as they were not
\* killed, for any number of relays and clients, backlogs and kills.
THEOREM RunningCorrect == Spec => []RunningIsConnected
  <1>1. Init => NetTypeOK /\ ConnInv
    BY InitNetTypes, ProcsAssumption DEF Init, ConnInv
  <1>2. NetTypeOK /\ ConnInv /\ [Next]_vars => (NetTypeOK /\ ConnInv)'
    <2>1. ConnInv /\ UNCHANGED vars => ConnInv'
      BY DEF ConnInv, vars, dbVars, proxyVars, relayVars, AtDatabase, AtProxy
    <2> QED BY <2>1, NetTypesKept, NextConnInv
  <1>3. ConnInv => RunningIsConnected
    BY DEF ConnInv, RunningIsConnected
  <1> QED BY <1>1, <1>2, <1>3, PTL DEF Spec
=============================================================================
