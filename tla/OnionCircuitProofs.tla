-------------------------- MODULE OnionCircuitProofs --------------------------
(***************************************************************************)
(* Proofs about OnionCircuit, for any number of relays and any keys: the   *)
(* path that is built is the one asked for, only the message leaves it,    *)
(* and the client can read the reply where the moduli allow it.            *)
(***************************************************************************)
EXTENDS OnionCircuit, TLAPS

\* Connections go from each hop to the one after it, and a relay that was not
\* set up has made none.
TopologyInv ==
    /\ \A h \in Hops : target[h] \in {None, h + 1}
    /\ \A h \in Hops : target[h] = None =>
          link[h] = "none" /\ down[h] = <<>> /\ taken[h] = 0
    /\ \A i \in Relays : relay[i] = "new" => target[i] = None /\ taken[i - 1] = 0
    /\ \A i \in Relays : relay[i] = "open" => target[i] = i + 1 /\ layer[i] = keys[i]

\* Connection h carries the client's blocks from the (h + 1)-st on, in order.
OrderInv ==
    \A h \in Hops :
        /\ \A k \in 1..Len(down[h]) : down[h][k] = Block(h + taken[h] + k)
        /\ taken[h] + Len(down[h]) <= N + 1 - h

\* What a hop has taken and not kept, it has passed on.
PassedOnInv ==
    /\ client = "connect" => written = 0 /\ target[0] = None
    /\ client = "send" => written <= N
    /\ client = "send" /\ link[0] = "open" => written = taken[0] + Len(down[0])
    /\ \A i \in Relays : relay[i] = "open" /\ link[i] = "open" =>
          taken[i - 1] = taken[i] + Len(down[i]) + 1

PathInv == TopologyInv /\ OrderInv /\ PassedOnInv

\* v is the answer under the layers of the relays i..N, each of which could be
\* put on.
Layered(i, v) ==
    \E w \in [i..Destination -> Nat] :
        /\ w[i] = v /\ w[Destination] = answer
        /\ \A j \in i..N : /\ w[j + 1] < keys[j].n
                           /\ w[j] = PowMod(w[j + 1], keys[j].e, keys[j].n)

LayersInv ==
    /\ \A h \in Hops : \A k \in 1..Len(up[h]) : Layered(h + 1, up[h][k])
    /\ client \in {"peel", "printed"} => Layered(peeled + 1, val)

ReplyInv ==
    /\ destination = "waiting" => answer = None
    /\ client \in {"connect", "send", "read"} => peeled = 0
    /\ client = "printed" => peeled = N
    /\ ModuliDescend => LayersInv

IInv == TypeOK /\ PathInv /\ ReplyInv

USE CircuitAssumption, NoneAssumption DEF Relays, Hops, Destination

------------------------------------------------------------------------------
(* Sequences.                                                              *)

LEMMA AppendFacts ==
    ASSUME NEW S, NEW s \in Seq(S), NEW x \in S
    PROVE  /\ Append(s, x) \in Seq(S)
           /\ Len(Append(s, x)) = Len(s) + 1
           /\ \A k \in 1..(Len(s) + 1) : Append(s, x)[k] = IF k = Len(s) + 1 THEN x ELSE s[k]
  OBVIOUS

LEMMA TailFacts ==
    ASSUME NEW S, NEW s \in Seq(S), s # <<>>
    PROVE  /\ Head(s) \in S /\ Head(s) = s[1] /\ Len(s) \in Nat \ {0}
           /\ Tail(s) \in Seq(S) /\ Len(Tail(s)) = Len(s) - 1
           /\ \A k \in 1..(Len(s) - 1) : Tail(s)[k] = s[k + 1]
  OBVIOUS

\* A connection that a hop has closed loses what was in it.
LEMMA HangupFacts ==
    ASSUME TypeOK, NEW h \in Hops, NEW rest, Hangup(h, rest)
    PROVE  /\ link' \in [Hops -> LinkStates] /\ down' \in [Hops -> Seq(Blocks)]
           /\ down' = [down EXCEPT ![h] = <<>>]
           /\ \A g \in Hops : link'[g] = "open" => link[g] = "open" /\ g # h
           /\ \A g \in Hops : link'[g] = "none" <=> link[g] = "none"
  <1>1. link' = [link EXCEPT ![h] = link'[h]] /\ link'[h] \in {link[h], "fin", "rst"}
    BY DEF TypeOK, Hangup
  <1>2. down' \in [Hops -> Seq(Blocks)]
    BY DEF TypeOK, Hangup
  <1>3. QED
    BY <1>1, <1>2 DEF TypeOK, Hangup, LinkStates

------------------------------------------------------------------------------
(* Types.                                                                  *)

LEMMA BlockType ==
    ASSUME TypeOK, NEW k \in Nat \ {0}
    PROVE  Block(k) \in Blocks
  BY DEF TypeOK, Block, Blocks, SetupBlock, Message

\* RSA of a number, or what is in the buffer if it fails, is a number.
LEMMA RsaTypes ==
    ASSUME NEW k \in Keys, NEW v \in Nat
    PROVE  Encrypted(k, v) \subseteq Nat /\ Decrypted(k, v) \subseteq Nat
  <1>1. Garbage \subseteq Nat
    OBVIOUS
  <1>2. CASE v < k.n
    <2>1. k.n \in Nat /\ v \in 0..(k.n - 1)
      BY <1>2, KeysAssumption
    <2>2. PowMod(v, k.e, k.n) \in 0..(k.n - 1) /\ PowMod(v, k.d, k.n) \in 0..(k.n - 1)
      BY <2>1, KeysAssumption
    <2>3. PowMod(v, k.e, k.n) \in Nat /\ PowMod(v, k.d, k.n) \in Nat
      BY <2>1, <2>2
    <2>4. QED
      BY <1>2, <2>3 DEF Encrypted, Decrypted
  <1>3. CASE ~(v < k.n)
    BY <1>1, <1>3 DEF Encrypted, Decrypted
  <1>4. QED
    BY <1>2, <1>3

\* A relay is served by the connection of the hop before it.
LEMMA ServedBefore ==
    ASSUME TypeOK, TopologyInv, NEW h \in Hops, NEW i \in Relays, Serves(h, i)
    PROVE  h = i - 1 /\ h + 1 = i
  <1>1. target[h] = i /\ target[h] \in {None, h + 1}
    BY DEF TopologyInv, Serves
  <1>2. i \in Nat /\ i # None
    OBVIOUS
  <1>3. QED
    BY <1>1, <1>2

\* The client keeps the types.
LEMMA ClientTypes ==
    ASSUME TypeOK, PathInv, Client
    PROVE  TypeOK'
  <1>1. CASE ClientConnects
    BY <1>1 DEF ClientConnects, TypeOK, LinkStates, clientVars, relayVars, netVars, destVars
  <1>2. CASE ClientSends
    <2>1. Block(written + 1) \in Blocks
      BY BlockType DEF TypeOK
    <2>2. Append(down[0], Block(written + 1)) \in Seq(Blocks)
      <3>1. down[0] \in Seq(Blocks)
        BY DEF TypeOK
      <3>2. QED
        BY <2>1, <3>1, AppendFacts
    <2>3. down' \in [Hops -> Seq(Blocks)]
      BY <1>2, <2>2 DEF ClientSends, SendDown, TypeOK
    <2>4. link' \in [Hops -> LinkStates]
      BY <1>2 DEF ClientSends, SendDown, TypeOK, LinkStates
    <2>5. written \in 0..N /\ written' \in 0..(N + 1) /\ client' \in {"read", "send"}
      BY <1>2 DEF ClientSends, TypeOK, PathInv, PassedOnInv
    <2>6. QED
      BY <1>2, <2>3, <2>4, <2>5 DEF ClientSends, TypeOK, relayVars, destVars
  <1>3. CASE ClientReads
    <2>1. Head(up[0]) \in Nat /\ Tail(up[0]) \in Seq(Nat)
      BY SMTT(30), <1>3, TailFacts DEF ClientReads, TypeOK
    <2>2. QED
      BY <1>3, <2>1 DEF ClientReads, TypeOK, relayVars, destVars
  <1>4. CASE ClientPeels
    <2>0. peeled \in 0..N /\ peeled < N /\ keys \in [Relays -> Keys]
      BY <1>4 DEF ClientPeels, TypeOK
    <2>1. peeled + 1 \in Relays /\ keys[peeled + 1] \in Keys
      BY <2>0
    <2>2. val' \in Nat
      BY <1>4, <2>1, RsaTypes DEF ClientPeels, TypeOK
    <2>3. QED
      BY <1>4, <2>1, <2>2 DEF ClientPeels, TypeOK, relayVars, netVars, destVars
  <1>5. CASE ClientRefused \/ ClientSendFails \/ ClientReadFails \/ ClientPrints
    BY <1>5 DEF ClientRefused, ClientSendFails, ClientReadFails, ClientPrints, TypeOK,
                relayVars, netVars, destVars
  <1>6. QED
    BY <1>1, <1>2, <1>3, <1>4, <1>5 DEF Client

LEMMA TakenType ==
    ASSUME TypeOK, NEW h \in Hops, taken' = [taken EXCEPT ![h] = @ + 1]
    PROVE  taken' \in [Hops -> Nat]
  <1>1. taken \in [Hops -> Nat]
    BY DEF TypeOK
  <1>2. QED
    BY <1>1

\* The relays keep the types.
LEMMA RelayTypes ==
    ASSUME TypeOK, PathInv, NEW i \in Relays, NEW h \in Hops,
           \/ RelayConnects(h, i) \/ RelayRefused(h, i)
           \/ RelayForwards(h, i) \/ RelayForwardFails(h, i)
           \/ RelayReplies(h, i) \/ RelayReplyFails(h, i)
    PROVE  TypeOK'
  <1>1. CASE RelayConnects(h, i)
    <2>1. Head(down[h]) \in Blocks /\ Tail(down[h]) \in Seq(Blocks)
      BY <1>1, TailFacts DEF RelayConnects, IsSetup, TypeOK
    <2>2. Head(down[h]).to \in 1..Destination /\ Head(down[h]).key \in Keys
      BY <1>1, <2>1 DEF RelayConnects, IsSetup, Blocks, Message
    <2>3. down' \in [Hops -> Seq(Blocks)] /\ taken' \in [Hops -> Nat]
      <3>1. down \in [Hops -> Seq(Blocks)]
        BY DEF TypeOK
      <3>2. down' = [down EXCEPT ![h] = Tail(down[h])]
        BY <1>1, <3>1 DEF RelayConnects
      <3>3. QED
        BY <1>1, <2>1, <3>1, <3>2, TakenType DEF RelayConnects
    <2>4. layer' \in [Relays -> Keys \cup {None}] /\ target' \in [Hops -> (1..Destination) \cup {None}]
      BY <1>1, <2>2 DEF RelayConnects, TypeOK
    <2>5. relay' \in [Relays -> {"new", "open", "cut", "dead"}] /\ link' \in [Hops -> LinkStates]
      BY <1>1 DEF RelayConnects, TypeOK, LinkStates
    <2>6. QED
      BY <1>1, <2>3, <2>4, <2>5 DEF RelayConnects, TypeOK, clientVars, destVars
  <1>2. CASE RelayRefused(h, i)
    <2>1. relay' \in [Relays -> {"new", "open", "cut", "dead"}] /\ taken' \in [Hops -> Nat]
      BY <1>2, TakenType DEF RelayRefused, TypeOK
    <2>2. link' \in [Hops -> LinkStates] /\ down' \in [Hops -> Seq(Blocks)]
      BY <1>2, HangupFacts DEF RelayRefused
    <2>3. QED
      BY <1>2, <2>1, <2>2 DEF RelayRefused, TypeOK, clientVars, destVars
  <1>3. CASE RelayForwards(h, i)
    <2>1. Head(down[h]) \in Blocks /\ Tail(down[h]) \in Seq(Blocks)
      BY <1>3, TailFacts DEF RelayForwards, TypeOK
    <2>2. Append(down[i], Head(down[h])) \in Seq(Blocks)
      <3>1. down[i] \in Seq(Blocks)
        BY DEF TypeOK
      <3>2. QED
        BY <2>1, <3>1, AppendFacts
    <2>3. h # i /\ down' = [down EXCEPT ![h] = Tail(down[h]),
                  ![i] = IF link[i] = "open" THEN Append(down[i], Head(down[h])) ELSE down[i]]
      BY <1>3, ServedBefore DEF RelayForwards, PathInv
    <2>4. down' \in [Hops -> Seq(Blocks)]
      BY <2>1, <2>2, <2>3 DEF TypeOK
    <2>5. link' \in [Hops -> LinkStates] /\ taken' \in [Hops -> Nat]
      BY <1>3, TakenType DEF RelayForwards, TypeOK, LinkStates
    <2>6. QED
      BY <1>3, <2>4, <2>5 DEF RelayForwards, TypeOK, clientVars, relayVars, destVars
  <1>4. CASE RelayForwardFails(h, i)
    <2>1. relay' \in [Relays -> {"new", "open", "cut", "dead"}] /\ taken' \in [Hops -> Nat]
      BY <1>4, TakenType DEF RelayForwardFails, TypeOK
    <2>2. link' \in [Hops -> LinkStates] /\ down' \in [Hops -> Seq(Blocks)]
      BY <1>4, HangupFacts DEF RelayForwardFails
    <2>3. QED
      BY <1>4, <2>1, <2>2 DEF RelayForwardFails, TypeOK, clientVars, destVars
  <1>5. CASE RelayReplies(h, i)
    <2>1. Head(up[i]) \in Nat /\ Tail(up[i]) \in Seq(Nat)
      <3>1. up[i] \in Seq(Nat) /\ up[i] # <<>>
        BY <1>5 DEF RelayReplies, TypeOK
      <3>2. QED
        BY <3>1, TailFacts
    <2>2. layer[i] \in Keys
      BY <1>5 DEF RelayReplies, TypeOK, PathInv, TopologyInv
    <2>3. PICK v \in Nat :
             up' = [up EXCEPT ![i] = Tail(@), ![h] = IF Listening(h) THEN Append(@, v) ELSE @]
      BY <1>5, <2>1, <2>2, RsaTypes DEF RelayReplies
    <2>4. up' \in [Hops -> Seq(Nat)]
      BY <2>1, <2>3, AppendFacts DEF TypeOK
    <2>5. QED
      BY <1>5, <2>4 DEF RelayReplies, TypeOK, clientVars, relayVars, destVars
  <1>6. CASE RelayReplyFails(h, i)
    <2>1. up' \in [Hops -> Seq(Nat)]
      BY <1>6 DEF RelayReplyFails, TypeOK
    <2>2. QED
      BY <1>6, <2>1, HangupFacts DEF RelayReplyFails, TypeOK, clientVars, destVars
  <1>7. QED
    BY <1>1, <1>2, <1>3, <1>4, <1>5, <1>6

\* So do the destination, a crash and a reset.
LEMMA OtherTypes ==
    ASSUME TypeOK,
           \/ \E h \in Hops : DestinationAnswers(h) \/ DestinationDies(h) \/ ResetArrives(h)
           \/ \E i \in Relays : RelayCrashes(i)
    PROVE  TypeOK'
  <1>1. CASE \E h \in Hops : DestinationAnswers(h)
    <2>1. PICK h \in Hops : DestinationAnswers(h)
      BY <1>1
    <2>2. PICK b \in Bodies :
             answer' = b /\ up' = [up EXCEPT ![h] = IF Listening(h) THEN Append(@, b) ELSE @]
      BY <2>1 DEF DestinationAnswers
    <2>3. up' \in [Hops -> Seq(Nat)]
      <3>1. b \in Nat
        BY BodiesAssumption
      <3>2. up \in [Hops -> Seq(Nat)]
        BY DEF TypeOK
      <3>3. Append(up[h], b) \in Seq(Nat)
        BY <3>1, <3>2, AppendFacts
      <3>4. QED
        BY <2>2, <3>2, <3>3
    <2>4. down' \in [Hops -> Seq(Blocks)]
      <3>1. down \in [Hops -> Seq(Blocks)] /\ down[h] # <<>>
        BY <2>1 DEF DestinationAnswers, TypeOK
      <3>2. Tail(down[h]) \in Seq(Blocks)
        BY <3>1, TailFacts
      <3>3. QED
        BY <2>1, <3>1, <3>2 DEF DestinationAnswers
    <2>5. taken' \in [Hops -> Nat]
      BY <2>1, TakenType DEF DestinationAnswers
    <2>6. QED
      BY <2>1, <2>2, <2>3, <2>4, <2>5 DEF DestinationAnswers, TypeOK, clientVars, relayVars
  <1>2. CASE \E h \in Hops : DestinationDies(h)
    <2>1. PICK h \in Hops : DestinationDies(h)
      BY <1>2
    <2>2. link' \in [Hops -> LinkStates] /\ down' \in [Hops -> Seq(Blocks)]
      BY <2>1, HangupFacts DEF DestinationDies
    <2>3. taken' \in [Hops -> Nat]
      BY <2>1, TakenType DEF DestinationDies
    <2>4. QED
      BY <2>1, <2>2, <2>3 DEF DestinationDies, TypeOK, clientVars, relayVars
  <1>3. CASE \E h \in Hops : ResetArrives(h)
    BY <1>3 DEF ResetArrives, TypeOK, LinkStates, clientVars, relayVars, destVars
  <1>4. CASE \E i \in Relays : RelayCrashes(i)
    <2>1. PICK i \in Relays : RelayCrashes(i)
      BY <1>4
    <2>2. down' \in [Hops -> Seq(Blocks)] /\ up' \in [Hops -> Seq(Nat)]
      BY <2>1 DEF RelayCrashes, TypeOK
    <2>3. link' \in [Hops -> LinkStates]
      BY <2>1 DEF RelayCrashes, TypeOK, LinkStates
    <2>4. QED
      BY <2>1, <2>2, <2>3 DEF RelayCrashes, TypeOK, clientVars, destVars
  <1>5. QED
    BY <1>1, <1>2, <1>3, <1>4

------------------------------------------------------------------------------
(* The path.                                                               *)

\* Steps that write nothing towards the destination: connections may close and
\* lose what is in them, relays may give up.
Losing ==
    /\ UNCHANGED <<keys, written, layer, target>>
    /\ client' \in {"send", "connect"} => client' = client
    /\ \A i \in Relays : relay'[i] \in {relay[i], "cut", "dead"}
    /\ \A g \in Hops : link'[g] = link[g] \/ (link'[g] # "open" /\ target[g] # None)
    /\ \A g \in Hops :
          \/ down'[g] = down[g] /\ taken'[g] = taken[g]
          \/ /\ down'[g] = <<>> /\ link'[g] # "open"
             /\ \/ taken'[g] = taken[g]
                \/ /\ down[g] # <<>> /\ taken'[g] = taken[g] + 1
                   /\ g + 1 \in Relays => relay'[g + 1] \in {"cut", "dead"}

LEMMA ClientLoses ==
    ASSUME ClientRefused \/ ClientSendFails \/ ClientReads \/ ClientReadFails
              \/ ClientPeels \/ ClientPrints
    PROVE  Losing
  BY DEF ClientRefused, ClientSendFails, ClientReads, ClientReadFails, ClientPeels, ClientPrints,
         Losing, relayVars, netVars

\* What Hangup does to its own connection and to the others.
LEMMA HangupLoses ==
    ASSUME TypeOK, NEW h \in Hops, NEW rest, Hangup(h, rest), target[h] # None
    PROVE  /\ \A g \in Hops : link'[g] = link[g] \/ (link'[g] # "open" /\ target[g] # None)
           /\ link'[h] # "open" /\ down'[h] = <<>>
           /\ \A g \in Hops : g # h => down'[g] = down[g]
  <1>1. link \in [Hops -> LinkStates] /\ down \in [Hops -> Seq(Blocks)]
    BY DEF TypeOK
  <1>2. \A g \in Hops : g # h => link'[g] = link[g] /\ down'[g] = down[g]
    BY <1>1 DEF Hangup
  <1>3. link'[h] # "open" /\ down'[h] = <<>>
    BY <1>1 DEF Hangup
  <1>4. QED
    BY <1>2, <1>3

LEMMA RelayLoses ==
    ASSUME TypeOK, PathInv, NEW i \in Relays, NEW h \in Hops,
           \/ RelayRefused(h, i) \/ RelayForwardFails(h, i)
           \/ RelayReplies(h, i) \/ RelayReplyFails(h, i)
    PROVE  Losing
  <1>1. Serves(h, i) /\ target[h] # None /\ h + 1 = i
    <2>1. Serves(h, i)
      BY DEF RelayRefused, IsSetup, RelayForwardFails, RelayReplies, RelayReplyFails
    <2>2. QED
      BY <2>1, ServedBefore DEF PathInv, Serves
  <1>2. relay \in [Relays -> {"new", "open", "cut", "dead"}] /\ taken \in [Hops -> Nat]
    BY DEF TypeOK
  <1>3. CASE RelayRefused(h, i) \/ RelayForwardFails(h, i)
    <2>1. \E rest : Hangup(h, rest)
      BY <1>3 DEF RelayRefused, RelayForwardFails
    <2>2. down[h] # <<>> /\ taken' = [taken EXCEPT ![h] = @ + 1]
      BY <1>3 DEF RelayRefused, IsSetup, RelayForwardFails
    <2>3. relay'[i] \in {"cut", "dead"} /\ \A j \in Relays : j # i => relay'[j] = relay[j]
      BY <1>2, <1>3 DEF RelayRefused, RelayForwardFails
    <2>4. UNCHANGED <<keys, client, written, layer, target>>
      BY <1>3 DEF RelayRefused, RelayForwardFails, clientVars
    <2>5. QED
      BY <1>1, <1>2, <2>1, <2>2, <2>3, <2>4, HangupLoses DEF Losing
  <1>4. CASE RelayReplyFails(h, i)
    <2>1. Hangup(h, down[h]) /\ taken' = taken
      BY <1>4 DEF RelayReplyFails
    <2>2. relay'[i] = "cut" /\ \A j \in Relays : j # i => relay'[j] = relay[j]
      BY <1>2, <1>4 DEF RelayReplyFails
    <2>3. UNCHANGED <<keys, client, written, layer, target>>
      BY <1>4 DEF RelayReplyFails, clientVars
    <2>4. QED
      BY <1>1, <2>1, <2>2, <2>3, HangupLoses DEF Losing
  <1>5. CASE RelayReplies(h, i)
    BY <1>5 DEF RelayReplies, Losing, clientVars, relayVars
  <1>6. QED
    BY <1>3, <1>4, <1>5

LEMMA OthersLose ==
    ASSUME TypeOK, PathInv,
           \/ \E h \in Hops : DestinationDies(h) \/ ResetArrives(h)
           \/ \E i \in Relays : RelayCrashes(i)
    PROVE  Losing
  <1>1. CASE \E h \in Hops : DestinationDies(h)
    <2>1. PICK h \in Hops : DestinationDies(h)
      BY <1>1
    <2>2. target[h] = Destination /\ Destination # None /\ target[h] \in {None, h + 1}
      BY <2>1 DEF DestinationDies, PathInv, TopologyInv
    <2>3. h = N
      BY <2>2
    <2>4. Hangup(h, Tail(down[h])) /\ down[h] # <<>> /\ taken' = [taken EXCEPT ![h] = @ + 1]
      BY <2>1 DEF DestinationDies
    <2>5. taken \in [Hops -> Nat] /\ h + 1 \notin Relays
      BY <2>3 DEF TypeOK
    <2>6. UNCHANGED <<keys, client, written, layer, target, relay>>
      BY <2>1 DEF DestinationDies, clientVars, relayVars
    <2>7. QED
      BY <2>2, <2>4, <2>5, <2>6, HangupLoses DEF Losing
  <1>2. CASE \E h \in Hops : ResetArrives(h)
    <2>1. PICK h \in Hops : ResetArrives(h)
      BY <1>2
    <2>2. link \in [Hops -> LinkStates] /\ target[h] # None
      BY <2>1 DEF ResetArrives, TypeOK, PathInv, TopologyInv
    <2>3. QED
      BY <2>1, <2>2 DEF ResetArrives, Losing, clientVars, relayVars
  <1>3. CASE \E i \in Relays : RelayCrashes(i)
    <2>1. PICK i \in Relays : RelayCrashes(i)
      BY <1>3
    <2>2. i # None
      OBVIOUS
    <2>3. \A g \in Hops : \/ link'[g] = link[g] /\ down'[g] = down[g]
                          \/ target[g] # None /\ link'[g] # "open" /\ down'[g] = <<>>
      BY <2>1, <2>2 DEF RelayCrashes
    <2>4. \A j \in Relays : relay'[j] \in {relay[j], "dead"}
      BY <2>1 DEF RelayCrashes, TypeOK
    <2>5. UNCHANGED <<keys, client, written, layer, target, taken>>
      BY <2>1 DEF RelayCrashes, clientVars
    <2>6. QED
      BY <2>3, <2>4, <2>5 DEF Losing
  <1>4. QED
    BY <1>1, <1>2, <1>3

\* The keys do not change, so neither does what the k-th block is.
LEMMA OrderNext ==
    ASSUME keys' = keys,
           \A h \in Hops :
              /\ \A k \in 1..Len(down'[h]) : down'[h][k] = Block(h + taken'[h] + k)
              /\ taken'[h] + Len(down'[h]) <= N + 1 - h
    PROVE  OrderInv'
  BY DEF OrderInv, Block, SetupBlock, Message

\* Losing keeps the path: what is left is what it was.
LEMMA LosingKeepsPath ==
    ASSUME TypeOK, PathInv, Losing
    PROVE  PathInv'
  <1>1. TopologyInv'
    <2>1. \A h \in Hops : target'[h] = None =>
             link'[h] = "none" /\ down'[h] = <<>> /\ taken'[h] = 0
      BY DEF PathInv, TopologyInv, Losing
    <2>2. \A j \in Relays : relay'[j] = "new" => relay[j] = "new" /\ taken'[j - 1] = taken[j - 1]
      <3> TAKE j \in Relays
      <3>1. j - 1 \in Hops /\ (j - 1) + 1 = j
        OBVIOUS
      <3>2. QED
        BY <3>1 DEF Losing
    <2>3. \A j \in Relays : relay'[j] = "open" => relay[j] = "open"
      BY DEF Losing
    <2>4. QED
      BY <2>1, <2>2, <2>3 DEF PathInv, TopologyInv, Losing
  <1>2. OrderInv'
    <2> SUFFICES ASSUME NEW h \in Hops
                 PROVE  /\ \A k \in 1..Len(down'[h]) : down'[h][k] = Block(h + taken'[h] + k)
                        /\ taken'[h] + Len(down'[h]) <= N + 1 - h
      BY OrderNext DEF Losing
    <2>2. taken[h] \in Nat /\ down[h] \in Seq(Blocks) /\ Len(down[h]) \in Nat
      BY SMTT(30) DEF TypeOK
    <2>3. CASE down'[h] = down[h] /\ taken'[h] = taken[h]
      BY <2>2, <2>3 DEF PathInv, OrderInv
    <2>4. CASE down'[h] = <<>> /\ \/ taken'[h] = taken[h]
                                  \/ down[h] # <<>> /\ taken'[h] = taken[h] + 1
      <3>1. down[h] # <<>> => Len(down[h]) >= 1
        BY <2>2, TailFacts
      <3>2. QED
        BY <2>2, <2>4, <3>1 DEF PathInv, OrderInv
    <2>5. QED
      BY <2>3, <2>4 DEF Losing
  <1>3. PassedOnInv'
    <2>1. \A g \in Hops : link'[g] = "open" =>
             link[g] = "open" /\ down'[g] = down[g] /\ taken'[g] = taken[g]
      BY DEF Losing
    <2>2. \A j \in Relays : relay'[j] = "open" => relay[j] = "open" /\ taken'[j - 1] = taken[j - 1]
      <3> TAKE j \in Relays
      <3>1. j - 1 \in Hops /\ (j - 1) + 1 = j
        OBVIOUS
      <3>2. QED
        BY <3>1 DEF Losing
    <2>3. QED
      BY <2>1, <2>2 DEF PathInv, PassedOnInv, Losing
  <1>4. QED
    BY <1>1, <1>2, <1>3 DEF PathInv

\* A block taken from connection h is the one that was next.
LEMMA TakeFacts ==
    ASSUME TypeOK, OrderInv, NEW h \in Hops, down[h] # <<>>
    PROVE  /\ Head(down[h]) = Block(h + taken[h] + 1)
           /\ Len(down[h]) \in Nat \ {0} /\ taken[h] \in Nat
           /\ Len(Tail(down[h])) = Len(down[h]) - 1
           /\ \A k \in 1..(Len(down[h]) - 1) : Tail(down[h])[k] = Block(h + (taken[h] + 1) + k)
  <1>1. down[h] \in Seq(Blocks) /\ taken[h] \in Nat
    BY DEF TypeOK
  <1>2. /\ Head(down[h]) = down[h][1] /\ Len(down[h]) \in Nat \ {0}
        /\ Len(Tail(down[h])) = Len(down[h]) - 1
        /\ \A k \in 1..(Len(down[h]) - 1) : Tail(down[h])[k] = down[h][k + 1]
    BY <1>1, TailFacts
  <1>3. down[h][1] = Block(h + taken[h] + 1)
    BY <1>2 DEF OrderInv
  <1>4. \A k \in 1..(Len(down[h]) - 1) : Tail(down[h])[k] = Block(h + (taken[h] + 1) + k)
    <2> TAKE k \in 1..(Len(down[h]) - 1)
    <2>1. k + 1 \in 1..Len(down[h])
      BY <1>2
    <2>2. down[h][k + 1] = Block(h + taken[h] + (k + 1))
      BY <2>1 DEF OrderInv
    <2>3. h + taken[h] + (k + 1) = h + (taken[h] + 1) + k
      <3>1. h \in Nat /\ k \in Nat /\ taken[h] \in Nat
        BY <1>1, <1>2
      <3>2. QED
        BY <3>1
    <2>4. QED
      BY <1>2, <2>2, <2>3
  <1>5. QED
    BY <1>1, <1>2, <1>3, <1>4

\* A block put on connection h as the next one leaves it in order.
LEMMA PutFacts ==
    ASSUME TypeOK, OrderInv, NEW h \in Hops, NEW b,
           b = Block(h + taken[h] + Len(down[h]) + 1), b \in Blocks
    PROVE  /\ Len(Append(down[h], b)) = Len(down[h]) + 1
           /\ \A k \in 1..(Len(down[h]) + 1) : Append(down[h], b)[k] = Block(h + taken[h] + k)
  <1>1. down[h] \in Seq(Blocks) /\ taken[h] \in Nat /\ Len(down[h]) \in Nat
    BY DEF TypeOK
  <1>2. /\ Len(Append(down[h], b)) = Len(down[h]) + 1
        /\ \A k \in 1..(Len(down[h]) + 1) :
              Append(down[h], b)[k] = IF k = Len(down[h]) + 1 THEN b ELSE down[h][k]
    BY <1>1, AppendFacts
  <1>3. QED
    <2>1. \A k \in 1..(Len(down[h]) + 1) : Append(down[h], b)[k] = Block(h + taken[h] + k)
      <3> TAKE k \in 1..(Len(down[h]) + 1)
      <3>1. CASE k = Len(down[h]) + 1
        <4>1. h + taken[h] + Len(down[h]) + 1 = h + taken[h] + k
          <5>1. h \in Nat /\ taken[h] \in Nat /\ Len(down[h]) \in Nat
            BY <1>1
          <5>2. QED
            BY <3>1, <5>1
        <4>2. QED
          BY <1>2, <3>1, <4>1
      <3>2. CASE k \in 1..Len(down[h])
        BY <1>1, <1>2, <3>2 DEF OrderInv
      <3>3. QED
        BY <1>1, <3>1, <3>2
    <2>2. QED
      BY <1>2, <2>1

\* The client keeps the path.
LEMMA ClientKeepsPath ==
    ASSUME TypeOK, PathInv, Client
    PROVE  PathInv'
  <1> USE DEF PathInv
  <1>1. 0 \in Hops /\ taken[0] \in Nat /\ down[0] \in Seq(Blocks) /\ link \in [Hops -> LinkStates]
    BY DEF TypeOK
  <1>2. CASE ClientConnects
    <2>1. /\ client = "connect" /\ client' = "send"
          /\ target' = [target EXCEPT ![0] = 1] /\ link' = [link EXCEPT ![0] = "open"]
          /\ UNCHANGED <<keys, written, relay, layer, down, taken>>
      BY <1>2 DEF ClientConnects, relayVars
    <2>2. written = 0 /\ down[0] = <<>> /\ taken[0] = 0 /\ Len(down[0]) = 0
      BY <2>1, <1>1 DEF PassedOnInv, TopologyInv
    <2>3. target \in [Hops -> (1..Destination) \cup {None}] /\ 1 # None
      BY DEF TypeOK
    <2>4. TopologyInv'
      <3>1. /\ target'[0] = 1 /\ target'[0] # None
            /\ \A g \in Hops : g # 0 => target'[g] = target[g] /\ link'[g] = link[g]
        BY <1>1, <2>1, <2>3
      <3>2. \A i \in Relays : target'[i] = target[i]
        BY <3>1
      <3>3. QED
        BY <2>1, <3>1, <3>2 DEF TopologyInv
    <2>5. OrderInv'
      BY <2>1, OrderNext DEF OrderInv
    <2>6. PassedOnInv'
      BY <1>1, <2>1, <2>2 DEF PassedOnInv
    <2>7. QED
      BY <2>4, <2>5, <2>6
  <1>3. CASE ClientSends
    <2> DEFINE b == Block(written + 1)
    <2>1. /\ client = "send" /\ CanSend(0) /\ written' = written + 1
          /\ client' = IF written = N THEN "read" ELSE "send"
          /\ UNCHANGED <<keys, relay, layer, target, taken>>
          /\ link' = [link EXCEPT ![0] = IF @ = "fin" THEN "probed" ELSE @]
          /\ down' = [down EXCEPT ![0] = IF link[0] = "open" THEN Append(@, b) ELSE @]
      BY <1>3 DEF ClientSends, SendDown, relayVars
    <2>2. target[0] # None
      BY <1>1, <2>1 DEF CanSend, TopologyInv
    <2>3. written \in Nat /\ written <= N /\ b \in Blocks
      <3>1. written \in Nat /\ written + 1 \in Nat \ {0}
        BY DEF TypeOK
      <3>2. QED
        BY <2>1, <3>1, BlockType DEF PassedOnInv
    <2>4. \A g \in Hops : g # 0 => link'[g] = link[g] /\ down'[g] = down[g]
      BY <2>1 DEF TypeOK
    <2>5. TopologyInv'
      BY <2>1, <2>2, <2>4 DEF TopologyInv
    <2>6. CASE link[0] = "open"
      <3>1. written = taken[0] + Len(down[0])
        BY <2>1, <2>6 DEF PassedOnInv
      <3>2. down'[0] = Append(down[0], b) /\ link'[0] = "open"
        BY <1>1, <2>1, <2>6 DEF TypeOK
      <3>3. b = Block(0 + taken[0] + Len(down[0]) + 1)
        BY <1>1, <3>1
      <3>4. /\ Len(down'[0]) = Len(down[0]) + 1
            /\ \A k \in 1..Len(down'[0]) : down'[0][k] = Block(0 + taken[0] + k)
        <4> HIDE DEF b
        <4>1. /\ Len(Append(down[0], b)) = Len(down[0]) + 1
              /\ \A k \in 1..(Len(down[0]) + 1) : Append(down[0], b)[k] = Block(0 + taken[0] + k)
          BY <1>1, <2>3, <3>3, PutFacts
        <4>2. QED
          BY <3>2, <4>1
      <3>5. Len(down[0]) \in Nat /\ taken'[0] = taken[0]
        BY <1>1, <2>1
      <3>6. taken'[0] + Len(down'[0]) = written' /\ written' <= N + 1
        BY SMTT(30), <1>1, <2>1, <2>3, <3>1, <3>4, <3>5
      <3>7. OrderInv'
        <4> SUFFICES ASSUME NEW g \in Hops
                     PROVE  /\ \A k \in 1..Len(down'[g]) : down'[g][k] = Block(g + taken'[g] + k)
                            /\ taken'[g] + Len(down'[g]) <= N + 1 - g
          BY <2>1, OrderNext
        <4>1. CASE g = 0
          BY <4>1, <3>4, <3>5, <3>6
        <4>2. CASE g # 0
          BY <2>1, <2>4, <4>2 DEF OrderInv
        <4>3. QED
          BY <4>1, <4>2
      <3>8. PassedOnInv'
        <4>1. client' # "connect" /\ (client' = "send" => written' <= N)
          BY <2>1, <2>3
        <4>2. \A i \in Relays : link'[i] = link[i] /\ down'[i] = down[i]
          BY <2>4
        <4>3. QED
          BY <2>1, <3>6, <4>1, <4>2 DEF PassedOnInv
      <3>9. QED
        BY <2>5, <3>7, <3>8
    <2>7. CASE link[0] # "open"
      <3>1. down' = down /\ link'[0] # "open"
        BY <1>1, <2>1, <2>7 DEF TypeOK
      <3>2. OrderInv'
        BY <2>1, <3>1, OrderNext DEF OrderInv
      <3>3. PassedOnInv'
        BY <2>1, <2>3, <2>4, <3>1 DEF PassedOnInv
      <3>4. QED
        BY <2>5, <3>2, <3>3
    <2>8. QED
      BY <2>6, <2>7
  <1>4. CASE ClientRefused \/ ClientSendFails \/ ClientReads \/ ClientReadFails
                \/ ClientPeels \/ ClientPrints
    BY <1>4, ClientLoses, LosingKeepsPath
  <1>5. QED
    BY <1>2, <1>3, <1>4 DEF Client

\* A relay that connects takes the client's block for it, and no other.
LEMMA ConnectKeepsPath ==
    ASSUME TypeOK, PathInv, NEW i \in Relays, NEW h \in Hops, RelayConnects(h, i)
    PROVE  PathInv'
  <1> USE DEF PathInv
  <1>1. h + 1 = i /\ i \in Hops /\ i # h
    BY ServedBefore DEF RelayConnects, IsSetup
  <1>2. /\ relay[i] = "new" /\ down[h] # <<>>
        /\ relay' = [relay EXCEPT ![i] = "open"]
        /\ layer' = [layer EXCEPT ![i] = Head(down[h]).key]
        /\ target' = [target EXCEPT ![i] = Head(down[h]).to]
        /\ link' = [link EXCEPT ![i] = "open"]
        /\ down' = [down EXCEPT ![h] = Tail(@)]
        /\ taken' = [taken EXCEPT ![h] = @ + 1]
        /\ UNCHANGED <<keys, client, written>>
    BY DEF RelayConnects, IsSetup, clientVars
  <1>3. target[i] = None /\ taken[h] = 0 /\ taken[i] = 0 /\ down[i] = <<>> /\ link[i] = "none"
    <2>1. i - 1 = h
      BY <1>1
    <2>2. QED
      BY <1>1, <1>2, <2>1 DEF TopologyInv
  <1>4. Head(down[h]) = SetupBlock(i)
    <2>1. Head(down[h]) = Block(h + taken[h] + 1)
      BY <1>2, TakeFacts
    <2>2. h + taken[h] + 1 = i
      BY <1>1, <1>3
    <2>3. QED
      BY <2>1, <2>2 DEF Block
  <1>5. /\ target'[i] = i + 1 /\ layer'[i] = keys[i] /\ relay'[i] = "open" /\ link'[i] = "open"
        /\ \A g \in Hops : g # i => target'[g] = target[g] /\ link'[g] = link[g]
        /\ \A j \in Relays : j # i => relay'[j] = relay[j] /\ layer'[j] = layer[j]
    <2>1. Head(down[h]).to = i + 1 /\ Head(down[h]).key = keys[i]
      BY <1>4 DEF SetupBlock
    <2>2. /\ target \in [Hops -> (1..Destination) \cup {None}] /\ link \in [Hops -> LinkStates]
          /\ relay \in [Relays -> {"new", "open", "cut", "dead"}]
          /\ layer \in [Relays -> Keys \cup {None}]
      BY DEF TypeOK
    <2>3. target'[i] = i + 1 /\ layer'[i] = keys[i] /\ relay'[i] = "open" /\ link'[i] = "open"
      BY <1>1, <1>2, <2>1, <2>2
    <2>4. \A g \in Hops : g # i => target'[g] = target[g] /\ link'[g] = link[g]
      BY <1>2, <2>2
    <2>5. \A j \in Relays : j # i => relay'[j] = relay[j] /\ layer'[j] = layer[j]
      BY <1>2, <2>2
    <2>6. QED
      BY <2>3, <2>4, <2>5
  <1>6. /\ down'[h] = Tail(down[h]) /\ taken'[h] = 1 /\ taken'[h] = taken[h] + 1
        /\ \A g \in Hops : g # h => down'[g] = down[g] /\ taken'[g] = taken[g]
    BY <1>2, <1>3 DEF TypeOK
  <1>7. target[h] # None /\ i + 1 # None
    BY <1>1 DEF RelayConnects, IsSetup, Serves
  <1>8. TopologyInv'
    <2>1. \A g \in Hops : target'[g] \in {None, g + 1}
      BY <1>5 DEF TopologyInv
    <2>2. \A g \in Hops : target'[g] = None =>
             link'[g] = "none" /\ down'[g] = <<>> /\ taken'[g] = 0
      BY <1>5, <1>6, <1>7 DEF TopologyInv
    <2>3. \A j \in Relays : relay'[j] = "new" => target'[j] = None /\ taken'[j - 1] = 0
      <3> TAKE j \in Relays
      <3>1. CASE j = i
        BY <1>5, <3>1
      <3>2. CASE j # i
        <4>1. j - 1 \in Hops /\ j - 1 # h /\ j \in Hops
          BY <1>1, <3>2
        <4>2. QED
          BY <1>5, <1>6, <3>2, <4>1 DEF TopologyInv
      <3>3. QED
        BY <3>1, <3>2
    <2>4. \A j \in Relays : relay'[j] = "open" => target'[j] = j + 1 /\ layer'[j] = keys'[j]
      BY <1>2, <1>5 DEF TopologyInv
    <2>5. QED
      BY <2>1, <2>2, <2>3, <2>4 DEF TopologyInv
  <1>9. OrderInv'
    <2> SUFFICES ASSUME NEW g \in Hops
                 PROVE  /\ \A k \in 1..Len(down'[g]) : down'[g][k] = Block(g + taken'[g] + k)
                        /\ taken'[g] + Len(down'[g]) <= N + 1 - g
      BY <1>2, OrderNext
    <2>1. CASE g = h
      <3>1. /\ Len(down[h]) \in Nat \ {0} /\ Len(down'[h]) = Len(down[h]) - 1
            /\ \A k \in 1..(Len(down[h]) - 1) : down'[h][k] = Block(h + taken'[h] + k)
        BY ZenonT(40), <1>2, <1>6, TakeFacts
      <3>2. taken[h] + Len(down[h]) <= N + 1 - h
        BY DEF OrderInv
      <3>3. taken'[h] + Len(down'[h]) <= N + 1 - h
        BY <1>3, <1>6, <3>1, <3>2
      <3>4. QED
        BY <2>1, <3>1, <3>3
    <2>2. CASE g # h
      BY ZenonT(40), <1>6, <2>2 DEF OrderInv
    <2>3. QED
      BY <2>1, <2>2
  <1>10. PassedOnInv'
    <2>1. Len(down[h]) \in Nat \ {0} /\ Len(down'[h]) = Len(down[h]) - 1
      BY <1>2, <1>6, TakeFacts
    <2>2. client' = "connect" => written' = 0 /\ target'[0] = None
      BY <1>1, <1>2, <1>5 DEF PassedOnInv
    <2>3. client' = "send" /\ link'[0] = "open" => written' = taken'[0] + Len(down'[0])
      <3>1. 0 \in Hops /\ 0 # i /\ link'[0] = link[0]
        BY <1>5
      <3>2. CASE h = 0
        BY <1>2, <1>3, <1>6, <2>1, <3>1, <3>2 DEF PassedOnInv
      <3>3. CASE h # 0
        BY <1>2, <1>6, <3>1, <3>3 DEF PassedOnInv
      <3>4. QED
        BY <3>2, <3>3
    <2>4. ASSUME NEW j \in Relays, relay'[j] = "open", link'[j] = "open"
          PROVE  taken'[j - 1] = taken'[j] + Len(down'[j]) + 1
      <3>1. CASE j = i
        <4>1. j - 1 = h /\ taken'[j] = 0 /\ Len(down'[j]) = 0
          BY <1>1, <1>3, <1>6, <3>1
        <4>2. QED
          BY <1>6, <4>1
      <3>2. CASE j # i
        <4>1. j - 1 \in Hops /\ j - 1 # h /\ j \in Hops /\ taken'[j - 1] = taken[j - 1]
          BY <1>1, <1>6, <3>2
        <4>2. taken[j - 1] = taken[j] + Len(down[j]) + 1
          BY <1>5, <2>4, <3>2, <4>1 DEF PassedOnInv
        <4>3. j # h => taken'[j] + Len(down'[j]) = taken[j] + Len(down[j])
          BY <1>6, <4>1
        <4>4. j = h => taken'[j] + Len(down'[j]) = taken[j] + Len(down[j])
          <5>1. taken'[h] + Len(down'[h]) = taken[h] + Len(down[h])
            BY <1>3, <1>6, <2>1
          <5>2. QED
            BY <5>1
        <4>5. QED
          BY <4>1, <4>2, <4>3, <4>4
      <3>3. QED
        BY <3>1, <3>2
    <2>5. QED
      BY <1>2, <2>2, <2>3, <2>4 DEF PassedOnInv
  <1>11. QED
    BY <1>8, <1>9, <1>10

\* A relay that passes a block on keeps the order on both sides of it.
LEMMA ForwardKeepsPath ==
    ASSUME TypeOK, PathInv, NEW i \in Relays, NEW h \in Hops, RelayForwards(h, i)
    PROVE  PathInv'
  <1> USE DEF PathInv
  <1> DEFINE b == Head(down[h])
  <1>1. h + 1 = i /\ i \in Hops /\ i # h
    BY ServedBefore DEF RelayForwards
  <1>2. /\ relay[i] = "open" /\ down[h] # <<>> /\ CanSend(i)
        /\ down' = [down EXCEPT ![h] = Tail(@), ![i] = IF link[i] = "open" THEN Append(@, b) ELSE @]
        /\ link' = [link EXCEPT ![i] = IF @ = "fin" THEN "probed" ELSE @]
        /\ taken' = [taken EXCEPT ![h] = @ + 1]
        /\ UNCHANGED <<keys, client, written, relay, layer, target>>
    BY DEF RelayForwards, clientVars, relayVars
  <1>3. target[i] # None /\ target[h] # None
    BY <1>1, <1>2 DEF TopologyInv, CanSend, RelayForwards, Serves
  <1>4. /\ Len(down[h]) \in Nat \ {0} /\ taken[h] \in Nat /\ taken[i] \in Nat /\ Len(down[i]) \in Nat
        /\ Len(Tail(down[h])) = Len(down[h]) - 1
        /\ \A k \in 1..(Len(down[h]) - 1) : Tail(down[h])[k] = Block(h + (taken[h] + 1) + k)
        /\ b = Block(h + taken[h] + 1) /\ b \in Blocks
    <2>1. taken[i] \in Nat /\ down[i] \in Seq(Blocks) /\ down[h] \in Seq(Blocks)
      BY <1>1 DEF TypeOK
    <2>2. b \in Blocks /\ Len(down[i]) \in Nat
      BY <1>2, <2>1, TailFacts
    <2>3. QED
      BY <1>2, <2>1, <2>2, TakeFacts
  <1> HIDE DEF b
  <1>5. /\ down'[h] = Tail(down[h]) /\ taken'[h] = taken[h] + 1 /\ link'[h] = link[h]
        /\ down'[i] = IF link[i] = "open" THEN Append(down[i], b) ELSE down[i]
        /\ taken'[i] = taken[i] /\ (link'[i] = "open" <=> link[i] = "open")
        /\ link'[i] # "none" \/ link[i] = "none"
        /\ \A g \in Hops : g \notin {h, i} =>
              down'[g] = down[g] /\ taken'[g] = taken[g] /\ link'[g] = link[g]
    <2>1. /\ down \in [Hops -> Seq(Blocks)] /\ taken \in [Hops -> Nat]
          /\ link \in [Hops -> LinkStates]
      BY DEF TypeOK
    <2>2. QED
      BY <1>1, <1>2, <2>1
  <1>6. ASSUME link[i] = "open"
        PROVE  /\ \A k \in 1..Len(down'[i]) : down'[i][k] = Block(i + taken'[i] + k)
               /\ taken'[i] + Len(down'[i]) <= N + 1 - i
               /\ taken'[h] = taken'[i] + Len(down'[i]) + 1
    <2>1. taken[h] = taken[i] + Len(down[i]) + 1
      <3>1. i - 1 = h
        BY <1>1
      <3>2. QED
        BY <1>2, <1>6, <3>1 DEF PassedOnInv
    <2>2. h + taken[h] + 1 = i + taken[i] + Len(down[i]) + 1
      <3>1. h \in Nat /\ i = h + 1
        BY <1>1
      <3>2. taken[i] \in Nat /\ Len(down[i]) \in Nat
        BY <1>4
      <3>3. PICK t \in Nat, n \in Nat : t = taken[i] /\ n = Len(down[i])
        BY <3>2
      <3>4. h + (t + n + 1) + 1 = (h + 1) + t + n + 1
        BY <3>1
      <3>5. QED
        BY <2>1, <3>1, <3>3, <3>4, Zenon
    <2>3. b = Block(i + taken[i] + Len(down[i]) + 1)
      BY <1>4, <2>2
    <2>4. /\ Len(down'[i]) = Len(down[i]) + 1
          /\ \A k \in 1..Len(down'[i]) : down'[i][k] = Block(i + taken'[i] + k)
      <3>1. /\ Len(Append(down[i], b)) = Len(down[i]) + 1
            /\ \A k \in 1..(Len(down[i]) + 1) : Append(down[i], b)[k] = Block(i + taken[i] + k)
        BY <1>1, <1>4, <2>3, PutFacts
      <3>2. QED
        BY <1>5, <1>6, <3>1
    <2>5. taken[h] + Len(down[h]) <= N + 1 - h
      BY DEF OrderInv
    <2>6. taken'[i] + Len(down'[i]) <= N + 1 - i
      <3>1. h \in Nat /\ i = h + 1 /\ N \in Nat
        BY <1>1
      <3>2. QED
        <4>1. taken'[i] = taken[i] /\ Len(down'[i]) = Len(down[i]) + 1
          BY <1>5, <2>4
        <4>2. /\ taken[i] \in Nat /\ Len(down[i]) \in Nat
              /\ Len(down[h]) \in Nat /\ Len(down[h]) >= 1
          BY <1>4
        <4>3. taken'[i] + Len(down'[i]) = taken[h] /\ taken[h] \in Nat
          BY SMTT(30), <2>1, <4>1, <4>2
        <4>4. taken[h] <= N - h
          BY <2>5, <3>1, <4>2, <4>3
        <4>5. N + 1 - i = N - h
          BY <3>1
        <4>6. QED
          BY <4>3, <4>4, <4>5
    <2>7. taken'[h] = taken'[i] + Len(down'[i]) + 1
      BY SMTT(30), <1>4, <1>5, <2>1, <2>4
    <2>8. QED
      BY <2>4, <2>6, <2>7
  <1>7. OrderInv'
    <2> SUFFICES ASSUME NEW g \in Hops
                 PROVE  /\ \A k \in 1..Len(down'[g]) : down'[g][k] = Block(g + taken'[g] + k)
                        /\ taken'[g] + Len(down'[g]) <= N + 1 - g
      BY <1>2, OrderNext
    <2>1. CASE g = h
      <3>1. taken[h] + Len(down[h]) <= N + 1 - h
        BY DEF OrderInv
      <3>2. taken'[h] + Len(down'[h]) <= N + 1 - h
        BY <1>4, <1>5, <3>1
      <3>3. QED
        BY <1>4, <1>5, <2>1, <3>2
    <2>2. CASE g = i /\ link[i] = "open"
      BY <1>6, <2>2
    <2>3. CASE g = i /\ link[i] # "open"
      BY <1>5, <2>3 DEF OrderInv
    <2>4. CASE g \notin {h, i}
      BY SMTT(30), <1>5, <2>4 DEF OrderInv
    <2>5. QED
      BY <2>1, <2>2, <2>3, <2>4
  <1>8. TopologyInv'
    <2>1. \A g \in Hops : target[g] = None => link'[g] = "none" /\ down'[g] = <<>> /\ taken'[g] = 0
      BY <1>3, <1>5 DEF TopologyInv
    <2>2. \A j \in Relays : relay[j] = "new" => taken'[j - 1] = 0
      <3> TAKE j \in Relays
      <3>1. j - 1 \in Hops /\ (j - 1 = h => j = i)
        BY <1>1
      <3>2. relay[j] = "new" => j - 1 # h /\ taken[j - 1] = 0
        BY <1>2, <3>1 DEF TopologyInv
      <3>3. taken'[j - 1] = taken[j - 1] \/ j - 1 = h
        BY <1>5, <3>1
      <3>4. QED
        BY <3>2, <3>3
    <2>3. QED
      BY <1>2, <2>1, <2>2 DEF TopologyInv
  <1>9. PassedOnInv'
    <2>1. \A g \in Hops : g # i => taken'[g] + Len(down'[g]) = taken[g] + Len(down[g])
      <3> TAKE g \in Hops
      <3>1. taken'[h] + Len(down'[h]) = taken[h] + Len(down[h])
        BY SMTT(30), <1>4, <1>5
      <3>2. QED
        BY <1>5, <3>1
    <2>2. client = "send" /\ link'[0] = "open" => written = taken'[0] + Len(down'[0])
      <3>1. 0 \in Hops /\ 0 # i /\ link'[0] = link[0]
        BY <1>5
      <3>2. QED
        BY <2>1, <3>1 DEF PassedOnInv
    <2>3. ASSUME NEW j \in Relays, relay[j] = "open", link'[j] = "open"
          PROVE  taken'[j - 1] = taken'[j] + Len(down'[j]) + 1
      <3>1. CASE j = i
        <4>1. j - 1 = h /\ link[i] = "open"
          BY <1>1, <1>5, <2>3, <3>1
        <4>2. QED
          BY <1>6, <3>1, <4>1
      <3>2. CASE j # i
        <4>1. j - 1 \in Hops /\ j - 1 # h /\ j \in Hops /\ link[j] = "open"
          BY <1>1, <1>5, <2>3, <3>2
        <4>2. taken'[j - 1] = taken[j - 1]
          BY <1>5, <4>1
        <4>3. taken[j - 1] = taken[j] + Len(down[j]) + 1
          BY <2>3, <4>1 DEF PassedOnInv
        <4>4. QED
          BY <2>1, <3>2, <4>1, <4>2, <4>3
      <3>3. QED
        BY <3>1, <3>2
    <2>4. QED
      BY <1>2, <2>2, <2>3 DEF PassedOnInv
  <1>10. QED
    BY <1>7, <1>8, <1>9

\* The destination takes its block from the last connection.
LEMMA AnswerKeepsPath ==
    ASSUME TypeOK, PathInv, NEW h \in Hops, DestinationAnswers(h)
    PROVE  PathInv'
  <1> USE DEF PathInv
  <1>1. h = N /\ h + 1 \notin Relays
    <2>1. target[h] = N + 1 /\ N + 1 # None /\ target[h] \in {None, h + 1}
      BY DEF DestinationAnswers, TopologyInv
    <2>2. QED
      BY <2>1
  <1>2. /\ down[h] # <<>> /\ target[h] # None
        /\ down' = [down EXCEPT ![h] = Tail(@)] /\ taken' = [taken EXCEPT ![h] = @ + 1]
        /\ UNCHANGED <<keys, client, written, relay, layer, target, link>>
    BY DEF DestinationAnswers, clientVars, relayVars
  <1>3. /\ down'[h] = Tail(down[h]) /\ taken'[h] = taken[h] + 1
        /\ \A g \in Hops : g # h => down'[g] = down[g] /\ taken'[g] = taken[g]
    BY <1>2 DEF TypeOK
  <1>4. /\ Len(down[h]) \in Nat \ {0} /\ Len(down'[h]) = Len(down[h]) - 1 /\ taken[h] \in Nat
        /\ \A k \in 1..(Len(down[h]) - 1) : down'[h][k] = Block(h + taken'[h] + k)
    BY <1>2, <1>3, TakeFacts
  <1>5. \A g \in Hops : taken'[g] + Len(down'[g]) = taken[g] + Len(down[g])
    <2>1. taken'[h] + Len(down'[h]) = taken[h] + Len(down[h])
      BY <1>3, <1>4
    <2>2. QED
      BY <1>3, <2>1
  <1>6. \A j \in Relays : j - 1 \in Hops /\ j - 1 # h /\ taken'[j - 1] = taken[j - 1]
    BY <1>1, <1>3
  <1>7. TopologyInv'
    BY <1>2, <1>3, <1>6 DEF TopologyInv
  <1>8. OrderInv'
    <2> SUFFICES ASSUME NEW g \in Hops
                 PROVE  /\ \A k \in 1..Len(down'[g]) : down'[g][k] = Block(g + taken'[g] + k)
                        /\ taken'[g] + Len(down'[g]) <= N + 1 - g
      BY <1>2, OrderNext
    <2>1. taken'[g] + Len(down'[g]) <= N + 1 - g
      BY <1>5 DEF OrderInv
    <2>2. \A k \in 1..Len(down'[g]) : down'[g][k] = Block(g + taken'[g] + k)
      <3>1. CASE g = h
        BY <1>4, <3>1
      <3>2. CASE g # h
        BY SMTT(30), <1>3, <3>2 DEF OrderInv
      <3>3. QED
        BY <3>1, <3>2
    <2>3. QED
      BY <2>1, <2>2
  <1>9. PassedOnInv'
    <2>1. 0 \in Hops
      OBVIOUS
    <2>2. QED
      BY <1>2, <1>5, <1>6, <2>1 DEF PassedOnInv
  <1>10. QED
    BY <1>7, <1>8, <1>9

\* Every step keeps the path.
LEMMA PathStep ==
    ASSUME TypeOK, PathInv, Next
    PROVE  PathInv'
  <1>1. CASE Client
    BY <1>1, ClientKeepsPath
  <1>2. CASE \E i \in Relays : Relay(i)
    <2>1. PICK i \in Relays, h \in Hops :
             \/ RelayConnects(h, i) \/ RelayRefused(h, i)
             \/ RelayForwards(h, i) \/ RelayForwardFails(h, i)
             \/ RelayReplies(h, i) \/ RelayReplyFails(h, i)
      BY <1>2 DEF Relay
    <2>2. QED
      BY <2>1, ConnectKeepsPath, ForwardKeepsPath, RelayLoses, LosingKeepsPath
  <1>3. CASE DestinationServer
    BY <1>3, AnswerKeepsPath, OthersLose, LosingKeepsPath DEF DestinationServer
  <1>4. CASE \E i \in Relays : RelayCrashes(i)
    BY <1>4, OthersLose, LosingKeepsPath
  <1>5. CASE \E h \in Hops : ResetArrives(h)
    BY <1>5, OthersLose, LosingKeepsPath
  <1>6. QED
    BY <1>1, <1>2, <1>3, <1>4, <1>5 DEF Next

LEMMA TypeStep ==
    ASSUME TypeOK, PathInv, Next
    PROVE  TypeOK'
  <1>1. CASE \E i \in Relays : Relay(i)
    BY <1>1, RelayTypes DEF Relay
  <1>2. CASE ~(\E i \in Relays : Relay(i))
    BY <1>2, ClientTypes, OtherTypes DEF Next, DestinationServer
  <1>3. QED
    BY <1>1, <1>2

------------------------------------------------------------------------------
(* The reply.                                                              *)

\* Under descending moduli one more layer can always be put on.
LEMMA LayerOn ==
    ASSUME TypeOK, ModuliDescend, NEW i \in Relays, NEW v \in Nat, Layered(i + 1, v)
    PROVE  v < keys[i].n /\ Layered(i, PowMod(v, keys[i].e, keys[i].n))
  <1>1. PICK w \in [(i + 1)..Destination -> Nat] :
           /\ w[i + 1] = v /\ w[Destination] = answer
           /\ \A j \in (i + 1)..N : /\ w[j + 1] < keys[j].n
                                    /\ w[j] = PowMod(w[j + 1], keys[j].e, keys[j].n)
    BY DEF Layered
  <1>2. \A j \in Relays : keys[j] \in Keys /\ keys[j].n \in Nat \ {0}
    <2>1. \A j \in Relays : keys[j] \in Keys
      BY DEF TypeOK
    <2>2. QED
      BY <2>1, KeysAssumption
  <1>3. v < keys[i].n
    <2>1. CASE i = N
      <3>1. v = answer /\ answer \in Nat
        BY <1>1, <2>1
      <3>2. answer \in Bodies
        BY <3>1 DEF TypeOK
      <3>3. QED
        BY <1>2, <3>1, <3>2, BodiesAssumption
    <2>2. CASE i # N
      <3>1. i + 1 \in (i + 1)..N /\ i + 1 \in Relays /\ i \in 1..(N - 1) /\ i + 2 \in (i + 1)..Destination
        BY <2>2
      <3>2. (i + 1) + 1 = i + 2
        OBVIOUS
      <3>3. /\ w[i + 2] \in Nat /\ w[i + 2] < keys[i + 1].n
            /\ v = PowMod(w[i + 2], keys[i + 1].e, keys[i + 1].n)
        BY <1>1, <3>1, <3>2
      <3>4. w[i + 2] \in 0..(keys[i + 1].n - 1)
        BY <1>2, <3>1, <3>3
      <3>5. v \in 0..(keys[i + 1].n - 1)
        BY <1>2, <3>1, <3>3, <3>4, KeysAssumption
      <3>6. keys[i].n >= keys[i + 1].n
        BY <3>1 DEF ModuliDescend
      <3>7. QED
        BY <1>2, <3>1, <3>5, <3>6
    <2>3. QED
      BY <2>1, <2>2
  <1> DEFINE u == PowMod(v, keys[i].e, keys[i].n)
             x == [j \in i..Destination |-> IF j = i THEN u ELSE w[j]]
  <1>4. u \in Nat
    <2>1. v \in 0..(keys[i].n - 1)
      BY <1>2, <1>3
    <2>2. u \in 0..(keys[i].n - 1)
      BY <1>2, <2>1, KeysAssumption
    <2>3. QED
      BY <1>2, <2>2
  <1> HIDE DEF u
  <1>5. x \in [i..Destination -> Nat] /\ x[i] = u /\ \A j \in (i + 1)..Destination : x[j] = w[j]
    <2>1. \A j \in i..Destination : j # i => j \in (i + 1)..Destination
      OBVIOUS
    <2>2. \A j \in i..Destination : (IF j = i THEN u ELSE w[j]) \in Nat
      BY <1>1, <1>4, <2>1
    <2>3. i \in i..Destination /\ \A j \in (i + 1)..Destination : j \in i..Destination /\ j # i
      OBVIOUS
    <2>4. QED
      BY <2>2, <2>3
  <1> HIDE DEF x
  <1>6. ASSUME NEW j \in i..N
        PROVE  x[j + 1] < keys[j].n /\ x[j] = PowMod(x[j + 1], keys[j].e, keys[j].n)
    <2>1. j + 1 \in (i + 1)..Destination /\ x[j + 1] = w[j + 1]
      BY <1>5
    <2>2. CASE j = i
      BY <1>1, <1>3, <1>5, <2>1, <2>2 DEF u
    <2>3. CASE j # i
      <3>1. j \in (i + 1)..N /\ j \in (i + 1)..Destination
        BY <2>3
      <3>2. QED
        BY <1>1, <1>5, <2>1, <3>1
    <2>4. QED
      BY <2>2, <2>3
  <1>7. x[Destination] = answer
    BY <1>1, <1>5
  <1>8. Layered(i, u)
    BY <1>5, <1>6, <1>7 DEF Layered
  <1>9. QED
    BY <1>3, <1>8 DEF u

\* What was put on last comes off first, and what is under it is left.
LEMMA LayerOff ==
    ASSUME TypeOK, NEW i \in Relays, NEW v, Layered(i, v)
    PROVE  \E u \in Nat : Decrypted(keys[i], v) = {u} /\ Layered(i + 1, u)
  <1>1. PICK w \in [i..Destination -> Nat] :
           /\ w[i] = v /\ w[Destination] = answer
           /\ \A j \in i..N : /\ w[j + 1] < keys[j].n
                              /\ w[j] = PowMod(w[j + 1], keys[j].e, keys[j].n)
    BY DEF Layered
  <1>2. keys[i] \in Keys /\ keys[i].n \in Nat \ {0}
    BY KeysAssumption DEF TypeOK
  <1>3. i \in i..N /\ i + 1 \in i..Destination
    OBVIOUS
  <1>4. /\ w[i + 1] \in 0..(keys[i].n - 1) /\ w[i + 1] \in Nat
        /\ v = PowMod(w[i + 1], keys[i].e, keys[i].n)
    BY <1>1, <1>2, <1>3
  <1>5. v \in 0..(keys[i].n - 1) /\ PowMod(v, keys[i].d, keys[i].n) = w[i + 1]
    BY <1>2, <1>4, KeysAssumption
  <1>6. Decrypted(keys[i], v) = {w[i + 1]}
    BY <1>2, <1>5 DEF Decrypted
  <1>7. Layered(i + 1, w[i + 1])
    <2> DEFINE x == [j \in (i + 1)..Destination |-> w[j]]
    <2>1. x \in [(i + 1)..Destination -> Nat] /\ \A j \in (i + 1)..Destination : x[j] = w[j]
      BY <1>1
    <2> HIDE DEF x
    <2>2. x[i + 1] = w[i + 1] /\ x[Destination] = answer
      BY <1>1, <2>1
    <2>3. ASSUME NEW j \in (i + 1)..N
          PROVE  x[j + 1] < keys[j].n /\ x[j] = PowMod(x[j + 1], keys[j].e, keys[j].n)
      <3>1. j \in i..N /\ j \in (i + 1)..Destination /\ j + 1 \in (i + 1)..Destination
        OBVIOUS
      <3>2. QED
        BY <1>1, <2>1, <3>1
    <2>4. QED
      BY <2>1, <2>2, <2>3 DEF Layered
  <1>8. QED
    BY <1>4, <1>6, <1>7

\* Layered depends on the keys and on the answer only.
LEMMA LayersNext ==
    ASSUME UNCHANGED <<keys, answer>>,
           \A h \in Hops : \A k \in 1..Len(up'[h]) : Layered(h + 1, up'[h][k]),
           client' \in {"peel", "printed"} => Layered(peeled' + 1, val')
    PROVE  LayersInv'
  <1>1. ASSUME NEW h \in Hops, NEW k \in 1..Len(up'[h])
        PROVE  Layered(h + 1, up[h][k])'
    <2>1. PICK w \in [(h + 1)..Destination -> Nat] :
             /\ w[h + 1] = up'[h][k] /\ w[Destination] = answer
             /\ \A j \in (h + 1)..N : /\ w[j + 1] < keys[j].n
                                      /\ w[j] = PowMod(w[j + 1], keys[j].e, keys[j].n)
      BY DEF Layered
    <2>2. /\ w[h + 1] = up'[h][k] /\ w[Destination] = answer'
          /\ \A j \in (h + 1)..N : /\ w[j + 1] < keys'[j].n
                                   /\ w[j] = PowMod(w[j + 1], keys'[j].e, keys'[j].n)
      BY <2>1
    <2>3. QED
      BY <2>2 DEF Layered
  <1>2. ASSUME client' \in {"peel", "printed"}
        PROVE  Layered(peeled + 1, val)'
    <2>1. PICK w \in [(peeled' + 1)..Destination -> Nat] :
             /\ w[peeled' + 1] = val' /\ w[Destination] = answer
             /\ \A j \in (peeled' + 1)..N : /\ w[j + 1] < keys[j].n
                                            /\ w[j] = PowMod(w[j + 1], keys[j].e, keys[j].n)
      BY <1>2 DEF Layered
    <2>2. /\ w[peeled' + 1] = val' /\ w[Destination] = answer'
          /\ \A j \in (peeled' + 1)..N : /\ w[j + 1] < keys'[j].n
                                         /\ w[j] = PowMod(w[j + 1], keys'[j].e, keys'[j].n)
      BY <2>1
    <2>3. QED
      BY <2>2 DEF Layered
  <1>3. QED
    BY <1>1, <1>2 DEF LayersInv

\* A step that moves no reply and peels nothing.
LEMMA ReplyStays ==
    ASSUME TypeOK, ReplyInv,
           UNCHANGED <<keys, answer, val, peeled>>,
           destination' = "waiting" => destination = "waiting",
           client' \in {"peel", "printed"} => client' = client,
           client' \in {"connect", "send", "read"} => client \in {"connect", "send", "read"},
           \A h \in Hops : up'[h] \in {up[h], <<>>}
    PROVE  ReplyInv'
  <1>1. ASSUME ModuliDescend' PROVE LayersInv'
    <2>1. LayersInv
      BY <1>1 DEF ReplyInv, ModuliDescend
    <2>2. \A h \in Hops : \A k \in 1..Len(up'[h]) : k \in 1..Len(up[h]) /\ up'[h][k] = up[h][k]
      OBVIOUS
    <2>3. \A h \in Hops : \A k \in 1..Len(up'[h]) : Layered(h + 1, up'[h][k])
      BY <2>1, <2>2 DEF LayersInv
    <2>4. client' \in {"peel", "printed"} => Layered(peeled' + 1, val')
      BY <2>1 DEF LayersInv
    <2>5. QED
      BY <2>3, <2>4, LayersNext
  <1>2. QED
    BY <1>1 DEF ReplyInv

\* The client takes a reply, peels it and prints it.
LEMMA ClientKeepsReply ==
    ASSUME TypeOK, ReplyInv, Client
    PROVE  ReplyInv'
  <1>0. up \in [Hops -> Seq(Nat)] /\ 0 \in Hops
    BY DEF TypeOK
  <1>1. CASE ClientReads
    <2>1. /\ client = "read" /\ client' = "peel" /\ val' = Head(up[0])
          /\ up[0] # <<>> /\ up' = [up EXCEPT ![0] = Tail(@)]
          /\ UNCHANGED <<keys, peeled, destination, answer>>
      BY <1>1 DEF ClientReads, destVars
    <2>2. /\ Len(up[0]) \in Nat \ {0} /\ val' = up[0][1]
          /\ Len(up'[0]) = Len(up[0]) - 1
          /\ \A k \in 1..(Len(up[0]) - 1) : up'[0][k] = up[0][k + 1]
          /\ \A h \in Hops : h # 0 => up'[h] = up[h]
      <3>1. up'[0] = Tail(up[0]) /\ \A h \in Hops : h # 0 => up'[h] = up[h]
        BY <1>0, <2>1
      <3>2. QED
        BY <1>0, <2>1, <3>1, TailFacts
    <2>3. peeled = 0
      BY <2>1 DEF ReplyInv
    <2>4. ASSUME ModuliDescend' PROVE LayersInv'
      <3>1. LayersInv
        BY <2>1, <2>4 DEF ReplyInv, ModuliDescend
      <3>2. Layered(0 + 1, up[0][1])
        BY <1>0, <2>2, <3>1 DEF LayersInv
      <3>3. Layered(peeled' + 1, val')
        BY <2>1, <2>2, <2>3, <3>2
      <3>4. \A h \in Hops : \A k \in 1..Len(up'[h]) : Layered(h + 1, up'[h][k])
        <4> TAKE h \in Hops
        <4>1. CASE h = 0
          <5> TAKE k \in 1..Len(up'[h])
          <5>1. k + 1 \in 1..Len(up[0]) /\ up'[h][k] = up[0][k + 1]
            BY <2>2, <4>1
          <5>2. QED
            BY <3>1, <4>1, <5>1 DEF LayersInv
        <4>2. CASE h # 0
          BY <2>2, <3>1, <4>2 DEF LayersInv
        <4>3. QED
          BY <4>1, <4>2
      <3>5. QED
        BY <2>1, <3>3, <3>4, LayersNext
    <2>5. QED
      BY <2>1, <2>4 DEF ReplyInv
  <1>2. CASE ClientPeels
    <2>1. /\ client \in {"peel", "peelNothing"} /\ peeled < N /\ peeled' = peeled + 1
          /\ val' \in Decrypted(keys[peeled + 1], val)
          /\ UNCHANGED <<keys, client, up, destination, answer>>
      BY <1>2 DEF ClientPeels, netVars, destVars
    <2>2. peeled \in 0..N /\ peeled + 1 \in Relays
      <3>1. peeled \in 0..N
        BY DEF TypeOK
      <3>2. QED
        BY <2>1, <3>1
    <2>3. ASSUME ModuliDescend' PROVE LayersInv'
      <3>1. LayersInv
        BY <2>1, <2>3 DEF ReplyInv, ModuliDescend
      <3>2. ASSUME client' \in {"peel", "printed"} PROVE Layered(peeled' + 1, val')
        <4>1. Layered(peeled + 1, val)
          BY <2>1, <3>1, <3>2 DEF LayersInv
        <4>2. PICK u \in Nat : Decrypted(keys[peeled + 1], val) = {u} /\ Layered((peeled + 1) + 1, u)
          BY <2>2, <4>1, LayerOff
        <4>3. QED
          BY <2>1, <4>2
      <3>3. QED
        BY <2>1, <3>1, <3>2, LayersNext DEF LayersInv
    <2>4. QED
      BY <2>1, <2>3 DEF ReplyInv
  <1>3. CASE ClientPrints
    <2>1. /\ peeled = N /\ client' = IF client = "peel" THEN "printed" ELSE "printedNothing"
          /\ UNCHANGED <<keys, val, peeled, up, destination, answer>>
      BY <1>3 DEF ClientPrints, netVars, destVars
    <2>2. ASSUME ModuliDescend' PROVE LayersInv'
      <3>1. LayersInv
        BY <2>1, <2>2 DEF ReplyInv, ModuliDescend
      <3>2. QED
        BY <2>1, <3>1, LayersNext DEF LayersInv
    <2>3. QED
      BY <2>1, <2>2 DEF ReplyInv
  <1>4. CASE ClientConnects \/ ClientRefused \/ ClientSends \/ ClientSendFails \/ ClientReadFails
    <2>1. UNCHANGED <<keys, answer, val, peeled, destination, up>>
      BY <1>4 DEF ClientConnects, ClientRefused, ClientSends, ClientSendFails, ClientReadFails,
                  netVars, destVars
    <2>2. /\ client \in {"connect", "send", "read"}
          /\ client' \in {"send", "read", "failed", "peelNothing"}
      BY <1>4 DEF ClientConnects, ClientRefused, ClientSends, ClientSendFails, ClientReadFails
    <2>3. QED
      BY <2>1, <2>2, ReplyStays
  <1>5. QED
    BY <1>1, <1>2, <1>3, <1>4 DEF Client

\* A relay that passes a reply back puts its own layer on.
LEMMA RelayKeepsReply ==
    ASSUME TypeOK, PathInv, ReplyInv, NEW i \in Relays, NEW h \in Hops, RelayReplies(h, i)
    PROVE  ReplyInv'
  <1>1. h + 1 = i /\ i \in Hops /\ i # h /\ layer[i] = keys[i]
    <2>1. Serves(h, i) /\ relay[i] = "open"
      BY Zenon DEF RelayReplies
    <2>2. TopologyInv
      BY DEF PathInv
    <2>3. h + 1 = i
      BY <2>1, <2>2, ServedBefore, Zenon
    <2>4. i \in Hops /\ i # h
      BY <2>3
    <2>5. layer[i] = keys[i]
      BY <2>1, <2>2, Zenon DEF TopologyInv
    <2>6. QED
      BY <2>3, <2>4, <2>5
  <1>2. up[i] # <<>> /\ up \in [Hops -> Seq(Nat)] /\ UNCHANGED <<keys, client, val, peeled, destination, answer>>
    <2>1. up \in [Hops -> Seq(Nat)]
      BY DEF TypeOK
    <2>2. /\ up[i] # <<>>
          /\ UNCHANGED <<keys, clientVars, relayVars, target, link, down, taken, destVars>>
      BY Zenon DEF RelayReplies
    <2>3. UNCHANGED <<keys, client, val, peeled, destination, answer>>
      BY <2>2 DEF clientVars, destVars
    <2>4. QED
      BY <2>1, <2>2, <2>3
  <1>3. PICK v \in Encrypted(keys[i], Head(up[i])) :
           up' = [up EXCEPT ![i] = Tail(@), ![h] = IF Listening(h) THEN Append(@, v) ELSE @]
    BY <1>1 DEF RelayReplies
  <1>4. /\ Head(up[i]) \in Nat /\ Head(up[i]) = up[i][1] /\ Len(up[i]) \in Nat \ {0}
        /\ Len(Tail(up[i])) = Len(up[i]) - 1
        /\ \A k \in 1..(Len(up[i]) - 1) : Tail(up[i])[k] = up[i][k + 1]
    BY <1>1, <1>2, TailFacts
  <1>5. v \in Nat /\ up[h] \in Seq(Nat) /\ Len(up[h]) \in Nat
    <2>1. keys[i] \in Keys
      BY DEF TypeOK
    <2>2. v \in Nat
      BY <1>3, <1>4, <2>1, RsaTypes
    <2>3. QED
      BY <1>2, <2>2
  <1>6. /\ Len(Append(up[h], v)) = Len(up[h]) + 1
        /\ \A k \in 1..(Len(up[h]) + 1) : Append(up[h], v)[k] = IF k = Len(up[h]) + 1 THEN v ELSE up[h][k]
    BY <1>5, AppendFacts
  <1>7. /\ up'[i] = Tail(up[i])
        /\ up'[h] \in {up[h], Append(up[h], v)}
        /\ \A g \in Hops : g \notin {h, i} => up'[g] = up[g]
    BY <1>1, <1>2, <1>3
  <1>8. ASSUME ModuliDescend' PROVE LayersInv'
    <2>1. LayersInv /\ ModuliDescend
      BY <1>2, <1>8 DEF ReplyInv, ModuliDescend
    <2>2. Layered(i + 1, Head(up[i]))
      BY <1>1, <1>4, <2>1 DEF LayersInv
    <2>3. Head(up[i]) < keys[i].n /\ Layered(i, PowMod(Head(up[i]), keys[i].e, keys[i].n))
      BY <1>4, <2>1, <2>2, LayerOn
    <2>4. Layered(h + 1, v)
      BY <1>1, <1>3, <2>3 DEF Encrypted
    <2>5. ASSUME NEW g \in Hops, NEW k \in 1..Len(up'[g])
          PROVE  Layered(g + 1, up'[g][k])
      <3>1. CASE g = i
        <4>1. k + 1 \in 1..Len(up[i]) /\ up'[g][k] = up[i][k + 1]
          <5>1. Len(up'[g]) = Len(up[i]) - 1 /\ up'[g] = Tail(up[i])
            BY <1>4, <1>7, <3>1
          <5>2. k \in 1..(Len(up[i]) - 1)
            BY <5>1
          <5>3. QED
            BY <1>4, <5>1, <5>2
        <4>2. QED
          BY <1>1, <2>1, <3>1, <4>1 DEF LayersInv
      <3>2. CASE g = h /\ up'[h] = up[h]
        BY <2>1, <3>2 DEF LayersInv
      <3>3. CASE g = h /\ up'[h] = Append(up[h], v)
        <4>1. k \in 1..(Len(up[h]) + 1)
              /\ up'[g][k] = IF k = Len(up[h]) + 1 THEN v ELSE up[h][k]
          BY <1>6, <3>3
        <4>2. k # Len(up[h]) + 1 => k \in 1..Len(up[h])
          BY <1>5, <4>1
        <4>3. QED
          BY <2>1, <2>4, <3>3, <4>1, <4>2 DEF LayersInv
      <3>4. CASE g \notin {h, i}
        BY <1>7, <2>1, <3>4 DEF LayersInv
      <3>5. QED
        BY <1>7, <3>1, <3>2, <3>3, <3>4
    <2>6. client' \in {"peel", "printed"} => Layered(peeled' + 1, val')
      BY <1>2, <2>1 DEF LayersInv
    <2>7. QED
      BY <1>2, <2>5, <2>6, LayersNext
  <1>9. QED
    BY <1>2, <1>8 DEF ReplyInv

\* Before the destination answers there is no reply anywhere.
LEMMA NothingLayered ==
    ASSUME answer = None, NEW i \in 1..Destination, NEW v
    PROVE  ~Layered(i, v)
  <1>1. Destination \in i..Destination /\ None \notin Nat
    OBVIOUS
  <1>2. QED
    BY <1>1 DEF Layered

\* The answer goes to the last relay as it is.
LEMMA AnswerKeepsReply ==
    ASSUME TypeOK, PathInv, ReplyInv, NEW h \in Hops, DestinationAnswers(h)
    PROVE  ReplyInv'
  <1>1. h + 1 = Destination
    <2>1. target[h] = Destination /\ Destination # None /\ target[h] \in {None, h + 1}
      BY DEF DestinationAnswers, PathInv, TopologyInv
    <2>2. QED
      BY <2>1
  <1>2. /\ destination = "waiting" /\ destination' = "answered" /\ answer = None
        /\ UNCHANGED <<keys, client, val, peeled>>
    BY DEF DestinationAnswers, clientVars, ReplyInv
  <1>3. PICK b \in Bodies :
           answer' = b /\ up' = [up EXCEPT ![h] = IF Listening(h) THEN Append(@, b) ELSE @]
    BY DEF DestinationAnswers
  <1>4. b \in Nat /\ up \in [Hops -> Seq(Nat)]
    BY BodiesAssumption DEF TypeOK
  <1>5. ASSUME ModuliDescend' PROVE LayersInv'
    <2>1. LayersInv
      BY <1>2, <1>5 DEF ReplyInv, ModuliDescend
    <2>2. \A g \in Hops : Len(up[g]) = 0
      <3> TAKE g \in Hops
      <3>1. Len(up[g]) \in Nat /\ g + 1 \in 1..Destination
        BY <1>4
      <3>2. Len(up[g]) # 0 => Layered(g + 1, up[g][1])
        BY <2>1, <3>1 DEF LayersInv
      <3>3. QED
        BY <1>2, <3>1, <3>2, NothingLayered
    <2>3. client' \notin {"peel", "printed"}
      <3>1. peeled + 1 \in 1..Destination
        BY DEF TypeOK
      <3>2. QED
        BY <1>2, <2>1, <3>1, NothingLayered DEF LayersInv
    <2>4. \A g \in Hops : \A k \in 1..Len(up'[g]) : g = h /\ up'[g][k] = b
      <3> TAKE g \in Hops
      <3>1. up[g] \in Seq(Nat) /\ Len(up[g]) = 0
        BY <1>4, <2>2
      <3>2. Len(Append(up[g], b)) = 1 /\ Append(up[g], b)[1] = b
        BY <1>4, <3>1, AppendFacts
      <3>3. up'[g] = up[g] \/ (g = h /\ up'[g] = Append(up[g], b))
        BY <1>3, <1>4
      <3>4. QED
        BY <3>1, <3>2, <3>3
    <2>5. LayersInv'
      <3>1. \E w \in [Destination..Destination -> Nat] : w[Destination] = b
        <4> DEFINE w == [j \in Destination..Destination |-> b]
        <4>1. w \in [Destination..Destination -> Nat] /\ w[Destination] = b
          BY <1>4
        <4>2. QED
          BY <4>1
      <3>2. \A j : j \notin Destination..N
        OBVIOUS
      <3>3. QED
        BY <1>1, <1>2, <1>3, <2>3, <2>4, <3>1, <3>2 DEF LayersInv, Layered
    <2>6. QED
      BY <2>5
  <1>6. QED
    BY <1>2, <1>5 DEF ReplyInv

\* A closed connection loses its replies or keeps them.
LEMMA OthersKeepReply ==
    ASSUME TypeOK, ReplyInv,
           \/ \E i \in Relays : RelayCrashes(i)
           \/ \E h \in Hops : DestinationDies(h) \/ ResetArrives(h)
           \/ \E i \in Relays, h \in Hops :
                 \/ RelayConnects(h, i) \/ RelayRefused(h, i) \/ RelayForwards(h, i)
                 \/ RelayForwardFails(h, i) \/ RelayReplyFails(h, i)
    PROVE  ReplyInv'
  <1>1. UNCHANGED <<keys, answer, client, val, peeled>>
    BY DEF RelayConnects, RelayRefused, RelayForwards, RelayForwardFails, RelayReplyFails,
           RelayCrashes, DestinationDies, ResetArrives, clientVars, destVars
  <1>2. destination' = "waiting" => destination = "waiting"
    BY DEF RelayConnects, RelayRefused, RelayForwards, RelayForwardFails, RelayReplyFails,
           RelayCrashes, DestinationDies, ResetArrives, destVars
  <1>3. \A h \in Hops : up'[h] \in {up[h], <<>>}
    <2>1. up \in [Hops -> Seq(Nat)]
      BY DEF TypeOK
    <2>2. up' = up \/ \E i \in Relays : up' = [up EXCEPT ![i] = <<>>]
      BY DEF RelayConnects, RelayRefused, RelayForwards, RelayForwardFails, RelayReplyFails,
             RelayCrashes, DestinationDies, ResetArrives
    <2>3. QED
      BY <2>1, <2>2
  <1>4. QED
    BY <1>1, <1>2, <1>3, ReplyStays

LEMMA ReplyStep ==
    ASSUME TypeOK, PathInv, ReplyInv, Next
    PROVE  ReplyInv'
  <1>1. CASE Client
    BY <1>1, ClientKeepsReply
  <1>2. CASE \E i \in Relays : Relay(i)
    <2>1. PICK i \in Relays, h \in Hops :
             \/ RelayConnects(h, i) \/ RelayRefused(h, i)
             \/ RelayForwards(h, i) \/ RelayForwardFails(h, i)
             \/ RelayReplies(h, i) \/ RelayReplyFails(h, i)
      BY <1>2 DEF Relay
    <2>2. CASE RelayReplies(h, i)
      BY <2>2, RelayKeepsReply
    <2>3. CASE ~RelayReplies(h, i)
      BY <2>1, <2>3, OthersKeepReply
    <2>4. QED
      BY <2>2, <2>3
  <1>3. CASE DestinationServer
    BY <1>3, AnswerKeepsReply, OthersKeepReply DEF DestinationServer
  <1>4. CASE (\E i \in Relays : RelayCrashes(i)) \/ (\E h \in Hops : ResetArrives(h))
    BY <1>4, OthersKeepReply
  <1>5. QED
    BY <1>1, <1>2, <1>3, <1>4 DEF Next

------------------------------------------------------------------------------
(* Theorems.                                                               *)

LEMMA InitInv == Init => IInv
  <1> SUFFICES ASSUME Init PROVE IInv
    OBVIOUS
  <1>1. TypeOK
    BY DEF Init, TypeOK, LinkStates
  <1>2. TopologyInv
    <2>1. \A i \in Relays : i \in Hops /\ i - 1 \in Hops
      OBVIOUS
    <2>2. QED
      BY <2>1 DEF Init, TopologyInv
  <1>3. OrderInv
    BY DEF Init, OrderInv
  <1>4. PassedOnInv
    BY DEF Init, PassedOnInv
  <1>5. ReplyInv
    BY DEF Init, ReplyInv, LayersInv
  <1>6. QED
    BY <1>1, <1>2, <1>3, <1>4, <1>5 DEF IInv, PathInv

\* A step that changes nothing changes no part of the invariant.
LEMMA Stutters ==
    ASSUME IInv, UNCHANGED vars
    PROVE  IInv'
  <1>1. TypeOK'
    BY DEF IInv, TypeOK, Blocks, Message, vars, clientVars, relayVars, netVars, destVars
  <1>2. PathInv'
    <2>1. Losing
      BY DEF Losing, vars, clientVars, relayVars, netVars
    <2>2. QED
      BY <2>1, LosingKeepsPath DEF IInv
  <1>3. ReplyInv'
    BY ReplyStays DEF IInv, vars, clientVars, netVars, destVars
  <1>4. QED
    BY <1>1, <1>2, <1>3 DEF IInv

\* The types, the path and the layers are kept by every step.
THEOREM CircuitInductive == Spec => []IInv
  <1>1. IInv /\ [Next]_vars => IInv'
    BY TypeStep, PathStep, ReplyStep, Stutters DEF IInv
  <1>2. QED
    BY InitInv, <1>1, PTL DEF Spec

\* Every variable keeps its type.
THEOREM CircuitTypes == Spec => []TypeOK
  BY CircuitInductive, PTL DEF IInv

\* Every relay connects to the hop meant for it and has the key the client
\* uses in its place, for any number of relays (test.cpp:60-113,
\* Node/Server.cpp:316-378).
THEOREM PathCorrect == Spec => []PathAsRequested
  <1>1. IInv => PathAsRequested
    BY DEF IInv, PathInv, TopologyInv, PathAsRequested
  <1>2. QED
    BY CircuitInductive, <1>1, PTL

\* Nothing but the message, and that once, comes out of the last relay
\* (Node/Server.cpp:250-260).
THEOREM OnlyMessageCorrect == Spec => []OnlyMessageLeaves
  <1>1. ASSUME IInv, NEW h \in Hops, target[h] = Destination
        PROVE  /\ \A k \in DOMAIN down[h] : down[h][k] = Message
               /\ taken[h] + Len(down[h]) <= 1
    <2>1. h = N
      <3>1. target[h] = Destination /\ Destination # None /\ target[h] \in {None, h + 1}
        BY <1>1 DEF IInv, PathInv, TopologyInv
      <3>2. QED
        BY <3>1
    <2>2. down[h] \in Seq(Blocks) /\ taken[h] \in Nat
      BY <1>1 DEF IInv, TypeOK
    <2>3. /\ \A k \in 1..Len(down[h]) : down[h][k] = Block(h + taken[h] + k)
          /\ taken[h] + Len(down[h]) <= N + 1 - h
      BY <1>1 DEF IInv, PathInv, OrderInv
    <2>4. \A k \in 1..Len(down[h]) : ~(h + taken[h] + k <= N)
      BY <2>1, <2>2
    <2>5. DOMAIN down[h] = 1..Len(down[h])
      BY <2>2
    <2>6. \A k \in DOMAIN down[h] : down[h][k] = Message
      BY <2>3, <2>4, <2>5 DEF Block
    <2>7. QED
      BY <2>1, <2>2, <2>3, <2>6
  <1>2. IInv => OnlyMessageLeaves
    BY <1>1 DEF OnlyMessageLeaves
  <1>3. QED
    BY CircuitInductive, <1>2, PTL

\* Where no modulus is below that of the next relay, what the client prints
\* for a reply is the destination's answer (RSA_Communication.cpp:77-82,
\* test.cpp:125-133).
THEOREM ReadableCorrect == Spec => []ReplyReadable
  <1>1. ASSUME IInv, client = "printed", ModuliDescend
        PROVE  val = answer
    <2>1. peeled = N /\ Layered(peeled + 1, val)
      BY <1>1 DEF IInv, ReplyInv, LayersInv
    <2>2. Layered(Destination, val)
      BY <2>1
    <2>3. QED
      BY <2>2 DEF Layered
  <1>2. IInv => ReplyReadable
    BY <1>1 DEF ReplyReadable
  <1>3. QED
    BY CircuitInductive, <1>2, PTL
=============================================================================
