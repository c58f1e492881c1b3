----------------------------- MODULE OnionCircuit -----------------------------
(***************************************************************************)
(* One circuit from end to end: the client of "src/testing/testing         *)
(* client" (hop 0), the relays 1..N, and the destination of                *)
(* "src/testing/testing server" (hop N + 1).  A relay does here what       *)
(* RelayPipe promises of one circuit, which RelayNode implements; what     *)
(* this module adds is what the blocks hold.  The client writes all its    *)
(* blocks without waiting for anything: one setup block per relay, each    *)
(* naming the next hop and a key, then the message.  Nothing but their     *)
(* order tells a relay which block is its own.                             *)
(*                                                                         *)
(* Connection h is the one that hop h made.  The number a block encodes    *)
(* is what RSA works on; keys are small but real.                          *)
(***************************************************************************)
EXTENDS Naturals, Sequences

CONSTANTS
    N,          \* relays on the circuit (three in the client's code)
    Keys,       \* key pairs the client may have generated
    Bodies,     \* replies the destination may give, as numbers
    Garbage,    \* what memory that was never written may hold
    Refusing,   \* hops that may refuse a connection
    Crashing,   \* relays whose process may end
    None

Relays == 1..N
Destination == N + 1
Hops == 0..N

\* v to the power e modulo n.
PowMod(v, e, n) ==
    LET pow[k \in 0..e] == IF k = 0 THEN 1 % n ELSE (pow[k - 1] * v) % n
    IN  pow[e]

ASSUME CircuitAssumption ==
    /\ N \in Nat \ {0}
    /\ Refusing \subseteq 1..Destination /\ Crashing \subseteq Relays
    /\ Garbage \subseteq Nat /\ Garbage # {}

\* Of OpenSSL: a pair undoes what it did to a number below its modulus.
ASSUME KeysAssumption ==
    \A k \in Keys :
        /\ k \in [n : Nat \ {0}, e : Nat, d : Nat]
        /\ \A v \in 0..(k.n - 1) :
              /\ PowMod(v, k.e, k.n) \in 0..(k.n - 1)
              /\ PowMod(v, k.d, k.n) \in 0..(k.n - 1)
              /\ PowMod(PowMod(v, k.e, k.n), k.d, k.n) = v

\* A text begins with an ASCII character and a modulus has its top bit set.
ASSUME BodiesAssumption ==
    /\ Bodies \subseteq Nat
    /\ \A b \in Bodies, k \in Keys : b < k.n

ASSUME NoneAssumption == None \notin Keys /\ None \notin Nat

VARIABLES
    keys,       \* nodesRsaArr: the pair generated for each relay
    client,     \* where the client is
    written,    \* blocks it has written
    val,        \* decrypted: the number in its buffer
    peeled,     \* layers it has taken off
    relay,      \* [Relays -> phase of the circuit at that relay]
    layer,      \* [Relays -> the key of its RsaHelper, or None]
    target,     \* [Hops -> the hop at the far end of its connection, or None]
    link,       \* [Hops -> its connection, as the hop that made it sees it]
    down,       \* [Hops -> blocks on the way to the far end]
    taken,      \* [Hops -> blocks the far end has read]
    up,         \* [Hops -> numbers on the way back]
    destination,\* where the destination is
    answer      \* what it has answered, or None

clientVars == <<client, written, val, peeled>>
relayVars == <<relay, layer>>
netVars == <<target, link, down, taken, up>>
destVars == <<destination, answer>>
vars == <<keys, clientVars, relayVars, netVars, destVars>>

Init ==
    /\ keys \in [Relays -> Keys]
    /\ client = "connect" /\ written = 0 /\ val = 0 /\ peeled = 0
    /\ relay = [i \in Relays |-> "new"]
    /\ layer = [i \in Relays |-> None]
    /\ target = [h \in Hops |-> None]
    /\ link = [h \in Hops |-> "none"]
    /\ down = [h \in Hops |-> <<>>]
    /\ taken = [h \in Hops |-> 0]
    /\ up = [h \in Hops |-> <<>>]
    /\ destination = "waiting" /\ answer = None

------------------------------------------------------------------------------
(* Connections.                                                            *)

\* send: a block to a peer that has closed draws its reset, the next write
\* raises SIGPIPE; a reset that came by itself is an error first.
CanSend(h) == link[h] \in {"open", "fin", "probed"}

SendDown(h, b) ==
    /\ CanSend(h)
    /\ down' = [down EXCEPT ![h] = IF link[h] = "open" THEN Append(@, b) ELSE @]
    /\ link' = [link EXCEPT ![h] = IF @ = "fin" THEN "probed" ELSE @]

ResetArrives(h) ==
    /\ link[h] = "probed"
    /\ link' = [link EXCEPT ![h] = "epipe"]
    /\ UNCHANGED <<keys, clientVars, relayVars, target, down, taken, up, destVars>>

\* The far end of connection h closes, with rest left unread.
Hangup(h, rest) ==
    /\ link' = [link EXCEPT ![h] = IF @ # "open" THEN @
                                   ELSE IF rest = <<>> THEN "fin" ELSE "rst"]
    /\ down' = [down EXCEPT ![h] = <<>>]

\* Whether somebody accepts connections at hop h.
Up(h) == IF h = Destination THEN destination # "ended" ELSE relay[h] # "dead"

\* A hop that is gone receives nothing; what it is sent is lost.
Listening(h) == IF h = 0 THEN client # "failed" ELSE relay[h] = "open"

------------------------------------------------------------------------------
(* The client.                                                             *)

SetupBlock(i) == [kind |-> "setup", to |-> i + 1, key |-> keys[i]]
Message == [kind |-> "message"]

\* Mutant: the setup blocks in the wrong order.
BlockReversed(k) == IF k <= N THEN SetupBlock(N + 1 - k) ELSE Message

\* Mutant: the ports of the path are one off.
BlockNextPort(k) ==
    IF k < N THEN [SetupBlock(k) EXCEPT !.to = k + 2]
    ELSE IF k = N THEN SetupBlock(k) ELSE Message

\* The k-th block the client writes.
Block(k) == IF k <= N THEN SetupBlock(k) ELSE Message

ClientConnects ==
    /\ client = "connect"
    /\ Up(1)
    /\ client' = "send"
    /\ target' = [target EXCEPT ![0] = 1]
    /\ link' = [link EXCEPT ![0] = "open"]
    /\ UNCHANGED <<keys, written, val, peeled, relayVars, down, taken, up, destVars>>

ClientRefused ==
    /\ client = "connect"
    /\ 1 \in Refusing \/ ~Up(1)
    /\ client' = "failed"
    /\ UNCHANGED <<keys, written, val, peeled, relayVars, netVars, destVars>>

\* Mutant: one block too many.
ClientSendsOneMore ==
    /\ client = "send"
    /\ SendDown(0, Block(written + 1))
    /\ written' = written + 1
    /\ client' = IF written = N + 1 THEN "read" ELSE "send"
    /\ UNCHANGED <<keys, val, peeled, relayVars, target, taken, up, destVars>>

ClientSends ==
    /\ client = "send"
    /\ SendDown(0, Block(written + 1))
    /\ written' = written + 1
    /\ client' = IF written = N THEN "read" ELSE "send"
    /\ UNCHANGED <<keys, val, peeled, relayVars, target, taken, up, destVars>>

\* send returns -1, or SIGPIPE ends the process.
ClientSendFails ==
    /\ client = "send"
    /\ link[0] \in {"rst", "epipe"}
    /\ client' = "failed"
    /\ UNCHANGED <<keys, written, val, peeled, relayVars, netVars, destVars>>

ClientReads ==
    /\ client = "read"
    /\ up[0] # <<>>
    /\ val' = Head(up[0])
    /\ up' = [up EXCEPT ![0] = Tail(@)]
    /\ client' = "peel"
    /\ UNCHANGED <<keys, written, peeled, relayVars, target, link, down, taken, destVars>>

\* read returns 0 or -1: an error is printed, and the zeroes of the buffer are
\* decrypted and printed like an answer.
ClientReadFails ==
    /\ client = "read"
    /\ up[0] = <<>> /\ link[0] # "open"
    /\ client' = "peelNothing"
    /\ UNCHANGED <<keys, written, val, peeled, relayVars, netVars, destVars>>

\* RSA_private_decrypt fails on a number that is not below the modulus, and
\* leaves the new buffer as it was allocated.
Decrypted(k, v) == IF v < k.n THEN {PowMod(v, k.d, k.n)} ELSE Garbage

\* Mutant: the innermost layer first.
ClientPeelsInnermost ==
    /\ client \in {"peel", "peelNothing"}
    /\ peeled < N
    /\ peeled' = peeled + 1
    /\ val' \in Decrypted(keys[N - peeled], val)
    /\ UNCHANGED <<keys, client, written, relayVars, netVars, destVars>>

ClientPeels ==
    /\ client \in {"peel", "peelNothing"}
    /\ peeled < N
    /\ peeled' = peeled + 1
    /\ val' \in Decrypted(keys[peeled + 1], val)
    /\ UNCHANGED <<keys, client, written, relayVars, netVars, destVars>>

ClientPrints ==
    /\ client \in {"peel", "peelNothing"}
    /\ peeled = N
    /\ client' = IF client = "peel" THEN "printed" ELSE "printedNothing"
    /\ UNCHANGED <<keys, written, val, peeled, relayVars, netVars, destVars>>

------------------------------------------------------------------------------
(* The relays.  Relay i is served by the connection of some hop h.         *)

Serves(h, i) == target[h] = i /\ relay[i] # "dead"

\* The first block a relay reads is its own.
IsSetup(h, i) ==
    /\ Serves(h, i) /\ relay[i] = "new"
    /\ down[h] # <<>> /\ Head(down[h]).kind = "setup"

RelayConnects(h, i) ==
    /\ IsSetup(h, i)
    /\ Up(Head(down[h]).to)
    /\ relay' = [relay EXCEPT ![i] = "open"]
    /\ layer' = [layer EXCEPT ![i] = Head(down[h]).key]
    /\ target' = [target EXCEPT ![i] = Head(down[h]).to]
    /\ link' = [link EXCEPT ![i] = "open"]
    /\ down' = [down EXCEPT ![h] = Tail(@)]
    /\ taken' = [taken EXCEPT ![h] = @ + 1]
    /\ UNCHANGED <<keys, clientVars, up, destVars>>

\* The next hop refuses: the socket the circuit came by is closed.
RelayRefused(h, i) ==
    /\ IsSetup(h, i)
    /\ LET to == Head(down[h]).to IN to \in Refusing \/ ~Up(to)
    /\ relay' = [relay EXCEPT ![i] = "cut"]
    /\ Hangup(h, Tail(down[h]))
    /\ taken' = [taken EXCEPT ![h] = @ + 1]
    /\ UNCHANGED <<keys, clientVars, layer, target, up, destVars>>

\* handleRequest towards the next hop: the block goes on as it is.
RelayForwards(h, i) ==
    /\ Serves(h, i) /\ relay[i] = "open"
    /\ down[h] # <<>>
    /\ CanSend(i)
    /\ LET b == Head(down[h])
       IN  /\ down' = [down EXCEPT ![h] = Tail(@),
                                   ![i] = IF link[i] = "open" THEN Append(@, b) ELSE @]
           /\ link' = [link EXCEPT ![i] = IF @ = "fin" THEN "probed" ELSE @]
    /\ taken' = [taken EXCEPT ![h] = @ + 1]
    /\ UNCHANGED <<keys, clientVars, relayVars, target, up, destVars>>

\* send returned -1: the circuit is cut.  SIGPIPE: so are all the relay has.
RelayForwardFails(h, i) ==
    /\ Serves(h, i) /\ relay[i] = "open"
    /\ down[h] # <<>>
    /\ link[i] \in {"rst", "epipe"}
    /\ relay' = [relay EXCEPT ![i] = IF link[i] = "rst" THEN "cut" ELSE "dead"]
    /\ Hangup(h, Tail(down[h]))
    /\ taken' = [taken EXCEPT ![h] = @ + 1]
    /\ UNCHANGED <<keys, clientVars, layer, target, up, destVars>>

\* RSA_public_encrypt without padding: as in Decrypted.
Encrypted(k, v) == IF v < k.n THEN {PowMod(v, k.e, k.n)} ELSE Garbage

\* Mutant: a reply that cannot be encrypted is dropped.
RelayRepliesOrDrops(h, i) ==
    /\ Serves(h, i) /\ relay[i] = "open"
    /\ up[i] # <<>>
    /\ LET v == Head(up[i])
           out == IF v < layer[i].n THEN <<PowMod(v, layer[i].e, layer[i].n)>> ELSE <<>>
       IN  up' = [up EXCEPT ![i] = Tail(@), ![h] = @ \o out]
    /\ UNCHANGED <<keys, clientVars, relayVars, target, link, down, taken, destVars>>

\* handleRequest towards the client: one layer is added.
RelayReplies(h, i) ==
    /\ Serves(h, i) /\ relay[i] = "open"
    /\ up[i] # <<>>
    /\ \E v \in Encrypted(layer[i], Head(up[i])) :
          up' = [up EXCEPT ![i] = Tail(@), ![h] = IF Listening(h) THEN Append(@, v) ELSE @]
    /\ UNCHANGED <<keys, clientVars, relayVars, target, link, down, taken, destVars>>

\* The hop before has gone and its socket says so: the circuit is cut.
RelayReplyFails(h, i) ==
    /\ Serves(h, i) /\ relay[i] = "open"
    /\ up[i] # <<>> /\ ~Listening(h)
    /\ relay' = [relay EXCEPT ![i] = "cut"]
    /\ up' = [up EXCEPT ![i] = <<>>]
    /\ Hangup(h, down[h])
    /\ UNCHANGED <<keys, clientVars, layer, target, taken, destVars>>

\* The relay's process ends; the hop before it learns of it, if at all, by its
\* connection.  What was sent on to the next hop still arrives there.
RelayCrashes(i) ==
    /\ i \in Crashing /\ relay[i] # "dead"
    /\ relay' = [relay EXCEPT ![i] = "dead"]
    /\ link' = [h \in Hops |-> IF target[h] # i \/ link[h] # "open" THEN link[h]
                               ELSE IF down[h] = <<>> THEN "fin" ELSE "rst"]
    /\ down' = [h \in Hops |-> IF target[h] = i THEN <<>> ELSE down[h]]
    /\ up' = [up EXCEPT ![i] = <<>>]
    /\ UNCHANGED <<keys, clientVars, layer, target, taken, destVars>>

------------------------------------------------------------------------------
(* The destination reads one block and answers it.                         *)

DestinationAnswers(h) ==
    /\ target[h] = Destination
    /\ destination = "waiting"
    /\ down[h] # <<>>
    /\ destination' = "answered"
    /\ down' = [down EXCEPT ![h] = Tail(@)]
    /\ taken' = [taken EXCEPT ![h] = @ + 1]
    /\ \E b \in Bodies :
          /\ answer' = b
          /\ up' = [up EXCEPT ![h] = IF Listening(h) THEN Append(@, b) ELSE @]
    /\ UNCHANGED <<keys, clientVars, relayVars, target, link>>

\* The block is read into a buffer of one byte; what that overwrites may end
\* the process.
DestinationDies(h) ==
    /\ target[h] = Destination
    /\ destination = "waiting"
    /\ down[h] # <<>>
    /\ destination' = "ended"
    /\ taken' = [taken EXCEPT ![h] = @ + 1]
    /\ Hangup(h, Tail(down[h]))
    /\ UNCHANGED <<keys, clientVars, relayVars, target, up, answer>>

------------------------------------------------------------------------------
Client ==
    \/ ClientConnects \/ ClientRefused \/ ClientSends \/ ClientSendFails
    \/ ClientReads \/ ClientReadFails \/ ClientPeels \/ ClientPrints

Relay(i) ==
    \E h \in Hops :
        \/ RelayConnects(h, i) \/ RelayRefused(h, i)
        \/ RelayForwards(h, i) \/ RelayForwardFails(h, i)
        \/ RelayReplies(h, i) \/ RelayReplyFails(h, i)

DestinationServer == \E h \in Hops : DestinationAnswers(h) \/ DestinationDies(h)

Next ==
    \/ Client \/ DestinationServer
    \/ \E i \in Relays : Relay(i) \/ RelayCrashes(i)
    \/ \E h \in Hops : ResetArrives(h)

Spec == Init /\ [][Next]_vars

\* Every process that can go on does; blocks and resets arrive in the end.
Fairness ==
    /\ WF_vars(Client)
    /\ \A i \in Relays : WF_vars(Relay(i))
    /\ WF_vars(DestinationServer)

FairSpec == Spec /\ Fairness

------------------------------------------------------------------------------
(* Properties.                                                             *)

Blocks == [kind : {"setup"}, to : 2..Destination, key : Keys] \cup {Message}
LinkStates == {"none", "open", "fin", "probed", "epipe", "rst"}

\* Types of every variable.
TypeOK ==
    /\ keys \in [Relays -> Keys]
    /\ client \in {"connect", "send", "read", "peel", "peelNothing",
                   "printed", "printedNothing", "failed"}
    /\ written \in 0..(N + 1) /\ val \in Nat /\ peeled \in 0..N
    /\ relay \in [Relays -> {"new", "open", "cut", "dead"}]
    /\ layer \in [Relays -> Keys \cup {None}]
    /\ target \in [Hops -> (1..Destination) \cup {None}]
    /\ link \in [Hops -> LinkStates]
    /\ down \in [Hops -> Seq(Blocks)]
    /\ taken \in [Hops -> Nat]
    /\ up \in [Hops -> Seq(Nat)]
    /\ destination \in {"waiting", "answered", "ended"}
    /\ answer \in Bodies \cup {None}

\* Every relay connects to the hop the client meant for it and encrypts with
\* the key the client will decrypt with in that place, although the blocks are
\* on their way all at once and carry no address (test.cpp:60-113,
\* Node/Server.cpp:316-378).
PathAsRequested ==
    \A i \in Relays : relay[i] = "open" => target[i] = i + 1 /\ layer[i] = keys[i]

\* Only the message comes out of the last relay, and once; no setup block does
\* (Node/Server.cpp:250-260).
OnlyMessageLeaves ==
    \A h \in Hops : target[h] = Destination =>
        /\ \A k \in DOMAIN down[h] : down[h][k] = Message
        /\ taken[h] + Len(down[h]) <= 1

\* Each relay's modulus is not smaller than that of the relay after it.
ModuliDescend == \A i \in 1..(N - 1) : keys[i].n >= keys[i + 1].n

\* What the client prints for a reply is the destination's answer, provided
\* that no ciphertext can exceed the next modulus (RSA_Communication.cpp:77-82,
\* test.cpp:125-133).
ReplyReadable == client = "printed" /\ ModuliDescend => val = answer

\* README.md:15: "when the message returns from the relays encrypted with
\* layers the client decrypts it", whatever keys were generated.
ReplyAlwaysReadable == client = "printed" => val = answer

\* A client that has sent its message gets a reply unless a relay gave the
\* circuit up or the destination ended (test.cpp:107-133).
GivenUp ==
    \/ destination = "ended"
    \/ \E i \in Relays : relay[i] \in {"cut", "dead"}
ReplyArrives == client = "read" ~> (client = "printed" \/ GivenUp)
=============================================================================
