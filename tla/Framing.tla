------------------------------- MODULE Framing -------------------------------
(***************************************************************************)
(* How texts become blocks of bytes, and what a chain of relays makes of   *)
(* them.  A block is a code, the length of the text in four bytes, and the *)
(* text; some readers and writers leave out the code or the length.        *)
(*                                                                         *)
(* TCP is a stream: every read in this program takes what has arrived, up  *)
(* to BlockSize bytes, for one block.  A client sends one setup block per  *)
(* hop and then data; each relay reads its own setup block (buildPath) and *)
(* passes on what follows, each read filled up to a block with zeroes      *)
(* (handleRequest).  Here a read may be cut short anywhere.                *)
(*                                                                         *)
(* A text stands for the JSON text of a setup block; Texts are all that    *)
(* can be parsed, also those nobody sent.                                  *)
(***************************************************************************)
EXTENDS Naturals, Sequences

CONSTANTS
    Base,       \* byte values: 256 in the code
    BlockSize,  \* BUFFER_SIZE
    Texts,      \* texts that json::parse accepts
    Setups,     \* texts that the client sends
    Earlier,    \* texts that clients before it have sent
    Memory,     \* what a client's memory may hold behind a block
    Hops,       \* length of the chain
    MaxCuts,    \* bound: reads that return less than has been sent
    Waiting, Dead   \* a relay that has not read its setup; one that has ended

ASSUME SizesAssumption ==
    /\ Base \in Nat /\ Base > 1 /\ BlockSize \in Nat /\ BlockSize > 5
    /\ Hops \in Nat \ {0} /\ MaxCuts \in Nat

Byte == 0..Base - 1

\* From here on a length is negative in an int.
Half == Base * Base * Base * (Base \div 2)

\* A parser stops at a zero byte; an object that is complete is no longer one
\* when something is appended to it.
ASSUME TextsAssumption ==
    /\ \A t \in Texts : t \in Seq(Byte \ {0}) /\ t # <<>> /\ Len(t) < Half
    /\ \A s, t \in Texts : Len(s) <= Len(t) /\ SubSeq(t, 1, Len(s)) = s => s = t
    /\ Waiting # Dead /\ {Waiting, Dead} \cap Texts = {}

ASSUME SetupsAssumption ==
    Setups \cup Earlier \subseteq Texts /\ \A t \in Setups \cup Earlier : Len(t) + 5 <= BlockSize

ASSUME MemoryAssumption == \A m \in Memory : m \in Seq(Byte) /\ Len(m) = BlockSize

Zeros == [i \in 1..BlockSize |-> 0]

\* The bytes behind the first n of memory that holds b.
Rest(b, n) == SubSeq(b, n + 1, Len(b))

First(b, n) == SubSeq(b, 1, n)

------------------------------------------------------------------------------
(* Writers and readers.                                                    *)

Digits(n) ==
    LET q == n \div Base
        r == q \div Base
        s == r \div Base
    IN  <<s % Base, r % Base, q % Base, n % Base>>

\* A setup is a flat object (getJsonBufferRequest): the byte that opens a text
\* stands nowhere in it but at its beginning, and no text begins like the last
\* bytes of a length with a setup behind them.
OpeningsDiffer ==
    \A s \in Texts : /\ Len(s) > 1
                     /\ \A t \in Setups :
                           /\ \A i \in 2..Len(t) : t[i] # s[1]
                           /\ \A i \in 1..4 : LET head == Digits(Len(t)) \o t
                                             IN  ~ (head[i] = s[1] /\ head[i + 1] = s[2])

ASSUME OpeningAssumption == OpeningsDiffer

\* Requests: clients to the proxy and to relays.
Request(code, t) == <<code>> \o Digits(Len(t)) \o t

\* Answers of the proxy and of the database server.
Answer(t) == Digits(Len(t)) \o t

\* Requests of the proxy to the database server.
DatabaseRequest(code, t) == <<code>> \o t

NumberAt(b, i) == ((b[i] * Base + b[i + 1]) * Base + b[i + 2]) * Base + b[i + 3]

\* How far a loop goes that ends at the int which the four bytes from position i
\* make: not at all if that is negative.
LengthAt(b, i) == IF NumberAt(b, i) < Half THEN NumberAt(b, i) ELSE 0

\* The part of the memory b from position i on that a loop of n turns copies;
\* it goes on behind the end of b if n is larger than that.
Copied(b, i, n) == SubSeq(b, i, IF i + n - 1 < Len(b) THEN i + n - 1 ELSE Len(b))

\* Mutant: the text is taken from where a database answer has it.
ReadRequestEarly(b) == Copied(b, 5, LengthAt(b, 2))

\* The relay's and the proxy's getJsonFromBuffer.
ReadRequest(b) == Copied(b, 6, LengthAt(b, 2))

\* A client's loop over the proxy's answer (ClientGUI/main.py).
ReadAnswer(b) == Copied(b, 5, LengthAt(b, 1))

\* The proxy's getJsonFromDatabaseServerBuffer: it takes the length one byte
\* behind where Answer puts it, and one byte more than it says.
ReadDatabaseAnswer(b) ==
    IF NumberAt(b, 2) < Half THEN Copied(b, 5, NumberAt(b, 2) + 1) ELSE <<>>

\* ProxyHandler.handle_request.
ReadDatabaseRequest(b) == Tail(b)

\* What a parser makes of s: the text it begins with, if s ends behind it or
\* goes on with a zero byte.
Parsed(s) ==
    {t \in Texts : /\ Len(t) <= Len(s) /\ First(s, Len(t)) = t
                   /\ Len(s) = Len(t) \/ s[Len(t) + 1] = 0}

------------------------------------------------------------------------------
(* The chain.                                                              *)

VARIABLES
    plan,       \* the texts the client sends: a setup for each hop, and data
    written,    \* every byte it has sent
    link,       \* [1..Hops + 1 -> bytes on their way to that hop; the last
                \*  entry is what the destination has got]
    hop,        \* [1..Hops -> Waiting, the text the relay has acted on, or Dead]
    eaten,      \* [1..Hops -> the bytes of the read it built its path from]
    stale,      \* [1..Hops -> what buildPath's buffer holds before the read]
    cuts

vars == <<plan, written, link, hop, eaten, stale, cuts>>

Relays == 1..Hops

\* The buffer of buildPath is not initialised: it may still hold the block of
\* the circuit built before.
Init ==
    /\ plan \in [1..Hops + 1 -> Setups]
    /\ stale \in [Relays -> {Zeros} \cup {Request(0, t) \o Rest(Zeros, 5 + Len(t)) : t \in Earlier}]
    /\ written = <<>> /\ cuts = 0
    /\ link = [i \in 1..Hops + 1 |-> <<>>]
    /\ hop = [h \in Relays |-> Waiting]
    /\ eaten = [h \in Relays |-> <<>>]

\* send of BlockSize bytes from a buffer of the block's length: what lies behind
\* it in memory goes along, anything or what is left of the block before.
Send ==
    LET i == Len(written) \div BlockSize + 1
        b == Request(0, plan[i])
    IN  /\ i <= Hops + 1
        /\ \E m \in Memory \cup {Rest(written, Len(written) - BlockSize) : j \in {i} \ {1}} :
              /\ written' = written \o b \o Rest(m, Len(b))
              /\ link' = [link EXCEPT ![1] = @ \o b \o Rest(m, Len(b))]
        /\ UNCHANGED <<plan, hop, eaten, stale, cuts>>

\* A read of relay h returns n bytes.
Read(h, n) ==
    LET all == IF Len(link[h]) < BlockSize THEN Len(link[h]) ELSE BlockSize
    IN  \/ n = all /\ n > 0 /\ UNCHANGED cuts
        \/ n < all /\ n > 0 /\ cuts < MaxCuts /\ cuts' = cuts + 1

\* The relay connects to where the text says; one that cannot be parsed ends
\* its process, and so may a length that leads out of the buffer.
BuildPath(h) ==
    /\ hop[h] = Waiting
    /\ \E n \in 1..BlockSize :
          LET b == First(link[h], n) \o Rest(stale[h], n)
              found == Parsed(ReadRequest(b))
          IN  /\ Read(h, n)
              /\ eaten' = [eaten EXCEPT ![h] = First(link[h], n)]
              /\ link' = [link EXCEPT ![h] = Rest(@, n)]
              /\ \/ \E t \in found : hop' = [hop EXCEPT ![h] = t]
                 \/ /\ found = {} \/ LengthAt(b, 2) > BlockSize - 5
                    /\ hop' = [hop EXCEPT ![h] = Dead]
    /\ UNCHANGED <<plan, written, stale>>

\* Mutant: one buffer serves all reads of a connection and is not cleared.
HandleRequestUncleared(h) ==
    /\ hop[h] \in Texts
    /\ \E n \in 1..BlockSize :
          /\ Read(h, n)
          /\ link' = [link EXCEPT ![h] = Rest(@, n),
                                  ![h + 1] = @ \o First(link[h], n)
                                                \o Rest(eaten[h] \o Rest(Zeros, Len(eaten[h])), n)]
    /\ UNCHANGED <<plan, written, hop, eaten, stale>>

\* Mutant: the read's buffer is on the stack where buildPath's was, not cleared.
HandleRequestStale(h) ==
    /\ hop[h] \in Texts
    /\ \E n \in 1..BlockSize :
          /\ Read(h, n)
          /\ link' = [link EXCEPT ![h] = Rest(@, n),
                                  ![h + 1] = @ \o First(link[h], n) \o Rest(stale[h], n)]
    /\ UNCHANGED <<plan, written, hop, eaten, stale>>

\* Mutant: the relay looks for the next block's beginning after a short read.
HandleRequestSkips(h) ==
    /\ hop[h] \in Texts
    /\ \E n \in 1..BlockSize :
          /\ Read(h, n)
          /\ link' = [link EXCEPT ![h] = Rest(@, IF Len(@) < BlockSize THEN Len(@) ELSE BlockSize),
                                  ![h + 1] = @ \o First(link[h], n) \o Rest(Zeros, n)]
    /\ UNCHANGED <<plan, written, hop, eaten, stale>>

\* Mutant: only what was read is sent on.
HandleRequestExact(h) ==
    /\ hop[h] \in Texts
    /\ \E n \in 1..BlockSize :
          /\ Read(h, n)
          /\ link' = [link EXCEPT ![h] = Rest(@, n), ![h + 1] = @ \o First(link[h], n)]
    /\ UNCHANGED <<plan, written, hop, eaten, stale>>

\* A read into a cleared buffer, all of which is sent on.
HandleRequest(h) ==
    /\ hop[h] \in Texts
    /\ \E n \in 1..BlockSize :
          /\ Read(h, n)
          /\ link' = [link EXCEPT ![h] = Rest(@, n),
                                  ![h + 1] = @ \o First(link[h], n) \o Rest(Zeros, n)]
    /\ UNCHANGED <<plan, written, hop, eaten, stale>>

Next == Send \/ \E h \in Relays : BuildPath(h) \/ HandleRequest(h)

Spec == Init /\ [][Next]_vars

------------------------------------------------------------------------------
(* Properties.                                                             *)

\* Types; whole blocks are sent and arrive.
TypeOK ==
    /\ plan \in [1..Hops + 1 -> Setups]
    /\ written \in Seq(Byte) /\ Len(written) % BlockSize = 0
    /\ link \in [1..Hops + 1 -> Seq(Byte)] /\ Len(link[Hops + 1]) % BlockSize = 0
    /\ hop \in [Relays -> Texts \cup {Waiting, Dead}]
    /\ eaten \in [Relays -> Seq(Byte)]
    /\ \A h \in Relays : stale[h] \in Seq(Byte) /\ Len(stale[h]) = BlockSize
    /\ cuts \in 0..MaxCuts

Clean(h) == stale[h] = Zeros

Openings == {s[1] : s \in Texts}

\* Nothing that has gone along from the client's memory could open a text.
Quiet ==
    \A i \in 1..Hops + 1, p \in 7..BlockSize :
        LET q == (i - 1) * BlockSize + p
        IN  q <= Len(written) => written[q] \notin Openings

\* A relay whose buffer holds nothing stale acts on a setup that the client has
\* sent, its own or that of a hop before it, wherever reads were cut: never on
\* a mixture of two, nor on the setup of a hop behind it, unless the client's
\* memory looked like one (Node/Server.cpp:207-260, 316-332).
HopsActOnSetups ==
    Quiet => \A h \in Relays :
        Clean(h) => hop[h] \in {Waiting, Dead} \cup {plan[j] : j \in 1..h}

\* If no relay up to it has a stale buffer, it acts on its own setup or on none.
\* One stale buffer is enough to shift the setups by a hop: a relay that takes
\* the end of a cut block for an earlier client's setup leaves its own for the
\* next (Node/Server.cpp:321-324).
HopsActOnTheirOwn ==
    Quiet => \A h \in Relays :
        (\A g \in 1..h : Clean(g)) => hop[h] \in {Waiting, plan[h], Dead}

\* If every read returns all that was sent, no relay of the chain fails,
\* whatever its buffer held and whatever lies behind a block
\* (Node/JsonPacketDeserialization.cpp:101-112).
WholeReadsBuild == cuts = 0 => \A h \in Relays : hop[h] \in {Waiting, plan[h]}

NonZero(s) ==
    LET kept[i \in 0..Len(s)] ==
            IF i = 0 THEN <<>> ELSE IF s[i] = 0 THEN kept[i - 1] ELSE Append(kept[i - 1], s[i])
    IN  kept[Len(s)]

Flat[i \in 0..Hops] == IF i = 0 THEN <<>> ELSE Flat[i - 1] \o eaten[i]

Pending[i \in 0..Hops + 1] == IF i = 0 THEN <<>> ELSE link[i] \o Pending[i - 1]

\* Apart from the zeroes that the relays add, what they have read and what is
\* on its way is what the client has sent, in order: cut reads move the bounds
\* of blocks and nothing else (Node/Server.cpp:212-260).
StreamKept == NonZero(Flat[Hops] \o Pending[Hops + 1]) = NonZero(written)
=============================================================================
