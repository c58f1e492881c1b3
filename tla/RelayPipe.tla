------------------------------ MODULE RelayPipe ------------------------------
(***************************************************************************)
(* What a relay promises about each circuit, with no descriptors, queues   *)
(* or threads: two FIFO pipes.  What the client writes after its setup     *)
(* block comes out towards the next hop, what the next hop writes comes    *)
(* out towards the client under one layer of that client's own key; each   *)
(* block comes out at most once, in order, and on no other circuit.  A     *)
(* circuit may be cut at any time, and what was in its pipes is lost then. *)
(* RelayNode is shown to implement this specification.                     *)
(***************************************************************************)
EXTENDS Naturals, Sequences

CONSTANT Clients  \* one circuit per client connection

VARIABLES
    link,        \* [Clients -> phase of the circuit]
    sent,        \* [<<c, side>> -> number of blocks that peer has written]
    toFwd, fwd,  \* written by the client but not passed on; passed on
    toBack, back \* written by the next hop but not passed on; passed on

pipeVars == <<link, sent, toFwd, fwd, toBack, back>>

\* Blocks are told apart by who wrote them and in what order.
NextBlock(e) == [from |-> e, n |-> sent[e] + 1]

Init ==
    /\ link = [c \in Clients |-> "none"]
    /\ sent = [e \in Clients \X {"client", "dest"} |-> 0]
    /\ toFwd = [c \in Clients |-> <<>>]
    /\ fwd = [c \in Clients |-> <<>>]
    /\ toBack = [c \in Clients |-> <<>>]
    /\ back = [c \in Clients |-> <<>>]

ClientWrites(c) ==
    /\ link[c] # "cut"
    /\ toFwd' = [toFwd EXCEPT ![c] = Append(@, NextBlock(<<c, "client">>))]
    /\ sent' = [sent EXCEPT ![<<c, "client">>] = @ + 1]
    /\ UNCHANGED <<link, fwd, toBack, back>>

NextHopWrites(c) ==
    /\ link[c] = "open"
    /\ toBack' = [toBack EXCEPT ![c] = Append(@, NextBlock(<<c, "dest">>))]
    /\ sent' = [sent EXCEPT ![<<c, "dest">>] = @ + 1]
    /\ UNCHANGED <<link, toFwd, fwd, back>>

\* The first block is the relay's own: it names the next hop.
Setup(c) ==
    /\ link[c] = "none"
    /\ toFwd[c] # <<>>
    /\ link' = [link EXCEPT ![c] = "building"]
    /\ toFwd' = [toFwd EXCEPT ![c] = Tail(@)]
    /\ UNCHANGED <<sent, fwd, toBack, back>>

Established(c) ==
    /\ link[c] = "building"
    /\ link' = [link EXCEPT ![c] = "open"]
    /\ UNCHANGED <<sent, toFwd, fwd, toBack, back>>

Forward(c) ==
    /\ link[c] = "open"
    /\ toFwd[c] # <<>>
    /\ fwd' = [fwd EXCEPT ![c] = Append(@, Head(toFwd[c]))]
    /\ toFwd' = [toFwd EXCEPT ![c] = Tail(@)]
    /\ UNCHANGED <<link, sent, toBack, back>>

Reply(c) ==
    /\ link[c] = "open"
    /\ toBack[c] # <<>>
    /\ back' = [back EXCEPT ![c] = Append(@, [blk |-> Head(toBack[c]), key |-> c])]
    /\ toBack' = [toBack EXCEPT ![c] = Tail(@)]
    /\ UNCHANGED <<link, sent, toFwd, fwd>>

Cut(c) ==
    /\ link[c] # "cut"
    /\ link' = [link EXCEPT ![c] = "cut"]
    /\ toFwd' = [toFwd EXCEPT ![c] = <<>>]
    /\ toBack' = [toBack EXCEPT ![c] = <<>>]
    /\ UNCHANGED <<sent, fwd, back>>

Next ==
    \E c \in Clients :
        \/ ClientWrites(c) \/ NextHopWrites(c)
        \/ Setup(c) \/ Established(c)
        \/ Forward(c) \/ Reply(c) \/ Cut(c)

Spec == Init /\ [][Next]_pipeVars
=============================================================================
