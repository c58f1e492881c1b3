----------------------------- MODULE ProxyService -----------------------------
(***************************************************************************)
(* What the proxy promises each client, with no threads, no queue, no      *)
(* sockets and no database: a client writes a block and waits; its key is  *)
(* answered with the proxy's, once and first, and each later request is    *)
(* taken up once and answered once, in order.  A client that is still      *)
(* there is given up only for a request that nobody handles, and for good. *)
(* The proxy may die at any moment; then nothing happens any more.         *)
(* ProxyServer is shown to implement this specification.                   *)
(***************************************************************************)
EXTENDS Naturals, Sequences

CONSTANTS Customers, KeyBlocks, RequestBlocks

VARIABLES
    dead,
    stage,      \* [Customers -> "new", "greeting", "served" or "dropped"]
    left,       \* [Customers -> whether the connection has been closed]
    inbox,      \* [Customers -> blocks not yet taken]
    inHand,     \* [Customers -> the request taken and not yet answered, a set]
    sent,       \* [Customers -> number of blocks written]
    answers     \* [Customers -> what the proxy has answered]

serviceVars == <<dead, stage, left, inbox, inHand, sent, answers>>

Init ==
    /\ dead = FALSE
    /\ stage = [p \in Customers |-> "new"]
    /\ left = [p \in Customers |-> FALSE]
    /\ inbox = [p \in Customers |-> <<>>]
    /\ inHand = [p \in Customers |-> {}]
    /\ sent = [p \in Customers |-> 0]
    /\ answers = [p \in Customers |-> <<>>]

Write(p, b) ==
    /\ ~left[p] /\ sent[p] = Len(answers[p])
    /\ b \in IF sent[p] = 0 THEN KeyBlocks ELSE RequestBlocks
    /\ inbox' = [inbox EXCEPT ![p] = Append(@, b)]
    /\ sent' = [sent EXCEPT ![p] = @ + 1]
    /\ UNCHANGED <<dead, stage, left, inHand, answers>>

Leave(p) ==
    /\ left' = [left EXCEPT ![p] = TRUE]
    /\ UNCHANGED <<dead, stage, inbox, inHand, sent, answers>>

TakeKey(p) ==
    /\ stage[p] = "new"
    /\ inbox[p] = <<"key">>
    /\ stage' = [stage EXCEPT ![p] = "greeting"]
    /\ inbox' = [inbox EXCEPT ![p] = <<>>]
    /\ UNCHANGED <<dead, left, inHand, sent, answers>>

Greet(p) ==
    /\ stage[p] = "greeting" /\ answers[p] = <<>>
    /\ stage' = [stage EXCEPT ![p] = "served"]
    /\ answers' = [answers EXCEPT ![p] = <<"key">>]
    /\ UNCHANGED <<dead, left, inbox, inHand, sent>>

\* One that is gone before it has the key is kept, but has nothing to ask.
Ungreeted(p) ==
    /\ stage[p] \in {"new", "greeting"} /\ left[p] /\ inbox[p] = <<>>
    /\ stage' = [stage EXCEPT ![p] = "served"]
    /\ UNCHANGED <<dead, left, inbox, inHand, sent, answers>>

Take(p) ==
    /\ stage[p] = "served" /\ inHand[p] = {}
    /\ \E b \in RequestBlocks :
          inbox[p] = <<b>> /\ inHand' = [inHand EXCEPT ![p] = {b}]
    /\ inbox' = [inbox EXCEPT ![p] = <<>>]
    /\ UNCHANGED <<dead, stage, left, sent, answers>>

Answer(p) ==
    /\ inHand[p] = {"login"} /\ sent[p] = Len(answers[p]) + 1
    /\ inHand' = [inHand EXCEPT ![p] = {}]
    /\ answers' = [answers EXCEPT ![p] = Append(@, "databaseServerError")]
    /\ UNCHANGED <<dead, stage, left, inbox, sent>>

Drop(p) ==
    /\ \/ inHand[p] = {"other"}
       \/ inHand[p] = {"login"} /\ left[p]
    /\ stage' = [stage EXCEPT ![p] = "dropped"]
    /\ inHand' = [inHand EXCEPT ![p] = {}]
    /\ UNCHANGED <<dead, left, inbox, sent, answers>>

Die ==
    /\ dead' = TRUE
    /\ UNCHANGED <<stage, left, inbox, inHand, sent, answers>>

Next ==
    /\ ~dead
    /\ \/ Die
       \/ \E p \in Customers :
             \/ Leave(p) \/ TakeKey(p) \/ Greet(p) \/ Ungreeted(p) \/ Take(p) \/ Answer(p) \/ Drop(p)
             \/ \E b \in KeyBlocks \cup RequestBlocks : Write(p, b)

Spec == Init /\ [][Next]_serviceVars
=============================================================================
