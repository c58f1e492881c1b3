---------------------------- MODULE DatabaseServer ----------------------------
(***************************************************************************)
(* The database server (src/PythonServer): one thread that accepts one     *)
(* connection at a time, serves it until it ends, and keeps the accounts   *)
(* in an SQLite file.  Peers are the processes that connect to it: proxies *)
(* ask and wait for the answer, relays only connect (Node/Server.cpp:10).  *)
(*                                                                         *)
(* The process may be killed between any two steps; what was not committed *)
(* is then lost with the connections, and the next start finds the file as *)
(* it was left.  Of the four tables only "users" is used by a request.     *)
(*                                                                         *)
(* login() and signup() format the name and the password into the text of  *)
(* the statement.  A text with a character that ends an SQL literal (a     *)
(* quote; a zero character is no text for SQLite either) is in Quoted: the *)
(* statement executed is then not the one meant, and may be any other that *)
(* begins like it.                                                         *)
(***************************************************************************)
EXTENDS Naturals, Sequences, FiniteSets

CONSTANTS
    Proxies,        \* peers that send requests
    Relays,         \* peers that connect and stay silent
    Names, Passwords,
    Backlog,        \* connections the kernel queues for accept
    MaxRequests,    \* bound: requests a proxy sends
    MaxKills,       \* bound: times the process is killed
    Quoted,         \* names and passwords that do not stay inside their SQL literal
    SelectedIds,    \* bound: what a SELECT changed by such a text returns as an id
    None

ASSUME BoundsAssumption ==
    Backlog \in Nat /\ MaxRequests \in Nat /\ MaxKills \in Nat

ASSUME TextsAssumption == Quoted \subseteq Names \cup Passwords /\ SelectedIds \subseteq Nat

ASSUME PeersAssumption == Proxies \cap Relays = {} /\ None \notin Proxies \cup Relays

Peers == Proxies \cup Relays

\* "other" is an unknown code or a text that is no JSON.
Requests == [op : {"login", "signup", "other"}, name : Names, pw : Passwords]

ASSUME NoneIsNoRequest == None \notin Requests

Codes == {"login_succeed", "wrong_username", "unexpected_error",
          "signup_succeed", "username_exists"}
Answers == [name : Names, pw : Passwords, code : Codes, id : Nat]
Rows == [id : Nat \ {0}, name : Names, pw : Passwords]

ASSUME NoneIsNoAnswer == None \notin Answers

VARIABLES
    pc,         \* where the server's thread is
    file,       \* TOR-DB.db exists
    table,      \* it holds the users table
    users,      \* committed rows of it
    pending,    \* rows of the open transaction
    backlog,    \* connections waiting to be accepted
    conn,       \* the connection being served
    link,       \* [Peers -> the peer's side of its connection]
    request,    \* [Peers -> the request on its way to the server, or None]
    asked,      \* [Peers -> number of requests sent]
    answer,     \* the answer being prepared
    told,       \* every answer a proxy has received
    kills,
    fault,          \* statements and commits fail: the file is locked, the disk full
    commitFailed,   \* whether a commit has raised
    altered         \* whether a statement changed by its texts has written

disk == <<file, table, users, pending>>
net == <<backlog, conn, link, request, asked>>
failures == <<fault, commitFailed, altered>>
vars == <<pc, disk, net, answer, told, kills, failures>>

Init ==
    /\ pc = "down"
    /\ file = FALSE /\ table = FALSE /\ users = {} /\ pending = {}
    /\ backlog = <<>> /\ conn = None
    /\ link = [p \in Peers |-> "none"]
    /\ request = [p \in Peers |-> None]
    /\ asked = [p \in Peers |-> 0]
    /\ answer = None
    /\ told = {}
    /\ kills = 0
    /\ fault = FALSE /\ commitFailed = FALSE /\ altered = FALSE

Up == pc # "down"

------------------------------------------------------------------------------
(* Start, with the file created on the first run, and the process's end.   *)

\* isfile decides whether the tables are made; connect creates the file.
Start ==
    /\ pc = "down"
    /\ pc' = IF file THEN "accept" ELSE "create"
    /\ file' = TRUE
    /\ UNCHANGED <<table, users, pending, net, answer, told, kills, failures>>

CreateTables ==
    /\ pc = "create"
    /\ table' = TRUE
    /\ pc' = "accept"
    /\ UNCHANGED <<file, users, pending, net, answer, told, kills, failures>>

\* A CREATE raises, before the users table is made or after it; nothing catches
\* it and the process ends.
CreateFails ==
    /\ pc = "create" /\ fault
    /\ table' \in {table, TRUE}
    /\ pc' = "down"
    /\ UNCHANGED <<file, users, pending, net, answer, told, kills, failures>>

\* Killed: open transaction and connections are gone, the file stays.
Kill ==
    /\ Up
    /\ kills < MaxKills
    /\ kills' = kills + 1
    /\ pc' = "down"
    /\ pending' = {}
    /\ backlog' = <<>> /\ conn' = None /\ answer' = None
    /\ link' = [p \in Peers |-> "none"]
    /\ request' = [p \in Peers |-> None]
    /\ UNCHANGED <<file, table, users, asked, told, failures>>

------------------------------------------------------------------------------
(* The peers.                                                              *)

Connect(p) ==
    /\ Up /\ pc # "create"
    /\ link[p] = "none"
    /\ Len(backlog) < Backlog
    /\ link' = [link EXCEPT ![p] = "open"]
    /\ backlog' = Append(backlog, p)
    /\ UNCHANGED <<pc, disk, conn, request, asked, answer, told, kills, failures>>

\* DatabaseServerCommunication::sendRequest sends one request and waits.
Ask(p, r) ==
    /\ p \in Proxies
    /\ link[p] = "open"
    /\ asked[p] < MaxRequests
    /\ request[p] = None
    /\ link' = [link EXCEPT ![p] = "waiting"]
    /\ request' = [request EXCEPT ![p] = r]
    /\ asked' = [asked EXCEPT ![p] = @ + 1]
    /\ UNCHANGED <<pc, disk, backlog, conn, answer, told, kills, failures>>

\* The peer's process ends, whatever it was waiting for.
PeerCloses(p) ==
    /\ link[p] \in {"open", "waiting"}
    /\ link' = [link EXCEPT ![p] = "closed"]
    /\ UNCHANGED <<pc, disk, backlog, conn, request, asked, answer, told, kills, failures>>

------------------------------------------------------------------------------
(* __bindAnsListen and __handle_new_client.                                *)

Accept ==
    /\ pc = "accept"
    /\ backlog # <<>>
    /\ conn' = Head(backlog)
    /\ backlog' = Tail(backlog)
    /\ pc' = "recv"
    /\ UNCHANGED <<disk, link, request, asked, answer, told, kills, failures>>

\* Mutant: the name of the connection is not reset.
CloseConnKept ==
    /\ pc' = "accept"
    /\ link' = [link EXCEPT ![conn] = "none"]
    /\ request' = [request EXCEPT ![conn] = None]
    /\ answer' = None
    /\ UNCHANGED <<conn, backlog, asked>>

\* The inner loop breaks: conn.close(), and back to accept.
CloseConn ==
    /\ pc' = "accept"
    /\ conn' = None
    /\ link' = [link EXCEPT ![conn] = "none"]
    /\ request' = [request EXCEPT ![conn] = None]
    /\ answer' = None
    /\ UNCHANGED <<backlog, asked>>

RecvNothing ==
    /\ pc = "recv"
    /\ link[conn] = "closed" /\ request[conn] = None
    /\ CloseConn
    /\ UNCHANGED <<disk, told, kills, failures>>

Requested(op) == pc = "recv" /\ request[conn] # None /\ request[conn].op = op

\* Mutant: the exception is caught inside the loop, which goes on.
RecvOtherGoesOn ==
    /\ Requested("other")
    /\ request' = [request EXCEPT ![conn] = None]
    /\ UNCHANGED <<pc, disk, backlog, conn, link, asked, answer, told, kills, failures>>

\* json.loads raises, or handle_request returns None and encode raises.
RecvOther ==
    /\ Requested("other")
    /\ CloseConn
    /\ UNCHANGED <<disk, told, kills, failures>>

\* What a statement on the server's own connection sees.
Visible == users \cup pending

AnswerTo(r, code, id) == [name |-> r.name, pw |-> r.pw, code |-> code, id |-> id]

\* The statement executed for r is the one that login() and signup() mean.
Plain(r) == {r.name, r.pw} \cap Quoted = {}

\* The rows after it are the ones the model knows.
Known(r) == Plain(r) /\ ~altered

\* A statement that fails may undo the open transaction (disk full, I/O error) or
\* keep it (file locked).
Undone == {pending} \cup (IF fault THEN {{}} ELSE {})

\* A statement with a changed text may raise what is not an sqlite3.Error (two
\* statements, a character SQLite cannot take): the connection is closed.
StatementRaises ==
    /\ Requested("login") \/ Requested("signup")
    /\ ~Plain(request[conn])
    /\ CloseConn
    /\ UNCHANGED <<disk, told, kills, failures>>

\* Mutant: the condition on the name is missing.
MatchesByPassword(r) == {u \in Visible : u.pw = r.pw}

Matching(r) == {u \in Visible : u.name = r.name /\ u.pw = r.pw}

\* A wrong password and an unknown name are told alike.
Found(r) ==
    IF Matching(r) = {} THEN AnswerTo(r, "wrong_username", 0)
    ELSE AnswerTo(r, "login_succeed", (CHOOSE u \in Matching(r) : TRUE).id)

FoundByOther(r) ==
    {AnswerTo(r, "wrong_username", 0)} \cup {AnswerTo(r, "login_succeed", i) : i \in SelectedIds}

\* Any sqlite3.Error is an unexpected error.
LoginAnswers(r) ==
    (IF ~table THEN {} ELSE IF Known(r) THEN {Found(r)} ELSE FoundByOther(r))
    \cup (IF table /\ ~fault /\ Known(r) THEN {} ELSE {AnswerTo(r, "unexpected_error", 0)})

Login ==
    /\ Requested("login")
    /\ answer' \in LoginAnswers(request[conn])
    /\ pending' \in IF answer'.code = "unexpected_error" THEN Undone ELSE {pending}
    /\ request' = [request EXCEPT ![conn] = None]
    /\ pc' = "send"
    /\ UNCHANGED <<file, table, users, backlog, conn, link, asked, told, kills, failures>>

\* INSERT fails on a name that is taken, or for want of the table.
NameTaken(n) == ~table \/ \E u \in Visible : u.name = n

\* AUTOINCREMENT; rows are never deleted.
NextId == Cardinality(Visible) + 1

\* Any sqlite3.Error of the INSERT is told as a name that exists.
Refused(r) ==
    /\ NameTaken(r.name) \/ fault \/ ~Known(r)
    /\ answer' = AnswerTo(r, "username_exists", 0)
    /\ pending' \in Undone
    /\ UNCHANGED altered

Inserted(r) ==
    /\ Known(r) /\ ~NameTaken(r.name)
    /\ answer' = AnswerTo(r, "signup_succeed", 0)
    /\ pending' = pending \cup {[id |-> NextId, name |-> r.name, pw |-> r.pw]}
    /\ UNCHANGED altered

\* Another statement has succeeded; which rows there are now is not modelled.
InsertedOther(r) ==
    /\ table /\ ~Known(r)
    /\ answer' = AnswerTo(r, "signup_succeed", 0)
    /\ altered' = TRUE
    /\ UNCHANGED pending

\* Mutant: the answer is sent before the transaction is committed.
SignupAnswerFirst ==
    /\ Requested("signup")
    /\ LET r == request[conn]
       IN  Refused(r) \/ Inserted(r) \/ InsertedOther(r)
    /\ request' = [request EXCEPT ![conn] = None]
    /\ pc' = "send"
    /\ UNCHANGED <<file, table, users, backlog, conn, link, asked, told, kills, fault, commitFailed>>

\* The statement of signup(); what it answers waits for the commit.
Signup ==
    /\ Requested("signup")
    /\ LET r == request[conn]
       IN  Refused(r) \/ Inserted(r) \/ InsertedOther(r)
    /\ request' = [request EXCEPT ![conn] = None]
    /\ pc' = "commit"
    /\ UNCHANGED <<file, table, users, backlog, conn, link, asked, told, kills, fault, commitFailed>>

Commit ==
    /\ pc = "commit"
    /\ users' = Visible
    /\ pending' = {}
    /\ pc' = "send"
    /\ UNCHANGED <<file, table, net, answer, told, kills, failures>>

\* Mutant: the exception is caught, and the answer that signup() has got ready
\* is sent.
CommitFailsUnnoticed ==
    /\ pc = "commit"
    /\ fault /\ pending # {}
    /\ pc' = "send"
    /\ pending' \in Undone
    /\ commitFailed' = TRUE
    /\ UNCHANGED <<file, table, users, net, answer, told, kills, fault, altered>>

\* commit() raises outside the try of signup(): the connection is closed and
\* the transaction stays open, for a later commit to complete, or is undone.
CommitFails ==
    /\ pc = "commit"
    /\ fault /\ pending # {}
    /\ CloseConn
    /\ pending' \in Undone
    /\ commitFailed' = TRUE
    /\ UNCHANGED <<file, table, users, told, kills, fault, altered>>

Send ==
    /\ pc = "send"
    /\ link[conn] = "waiting"
    /\ told' = told \cup {answer}
    /\ link' = [link EXCEPT ![conn] = "open"]
    /\ answer' = None
    /\ pc' = "recv"
    /\ UNCHANGED <<disk, backlog, conn, request, asked, kills, failures>>

\* The peer is gone: the answer is lost and the loop ends at once or at the
\* next recv.
SendToNobody ==
    /\ pc = "send"
    /\ link[conn] = "closed"
    /\ CloseConn
    /\ UNCHANGED <<disk, told, kills, failures>>

------------------------------------------------------------------------------
PeerSteps == \E p \in Peers :
    Connect(p) \/ PeerCloses(p) \/ \E r \in Requests : Ask(p, r)

\* Another process takes a lock on the file or gives it up, the disk fills up or
\* is cleared.
FileTrouble ==
    /\ fault' = ~fault
    /\ UNCHANGED <<pc, disk, net, answer, told, kills, commitFailed, altered>>

Serve ==
    \/ Accept \/ RecvNothing \/ RecvOther \/ StatementRaises \/ Login \/ Signup
    \/ Commit \/ CommitFails \/ Send \/ SendToNobody

Next == Start \/ CreateTables \/ CreateFails \/ Kill \/ FileTrouble \/ PeerSteps \/ Serve

Spec == Init /\ [][Next]_vars

\* The thread keeps running; nobody is obliged to ask, to close or to restart.
FairSpec == Spec /\ WF_vars(Serve)

------------------------------------------------------------------------------
(* Properties.                                                             *)

Serving == {"recv", "commit", "send"}

\* Types, and what the position of the thread implies for its locals.
TypeOK ==
    /\ pc \in {"down", "create", "accept"} \cup Serving
    /\ file \in BOOLEAN /\ table \in BOOLEAN
    /\ users \subseteq Rows /\ pending \subseteq Rows
    /\ backlog \in Seq(Peers)
    /\ conn \in Peers \cup {None} /\ (conn # None <=> pc \in Serving)
    /\ link \in [Peers -> {"none", "open", "waiting", "closed"}]
    /\ request \in [Peers -> Requests \cup {None}]
    /\ asked \in [Peers -> 0..MaxRequests]
    /\ answer \in Answers \cup {None} /\ (answer # None <=> pc \in {"commit", "send"})
    /\ told \subseteq Answers
    /\ kills \in 0..MaxKills
    /\ fault \in BOOLEAN /\ commitFailed \in BOOLEAN /\ altered \in BOOLEAN

Stored(t) == \E u \in users : u.name = t.name /\ u.pw = t.pw

\* A user who was told that the signup succeeded has the account, whenever
\* the process is killed and however statements and commits fail.  (Until a
\* statement that its texts have changed has written.  Database.py:61-76.)
AcknowledgedSurvives ==
    ~altered => \A t \in told : t.code = "signup_succeed" => Stored(t)

\* The user id that a login told a user never becomes another user's, and the
\* user never gets another one: the proxy files guard nodes under it.  This is
\* of plain texts, and holds until a commit has raised or a changed statement has
\* written (Database.py:31-53, 317, 327).
IdsStable ==
    ~commitFailed /\ ~altered => \A s, t \in told :
        Plain(s) /\ Plain(t) /\ s.code = "login_succeed" /\ t.code = "login_succeed"
            => (s.id = t.id <=> s.name = t.name)

\* A login with plain texts succeeds only for an account that is on disk and
\* stays there, until a commit has raised or a changed statement has written.
\* Nothing is said of other texts: Database.py:34 formats them into the SELECT,
\* which then asks for something else (Database.py:31-53, 61-76).
PlainLoginOnlyForUsers ==
    ~commitFailed /\ ~altered => \A t \in told :
        Plain(t) /\ t.code = "login_succeed" => Stored(t)

\* A refusal is on its way from the statement on, a success from the commit on.
Answering == pc = "send" \/ (pc = "commit" /\ answer.code = "username_exists")

Store == INSTANCE AccountStore WITH
    ready    <- table,
    accounts <- users,
    answer   <- IF Answering THEN answer ELSE None,
    trouble  <- fault,
    broken   <- commitFailed

\* The server implements AccountStore: whatever is killed between the statement,
\* the commit and the answer, each request with plain texts has happened at one
\* moment or not at all, and its answer was true at that moment, where a refusal
\* during a fault of the file tells of the fault only (Database.py:31-76,
\* Server.py:57-77).
StoreSpec == Store!Spec

\* A request on the connection being served is answered or the connection is
\* closed: its proxy does not wait for ever (Server.py:57-77).
CurrentServed ==
    \A p \in Proxies : (conn = p /\ request[p] # None) ~> link[p] # "waiting"
=============================================================================
