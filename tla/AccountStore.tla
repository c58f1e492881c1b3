----------------------------- MODULE AccountStore -----------------------------
(***************************************************************************)
(* What the database server promises about accounts, with no process, no   *)
(* connections and no transactions: each login and each signup happens at  *)
(* one moment, on accounts that are never lost, and its answer is true at  *)
(* that moment.  The answer may be lost on the way.                        *)
(*                                                                         *)
(* The promise has four limits.  While statements may fail (trouble) a     *)
(* refusal may tell of the failure only: "username_exists" then says that  *)
(* no account was made, not that there was one.  A text with a character   *)
(* that ends an SQL literal (Quoted) has another statement executed than   *)
(* the one meant: nothing is promised of its answer.  When such a          *)
(* statement has written (altered) nothing is promised of anything.  Once  *)
(* a commit has failed (broken) accounts that nobody was told of may       *)
(* appear, and a name of such an account counts as taken before it does.   *)
(* DatabaseServer is shown to implement this specification.                *)
(***************************************************************************)
EXTENDS Naturals

CONSTANTS Names, Passwords, Quoted, None

VARIABLES
    ready,      \* the tables have been made
    accounts,
    answer,     \* the answer on its way, or None
    told,       \* every answer that has arrived
    trouble,    \* statements and commits may fail
    broken,     \* a commit has failed
    altered     \* a statement that was not the one meant has written

limits == <<trouble, broken, altered>>
storeVars == <<ready, accounts, answer, told, limits>>

Init ==
    /\ ready = FALSE /\ accounts = {}
    /\ answer = None /\ told = {}
    /\ trouble = FALSE /\ broken = FALSE /\ altered = FALSE

MakeReady ==
    /\ ready' = TRUE
    /\ UNCHANGED <<accounts, answer, told, limits>>

Owned(n, p) == {a \in accounts : a.name = n /\ a.pw = p}

Taken(n) == \E a \in accounts : a.name = n

Plain(n, p) == {n, p} \cap Quoted = {}

Answer(n, p, code, id) ==
    answer = None /\ answer' = [name |-> n, pw |-> p, code |-> code, id |-> id]

\* The user of the text does not matter where the text is not plain, and after
\* a failed commit a login may find a row that is not an account yet.
SomeLogin(n, p) ==
    /\ ready
    /\ ~Plain(n, p) \/ broken
    /\ answer = None
    /\ answer' \in [name : {n}, pw : {p}, code : {"login_succeed"}, id : Nat]

Login(n, p) ==
    /\ \/ /\ ~ready \/ trouble \/ ~Plain(n, p)
          /\ Answer(n, p, "unexpected_error", 0)
       \/ /\ ready
          /\ Owned(n, p) = {} \/ ~Plain(n, p)
          /\ Answer(n, p, "wrong_username", 0)
       \/ ready /\ \E a \in Owned(n, p) : Answer(n, p, "login_succeed", a.id)
       \/ SomeLogin(n, p)
    /\ UNCHANGED <<ready, accounts, told, limits>>

Refuse(n, p) ==
    /\ ~ready \/ Taken(n) \/ trouble \/ ~Plain(n, p) \/ broken
    /\ Answer(n, p, "username_exists", 0)
    /\ UNCHANGED <<ready, accounts, told, limits>>

Signup(n, p) ==
    /\ ready /\ Plain(n, p) /\ ~Taken(n)
    /\ Answer(n, p, "signup_succeed", 0)
    /\ \E a \in accounts' : /\ a.name = n /\ a.pw = p
                            /\ \A b \in accounts : a.id # b.id
                            /\ accounts' = accounts \cup {a}
    /\ UNCHANGED <<ready, told, limits>>

\* The answer arrives, or its receiver is gone or the process killed.
Tell ==
    /\ answer # None
    /\ told' = told \cup {answer}
    /\ answer' = None
    /\ UNCHANGED <<ready, accounts, limits>>

Lose ==
    /\ answer' = None
    /\ UNCHANGED <<ready, accounts, told, limits>>

Trouble ==
    /\ trouble' = ~trouble
    /\ UNCHANGED <<ready, accounts, answer, told, broken, altered>>

\* The answer is lost with the commit.
Break ==
    /\ trouble
    /\ broken' = TRUE
    /\ answer' = None
    /\ UNCHANGED <<ready, accounts, told, trouble, altered>>

\* What remains true: accounts are kept and differ in name and in id, and
\* whoever is told that the signup succeeded has one.
Grow ==
    /\ broken
    /\ accounts \subseteq accounts'
    /\ \A a, b \in accounts' : a.name = b.name \/ a.id = b.id => a = b

BrokenGrowth == Grow /\ UNCHANGED <<ready, answer, told, limits>>

BrokenSignup(n, p) ==
    /\ Grow
    /\ ~Taken(n)
    /\ \E a \in accounts' : a.name = n /\ a.pw = p
    /\ Answer(n, p, "signup_succeed", 0)
    /\ UNCHANGED <<ready, told, limits>>

Alter(n, p) ==
    /\ ready /\ ~Plain(n, p)
    /\ altered' = TRUE
    /\ UNCHANGED <<ready, accounts, answer, told, trouble, broken>>

\* Nothing is promised any more.
Unpromised == altered /\ altered'

Next ==
    \/ MakeReady \/ Tell \/ Lose \/ Trouble \/ Break \/ BrokenGrowth \/ Unpromised
    \/ \E n \in Names, p \in Passwords :
          Login(n, p) \/ Refuse(n, p) \/ Signup(n, p) \/ BrokenSignup(n, p) \/ Alter(n, p)

Spec == Init /\ [][Next]_storeVars
=============================================================================
