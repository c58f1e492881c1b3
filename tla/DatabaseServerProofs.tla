------------------------- MODULE DatabaseServerProofs -------------------------
(***************************************************************************)
(* Proofs about DatabaseServer: types, the survival of acknowledged        *)
(* accounts, the stability of logins, and that the store is implemented.   *)
(***************************************************************************)
EXTENDS DatabaseServer, FiniteSetTheorems, TLAPS

Matches(u, t) == u.name = t.name /\ u.pw = t.pw

\* Until a changed statement has written, an answer of success is backed by a row:
\* a visible one until the commit, a stored one after it.
AckInv ==
    ~altered =>
        /\ \A t \in told : t.code = "signup_succeed" => Stored(t)
        /\ pc = "send" /\ answer.code = "signup_succeed" => Stored(answer)
        /\ pc = "commit" /\ answer.code = "signup_succeed"
             => \E u \in Visible : Matches(u, answer)

\* Rows are told apart by name and by id, and ids do not exceed their number.
RowsInv ==
    /\ IsFiniteSet(users) /\ IsFiniteSet(pending)
    /\ \A u, v \in Visible : u.name = v.name \/ u.id = v.id => u = v
    /\ \A u \in users : u.id <= Cardinality(users)
    /\ \A u \in Visible : u.id <= Cardinality(Visible)

HasRow(t) == \E u \in users : u.id = t.id /\ Matches(u, t)

PlainLogin(t) == Plain(t) /\ t.code = "login_succeed"

\* Until a commit raises nothing is pending outside commit, and a plain login that
\* succeeded was told the id of a stored row.
IdInv ==
    ~commitFailed =>
        /\ pc # "commit" => pending = {}
        /\ pc = "commit" => answer.code # "login_succeed"
        /\ ~altered =>
            /\ \A t \in told : PlainLogin(t) => HasRow(t)
            /\ pc = "send" /\ PlainLogin(answer) => HasRow(answer)

USE DEF Peers, Up, failures

------------------------------------------------------------------------------
\* An answer to a request is an answer.
LEMMA AnswerType ==
    ASSUME NEW r \in Requests, NEW code \in Codes, NEW id \in Nat
    PROVE  AnswerTo(r, code, id) \in Answers
  BY DEF AnswerTo, Requests, Answers

\* login() always has an answer.
LEMMA LoginAnswersType ==
    ASSUME TypeOK, NEW r \in Requests
    PROVE  LoginAnswers(r) \subseteq Answers
  <1>1. Found(r) \in Answers
    <2>1. CASE Matching(r) = {}
      BY <2>1, AnswerType DEF Found, Codes
    <2>2. CASE Matching(r) # {}
      <3> DEFINE u == CHOOSE v \in Matching(r) : TRUE
      <3>1. u \in Visible
        BY <2>2 DEF Matching
      <3>2. u.id \in Nat
        BY <3>1 DEF TypeOK, Visible, Rows
      <3>3. Found(r) = AnswerTo(r, "login_succeed", u.id)
        BY <2>2 DEF Found
      <3> QED BY <3>2, <3>3, AnswerType DEF Codes
    <2> QED BY <2>1, <2>2
  <1>2. FoundByOther(r) \subseteq Answers
    BY AnswerType, TextsAssumption DEF FoundByOther, Codes
  <1>3. AnswerTo(r, "unexpected_error", 0) \in Answers
    BY AnswerType DEF Codes
  <1> QED BY <1>1, <1>2, <1>3 DEF LoginAnswers

\* What a failed statement leaves of the open transaction.
LEMMA UndoneRows == \A P \in Undone : P \subseteq pending /\ (P = pending \/ P = {})
  BY DEF Undone

\* The types hold when nothing has been started yet.
LEMMA InitTypeOK == Init => TypeOK
  <1> SUFFICES ASSUME Init PROVE TypeOK
    OBVIOUS
  <1> USE DEF Init
  <1>1. backlog \in Seq(Peers) /\ users \subseteq Rows /\ pending \subseteq Rows /\ told \subseteq Answers
    OBVIOUS
  <1>2. /\ link \in [Peers -> {"none", "open", "waiting", "closed"}]
        /\ request \in [Peers -> Requests \cup {None}]
    OBVIOUS
  <1>3. asked \in [Peers -> 0..MaxRequests] /\ kills \in 0..MaxKills
    BY BoundsAssumption
  <1> QED BY <1>1, <1>2, <1>3 DEF TypeOK, Serving

\* Closing the connection being served keeps the types.
LEMMA CloseConnTypes ==
    ASSUME TypeOK, CloseConn, UNCHANGED <<file, table, users, told, kills>>,
           pending' \subseteq pending, UNCHANGED <<fault, altered>>, commitFailed' \in BOOLEAN
    PROVE  TypeOK'
  BY NoneIsNoAnswer DEF TypeOK, CloseConn, Serving

\* Every step keeps the types.
LEMMA NextTypeOK ==
    ASSUME TypeOK, RowsInv, [Next]_vars
    PROVE  TypeOK'
  <1> USE DEF Serving
  <1>1. CASE Start
    BY <1>1 DEF TypeOK, Start, net
  <1>2. CASE CreateTables
    BY <1>2 DEF TypeOK, CreateTables, net
  <1>3. CASE Kill
    BY <1>3, BoundsAssumption DEF TypeOK, Kill
  <1>4. CASE PeerSteps
    <2>1. PICK p \in Peers : Connect(p) \/ PeerCloses(p) \/ \E r \in Requests : Ask(p, r)
      BY <1>4 DEF PeerSteps
    <2>2. CASE Connect(p)
      BY <2>2 DEF TypeOK, Connect, disk
    <2>3. CASE PeerCloses(p)
      BY <2>3 DEF TypeOK, PeerCloses, disk
    <2>4. ASSUME NEW r \in Requests, Ask(p, r) PROVE TypeOK'
      BY <2>4, BoundsAssumption DEF TypeOK, Ask, disk
    <2> QED BY <2>1, <2>2, <2>3, <2>4
  <1>5. CASE Accept
    BY <1>5, PeersAssumption DEF TypeOK, Accept, disk
  <1>6. CASE RecvNothing
    BY <1>6, CloseConnTypes DEF RecvNothing, TypeOK, disk
  <1>7. CASE RecvOther
    BY <1>7, CloseConnTypes DEF RecvOther, TypeOK, disk
  <1>8. CASE Login
    <2>1. request[conn] \in Requests
      BY <1>8 DEF TypeOK, Login, Requested
    <2>2. answer' \in Answers
      BY <1>8, <2>1, LoginAnswersType DEF Login
    <2>3. answer' \in Answers \cup {None} /\ answer' # None
      BY <2>2, NoneIsNoAnswer
    <2>4. pending' \subseteq Rows
      BY <1>8, UndoneRows DEF Login, TypeOK
    <2> QED BY <1>8, <2>3, <2>4 DEF TypeOK, Login, Requested
  <1>9. CASE Signup
    <2> DEFINE r == request[conn]
    <2>1. r \in Requests
      BY <1>9 DEF TypeOK, Signup, Requested
    <2>2. NextId \in Nat \ {0}
      <3>1. Cardinality(Visible) \in Nat
        BY FS_Union, FS_CardinalityType DEF RowsInv, Visible
      <3> QED BY <3>1 DEF NextId
    <2>3. Refused(r) \/ Inserted(r) \/ InsertedOther(r)
      BY <1>9 DEF Signup
    <2>4. pending' \subseteq Rows
      BY <2>1, <2>2, <2>3, UndoneRows DEF Refused, Inserted, InsertedOther, TypeOK, Rows, Requests
    <2>5. answer' \in Answers /\ altered' \in BOOLEAN
      BY <2>1, <2>3, AnswerType DEF Refused, Inserted, InsertedOther, Codes, TypeOK
    <2> QED BY <1>9, <2>4, <2>5, NoneIsNoAnswer DEF TypeOK, Signup, Requested
  <1>10. CASE Commit
    BY <1>10 DEF TypeOK, Commit, net, Visible
  <1>11. CASE CommitFails
    BY <1>11, CloseConnTypes, UndoneRows DEF CommitFails
  <1>12. CASE Send
    BY <1>12, NoneIsNoAnswer DEF TypeOK, Send, disk
  <1>13. CASE SendToNobody
    BY <1>13, CloseConnTypes DEF SendToNobody, TypeOK, disk
  <1>14. CASE UNCHANGED vars
    BY <1>14 DEF TypeOK, vars, disk, net
  <1>15. CASE CreateFails
    BY <1>15 DEF TypeOK, CreateFails, net
  <1>16. CASE FileTrouble
    BY <1>16 DEF TypeOK, FileTrouble, disk, net
  <1>17. CASE StatementRaises
    BY <1>17, CloseConnTypes DEF StatementRaises, TypeOK, disk
  <1> QED
    BY <1>1, <1>2, <1>3, <1>4, <1>5, <1>6, <1>7, <1>8, <1>9, <1>10, <1>11, <1>12,
       <1>13, <1>14, <1>15, <1>16, <1>17 DEF Next, Serve

------------------------------------------------------------------------------
\* The rows depend on the two sets of them only, and an open transaction may be
\* dropped.
LEMMA RowsStable ==
    ASSUME RowsInv, UNCHANGED users, pending' = pending \/ pending' = {}
    PROVE  RowsInv'
  <1>1. CASE pending' = pending
    BY <1>1 DEF RowsInv, Visible
  <1>2. CASE pending' = {}
    <2>1. Visible' = users /\ users \subseteq Visible
      BY <1>2 DEF Visible
    <2> QED BY <1>2, <2>1, FS_EmptySet DEF RowsInv
  <1> QED BY <1>1, <1>2

\* signup() adds one row, under a new name and the next id.
LEMMA RowsSignup ==
    ASSUME TypeOK, RowsInv, Signup
    PROVE  RowsInv'
  <1> DEFINE r == request[conn]
             row == [id |-> NextId, name |-> r.name, pw |-> r.pw]
  <1>1. CASE Refused(r) \/ InsertedOther(r)
    <2>1. users' = users /\ (pending' = pending \/ pending' = {})
      BY <1>1, UndoneRows DEF Signup, Refused, InsertedOther
    <2> QED BY <2>1, RowsStable
  <1>2. CASE Inserted(r)
    <2>1. users' = users /\ pending' = pending \cup {row} /\ Visible' = Visible \cup {row}
      BY <1>2 DEF Signup, Inserted, Visible
    <2>2. IsFiniteSet(Visible) /\ Cardinality(Visible) \in Nat
      BY FS_Union, FS_CardinalityType DEF RowsInv, Visible
    <2>3. \A u \in Visible : u.name # r.name /\ u.id \in Nat /\ u.id < NextId
      <3> SUFFICES ASSUME NEW u \in Visible
                   PROVE  u.name # r.name /\ u.id \in Nat /\ u.id < NextId
        OBVIOUS
      <3>1. u.id \in Nat
        BY DEF TypeOK, Visible, Rows
      <3>2. u.id <= Cardinality(Visible)
        BY DEF RowsInv
      <3> QED BY <1>2, <2>2, <3>1, <3>2 DEF Inserted, NameTaken, NextId
    <2>4. row \notin Visible
      BY <2>3
    <2>5. Cardinality(Visible') = NextId
      BY <2>1, <2>2, <2>4, FS_AddElement DEF NextId
    <2>6. \A u \in Visible' : u.id <= Cardinality(Visible')
      BY <2>1, <2>2, <2>3, <2>5 DEF NextId
    <2>7. \A u, v \in Visible' : u.name = v.name \/ u.id = v.id => u = v
      <3>1. row.id = NextId /\ row.name = r.name /\ NextId \in Nat
        BY <2>2 DEF NextId
      <3>2. \A u \in Visible : u.name # row.name /\ u.id # row.id
        BY <2>3, <3>1
      <3> QED BY <2>1, <3>2 DEF RowsInv
    <2>8. IsFiniteSet(pending')
      BY <2>1, FS_AddElement DEF RowsInv
    <2> QED BY <2>1, <2>6, <2>7, <2>8 DEF RowsInv
  <1> QED BY <1>1, <1>2 DEF Signup

\* Every step keeps the rows apart.
LEMMA NextRowsInv ==
    ASSUME TypeOK, RowsInv, [Next]_vars
    PROVE  RowsInv'
  <1>1. CASE Kill
    <2>1. users' = users /\ pending' = {}
      BY <1>1 DEF Kill
    <2> QED BY <2>1, RowsStable
  <1>2. CASE Signup
    BY <1>2, RowsSignup
  <1>3. CASE Commit
    <2>1. users' = Visible /\ pending' = {} /\ Visible' = Visible
      BY <1>3 DEF Commit, Visible
    <2>2. IsFiniteSet(Visible)
      BY FS_Union DEF RowsInv, Visible
    <2> QED BY <2>1, <2>2, FS_EmptySet DEF RowsInv
  <1>4. CASE Start \/ CreateTables \/ CreateFails \/ FileTrouble \/ PeerSteps \/ Accept
             \/ RecvNothing \/ RecvOther \/ StatementRaises \/ Send \/ SendToNobody
             \/ UNCHANGED vars
    <2>1. UNCHANGED <<users, pending>>
      BY <1>4 DEF Start, CreateTables, CreateFails, FileTrouble, PeerSteps, Connect,
                  PeerCloses, Ask, Accept, RecvNothing, RecvOther, StatementRaises, Send,
                  SendToNobody, vars, disk
    <2> QED BY <2>1, RowsStable
  <1>5. CASE Login \/ CommitFails
    <2>1. users' = users /\ (pending' = pending \/ pending' = {})
      BY <1>5, UndoneRows DEF Login, CommitFails
    <2> QED BY <2>1, RowsStable
  <1> QED BY <1>1, <1>2, <1>3, <1>4, <1>5 DEF Next, Serve

\* TypeOK is an invariant of the database server; the rows are needed for it
\* because the next id is computed from their number (Database.py:31-76).
THEOREM DatabaseTypes == Spec => [](TypeOK /\ RowsInv)
  <1>1. Init => TypeOK /\ RowsInv
    <2>1. Init => RowsInv
      BY FS_EmptySet DEF Init, RowsInv, Visible
    <2> QED BY <2>1, InitTypeOK
  <1>2. TypeOK /\ RowsInv /\ [Next]_vars => (TypeOK /\ RowsInv)'
    BY NextTypeOK, NextRowsInv
  <1> QED BY <1>1, <1>2, PTL DEF Spec

------------------------------------------------------------------------------
\* The steps that prepare no answer, store nothing and tell nobody.
LEMMA AckStable ==
    AckInv /\ (UNCHANGED <<users, told, altered>>) /\ pc' \notin {"send", "commit"} => AckInv'
  BY DEF AckInv, Stored

\* A login is never told that a signup succeeded.
LEMMA LoginCodes ==
    ASSUME NEW r, NEW a \in LoginAnswers(r)
    PROVE  a.code \in {"unexpected_error", "wrong_username", "login_succeed"}
  BY DEF LoginAnswers, Found, FoundByOther, AnswerTo

\* Every step keeps acknowledged accounts stored.
LEMMA NextAckInv ==
    ASSUME TypeOK, AckInv, [Next]_vars
    PROVE  AckInv'
  <1>1. CASE Start \/ CreateTables \/ CreateFails \/ Kill \/ Accept \/ RecvNothing
             \/ RecvOther \/ StatementRaises \/ CommitFails \/ SendToNobody
    <2>1. UNCHANGED <<users, told, altered>> /\ pc' \notin {"send", "commit"}
      BY <1>1 DEF Start, CreateTables, CreateFails, Kill, Accept, RecvNothing, RecvOther,
                  StatementRaises, CommitFails, SendToNobody, CloseConn, disk
    <2> QED BY <2>1, AckStable
  <1>2. CASE PeerSteps \/ FileTrouble \/ UNCHANGED vars
    <2>1. UNCHANGED <<users, pending, told, pc, answer, altered>>
      BY <1>2 DEF PeerSteps, Connect, PeerCloses, Ask, FileTrouble, vars, disk
    <2> QED BY <2>1 DEF AckInv, Stored, Visible
  <1>3. CASE Login
    <2>1. answer'.code # "signup_succeed"
      BY <1>3, LoginCodes DEF Login
    <2> QED BY <1>3, <2>1 DEF Login, AckInv, Stored
  <1>4. CASE Signup
    <2> DEFINE r == request[conn]
               row == [id |-> NextId, name |-> r.name, pw |-> r.pw]
    <2>1. UNCHANGED <<users, told>> /\ pc' = "commit" /\ (~altered' => ~altered)
      BY <1>4 DEF Signup, Refused, Inserted, InsertedOther
    <2>2. ~altered' /\ answer'.code = "signup_succeed" => \E u \in Visible' : Matches(u, answer')
      <3>1. CASE Refused(r) \/ InsertedOther(r)
        BY <3>1 DEF Refused, InsertedOther, AnswerTo
      <3>2. CASE Inserted(r)
        <4>1. row \in Visible' /\ answer' = AnswerTo(r, "signup_succeed", 0)
          BY <3>2 DEF Inserted, Visible
        <4>2. Matches(row, answer')
          BY <4>1 DEF Matches, AnswerTo
        <4> QED BY <4>1, <4>2
      <3> QED BY <1>4, <3>1, <3>2 DEF Signup
    <2> QED BY <2>1, <2>2 DEF AckInv, Stored
  <1>5. CASE Commit
    <2>1. /\ users' = Visible /\ users \subseteq users'
          /\ UNCHANGED <<told, answer, altered>>
          /\ pc = "commit" /\ pc' = "send"
      BY <1>5 DEF Commit, Visible
    <2> QED BY <2>1 DEF AckInv, Stored, Matches
  <1>6. CASE Send
    BY <1>6 DEF Send, AckInv, Stored, disk
  <1> QED BY <1>1, <1>2, <1>3, <1>4, <1>5, <1>6 DEF Next, Serve

\* Whatever is killed and whichever statements and commits fail, an account whose
\* signup was acknowledged is in the file, until a statement changed by its texts
\* has written (Database.py:61-76).
THEOREM AcknowledgedCorrect == Spec => []AcknowledgedSurvives
  <1>1. Init => AckInv
    BY DEF Init, AckInv
  <1>2. TypeOK /\ AckInv /\ [Next]_vars => AckInv'
    BY NextAckInv
  <1>3. AckInv => AcknowledgedSurvives
    BY DEF AckInv, AcknowledgedSurvives
  <1> QED BY <1>1, <1>2, <1>3, DatabaseTypes, PTL DEF Spec

------------------------------------------------------------------------------
\* login() answers a plain request with the id of the row it found.
LEMMA LoginFindsRow ==
    ASSUME TypeOK, NEW r \in Requests, NEW a \in LoginAnswers(r),
           ~altered, PlainLogin(a), pending = {}
    PROVE  HasRow(a)
  <1> DEFINE u == CHOOSE v \in Matching(r) : TRUE
  <1>1. a.name = r.name /\ a.pw = r.pw
    BY DEF LoginAnswers, Found, FoundByOther, AnswerTo
  <1>2. Known(r)
    BY <1>1 DEF PlainLogin, Plain, Known
  <1>3. a = Found(r) /\ Matching(r) # {}
    BY <1>2 DEF LoginAnswers, Found, AnswerTo, PlainLogin
  <1>4. u \in users /\ u.name = r.name /\ u.pw = r.pw
    BY <1>3 DEF Matching, Visible
  <1>5. PICK v \in users : v = u
    BY <1>4
  <1>6. a.id = v.id /\ Matches(v, a)
    BY <1>1, <1>3, <1>4, <1>5 DEF Found, AnswerTo, Matches
  <1> QED BY <1>6 DEF HasRow

\* Every step keeps told ids backed by rows, until a commit raises.
LEMMA NextIdInv ==
    ASSUME TypeOK, IdInv, [Next]_vars
    PROVE  IdInv'
  <1>1. CASE Start \/ CreateTables \/ CreateFails \/ Accept \/ RecvNothing \/ RecvOther
             \/ StatementRaises \/ SendToNobody
    <2>1. /\ UNCHANGED <<users, pending, told, commitFailed, altered>>
          /\ pc # "commit" /\ pc' \notin {"send", "commit"}
      BY <1>1 DEF Start, CreateTables, CreateFails, Accept, RecvNothing, RecvOther,
                  StatementRaises, Requested, SendToNobody, CloseConn, disk
    <2> QED BY <2>1 DEF IdInv, HasRow
  <1>2. CASE Kill
    BY <1>2 DEF Kill, IdInv, HasRow
  <1>3. CASE PeerSteps \/ FileTrouble \/ UNCHANGED vars
    <2>1. UNCHANGED <<users, pending, told, pc, answer, commitFailed, altered>>
      BY <1>3 DEF PeerSteps, Connect, PeerCloses, Ask, FileTrouble, vars, disk
    <2> QED BY <2>1 DEF IdInv, HasRow
  <1>4. CASE Login
    <2>1. request[conn] \in Requests /\ (~commitFailed => pending = {})
      BY <1>4 DEF Login, Requested, TypeOK, IdInv
    <2>2. ~commitFailed => pending' = {}
      BY <1>4, <2>1, UndoneRows DEF Login
    <2>3. ~commitFailed /\ ~altered /\ PlainLogin(answer') => HasRow(answer')
      BY <1>4, <2>1, LoginFindsRow DEF Login
    <2>4. UNCHANGED <<users, told, commitFailed, altered>> /\ pc' = "send"
      BY <1>4 DEF Login
    <2> QED BY <2>2, <2>3, <2>4 DEF IdInv, HasRow
  <1>5. CASE Signup
    <2>1. answer'.code # "login_succeed"
      BY <1>5 DEF Signup, Refused, Inserted, InsertedOther, AnswerTo
    <2>2. UNCHANGED <<users, told, commitFailed>> /\ pc' = "commit" /\ (~altered' => ~altered)
      BY <1>5 DEF Signup, Refused, Inserted, InsertedOther
    <2> QED BY <2>1, <2>2 DEF IdInv, HasRow
  <1>6. CASE Commit
    <2>1. /\ UNCHANGED <<told, answer, commitFailed, altered>> /\ users \subseteq users'
          /\ pending' = {} /\ pc = "commit" /\ pc' = "send"
      BY <1>6 DEF Commit, Visible
    <2> QED BY <2>1 DEF IdInv, HasRow, PlainLogin
  <1>7. CASE CommitFails
    BY <1>7 DEF CommitFails, IdInv
  <1>8. CASE Send
    BY <1>8 DEF Send, IdInv, HasRow, disk
  <1> QED BY <1>1, <1>2, <1>3, <1>4, <1>5, <1>6, <1>7, <1>8 DEF Next, Serve

\* Until a commit raises or a changed statement writes, the id a plain login was
\* told belongs to one name, across kills and restarts (Database.py:31-53, 317).
THEOREM IdsCorrect == Spec => []IdsStable
  <1>1. Init => IdInv
    BY DEF Init, IdInv
  <1>2. TypeOK /\ IdInv /\ [Next]_vars => IdInv'
    BY NextIdInv
  <1>3. RowsInv /\ IdInv => IdsStable
    <2> SUFFICES ASSUME RowsInv, IdInv, ~commitFailed, ~altered,
                        NEW t \in told, NEW w \in told, PlainLogin(t), PlainLogin(w)
                 PROVE  w.id = t.id <=> w.name = t.name
      BY DEF IdsStable, PlainLogin
    <2>1. PICK a \in users : a.id = t.id /\ Matches(a, t)
      BY DEF IdInv, HasRow
    <2>2. PICK b \in users : b.id = w.id /\ Matches(b, w)
      BY DEF IdInv, HasRow
    <2>3. a.id = b.id <=> a.name = b.name
      BY DEF RowsInv, Visible
    <2> QED BY <2>1, <2>2, <2>3 DEF Matches
  <1> QED BY <1>1, <1>2, <1>3, DatabaseTypes, PTL DEF Spec

\* Until a commit raises or a changed statement writes, a login with plain texts
\* succeeds only for an account on disk (Database.py:31-53).
THEOREM PlainLoginsCorrect == Spec => []PlainLoginOnlyForUsers
  <1>1. Init => IdInv
    BY DEF Init, IdInv
  <1>2. TypeOK /\ IdInv /\ [Next]_vars => IdInv'
    BY NextIdInv
  <1>3. IdInv => PlainLoginOnlyForUsers
    BY DEF IdInv, PlainLoginOnlyForUsers, PlainLogin, HasRow, Matches, Stored
  <1> QED BY <1>1, <1>2, <1>3, DatabaseTypes, PTL DEF Spec

------------------------------------------------------------------------------
\* What signup() has got ready before it commits: a row under a new name, or a
\* refusal.  Nothing else is pending until a commit raises.
CommitInv ==
    pc = "commit" =>
        /\ answer.id = 0
        /\ \/ answer.code = "username_exists" /\ (~commitFailed => pending = {})
           \/ /\ answer.code = "signup_succeed"
              /\ ~altered =>
                    /\ table /\ Plain(answer)
                    /\ \A u \in users : u.name # answer.name
                    /\ \E u \in pending : Matches(u, answer)
                    /\ ~commitFailed =>
                          pending = {[id |-> Cardinality(users) + 1, name |-> answer.name, pw |-> answer.pw]}

\* Only signup() makes something ready to commit, and until the commit nothing
\* it rests on changes.
LEMMA NextCommitInv ==
    ASSUME TypeOK, IdInv, CommitInv, [Next]_vars
    PROVE  CommitInv'
  <1>1. CASE Signup
    <2> DEFINE r == request[conn]
               row == [id |-> NextId, name |-> r.name, pw |-> r.pw]
    <2>1. pc = "recv" /\ UNCHANGED <<table, users, commitFailed>> /\ (~commitFailed => pending = {})
      BY <1>1 DEF Signup, Requested, IdInv
    <2>2. CASE Refused(r)
      <3>1. answer' = AnswerTo(r, "username_exists", 0) /\ (pending' = pending \/ pending' = {})
        BY <2>2, UndoneRows DEF Refused
      <3>2. answer'.id = 0 /\ answer'.code = "username_exists"
        BY <3>1 DEF AnswerTo
      <3> QED BY <2>1, <3>1, <3>2 DEF CommitInv
    <2>3. CASE InsertedOther(r)
      BY <2>3 DEF InsertedOther, AnswerTo, CommitInv
    <2>4. CASE Inserted(r)
      <3>1. answer' = AnswerTo(r, "signup_succeed", 0) /\ pending' = pending \cup {row}
        BY <2>4 DEF Inserted
      <3>2. /\ answer'.id = 0 /\ answer'.code = "signup_succeed"
            /\ answer'.name = r.name /\ answer'.pw = r.pw
        BY <3>1 DEF AnswerTo
      <3>3. /\ table' /\ Plain(answer)'
            /\ \A u \in users' : u.name # answer'.name
        BY <2>1, <2>4, <3>2 DEF Inserted, Known, Plain, NameTaken, Visible
      <3>4. \E u \in pending' : Matches(u, answer')
        <4>1. row \in pending' /\ row.name = r.name /\ row.pw = r.pw
          BY <3>1
        <4> HIDE DEF row
        <4> QED BY <3>2, <4>1 DEF Matches
      <3>5. ~commitFailed' =>
               pending' = {[id |-> Cardinality(users') + 1, name |-> answer'.name, pw |-> answer'.pw]}
        <4> SUFFICES ASSUME ~commitFailed'
                     PROVE  pending' = {[id |-> Cardinality(users') + 1, name |-> answer'.name, pw |-> answer'.pw]}
          OBVIOUS
        <4>1. pending = {} /\ Visible = users /\ users' = users
          BY <2>1 DEF Visible
        <4> QED BY <3>1, <3>2, <4>1 DEF NextId
      <3> QED BY <3>2, <3>3, <3>4, <3>5 DEF CommitInv
    <2> QED BY <1>1, <2>2, <2>3, <2>4 DEF Signup
  <1>2. CASE PeerSteps \/ FileTrouble \/ UNCHANGED vars
    <2>1. UNCHANGED <<pc, answer, table, users, pending, commitFailed, altered>>
      BY <1>2 DEF PeerSteps, Connect, PeerCloses, Ask, FileTrouble, vars, disk
    <2> QED BY <2>1 DEF CommitInv, Plain
  <1>3. CASE Start \/ CreateTables \/ CreateFails \/ Kill \/ Accept \/ RecvNothing
             \/ RecvOther \/ StatementRaises \/ Login \/ Commit \/ CommitFails \/ Send
             \/ SendToNobody
    <2>1. pc' # "commit"
      BY <1>3 DEF Start, CreateTables, CreateFails, Kill, Accept, RecvNothing, RecvOther,
                  StatementRaises, Login, Commit, CommitFails, Send, SendToNobody, CloseConn
    <2> QED BY <2>1 DEF CommitInv
  <1> QED BY <1>1, <1>2, <1>3 DEF Next, Serve

USE DEF Store!storeVars, Store!limits

\* The answer that the store has on its way.
Shown == IF Answering THEN answer ELSE None

\* A request is found where the server looks for it, and nothing is on its way.
LEMMA RequestNamed ==
    ASSUME TypeOK, pc = "recv", request[conn] # None
    PROVE  request[conn].name \in Names /\ request[conn].pw \in Passwords
  <1>1. conn \in Peers
    BY DEF TypeOK, Serving
  <1>2. request[conn] \in Requests
    BY <1>1 DEF TypeOK
  <1> QED BY <1>2 DEF Requests

\* login() is the store's login.
LEMMA LoginStep ==
    ASSUME TypeOK, IdInv, ~altered, Login
    PROVE  Store!Next
  <1> DEFINE r == request[conn]
             n == r.name
             p == r.pw
             u == CHOOSE v \in Matching(r) : TRUE
  <1>1. n \in Names /\ p \in Passwords /\ r \in Requests
    BY RequestNamed DEF Login, Requested, TypeOK
  <1>2. UNCHANGED <<table, users, told, failures>>
    BY DEF Login
  <1>3. Shown = None /\ Shown' = answer'
    BY DEF Login, Requested, Answering, Shown
  <1>4. Known(r) <=> Store!Plain(n, p)
    BY DEF Known, Plain, Store!Plain
  <1>5. SUFFICES Store!Login(n, p)
    BY <1>1 DEF Store!Next
  <1>6. CASE answer' = AnswerTo(r, "unexpected_error", 0) /\ ~(table /\ ~fault /\ Known(r))
    BY <1>2, <1>3, <1>4, <1>6 DEF Store!Login, Store!Answer, AnswerTo, Shown
  <1>7. CASE answer' \in FoundByOther(r) /\ table /\ ~Known(r)
    <2>1. \/ answer' = AnswerTo(r, "wrong_username", 0)
          \/ \E i \in Nat : answer' = AnswerTo(r, "login_succeed", i)
      BY <1>7, TextsAssumption DEF FoundByOther
    <2>2. CASE answer' = AnswerTo(r, "wrong_username", 0)
      BY <1>2, <1>3, <1>4, <1>7, <2>2 DEF Store!Login, Store!Answer, AnswerTo, Shown
    <2>3. ASSUME NEW i \in Nat, answer' = AnswerTo(r, "login_succeed", i)
          PROVE  Store!Login(n, p)
      <3>1. answer' \in [name : {n}, pw : {p}, code : {"login_succeed"}, id : Nat]
        BY <2>3 DEF AnswerTo
      <3>2. Store!SomeLogin(n, p)
        BY <1>3, <1>4, <1>7, <3>1 DEF Store!SomeLogin, Shown
      <3> QED BY <1>2, <3>2 DEF Store!Login
    <2> QED BY <2>1, <2>2, <2>3
  <1>8. CASE answer' = Found(r) /\ table /\ Matching(r) = {}
    <2>1. answer' = AnswerTo(r, "wrong_username", 0)
      BY <1>8 DEF Found
    <2>2. Store!Owned(n, p) = {}
      BY <1>8 DEF Store!Owned, Matching, Visible
    <2> QED BY <1>2, <1>3, <1>8, <2>1, <2>2 DEF Store!Login, Store!Answer, AnswerTo, Shown
  <1>9. CASE answer' = Found(r) /\ table /\ Matching(r) # {}
    <2>1. u \in Matching(r)
      BY <1>9
    <2>2. answer' = AnswerTo(r, "login_succeed", u.id)
      BY <1>9 DEF Found
    <2>3. CASE commitFailed
      <3>1. u.id \in Nat
        BY <2>1 DEF TypeOK, Matching, Visible, Rows
      <3>2. answer' \in [name : {n}, pw : {p}, code : {"login_succeed"}, id : Nat]
        BY <2>2, <3>1 DEF AnswerTo
      <3>3. Store!SomeLogin(n, p)
        BY <1>3, <1>9, <2>3, <3>2 DEF Store!SomeLogin, Shown
      <3> QED BY <1>2, <3>3 DEF Store!Login
    <2>4. CASE ~commitFailed
      <3>1. u \in Store!Owned(n, p)
        BY <2>1, <2>4 DEF IdInv, Login, Requested, Matching, Visible, Store!Owned
      <3>2. Store!Answer(n, p, "login_succeed", u.id)
        BY <1>3, <2>2 DEF Store!Answer, AnswerTo, Shown
      <3> QED BY <1>2, <1>9, <3>1, <3>2 DEF Store!Login
    <2> QED BY <2>3, <2>4
  <1> QED BY <1>6, <1>7, <1>8, <1>9 DEF Login, LoginAnswers

\* The statement of signup() is the moment of a refusal, and of a changed
\* statement that writes.
LEMMA SignupStep ==
    ASSUME TypeOK, IdInv, ~altered, Signup
    PROVE  [Store!Next]_(Store!storeVars)
  <1> DEFINE r == request[conn]
             n == r.name
             p == r.pw
  <1>1. n \in Names /\ p \in Passwords
    BY RequestNamed DEF Signup, Requested
  <1>2. UNCHANGED <<table, users, told, fault, commitFailed>> /\ pc = "recv" /\ pc' = "commit"
    BY DEF Signup, Requested
  <1>3. Known(r) <=> Store!Plain(n, p)
    BY DEF Known, Plain, Store!Plain
  <1>4. CASE Refused(r)
    <2>1. answer' = [name |-> n, pw |-> p, code |-> "username_exists", id |-> 0] /\ UNCHANGED altered
      BY <1>4 DEF Refused, AnswerTo
    <2>2. Shown = None /\ Shown' = answer'
      BY <1>2, <2>1 DEF Shown, Answering
    <2>3. ~table \/ Store!Taken(n) \/ fault \/ ~Store!Plain(n, p) \/ commitFailed
      BY <1>2, <1>3, <1>4 DEF Refused, NameTaken, Visible, IdInv, Store!Taken
    <2>4. Store!Refuse(n, p)
      BY <1>2, <2>1, <2>2, <2>3 DEF Store!Refuse, Store!Answer, Shown
    <2> QED BY <1>1, <2>4 DEF Store!Next
  <1>5. CASE Inserted(r)
    <2>1. answer'.code = "signup_succeed" /\ UNCHANGED altered
      BY <1>5 DEF Inserted, AnswerTo
    <2>2. Shown = None /\ Shown' = None
      BY <1>2, <2>1 DEF Shown, Answering
    <2> QED BY <1>2, <2>1, <2>2 DEF Shown
  <1>6. CASE InsertedOther(r)
    <2>1. answer'.code = "signup_succeed" /\ altered' = TRUE
      BY <1>6 DEF InsertedOther, AnswerTo
    <2>2. Shown = None /\ Shown' = None
      BY <1>2, <2>1 DEF Shown, Answering
    <2>3. Store!Alter(n, p)
      BY <1>2, <1>3, <1>6, <2>1, <2>2 DEF Store!Alter, InsertedOther, Shown
    <2> QED BY <1>1, <2>3 DEF Store!Next
  <1> QED BY <1>4, <1>5, <1>6 DEF Signup

\* The commit is the moment at which a signup that succeeds happens.
LEMMA CommitStep ==
    ASSUME TypeOK, RowsInv, CommitInv, ~altered, Commit
    PROVE  [Store!Next]_(Store!storeVars)
  <1> DEFINE n == answer.name
             p == answer.pw
             row == [id |-> Cardinality(users) + 1, name |-> n, pw |-> p]
  <1>1. /\ answer = [name |-> n, pw |-> p, code |-> answer.code, id |-> 0]
        /\ n \in Names /\ p \in Passwords
    <2>1. answer \in Answers /\ answer.id = 0
      BY DEF Commit, TypeOK, CommitInv
    <2> QED BY <2>1 DEF Answers
  <1>2. UNCHANGED <<table, told, failures>> /\ users' = users \cup pending
    BY DEF Commit, Visible
  <1>3. users \subseteq users' /\ \A a, b \in users' : a.name = b.name \/ a.id = b.id => a = b
    BY <1>2 DEF RowsInv, Visible
  <1>4. Shown' = answer
    BY DEF Commit, Shown, Answering
  <1>5. CASE answer.code = "username_exists"
    <2>1. Shown = answer
      BY <1>5 DEF Commit, Shown, Answering
    <2>2. CASE commitFailed
      <3>1. Store!Grow
        BY <1>3, <2>2 DEF Store!Grow
      <3>2. Store!BrokenGrowth
        BY <1>2, <1>4, <2>1, <3>1 DEF Store!BrokenGrowth, Shown
      <3> QED BY <3>2 DEF Store!Next
    <2>3. CASE ~commitFailed
      <3>1. users' = users
        BY <1>2, <1>5, <2>3 DEF CommitInv, Commit
      <3> QED BY <1>2, <1>4, <2>1, <3>1 DEF Shown
    <2> QED BY <2>2, <2>3
  <1>6. CASE answer.code = "signup_succeed"
    <2>1. Shown = None
      BY <1>6 DEF Commit, Shown, Answering
    <2>2. /\ table /\ Store!Plain(n, p) /\ ~Store!Taken(n)
          /\ \E u \in pending : Matches(u, answer)
          /\ ~commitFailed => pending = {row}
      BY <1>6 DEF CommitInv, Commit, Store!Taken, Plain, Store!Plain
    <2>3. Store!Answer(n, p, "signup_succeed", 0)
      <3>1. answer = [name |-> n, pw |-> p, code |-> "signup_succeed", id |-> 0]
        BY <1>1, <1>6
      <3> QED BY <1>4, <2>1, <3>1 DEF Store!Answer, Shown
    <2>4. CASE commitFailed
      <3>1. \E a \in users' : a.name = n /\ a.pw = p
        BY <1>2, <2>2 DEF Matches
      <3>2. Store!Grow
        BY <1>3, <2>4 DEF Store!Grow
      <3>3. Store!BrokenSignup(n, p)
        BY <1>2, <2>2, <2>3, <3>1, <3>2 DEF Store!BrokenSignup
      <3> QED BY <1>1, <3>3 DEF Store!Next
    <2>5. CASE ~commitFailed
      <3>1. users' = users \cup {row}
        BY <1>2, <2>2, <2>5
      <3>2. row \in users' /\ row.name = n /\ row.pw = p
        BY <3>1
      <3>3. \A u \in users : row.id # u.id
        <4>1. row.id = Cardinality(users) + 1 /\ Cardinality(users) \in Nat
          BY FS_CardinalityType DEF RowsInv
        <4>2. \A u \in users : u.id \in Nat /\ u.id <= Cardinality(users)
          BY DEF RowsInv, TypeOK, Rows
        <4> HIDE DEF row
        <4> QED BY <4>1, <4>2
      <3>4. Store!Signup(n, p)
        <4> HIDE DEF row
        <4> QED BY <1>2, <2>2, <2>3, <3>1, <3>2, <3>3 DEF Store!Signup
      <3> QED BY <1>1, <3>4 DEF Store!Next
    <2> QED BY <2>4, <2>5
  <1> QED BY <1>5, <1>6 DEF CommitInv, Commit

\* Every step of the server is one of the store or leaves it alone.
LEMMA StoreStep ==
    ASSUME TypeOK, RowsInv, IdInv, CommitInv, [Next]_vars
    PROVE  [Store!Next]_(Store!storeVars)
  <1>1. CASE altered
    <2>1. altered'
      BY <1>1 DEF Next, Serve, Start, CreateTables, CreateFails, Kill, FileTrouble, PeerSteps,
                  Connect, PeerCloses, Ask, Accept, RecvNothing, RecvOther, StatementRaises,
                  Login, Signup, Refused, Inserted, InsertedOther, Commit, CommitFails, Send,
                  SendToNobody, vars
    <2>2. Store!Unpromised
      BY <1>1, <2>1 DEF Store!Unpromised
    <2> QED BY <2>2 DEF Store!Next
  <1>2. CASE Start \/ (CreateFails /\ table' = table) \/ Accept \/ RecvNothing \/ RecvOther
             \/ StatementRaises
    <2>1. /\ UNCHANGED <<table, users, told, failures>>
          /\ pc \notin {"commit", "send"} /\ pc' \notin {"commit", "send"}
      BY <1>2 DEF Start, CreateFails, Accept, RecvNothing, RecvOther, StatementRaises,
                  Requested, CloseConn, disk
    <2>2. Shown = None /\ Shown' = None
      BY <2>1 DEF Shown, Answering
    <2> QED BY <2>1, <2>2 DEF Shown
  <1>3. CASE PeerSteps \/ UNCHANGED vars
    <2>1. UNCHANGED <<table, users, told, failures, pc, answer>>
      BY <1>3 DEF PeerSteps, Connect, PeerCloses, Ask, vars, disk
    <2> QED BY <2>1 DEF Answering
  <1>4. CASE CreateTables \/ (CreateFails /\ table' = TRUE)
    <2>1. /\ table' = TRUE /\ UNCHANGED <<users, told, failures>>
          /\ pc = "create" /\ pc' \in {"accept", "down"}
      BY <1>4 DEF CreateTables, CreateFails
    <2>2. Shown = None /\ Shown' = None
      BY <2>1 DEF Shown, Answering
    <2>3. Store!MakeReady
      BY <2>1, <2>2 DEF Store!MakeReady, Shown
    <2> QED BY <2>3 DEF Store!Next
  <1>5. CASE Kill \/ SendToNobody
    <2>1. UNCHANGED <<table, users, told, failures>> /\ pc' \notin {"commit", "send"}
      BY <1>5 DEF Kill, SendToNobody, CloseConn, disk
    <2>2. Store!Lose
      BY <2>1 DEF Store!Lose, Answering
    <2> QED BY <2>2 DEF Store!Next
  <1>6. CASE FileTrouble
    <2>1. UNCHANGED <<table, users, told, pc, answer, commitFailed, altered>> /\ fault' = ~fault
      BY <1>6 DEF FileTrouble, disk
    <2>2. Store!Trouble
      BY <2>1 DEF Store!Trouble, Answering
    <2> QED BY <2>2 DEF Store!Next
  <1>7. CASE ~altered /\ Login
    BY <1>7, LoginStep
  <1>8. CASE ~altered /\ Signup
    BY <1>8, SignupStep
  <1>9. CASE ~altered /\ Commit
    BY <1>9, CommitStep
  <1>10. CASE CommitFails
    <2>1. /\ UNCHANGED <<table, users, told, fault, altered>> /\ fault /\ commitFailed' = TRUE
          /\ pc' \notin {"commit", "send"}
      BY <1>10 DEF CommitFails, CloseConn
    <2>2. Store!Break
      BY <2>1 DEF Store!Break, Answering
    <2> QED BY <2>2 DEF Store!Next
  <1>11. CASE Send
    <2>1. /\ UNCHANGED <<table, users, failures>> /\ told' = told \cup {answer}
          /\ pc = "send" /\ pc' = "recv" /\ answer # None
      BY <1>11 DEF Send, disk, TypeOK
    <2>2. Store!Tell
      BY <2>1 DEF Store!Tell, Answering
    <2> QED BY <2>2 DEF Store!Next
  <1> QED BY <1>1, <1>2, <1>3, <1>4, <1>5, <1>6, <1>7, <1>8, <1>9, <1>10, <1>11
          DEF Next, Serve, CreateFails

\* The server implements the store, for any number of peers, accounts, kills,
\* failing statements and failing commits: each login and each signup with plain
\* texts takes effect at one moment, and its answer was true at it, a refusal
\* during a fault of the file aside (Database.py:31-76).
THEOREM ImplementsStore == Spec => StoreSpec
  <1>1. Init => IdInv /\ CommitInv /\ Store!Init
    BY DEF Init, IdInv, CommitInv, Store!Init, Answering
  <1>2. TypeOK /\ IdInv /\ CommitInv /\ [Next]_vars => (IdInv /\ CommitInv)'
    BY NextIdInv, NextCommitInv
  <1>3. TypeOK /\ RowsInv /\ IdInv /\ CommitInv /\ [Next]_vars => [Store!Next]_(Store!storeVars)
    BY StoreStep
  <1> QED BY <1>1, <1>2, <1>3, DatabaseTypes, PTL DEF Spec, StoreSpec, Store!Spec
=============================================================================
