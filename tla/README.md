# A TLA+ model of the onion-routing project

The repository holds an onion router in several programs: C++ relays
(`src/Node`), a C++ proxy server (`src/ProxyServer`), a Python database server
(`src/PythonServer`), a command-line client (`src/ProxyClient`) and a login
window (`src/ClientGUI`). This directory holds TLA+ models of the three
servers, of a whole circuit, of the bytes on its connections, and of how the
processes start and find each other; the TLC runs that check them on small
instances; and proofs, checked by TLAPS, of their most important safety
properties for instances of any size.
Line numbers below are those of `src/`; paths are shortened to the directory
where no confusion is possible.

## 1. Inventory

### The parts and how they interact

```
ClientGUI --key, login--> ProxyServer --login/signup--> PythonServer --> TOR-DB.db
                              ^                              ^
                              | (connect, never write)       | (connect, never write)
ProxyClient --setup block--> Node 1 --> Node 2 --> ... --> destination
```

Every arrow is a TCP connection over which blocks of 1024 bytes (`BUFFER_SIZE`;
256 in the proxy) travel. Inside one program the threads share locked queues, a map without a
lock, and the process's descriptor table.

| component | state it keeps | operations | modelled in |
|---|---|---|---|
| relay, `src/Node` | `m_socketsToStartConvesrations`, `m_conversations`, the descriptor table, each thread's locals | accept a client; read its setup block and connect to the hop it names; pass blocks both ways, adding a layer to replies; drop a circuit whose send failed; shut down on "quit" | `RelayNode`, abstractly `RelayPipe` |
| proxy, `src/ProxyServer` | `m_clients`, `m_tasksQueue`, `m_databaseServerSocket`, each thread's locals | accept and exchange keys; serve the registered clients in turn; login and signup through the database server; remove a client; shut down | `ProxyServer`, abstractly `ProxyService` |
| database server, `src/PythonServer` | the SQLite file, the open transaction, the connection being served | first start; login; signup and commit; answer; close | `DatabaseServer`, abstractly `AccountStore` |
| login window, `src/ClientGUI` | one connection per attempt | key, request, wait | `ClientWrites` of `ProxyServer`, `ClientConnects` of `Startup` |
| circuit client and destination, `src/testing` | the keys of the relays, one buffer | connect, write a setup block per relay and the message, read one reply, take the layers off; read one block and answer it | `OnionCircuit`, `Framing` |
| layers, `*/RSA_Communication.cpp` | keys | one unpadded RSA operation per relay | `OnionCircuit` |
| key files, `*/RSA_Communication.cpp` | two files per process, the keys it has read | look for the files, make a pair, write it, read it | `KeyFiles` |
| start-up, the constructors and `main`s | the connections made first, the servers' queues | connect, give up, accept, serve one newcomer at a time | `Startup` |
| framing, `*/Helper.cpp`, `*/JsonPacket*.cpp` | the bytes under way, the buffers | put and look for the code, the length and the text of a block; read part of one | `Framing` |
| client, `src/ProxyClient` | the route and the keys of its relays | login, choose a route, build a circuit, send | no (does not compile) |
| node registry, `SSHConnection.cpp`, `CreatePathHandler.cpp` | - | registration of relays: the one call (RSAHandler.cpp:28) is for a first block with `IS_NODE_CODE`, which no program here sends, and returns false | no |
| vendored `json.hpp` | - | - | no |

### What is hard

*Relay.* Descriptors are plain integers that several threads pass to each other
through queues; they are closed by one thread and reused by the next `accept`.
A circuit is torn down from the middle of a turn, with a block in hand. Two
`FIONREAD` polls of the same socket may disagree. Peers close, reset or stop
reading at any point, and a second write to a departed peer raises `SIGPIPE`,
for which there is no handler. `shutdown()` uses the conversations without the
lock. One path thread looks after all newcomers.
*Correct* means: no descriptor is acted on by two threads or stands for another
connection than it was queued for; both directions of a circuit are FIFO pipes
whatever the threads do; nothing a peer does keeps another circuit waiting.

*Proxy.* The accept thread performs a blocking key exchange; `m_clients` is
shared without a lock; the `ClientData` of a client may be deleted while it is
used; the one database socket is closed by `shutdown()` under the workers, and
an `accept` that is just being entered may be given its number; a worker waits
for the database's answer without a timeout.
*Correct* means: a client is served by one worker at a time and is registered
while it is; every key and every request is taken up unless a peer that the code
waits for stays silent for ever; answers come one per request and in order.

*Database server.* The process may end between the `INSERT`, the commit and the
answer, and between the creation of the file and that of its tables; a commit
may raise and leave a transaction open that later requests see. Names and
passwords are formatted into the text of the statements (Database.py:34, 65), and
whatever an `INSERT` fails of is told as a name that exists (65-71).
*Correct* means: what a user was told stays true, whatever fails, as long as
every text stays inside its literal.

*Circuit.* The client writes one setup block per relay and then the message,
without waiting for anything, and no block says which relay it is for: each relay
must take exactly one and pass the others on. A reply gets a layer at each relay,
by RSA without padding, which fails on a number that is not below the modulus; no
result of it is tested. A hop that refuses or ends is told to the client by
nothing but, at best, its own connection.
*Correct* means: the path is the one the client asked for, each relay has the key
the client will use in its place, only the message leaves the last relay, and the
client reads what the destination answered.

*Start-up and keys.* A relay holds its connections to both servers from its
constructor on and writes nothing on them, and each server waits for the one it
has accepted: the order of two queues decides who is ever served. A relay makes
both connections and its keys before it looks whether the first one worked. The
key files are created empty and filled when they are closed, and files that
exist are never looked into before they are used.
*Correct* means: a relay that serves is connected, a start comes to an end, who
waits is served or stands behind a silent relay, and the keys in use are one pair,
the one others were told.

*Framing.* TCP is a stream, and every read is taken for one block. Relays send
on 1024 bytes whatever they have read, clients send 1024 bytes from shorter
buffers, with what follows these in memory, and four conventions of where the length stands are in use.
*Correct* means: reader and writer of a channel agree, a relay makes its path from
its own setup block and from nothing else, and no byte is lost or overtaken.

`PROJECT.json` lists every hazard at its line, with the properties that would
catch it going wrong.

## 2. The models

### RelayNode (and RelayPipe)

One relay process. A connection end is `<<c, "client">>`, the socket accepted
from client `c`, or `<<c, "dest">>`, the socket to the hop that `c` asked for.
`fdTable` maps each descriptor to the end it refers to; the code's integers are
kept as integers, `accept` and `socket` return the lowest free one, and `close`
frees it, so that a stale copy of a number *would* reach a stranger's
connection. The kernel part (`peer`, `rx`, `unread`, `sent`, `tx`) keeps as much
of TCP as `FIONREAD`, `read`, `send` and `close` can tell: windows that fill,
FIN, the reset that answers a write after FIN, the `SIGPIPE` after it. This part
is marked external in `map`.

| code | model |
|---|---|
| `Server::bindAndListen` (Server.cpp:85-136) | `Accept`, `AcceptFails`, `QueueNewSocket` |
| `createPathThread`, `buildPath` (Server.cpp:269-379) | `PathTake`, `PathPutBack`, `PathMalformed`, `PathNoSocket`, `PathBadAddress`, `PathSocket`, `PathConnected`, `PathConnectFails` |
| `ThreadPool::threadLoop` (ThreadPool.cpp:31-68) | `Take`, `Poll`, `Requeue` |
| `Server::handleRequest` (Server.cpp:206-262) | `ReadClient`, `ReadDest`, `SendToClient`, `SendToDest`, `DropConversation`, `KilledBySend`, `KilledByEncrypt` |
| `ThreadPool` constructor, `main`, `Server::shutdown` | `SetServer`, `WorkerBeforeServer`, `Quit`, `Shutdown...`, `Exit` |

Each critical section and each system call that touches shared state is one
step. A setup may name a key that is none: the relay connects all the same, and the
first reply is encrypted through a null pointer (`KilledByEncrypt`,
RSA_Communication.cpp:20, 78). In three places what the code leaves undefined is a
choice: a worker that runs before `m_server` is assigned, and `front`/`pop` of an
empty queue in `shutdown()`; the outcome in which the process ends is taken, the ones in which
nothing is noticed coincide with other steps.

`RelayPipe` is what the relay promises, without descriptors, queues and threads:
per circuit two FIFO pipes, the first block of the client consumed as the setup
block, replies under one layer of that client's own key, and a cut that loses
what is in the pipes. `RelayNode` defines the refinement mapping (`Pipe`): a
block is "in the pipe" while it is in the socket or in a worker's hand. Blocks
go towards the next hop as they were read: the call that would remove a layer is
commented out (Server.cpp:251-254), and the model follows the code.

### OnionCircuit

The client of `src/testing/testing client` (hop 0), relays `1..N`, the destination
of `src/testing/testing server` (hop `N + 1`). Connection `h` is the one hop `h`
made: `down[h]` holds the blocks on the way to the far end, `up[h]` the numbers on
the way back, `taken[h]` counts what the far end has read. A relay is here what
`RelayPipe` promises of one circuit, with the part of TCP that decides whether a
send works (`link`): a closed far end takes one more block, and the one after it
ends the process.

| code | model |
|---|---|
| `main` of test.cpp (29-58, 60-113) | `ClientConnects`, `ClientRefused`, `ClientSends`, `ClientSendFails`; the blocks are `Block(1)`, `Block(2)`, ... |
| `main` of test.cpp (116-133) | `ClientReads`, `ClientReadFails`, `ClientPeels`, `ClientPrints` |
| `Server::createPathThread`, `buildPath` | `RelayConnects`, `RelayRefused` |
| `Server::handleRequest` | `RelayForwards`, `RelayForwardFails`, `RelayReplies`, `RelayReplyFails` |
| `RSA_Communication::encrypt`, `decrypt` | `Encrypted`, `Decrypted`: the power modulo `n`, or, where the call fails, what was in the buffer |
| `main` of the test server | `DestinationAnswers`; `DestinationDies`, one outcome of reading a block into one byte |

A relay notices a departed neighbour only by a failing send, for the reason
`RelayNode_disconnect` shows, so there is no action by which it reads an end of
file. Keys are small but real key pairs; that a pair undoes what it did is the
assumption `KeysAssumption`, which TLC evaluates for the pairs it is given.

### ProxyServer (and ProxyService)

The code never closes an accepted socket, so a descriptor is written as the peer
that made the connection, except for the database socket, whose number may be
reused (`dbFd`). The kernel's `accept` finds the listening socket, reserves a
number, and waits: `EnterAccept`, `ReserveNumber`, `Accept`. The database's number
goes to a client only if `shutdown()` closes it between the first two; an `accept`
called later fails with `EBADF` and ends the process (`AcceptFails`). The workers
find the queue empty until `run()` (`Run`). The accept thread goes through `readKey`, `sendKey`, `insert`,
`addTask`; a worker through `poll`, `handle`, `dbRead`, `send`, `requeue`. The
kind of a request is read from its first byte *before* the block is decrypted
(`getRequestCodeFromBuffer`), so a client's request may turn out to be of any
kind: `RequestBlocks`. The database's connection ends with a FIN, or with a reset if it left
a request unread (`DatabaseCloses`); an answer of it is decrypted through a null
object, so `DatabaseAnswers` ends the process. Use and second deletion of a freed `ClientData` when no handler
takes a request (Server.cpp:153-170) is a choice between the process going on
and the process ending, and so is every meeting of two users of `m_clients`
(`MapRace`).

`ProxyService` is what the proxy promises each client, without threads, queue,
sockets or database. A client writes a block and waits; its key is taken and
answered first and once (`TakeKey`, `Greet`), then each request is taken up once,
when nothing of that client is in hand (`Take`), and answered (`Answer`). A client
that is still there is given up only for a request without a handler (`Drop`), and
nothing of it is taken up afterwards. `Die` may come at any moment. In
`ProxyServer` (`Service`) the stage of a client is where its socket is: with the
accept thread, with the pool (`HasTurn`), or nowhere; what is in hand is the
request of the worker that has it. A login is answered with an error in this
service, as the code can answer nothing else; what a worker writes to a stranger
after `shutdown()` (`misdirected`) is not an answer and not part of it.

### DatabaseServer (and AccountStore)

One thread: `Accept`, then `Login`, `Signup`, `Commit`, `Send` until the peer
closes. The statement and its commit are two steps, `Kill` may come between any
two steps and loses the open transaction and the connections but not the file,
and `Start` finds what is there. While `fault` holds (another process has the file
locked, the disk is full) any statement and any commit may fail: a `SELECT` is
then told as `unexpected_error` (Database.py:47-48), an `INSERT` as
`username_exists` (65-71), and `CommitFails` is `commit()` raising outside the `try`
of `signup` (74). SQLite keeps the open transaction or undoes it (`Undone`). Of
the tables only `users` is used by a request that reaches this server.

`login` and `signup` format the name and the password into the statement. `Quoted`
are the texts that do not stay inside their SQL literal, as `O'Brien` does not.
With one of them (`~Plain`) another statement is executed than the one meant, or
none: a login may answer anything (`FoundByOther`, `SelectedIds`), a signup may be
refused or succeed with rows of its own making (`InsertedOther`), and either may
raise what is not an `sqlite3.Error` and cost the connection (`StatementRaises`).
What such a signup writes is not modelled; `altered` remembers that there was one,
and nothing is promised afterwards. The history variable `commitFailed` remembers
whether a commit has failed: what logins promise holds until then.

`AccountStore` is what the server promises, without process, connections and
transactions: a login or a signup happens at one moment on a set of accounts that
only grows, and the answer, given at that moment, is told or lost. For plain
texts "wrong username" is told only if there is no such account, and "unexpected
error" only if there are no tables or statements fail. "Username exists" means
what the code makes of it: the name is taken, or there are no tables, or statements
fail (`trouble`), and in any case no account was made. Of a text that is not plain
an answer may say anything (`SomeLogin`, `Refuse`). After a failed commit `Grow`,
`BrokenGrowth` and `BrokenSignup` say what is left of the promise, and after a
changed statement has written (`Alter`) nothing is. In `DatabaseServer` (`Store`) the moment of
a login is its `SELECT`, that of a signup its commit, and an answer is on its way
while the thread is about to send it.

### KeyFiles and Startup

`KeyFiles` is one instance of `generateKeys` per process with the two files it
works on. A pair is the number of its generation, a file `Absent`, `Empty` or the
half of a pair. `Generate`, `CreatePublic`, `CreatePrivate`, `SavePublic`,
`SavePrivate` and `Load` are the steps in the order of the code
(Node/RSA_Communication.cpp:139-201; the proxy's copy differs in the names of
the files): the buffers are written at `free_all`, so a kill before leaves empty
files. Relays look for the files in every constructor (`RelayBuildsPath`: one per
circuit), the proxy once, and then reads them for each client.

`Startup` adds the main threads up to where the other modules begin:

| code | model |
|---|---|
| `__bindAnsListen`, `__handle_new_client` (PythonServer/Server.py:27-77) | `StartDatabase`, `ServeNext` |
| `Server::Server`, `bindAndListen`, `startRSAConnversation` (ProxyServer) | `StartProxy`, `ProxyKeys`, `ProxyConnects`, `ProxyAccepts`, `ProxyAnswers`, `ProxyReadsEnd`, `ProxyAborts` |
| `Server::Server`, `main` (Node/Server.cpp:7-24, node.cpp:12-28) | `StartRelay`, `RelayConnectsDatabase`, `RelayConnectsProxy`, `RelayKeys`, `RelayRuns`, `RelayThrows` |
| `validateLogin` (ClientGUI/main.py:29-40) | `ClientConnects`, `ClientWrites` |

A connection is the name of the process that made it, in the kernel's queue of
the server (`dbQ`, `proxyQ`) or in the server's hands (`dbConn`, `asock`); once
that process is gone, `None` stands in its place until the server reads the end.
Any process may be killed at any step and started again; `ProxyAborts` is the
exception that a key too long for the proxy's buffer raises.

### Framing

Bytes, not blocks. `Request`, `Answer` and `DatabaseRequest` are the three writers;
`ReadRequest`, `ReadAnswer`, `ReadDatabaseAnswer` and `ReadDatabaseRequest` the
readers, each over the memory its loop runs through. `Digits` and `LengthAt` are
the conversions of `Helper.cpp`, with the width of an `int` (`Half`). A text is a
sequence of nonzero bytes, none the beginning of another, as JSON objects are;
`Parsed` is what `json::parse` accepts, which stops at a zero byte. A setup is a
flat object of an address, a port and a key (`createNextNodeResult`, test.cpp:141-152),
so the byte that opens a text stands nowhere in it but at its beginning, and
among the bytes of a length and the first of the text behind it there is nothing
like the `{"` that a text begins with: that is `OpeningAssumption`, the only thing
the proofs know of what is written in a text.

The state is a chain of relays that a client sends one setup block each and then
data. `Send` transmits, behind the block, what follows it in memory (test.cpp:68, 83,
98, 109): anything in `Memory`, or the rest of the block before. `link[h]` holds the bytes on the way to relay `h`, `BuildPath` is the read of
`Server::buildPath` into a buffer that is not initialised (`stale`),
`HandleRequest` a read into a cleared buffer of which all is sent on. `Read` lets
a read return any part of what has been sent. `Quiet` says that nothing which has
gone along from the client's memory could open a text.

## 3. Runs

All runs ignore deadlock: each system may stop (a process that ended, peers that
reached their bounds).

| run | instance | shows |
|---|---|---|
| `RelayNode_ownership` | 2 clients, 2 workers, 4 descriptors; clients close | `TypeOK`; `DescriptorOwnership`: no descriptor is kept in two places, and each refers to the connection it is kept for; `OpenAndKept`: none is lost but by the two ways named there |
| `RelayNode_pipe` | 2 clients, 1 worker, 3 descriptors, 2 replies, every outcome of the setup (a key that is none among them), both sides close, quit | the inductive invariants `IInv` and `PipeInv` of the proofs, and `RelayNode` implements `RelayPipe` (`PipeSpec`) |
| `RelayNode_liveness` | 2 clients, 1 worker, peers that read | `BlocksForwarded`, `SetupResolved` under fairness |
| `RelayNode_disconnect` | 1 client | *violated*: a client that hangs up is never noticed (Server.cpp:214-217) |
| `Onion_circuit` | 3 relays, moduli 15, 33 and 55 in every assignment, every hop may refuse, every relay may end | `PathAsRequested`, `OnlyMessageLeaves`, `ReplyReadable`; `ReplyArrives` under fairness |
| `Onion_moduli` | the same without failures | *violated*: whatever the keys, the client reads the answer |
| `Database_accounts` | 1 proxy, 1 silent relay, 2 names, a plain and a quoted password, 3 requests, 2 kills, failing statements and commits | `AcknowledgedSurvives`; `IdsStable` and `PlainLoginOnlyForUsers`, of plain texts, until a commit fails; `DatabaseServer` implements `AccountStore` (`StoreSpec`); all of these until a changed statement has written; `CurrentServed` under fairness |
| `Proxy_service` | 2 clients, 1 worker, descriptors run out with the second client or do not, any key and 2 requests per client, one may close and either may stay silent, database fails or does not answer, quit | `TurnsAreRegistered`; `RequestsReachDatabase` until quit; `ProxyServer` implements `ProxyService` (`ServiceSpec`); `KeyAnswered`, `RequestTaken` under fairness |
| `Proxy_login` | 1 client | *violated*: an answer of the database ends the proxy |
| `Startup` | 1 relay, 1 client, queues of one, any order, 1 kill, 2 pairs of keys per process | `KeysBelongTogether`, `KeysStable`, `RunningIsConnected`; `StartEnds` under fairness, and `AnsweredOrBehindRelay`, `ProxyServedOrBehindRelay`: who waits is served unless the server ends up with a silent relay for ever |
| `Startup_readme` | 2 relays, 1 client, started in the order of README.md, no kill | *violated*: the client's key is answered |
| `Framing` | 2 relays, bytes 0 to 3, blocks of 14, 2 setup texts and 1 earlier one, one stale buffer, client memory that is clear or holds a whole block, 2 cut reads | `HopsActOnSetups` and `HopsActOnTheirOwn` while the memory was `Quiet`; `WholeReadsBuild`, `StreamKept` |

*Why the bounds are enough to meet the interesting cases.* The hazards of the
relay are about two circuits and one number: with three descriptors two clients
can never have a whole circuit each, so every failing path closes a number that
the other client's `accept` or `socket` gets next; with four, both circuits are
up together and two workers serve them. Two blocks per client make the first the
setup block and the second a forwarded one, with a window of one block the
sender blocks. `RelayNode_ownership` and `RelayNode_pipe` need two replies, because
a drop takes an unread reply (the reset) and one more. In the proxy, the accept of
either client may get the number of the closed database socket, and `MaxSockets`
of 1 lets descriptors run out with the second; a client that never writes is all
that a relay is to this program, so the instance has none besides; with three
blocks a client has a second request, which must find the first one answered. In
the database, three
requests make a signup, a signup of the same name and a login, or a login before
and after a restart, and the kills fit between any two of them; one password is plain and
one is not, so that signups of either kind meet on one name. In a circuit, three
relays are the number in the client's code: the first has only a client before it, the last
only the destination after it, the middle one neither. Three moduli give every
order between neighbours, and the answers are below all of them, as a text is
below a modulus with its top bit set. In `Startup` a queue of one connection is
full as soon as one process waits, and three processes compete for each server's
attention; one kill and two pairs reach every state the files can be left in, and
the restart after it. In `Framing` blocks
of 14 bytes hold the head and the longest text, whose length has two digits as the
real ones have; behind the shorter text there is room for a whole block, which the
client's memory may hold (`Noise`, with a text that nobody has sent). Two relays are
one that reads what the client sends and one that reads what a relay sends on; one
cut brings a relay the remainder of the setup before its own, the other cuts what
it reads next. The exception `Quiet` is needed: without it TLC finds, with one cut,
a relay that acts on the block in the client's memory, for `HopsActOnSetups` as for
`HopsActOnTheirOwn`. `SmallSpec` narrows `Init` to one stale buffer and
data that looks like the first setup; the theorems are about `Spec`.

`SYMMETRY` is used in `RelayNode_ownership`, which has no liveness property, over
constants that no definition tells apart.

### Fairness

Every loop of the code tries again at once after every turn, and every lock is
held for one queue operation, so a thread that can take a step is assumed to
take one in the end (weak fairness per thread; the threads are pre-empted, not
starved, by the operating system). In the relay the peers are further assumed to read
what they were sent: without it `send` may block a worker for ever, and the code
has no timeout. Nobody is obliged to write, close, type "quit", or restart a
process. In the proxy nothing obliges the database to answer: it may be serving a
silent relay (PythonServer/Server.py:46), and the worker that waits for it has no
timeout (DatabaseServerCommunication.cpp:36). `RequestTaken` and `KeyAnswered`
therefore name what they cannot exclude, and only if it lasts for ever (`<>[]`):
that all workers wait for the database, that the accept thread waits for a
newcomer that writes nothing. In the database server only the server's own thread
is fair. In `Startup` a process that runs takes its next step, the kernel ends every
`connect`, and a client that has connected writes its key, as the window does in
the same call; nobody is obliged to start a process, to kill one, or to send a
key that is too long. In a circuit the client, each relay and the destination are fair;
refusing, a relay's end and the arrival of a reset are not.

## 4. Proofs

`tlapm` checks these for every value of the constants, from the named
assumptions of the modules (the bounds are natural numbers; `None` and the
words used as program counters differ from clients, descriptors and requests).

**`RelayNodeProofs`: `Inductive`, `TypeCorrect`, `OwnershipCorrect`.** That each
descriptor is kept in one place is not inductive: when `accept` returns a number,
one must know that no stale copy of it is anywhere. The argument goes through
connections instead of numbers. `IInv` (in `RelayNodeInv`) says that everything
kept refers to an open descriptor of the right circuit (`EndsMatch`), that no
two descriptors refer to one end (`TableInjective`), that clients not yet
accepted have no end in the table (`NotYetAccepted`) and clients whose setup block was
not read have no next hop (`YoungHaveNoDest`), and that no circuit is in two
places (`Apart`). A fresh number is free, so nothing kept refers to it; two
places with the same number would hold the same circuit. `DescriptorOwnership`
follows.

**`RelayNodeProofs`: `KeptCorrect`.** The other half of ownership: every open
descriptor is kept somewhere. The step to follow is a number on its way from one
place to another within a step; `IInv` says whose it is at either end, and the two
ways in which the code loses one (the next hop's socket when `inet_pton` or
`connect` fails, and the conversations that `shutdown()` pops) are named in the
property.

**`RelayPipeProofs`: `PipeInvariant`, `ImplementsPipe`.** `RelayNode` implements
`RelayPipe`. The refinement mapping puts the block in a worker's hand into the
pipe, so a circuit must be in at most one worker's hands (`HandInv`), and the
mapping of its phase must change in one step: its two ends open and close
together and a circuit that is queued, or held by a worker, has both
(`PeersInv`, `EndsTogether`). These are `PipeInv`, inductive together with `IInv`.
Each action is then shown to be one step of `RelayPipe` on one circuit or a
stutter; reading a block moves it from the socket to the hand, which is a
stutter, and sending it is the abstract step. The process's end, by `SIGPIPE`,
`exit` or quit, is the abstract cut of all circuits.

**`DatabaseServerProofs`: `DatabaseTypes`, `AcknowledgedCorrect`,
`IdsCorrect`, `PlainLoginsCorrect`, `ImplementsStore`.** `AckInv` follows an answer back to its row: visible before the
commit, stored after it. `RowsInv` (names and ids are unique, and ids at most
the number of rows) is what makes the computed id fresh. `IdsCorrect` and
`PlainLoginsCorrect` are about plain texts and hold until a commit has failed
(`commitFailed`), and need it: a
failing commit leaves a row whose id is told to a user and given to somebody else
after a restart. `ImplementsStore` is the refinement of `AccountStore`: `CommitInv`
says what a signup has got ready when its commit is due, one row under a name
that is still free or a refusal, because nothing else is pending
(`IdInv`), so that the commit is one step of the store. What the
invariants say of the rows behind a success ends when a changed statement has
written (`altered`): the store then promises nothing either (`Unpromised`).

**`ProxyServerProofs`: `ProxyInductive`, `ProxyTypes`, `TurnsCorrect`,
`RequestsCorrect`, `ImplementsService`.** A peer
is accepted once (`ConnectionInv`: the kernel's queue holds each connection once
and none that was accepted), so the socket `AddTask` queues has no turn yet;
only accepted sockets are registered, and the entry is made before the turn
(`TurnInv`). TLC checks one worker, the value of `THREADS_COUNT`; the proof
covers any number. Until quit nobody closes the database's descriptor, so the
number that `AskDatabase` writes to is the database's. `ImplementsService` is the
refinement of `ProxyService`. `ConversationInv` names the five places in which a
client and the proxy can be with each other (nothing asked, a block on its way, the
key taken, a request in hand, never to be answered); it is about what the service
sees, so one lemma per step of `ProxyService` shows that it is kept, and every step
of `ProxyServer` is covered by the one it maps to. That a worker takes a request
when none of that client is in hand is `OneTurn`; that the block the accept thread
reads is the client's first one, and those the workers read are not, is what
`ConversationInv` is for.

**`OnionCircuitProofs`: `CircuitInductive`, `CircuitTypes`, `PathCorrect`,
`OnlyMessageCorrect`, `ReadableCorrect`**, for any number of relays. `OrderInv`
says that connection `h` carries `Block(h + 1)`, `Block(h + 2)`, ... from the
first not yet taken on, and that there are no more than remain; it needs
`PassedOnInv`, which ties what a relay has put on one connection to what it has
taken from the one before it, as long as the one after it is open. A relay that
was not set up has taken nothing (`TopologyInv`), so the block it takes is its own,
which gives `PathAsRequested`; only the message is left for connection `N`, which
gives `OnlyMessageLeaves`. For the reply, `Layered(i, v)` says that `v` is the
answer under the layers of relays `i..N`. `LayerOn` needs `ModuliDescend`: a
ciphertext under modulus `n` is below `n`, hence below the modulus before it, and
the call cannot fail. `LayerOff` needs only `KeysAssumption`. Steps that merely
lose something (refusals, failing sends, ended processes) are handled together
(`Losing`).

**`StartupProofs`: `StartupTypes`, `KeysCorrect`, `StableCorrect`,
`RunningCorrect`**, for any number of relays and clients, backlogs and kills. That
the two keys belong together needs to be known of the files, not of the process:
a private key is on disk only beside its own public key, and while a pair is
being written there is none (`KeyInv`). `ConnInv` follows a relay through its
constructor: until it is marked as failed it stands in each queue it has passed;
a server's step moves it forward and only the server's end takes it out.

**`FramingProofs`: `RequestRead`, `AnswerRead`, `CutRequestIgnored`,
`DatabaseAnswerOverread`**, about the writers and readers for every base, text and
block size, and **`FramingTypes`, `WholeReadsCorrect`**, about a chain of any number
of relays. The first two say that reader and writer of a channel agree,
whatever the memory behind the block holds; they rest on arithmetic of four
digits (`LengthFound`). The third says that a piece of a request in a cleared
buffer is no text: a length that was cut is zero or too large, and behind it
stand zeroes or a text that lacks its end. The fourth says what the proxy makes of
an answer of the database server: it takes its length one byte too far, finds more
than `Base` times the true one, and copies the text with what lies behind it. As
`json::parse` stops at a zero byte (json.hpp:8204-8208), it has the right text if a
zero byte lies there, and nothing if not. For the chain, `Progress` counts
the blocks that each hop has behind it: what is on its way to a hop is the part of
the stream between its count and that of the hop before it, and a hop that waits
for its setup has let nothing past but the setups of the hops before it. While
every read is whole, the read of a hop that waits returns just its own block, which
`RequestRead` decodes; the rest of its old buffer is overwritten (`Filled`).
`FramingTypes` needs no such assumption: what a relay sends is a block however much
it has read (`BlockSentOn`).

**`StreamProofs`: `StreamKeptCorrect`, `SetupsCorrect`, `TheirOwnCorrect`**, about
any number of relays and reads cut anywhere. `Spread(x, y)` says that `x` is `y` with
zeroes strewn in, by a count of the bytes of `y` among the first `i` of `x`.
`Streams(low, at)` then gives each hop two places in what the client has written:
`low[h]`, up to which it has taken everything, and `at[h]`, from which its own
read came; the link to hop `h` is spread from the part between `low[h]` and
`low[h - 1]`, and the read of hop `h` from that between `at[h]` and `at[h + 1]`. A
send lengthens the first part, a read cuts one in two (`SpreadCut`) and a relay's
send joins one half to the next (`SpreadJoin`, with `SpreadZeros` for the rest of its
buffer). Put together, the parts are what was written, and dropping zeroes from a
spread stretch and from its origin gives the same (`SpreadNonZero`): that is
`StreamKept`. For the setups, a text that is read from a clean buffer has no zero in it,
so it comes from one stretch of what was written (`SpreadRun`), and, as long as
the client's memory was `Quiet`, `OpeningAssumption` leaves only the beginnings of the
client's setups for it (`Sent`, `Occurrence`, `QuietBlocks`). `at[h] <= Start(h - 1)`, because every relay takes at most
one block, so it is the setup of `h` or of a hop before it. If all relays up to `h`
were clean, each has read beyond where its own setup begins, and what is left for
`h` begins behind those before it (`Own`).

`StreamKept` is defined by recursion over hops and bytes. The library's induction
theorems cannot be used here; `Induct` derives induction over a set of numbers from
the pigeonhole principle for finite sets (`FS_PigeonHole`), and `Recursion` from it
that the recursive functions exist and meet their equations.

*Only model-checked:* all liveness, which is out of TLAPS's reach here (fairness,
`ENABLED`). No module declares a `RECURSIVE` operator. Every safety property of a
passing run is proved.

## 5. Disagreements between the code and what it says

The violation runs of section 3, each with the line it contradicts, are the
"findings" of `PROJECT.json`. Others seen while modelling, and not run:

- the relay's `shutdown()` closes no client that is still waiting in
  `m_socketsToStartConvesrations` (Node/Server.cpp:48-49, 62);
- the database server serves one connection until it ends (Server.py:46),
  although Server.py:31 speaks of clients it listens to "simultaneously"; a
  relay that connected first and stays silent (Node/Server.cpp:10) keeps the
  proxy waiting;
- the accept thread of the proxy reads the first block of every newcomer itself
  (ProxyServer/RSAHandler.cpp:22), although Server.cpp:56 speaks of a "new thread"
  for each client: a relay that connects and stays silent keeps all later clients
  from being accepted. `KeyAnswered` excuses exactly this case, if it lasts for ever;
- a database server killed between the creation of its file and that of its
  tables (Database.py:307) finds the file when it starts again and never creates
  the tables (Database.py:12);
- the proxy never removes a client that hung up (ProxyServer/Server.cpp:136,
  ThreadPool.cpp:57), for the reason `RelayNode_disconnect` shows;
- behind the null pointer of `Proxy_login` there is another disagreement: the
  database's answers put the length at byte 0, the proxy reads it at byte 1
  (ProxyServer/JsonPacketDeserialization.cpp:141; theorem
  `DatabaseAnswerOverread`) and copies from beyond its buffer. It understands the
  answer only if a zero byte follows it there;
- the proxy's buffer has 256 bytes (ProxyServer/DataStructures.hpp:8). The JSON of a
  1024-bit public key is longer already, so the parser sees a piece of it and
  the exception ends the proxy; and 256 bytes of its own key are sent. The
  models take a key that fits as well as one that does not;
- a commit that raises is outside the `try` of `signup` (Database.py:74) and leaves
  its row in the open transaction: a later login succeeds for a user who is in no
  database. `PlainLoginOnlyForUsers` without `commitFailed` is violated by it;
- a name or a password with a quote in it changes the statement it is formatted into
  (Database.py:34, 65): `O'Brien` can neither sign up nor log in, and other such
  texts log in without an account. That a login succeeds for users only is
  therefore claimed, checked and proved of plain texts alone;
- "username exists" is told for every error of the `INSERT`, a locked file or a full
  disk included (Database.py:65-71), not only for a name that exists;
- `shutdown()` of the proxy closes the database socket while workers keep its number
  (ProxyServer/Server.cpp:44): an `accept` that has found the listening socket and has
  not yet reserved its number at that moment returns it, and a login request is
  written to a client (`AskAnotherClient`). The window is a few instructions of the
  kernel wide; any later `accept` fails;
- a setup block whose key is none leaves `m_rsa` null (Node/RSA_Communication.cpp:20),
  which nobody tests: the first reply on that circuit ends the relay and all its
  other circuits (`KilledByEncrypt`);
- `buildPath` reads into a buffer that is not initialised (Node/Server.cpp:321).
  When the read returns the beginning of a setup block only, the rest may be an
  earlier client's, and the relay acts on it: `HopsActOnTheirOwn` is violated when
  the condition on `stale` is left out. One such relay is enough to shift the
  setups of all behind it: it leaves its own in the stream, which the next takes
  for its own, and so on (`HopsActOnSetups` is what remains true);
- a process killed while it writes its keys leaves empty files, which every later
  start takes for keys (Node/RSA_Communication.cpp:151), although the comment above
  says that new keys are made.

## 6. Not modelled, and why

- **The command-line client** does not compile as committed (`buffer` is declared
  twice in one scope, ProxyClient/Client.cpp:36 and 218), and where it would run its
  requests have no handler in the proxy and its RSA object is never assigned. A
  model of it would have to invent the repairs. Its request writer is `Request` of
  `Framing`, and its circuit is the one of `OnionCircuit`.
- **Dead code**: the node registry and path selection (`SSHConnection::isNode` is
  called for a first block with `IS_NODE_CODE`, RSAHandler.cpp:27, which no program
  of the repository sends, and returns false for the want of a key), the relay's copies of the
  proxy's handlers, `communicationWithProxy`, and the methods of `Database.py` for
  guards, nodes and black lists. Nothing else that runs reaches them.
- **Partial reads outside of circuits.** `Framing` has them for setup blocks and
  data; the exchange with the proxy and the database server, where each side waits
  for the other's block, is modelled with whole blocks.
- **The bytes behind a reply's layer**: `OnionCircuit` takes the number that the
  first 128 bytes of a block encode; that a relay sends 1024 bytes from a buffer of
  128 (Node/Server.cpp:243) is below it.
- **The RSA of the login channel**, the window, the terminal, logging and SSH.
- **Vendored JSON**: four copies of one header of 26753 lines, third-party code and
  by far most of the lines of the repository. `Parsed` is what is used of it.

## 7. Plan

Done: `RelayPipe`, `RelayNode`, the proof that the one implements the other, and
those of ownership; `DatabaseServer`, `ProxyServer` and `OnionCircuit` with their
proofs, and the proofs that `DatabaseServer` implements `AccountStore` and
`ProxyServer` implements `ProxyService`; `KeyFiles`
and `Startup` with theirs; `Framing`, the theorems about its readers and writers,
those about whole reads along a chain, and those about cut ones.

What would come next: an abstract specification of a circuit, as the relay, the
proxy and the database server have them; and the command-line client, once it
compiles.
