------------------------------- MODULE Startup -------------------------------
(***************************************************************************)
(* How the processes of the network find each other: the database server,  *)
(* which serves one connection until it ends; the proxy, which connects to *)
(* it and then reads the first block of each newcomer in turn; the relays, *)
(* which connect to both, make their keys, stay silent and end if a        *)
(* connection failed; the clients, which connect to the proxy and send it  *)
(* their key.  Any process may be killed and started again.                *)
(*                                                                         *)
(* A process has one connection to each server at most.  It stands in the  *)
(* server's queue under the name of the process, and under None once that  *)
(* process is gone, as the kernel keeps what the peer has closed.          *)
(***************************************************************************)
EXTENDS KeyFiles, Sequences, FiniteSets

CONSTANTS
    Proxy, Relays, Clients, Database,
    DbBacklog, ProxyBacklog,    \* connections the kernel queues for accept
    MaxKills,                   \* bound: processes killed or aborted
    InOrder,                    \* started as README.md:34-43 tells
    None

ASSUME ProcsAssumption ==
    /\ Procs = Relays \cup {Proxy}
    /\ Proxy \notin Relays /\ Procs \cap Clients = {}
    /\ Database \notin Procs \cup Clients /\ None \notin Procs \cup Clients

ASSUME BoundsAssumption ==
    DbBacklog \in Nat /\ ProxyBacklog \in Nat /\ MaxKills \in Nat /\ InOrder \in BOOLEAN

VARIABLES
    dbUp, dbQ, dbConn,  \* the database server: listening, its queue, whom it serves
    pc,                 \* [Procs -> where its main thread is]
    failed,             \* relays one of whose connections failed
    proxyQ, asock,      \* the proxy's queue and the newcomer it reads from
    client,             \* [Clients -> state]
    kills, killed       \* number of kills, and who was killed ever

dbVars == <<dbUp, dbQ, dbConn>>
proxyVars == <<proxyQ, asock>>
relayVars == <<pc, failed>>
vars == <<keyVars, dbVars, relayVars, proxyVars, client, kills, killed>>

Init ==
    /\ KeyInit
    /\ dbUp = FALSE /\ dbQ = <<>> /\ dbConn = None
    /\ pc = [p \in Procs |-> "off"] /\ failed = {}
    /\ proxyQ = <<>> /\ asock = None
    /\ client = [c \in Clients |-> "off"]
    /\ kills = 0 /\ killed = {}

Goto(p, from, to) == pc[p] = from /\ pc' = [pc EXCEPT ![p] = to]

ProxyUp == pc[Proxy] \in {"accept", "readKey"}

\* Mutant: the server does not see that the peer it serves is gone.
LeftUnnoticed(s, p) == s

\* What remains of p in a queue, or in the place of the one being served.
Without(q, p) == [i \in DOMAIN q |-> IF q[i] = p THEN None ELSE q[i]]
Left(s, p) == IF s = p THEN None ELSE s

\* Killed from outside, or by an exception that nobody catches.
Kill(x) ==
    /\ kills < MaxKills
    /\ kills' = kills + 1
    /\ killed' = killed \cup {x}

------------------------------------------------------------------------------
(* The database server: PythonServer/Server.py.                            *)

StartDatabase ==
    /\ ~dbUp
    /\ dbUp' = TRUE
    /\ UNCHANGED <<keyVars, dbQ, dbConn, relayVars, proxyVars, client, kills, killed>>

\* A connection whose peer is gone is closed at once; another is served, and
\* the next accepted, only when its peer is gone.
ServeNext ==
    /\ dbUp /\ dbConn = None /\ dbQ # <<>>
    /\ dbConn' = Head(dbQ)
    /\ dbQ' = Tail(dbQ)
    /\ UNCHANGED <<keyVars, dbUp, relayVars, proxyVars, client, kills, killed>>

\* connect() to the database server: completed by the kernel, refused, or
\* given up when the queue stays full.
ConnectDatabase(p) ==
    /\ dbUp /\ Len(dbQ) < DbBacklog
    /\ dbQ' = Append(dbQ, p)
    /\ UNCHANGED <<dbUp, dbConn>>

DatabaseUnreachable == ~dbUp \/ Len(dbQ) = DbBacklog

------------------------------------------------------------------------------
(* The proxy: Server::Server and bindAndListen.                            *)

StartProxy ==
    /\ InOrder => dbUp
    /\ Goto(Proxy, "off", "keys")
    /\ Enter(Proxy)
    /\ UNCHANGED <<dbVars, failed, proxyVars, client, kills, killed>>

ProxyKeys ==
    /\ pc[Proxy] = "keys"
    /\ KeyWork(Proxy) /\ kpc[Proxy] # "load"
    /\ UNCHANGED <<dbVars, relayVars, proxyVars, client, kills, killed>>

\* Whether the connection was made is not looked at.
ProxyConnects ==
    /\ Goto(Proxy, "keys", "accept")
    /\ kpc[Proxy] = "load"
    /\ \/ ConnectDatabase(Proxy)
       \/ DatabaseUnreachable /\ UNCHANGED dbVars
    /\ UNCHANGED <<keyVars, failed, proxyVars, client, kills, killed>>

ProxyAccepts ==
    /\ Goto(Proxy, "accept", "readKey")
    /\ proxyQ # <<>>
    /\ asock' = Head(proxyQ)
    /\ proxyQ' = Tail(proxyQ)
    /\ UNCHANGED <<keyVars, dbVars, failed, client, kills, killed>>

\* The newcomer has written its key: the proxy reads its own and answers.
ProxyAnswers ==
    /\ Goto(Proxy, "readKey", "accept")
    /\ asock \in Clients /\ client[asock] = "waiting"
    /\ client' = [client EXCEPT ![asock] = "answered"]
    /\ asock' = None
    /\ Load(Proxy)
    /\ UNCHANGED <<dbVars, failed, proxyQ, kills, killed>>

\* Mutant: the end of the connection is not noticed.
ProxyReadsOn ==
    /\ pc[Proxy] = "readKey" /\ asock = None
    /\ UNCHANGED vars

\* The newcomer is gone: read returns 0, or the key it had written.
ProxyReadsEnd ==
    /\ Goto(Proxy, "readKey", "accept")
    /\ asock = None
    /\ UNCHANGED keyVars \/ Load(Proxy)
    /\ UNCHANGED <<dbVars, failed, proxyVars, client, kills, killed>>

\* Its clients read the end of the connection and give up.
ProxyEnds ==
    /\ pc' = [pc EXCEPT ![Proxy] = "off"]
    /\ Forget(Proxy)
    /\ dbQ' = Without(dbQ, Proxy) /\ dbConn' = Left(dbConn, Proxy)
    /\ proxyQ' = <<>> /\ asock' = None
    /\ client' = [c \in Clients |-> "off"]
    /\ UNCHANGED <<dbUp, failed>>

\* Mutant: the exception is caught and the next newcomer accepted; this one is
\* neither closed nor handed to the pool.
ProxyAbortsCaught ==
    /\ Goto(Proxy, "readKey", "accept")
    /\ asock # None => asock \in Clients /\ client[asock] = "waiting"
    /\ UNCHANGED <<keyVars, dbVars, failed, proxyVars, client, kills, killed>>

\* A key that does not fit in the proxy's buffer of 256 bytes cannot be parsed,
\* and nobody catches the exception.  One that is gone may have written such.
ProxyAborts ==
    /\ pc[Proxy] = "readKey" /\ Kill(Proxy)
    /\ asock # None => asock \in Clients /\ client[asock] = "waiting"
    /\ ProxyEnds

------------------------------------------------------------------------------
(* A relay: Server::Server and main.                                       *)

StartRelay(r) ==
    /\ InOrder => ProxyUp
    /\ Goto(r, "off", "database")
    /\ failed' = failed \ {r}
    /\ UNCHANGED <<keyVars, dbVars, proxyVars, client, kills, killed>>

RelayConnectsDatabase(r) ==
    /\ Goto(r, "database", "proxy")
    /\ \/ ConnectDatabase(r) /\ UNCHANGED failed
       \/ DatabaseUnreachable /\ failed' = failed \cup {r} /\ UNCHANGED dbVars
    /\ UNCHANGED <<keyVars, proxyVars, client, kills, killed>>

\* Mutant: connect is repeated until it succeeds.
RelayAwaitsProxy(r) ==
    /\ Goto(r, "proxy", "keys")
    /\ ProxyUp /\ Len(proxyQ) < ProxyBacklog
    /\ proxyQ' = Append(proxyQ, r)
    /\ Enter(r)
    /\ UNCHANGED <<dbVars, failed, asock, client, kills, killed>>

RelayConnectsProxy(r) ==
    /\ Goto(r, "proxy", "keys")
    /\ \/ /\ ProxyUp /\ Len(proxyQ) < ProxyBacklog
          /\ proxyQ' = Append(proxyQ, r) /\ UNCHANGED failed
       \/ /\ ~ProxyUp \/ Len(proxyQ) = ProxyBacklog
          /\ failed' = failed \cup {r} /\ UNCHANGED proxyQ
    /\ Enter(r)
    /\ UNCHANGED <<dbVars, asock, client, kills, killed>>

RelayKeys(r) ==
    /\ pc[r] = "keys"
    /\ kpc[r] # "ready" /\ KeyWork(r)
    /\ UNCHANGED <<dbVars, relayVars, proxyVars, client, kills, killed>>

\* Mutant: the results of the connects are not looked at, as in the proxy.
RelayRunsAnyway(r) ==
    /\ kpc[r] = "ready"
    /\ Goto(r, "keys", "running")
    /\ UNCHANGED <<keyVars, dbVars, failed, proxyVars, client, kills, killed>>

RelayRuns(r) ==
    /\ kpc[r] = "ready" /\ r \notin failed
    /\ Goto(r, "keys", "running")
    /\ UNCHANGED <<keyVars, dbVars, failed, proxyVars, client, kills, killed>>

\* The process is gone, and with it its ends of the connections.
RelayEnds(r) ==
    /\ pc' = [pc EXCEPT ![r] = "off"]
    /\ Forget(r)
    /\ dbQ' = Without(dbQ, r) /\ dbConn' = Left(dbConn, r)
    /\ proxyQ' = Without(proxyQ, r) /\ asock' = Left(asock, r)
    /\ UNCHANGED <<dbUp, failed, client>>

\* The constructor throws, and main returns.
RelayThrows(r) ==
    /\ pc[r] = "keys" /\ kpc[r] = "ready" /\ r \in failed
    /\ RelayEnds(r)
    /\ UNCHANGED <<kills, killed>>

\* Each circuit has an RSA_Communication of its own, which looks for the files.
RelayBuildsPath(r) ==
    /\ pc[r] = "running"
    /\ IF kpc[r] = "ready" THEN Enter(r) ELSE KeyWork(r)
    /\ UNCHANGED <<dbVars, relayVars, proxyVars, client, kills, killed>>

------------------------------------------------------------------------------
(* A client: ClientGUI/main.py.                                            *)

ClientConnects(c) ==
    /\ client[c] = "off"
    /\ InOrder => \A r \in Relays : pc[r] = "running"
    /\ ProxyUp /\ Len(proxyQ) < ProxyBacklog
    /\ proxyQ' = Append(proxyQ, c)
    /\ client' = [client EXCEPT ![c] = "connected"]
    /\ UNCHANGED <<keyVars, dbVars, relayVars, asock, kills, killed>>

ClientWrites(c) ==
    /\ client[c] = "connected"
    /\ client' = [client EXCEPT ![c] = "waiting"]
    /\ UNCHANGED <<keyVars, dbVars, relayVars, proxyVars, kills, killed>>

------------------------------------------------------------------------------
(* Kills.                                                                  *)

KillDatabase ==
    /\ dbUp /\ Kill(Database)
    /\ dbUp' = FALSE /\ dbQ' = <<>> /\ dbConn' = None
    /\ UNCHANGED <<keyVars, relayVars, proxyVars, client>>

KillProxy ==
    /\ pc[Proxy] # "off" /\ Kill(Proxy)
    /\ ProxyEnds

KillRelay(r) ==
    /\ pc[r] # "off" /\ Kill(r)
    /\ RelayEnds(r)

KillClient(c) ==
    /\ client[c] # "off" /\ Kill(c)
    /\ client' = [client EXCEPT ![c] = "off"]
    /\ proxyQ' = Without(proxyQ, c) /\ asock' = Left(asock, c)
    /\ UNCHANGED <<keyVars, dbVars, relayVars>>

------------------------------------------------------------------------------
ProxyWorks == ProxyKeys \/ ProxyConnects \/ ProxyAccepts \/ ProxyAnswers \/ ProxyReadsEnd

RelayStarts(r) ==
    RelayConnectsDatabase(r) \/ RelayConnectsProxy(r) \/ RelayKeys(r) \/ RelayRuns(r)
        \/ RelayThrows(r)

Next ==
    \/ StartDatabase \/ ServeNext \/ KillDatabase
    \/ StartProxy \/ ProxyWorks \/ ProxyAborts \/ KillProxy
    \/ \E r \in Relays : StartRelay(r) \/ RelayStarts(r) \/ RelayBuildsPath(r) \/ KillRelay(r)
    \/ \E c \in Clients : ClientConnects(c) \/ ClientWrites(c) \/ KillClient(c)

Spec == Init /\ [][Next]_vars

\* A process that runs does its next step; the kernel ends every connect.
\* A key need not be too long.
\* Nobody is obliged to start a process or to kill one.
Fairness ==
    /\ WF_vars(ServeNext) /\ WF_vars(ProxyWorks)
    /\ \A r \in Relays : WF_vars(RelayStarts(r))
    /\ \A c \in Clients : WF_vars(ClientWrites(c))

FairSpec == Spec /\ Fairness

------------------------------------------------------------------------------
(* Properties.                                                             *)

InQueue(q, p) == \E i \in DOMAIN q : q[i] = p

\* Types, and whom each server can have in its hands.
TypeOK ==
    /\ KeyTypeOK
    /\ dbUp \in BOOLEAN
    /\ dbQ \in Seq(Procs \cup {None}) /\ dbConn \in Procs \cup {None}
    /\ pc \in [Procs -> {"off", "keys", "accept", "readKey", "database", "proxy", "running"}]
    /\ failed \subseteq Relays
    /\ proxyQ \in Seq(Relays \cup Clients \cup {None})
    /\ asock \in Relays \cup Clients \cup {None} /\ (asock # None => pc[Proxy] = "readKey")
    /\ client \in [Clients -> {"off", "connected", "waiting", "answered"}]
    /\ kills \in 0..MaxKills /\ killed \subseteq Procs \cup Clients \cup {Database}

AtDatabase(p) == dbConn = p \/ InQueue(dbQ, p)
AtProxy(p) == asock = p \/ InQueue(proxyQ, p)

\* A relay that runs has its connection to either server, unless that server
\* was killed: its constructor gave up otherwise (Node/Server.cpp:10-22).
RunningIsConnected ==
    \A r \in Relays : pc[r] = "running" =>
        /\ AtDatabase(r) \/ Database \in killed
        /\ AtProxy(r) \/ Proxy \in killed

\* A relay's start comes to an end, whatever the servers do (node.cpp:19-28).
StartEnds == \A r \in Relays : (pc[r] = "database") ~> (pc[r] \in {"running", "off"})

\* A client that has written is answered, or its connection ends, unless the
\* proxy ends up reading for ever from a relay, which writes nothing
\* (ProxyServer/Server.cpp:101-119).
AnsweredOrBehindRelay ==
    \A c \in Clients :
        \/ (client[c] = "waiting") ~> (client[c] \in {"answered", "off"})
        \/ <>[](asock \in Relays)

\* The proxy's connection comes to be served, or ends, unless a relay ends up
\* having the database server to itself for ever (PythonServer/Server.py:41-46).
ProxyServedOrBehindRelay ==
    \/ InQueue(dbQ, Proxy) ~> ~InQueue(dbQ, Proxy)
    \/ <>[](dbConn \in Relays)

\* README.md:8: the proxy is there "to communicate with the client".
ClientAnswered ==
    \A c \in Clients : (client[c] = "waiting") ~> (client[c] \in {"answered", "off"})
=============================================================================
