---------------------------- MODULE MCProxyServer ----------------------------
(* Values for the small instances of ProxyServer.                           *)
EXTENDS ProxyServer

CONSTANTS c1, c2, w1

Nobody == {}
OneClient == {c1}
TwoClients == {c1, c2}
NoRelay == {}
OneWorker == {w1}

KeysOnly == {"key"}
LoginsOnly == {"login"}
AnyKey == {"key", "malformed"}
AnyRequest == {"login", "signup", "other", "malformed"}
=============================================================================
