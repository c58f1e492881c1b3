------------------------------ MODULE MCStartup ------------------------------
(* Values for the small instances of Startup.                              *)
EXTENDS Startup

CONSTANTS r1, r2, c1

OneRelay == {r1}
TwoRelays == {r1, r2}
OneClient == {c1}
TwoProcs == {r1, Proxy}
ThreeProcs == {r1, r2, Proxy}
=============================================================================
