---------------------------- MODULE MCOnionCircuit ----------------------------
(* Values for model checking OnionCircuit: moduli 3*5, 3*11 and 5*11.      *)
EXTENDS OnionCircuit

Key15 == [n |-> 15, e |-> 3, d |-> 3]
Key33 == [n |-> 33, e |-> 3, d |-> 7]
Key55 == [n |-> 55, e |-> 3, d |-> 27]

ThreeKeys == {Key15, Key33, Key55}
TwoBodies == {2, 7}
TwoValues == {0, 40}
NoHop == {}
AnyHop == 1..Destination
AnyRelay == Relays
=============================================================================
