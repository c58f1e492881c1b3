------------------------------ MODULE MCFraming ------------------------------
(* Values for the small instance of Framing: 1 is the byte that opens a     *)
(* text, 2 and 3 what follows it.  With bytes 0 to 3, a length of 4 is      *)
(* written <<0, 0, 1, 0>>: two digits, one of which looks like an opening.  *)
EXTENDS Framing

SmallTexts == {<<1, 3>>, <<1, 1>>, <<1, 2, 2, 2>>, <<1, 2, 2, 3>>}

SmallSetups == {<<1, 3>>, <<1, 2, 2, 2>>}

OneEarlier == {<<1, 2, 2, 3>>}

\* Memory that is clear, and memory that holds a whole block, of a setup that
\* nobody has sent.
Noise == <<2, 3, 2, 3, 2, 3, 2>> \o Request(0, <<1, 1>>)

AnyMemory == {[i \in 1..14 |-> 0], Noise}

\* Bounds: the data looks like the first setup, and one relay at most has an
\* earlier client's block in its buffer.
SmallInit ==
    /\ Init
    /\ plan[Hops + 1] = plan[1]
    /\ \A g, h \in Relays : Clean(g) \/ Clean(h) \/ g = h

SmallSpec == SmallInit /\ [][Next]_vars
=============================================================================
