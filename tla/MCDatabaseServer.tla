--------------------------- MODULE MCDatabaseServer ---------------------------
(* Values for the small instance of DatabaseServer: a plain password and one   *)
(* with a quote in it.                                                         *)
EXTENDS DatabaseServer

CONSTANTS p1, r1, alice, bob, pw1, quote

OneProxy == {p1}
OneRelay == {r1}
TwoNames == {alice, bob}
TwoPasswords == {pw1, quote}
QuotedPassword == {quote}
TwoIds == {0, 2}
=============================================================================
