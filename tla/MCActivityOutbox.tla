--------------------------- MODULE MCActivityOutbox ---------------------------
(* ActivityOutbox on small sets of writers, users and dispatchers, for TLC. *)
EXTENDS ActivityOutbox

CONSTANTS w1, w2, u1, d1, d2, c1, c2, c3

TwoWriters == {w1, w2}
OneUser == {u1}
TwoDispatchers == {d1, d2}
NoDispatcher == {}
ThreeTokens == {c1, c2, c3}
=============================================================================
