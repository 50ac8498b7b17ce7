--------------------------- MODULE MCEventStream ---------------------------
EXTENDS EventStream, TLC

CONSTANTS e1, e2, c1
MCEvents == {e1, e2}
MCClients == {c1}
MCSymmetry == Permutations(MCEvents)
=============================================================================
