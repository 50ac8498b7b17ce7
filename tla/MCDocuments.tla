---------------------------- MODULE MCDocuments ----------------------------
EXTENDS Documents, TLC

CONSTANTS d1, d2, d3, b1, f1, f2

MCDocs  == {d1, d2, d3}
MCBlobs == {b1}
\* A photo with the word in the first field, the word in the second field, and a
\* body a containment filter leaves out.
MCBodies ==
  { [blobs |-> {b1}, has |-> {f1}, match |-> TRUE, trust |-> "trusted"],
    [blobs |-> {}, has |-> {f2}, match |-> TRUE, trust |-> "untrusted"],
    [blobs |-> {}, has |-> {}, match |-> FALSE, trust |-> "trusted"] }
Symm == Permutations(MCDocs)
=============================================================================
