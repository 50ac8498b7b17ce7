--------------------------- MODULE MCBlobCatalog ---------------------------
EXTENDS BlobCatalog, TLC

CONSTANTS h1, o1, o2, s1, s2, p1, p2, m1, m2

MCOneHash == {h1}
MCOwners == {o1, o2}
MCSources == {s1, s2}
MCProducers == {p1, p2}
MCMovers == {m1, m2}

Cast(ps, ms, rs, d) == [producers |-> ps, movers |-> ms, refs |-> rs, catalog |-> d]

\* Producers alone, and one of them for one owner beside relocators, before
\* and after the catalog is bound to the destination.
MCCasts ==
  {Cast(MCProducers, {}, Refs, Src)} \cup
  {Cast({p}, MCMovers, {k \in Refs : k.owner = o1}, d) : p \in MCProducers, d \in {Src, Dst}}

\* Init fixes ref and target by a CHOOSE over Refs and Hashes, so only producers
\* and relocators are exchanged.
MCSymmetry == Permutations(MCProducers) \cup Permutations(MCMovers)
=============================================================================
