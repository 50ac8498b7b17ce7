SPECIFICATION CatalogSpec
CONSTANTS
  h1 = h1
  o1 = o1
  o2 = o2
  s1 = s1
  s2 = s2
  p1 = p1
  p2 = p2
  Hashes <- MCOneHash
  Owners <- MCOwners
  Sources <- MCSources
  Producers <- MCProducers
  m1 = m1
  m2 = m2
  Movers <- MCMovers
  Src = src
  Dst = dst
  Casts <- MCCasts
  OneWriter = TRUE
  NoOne = NoOne
  Sweeper = Sweeper
  MaxCrashes = 1
SYMMETRY MCSymmetry
INVARIANTS
  HeldIsReadable
  LiveHasBytes
  TrustIsVouchedFor
