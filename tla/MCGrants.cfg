SPECIFICATION Spec
CONSTANTS
  Users = {"ana", "bo"}
  Orgs = {"co"}
  Founder = "ana"
  AIs <- MCAIs
  Owner <- MCOwner
  Offers <- MCOffers
  Lineage <- MCLineage
  Readers <- MCReaders
  Installs = {"i1", "i2"}
  Disabled = {"old"}
  MaxGrants = 3
  MaxClock = 1
INVARIANTS
  NarrowedStaysNarrowed
  
PROPERTY
  NoWriterGains
CHECK_DEADLOCK FALSE
