\* Three runtimes open the store, two openings or installations fail half way.
SPECIFICATION FairSpec
CONSTANTS
  Openers = {p1, p2, p3}
  MaxFailures = 2
INVARIANTS
  TypeOK
  VersionTellsTables
  MigratedIsWhole
PROPERTIES
  StoreSettles
