CONSTANTS
  m = m  n = n  c1 = c1  c2 = c2  x1 = x1  x2 = x2  x3 = x3
  Syncs = {s1, s2, s3}
  Keys = {k1}
  Settings = {m}
  Commits = {c1, c2}
  Trees = {x1, x2, x3}
  TreeOf <- MCTreeOf
  None = None
  RetainedSyncs = 0
  RetainedAliases = 1
  MaxRevision = 2
  MaxStops = 1
  MaxPushes = 1
  MaxFailures = 1
  MaxLost = 1
  MaxTroubles = 2

SPECIFICATION FairSpec
INVARIANTS
  TypeOK
  OneActive
  HistoryKept
  InstalledConsistent
PROPERTIES
  ConfigurationFollowsCatalog
  SyncsEnd
  Converges
