SPECIFICATION Spec
CONSTANTS
  Replicas = {r1, r2}
  NoHolder = NoHolder
  Kinds = {"retention", "deletion", "refresh"}
  RunTimeout = 2
  Slack = 1
  JobInterval = 1
  RetryDelays = {1}
  CloseTimeout = 1
  MaxJobFaults = 1
  Callers = {c1, c2, c3}
  Entries = {e1, e2}
  None = None
  Modules = {m1, m2, m3}
  Workers = {w1, w2}
  BatchLimit = 2
  MaxMishaps = 1
  Servers = {s1, s2}
  NoServer = NoServer
  ReleaseRows = {1, 2}
  LegacyTokens <- TokensOfTwoTeams
  OIDCMappings = {1}
  CurrentVersion = 7
  BatchSize = 1
  MaxOpenFaults = 1
INVARIANTS OneCleaner StoreOutlivesWorkers CyclesAreWhole SchemaIsWhole
PROPERTIES LeaseOnlyGivenBack NeverDowngraded LockKeepsPromise EverybodyGoesOn
