SPECIFICATION Spec
SYMMETRY Symmetry
CONSTANTS
  Downloads = {q1, q2}
  UsageKeys = {1, 2}
  MaxUsageEntries = 1
  UsageInterval = 2
  UsageRetention = 2
  MaxTime = 4
  Requests = {q1, q2}
  Clients = {1, 2}
  Limit = 2
  Window = 3
  MaxKeys = 1
  CountDelay = 1
  Handlers = {q1, q2}
  CacheKeys = {1, 2, 3}
  Sizes = {1, 2, 4}
  MaxEntries = 2
  MaxBytes = 3
  TTL = 1
  MaxStale = 1
  Latency = 1
  Visits = {q1, q2}
  SessionIds = {1, 2}
  StateIds = {1}
  Authors = {q1, q2}
  core = core
  web = web
  spare = spare
  ops = ops
  staff = staff
  Teams = {core, web}
  Extras = {spare}
  Claims = {ops, staff}
  Forms <- OneClaim
  NoTeam = NoTeam
  BootstrapToken = FALSE
  InitialConfigs <- Configurations
  MaxChanges = 2
INVARIANTS PassedOverOnlyIfNoted TwiceTheLimit TablesBounded AnswersInTime StateOpensOneSession OnlyLiveSessionsAct
PROPERTY NobodyReachesBeyond
