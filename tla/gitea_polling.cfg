SPECIFICATION FairSpec
CONSTANTS
  w1 = w1
  w2 = w2
  local = local
  Absent = Absent
  None = None
  Batches <- MCBatches
  Provider = "cnpg"
  Valkey = TRUE
  TLS = FALSE
  Prometheus = FALSE
  NamedGitea = TRUE
  Settings = {w1}
  Domains = {local}
  Tracked = {"DatabaseReady"}
  Removable = {}
  MaxOps = 1
  MaxFail = 0
  MaxCrash = 0
  MaxDown = 0
PROPERTY DependenciesPolled
CHECK_DEADLOCK FALSE
