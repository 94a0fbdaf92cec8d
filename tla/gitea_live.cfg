SPECIFICATION MCSpec
CONSTANTS
  w1 = w1
  w2 = w2
  local = local
  Absent = Absent
  None = None
  Batches <- MCBatches
  Provider = "cnpg"
  Valkey = FALSE
  TLS = FALSE
  Prometheus = FALSE
  NamedGitea = TRUE
  Settings = {w1}
  Domains = {local}
  Tracked = {}
  Removable = {"db", "role"}
  MaxOps = 1
  MaxFail = 1
  MaxCrash = 2
  MaxDown = 2
PROPERTY ChildrenRestored
 
PROPERTY BecomesReady
CHECK_DEADLOCK FALSE
