SPECIFICATION Spec
CONSTANTS
  w1 = w1
  w2 = w2
  local = local
  Absent = Absent
  None = None
  Batches <- MCBatches
  Provider = "zalando"
  Valkey = TRUE
  TLS = TRUE
  Prometheus = TRUE
  NamedGitea = TRUE
  Settings = {w1, w2}
  Domains = {local}
  Tracked = {"ApiToken", "DatabaseReady"}
  Removable = {"role"}
  MaxOps = 2
  MaxFail = 1
  MaxCrash = 1
  MaxDown = 0
INVARIANT TypeOK
INVARIANT ReadyHasChildren
INVARIANT PodsHaveMounts
INVARIANT TokenTruth
PROPERTY NothingTakenBack
CHECK_DEADLOCK FALSE
