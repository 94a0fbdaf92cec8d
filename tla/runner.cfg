SPECIFICATION FairSpec
CONSTANTS
  ci = ci
  Absent = Absent
  None = None
  Keys = {ci}
  Replicas = {1, 2}
  TLS = TRUE
  MaxOps = 3
  MaxFail = 1
  MaxCrash = 1
INVARIANT MountsCA
INVARIANT ProvisionedHasChildren
PROPERTY BecomesReady
PROPERTY RunnerConverges
CHECK_DEADLOCK FALSE
