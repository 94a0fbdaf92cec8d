SPECIFICATION FairSpec
CONSTANTS
  default = default
  certManager = certManager
  alice = alice
  bob = bob
  p1 = p1
  p2 = p2
  key1 = key1
  key2 = key2
  Absent = Absent
  NoAccount = NoAccount
  NoKey = NoKey
  Namespaces = {default}
  Names = {alice, bob}
  Profiles = {p1}
  SSHKeys = {key1}
  Specs <- MCSpecs
  Rank <- MCRank
  PageSize = 1
  MaxOps = 3
  MaxFail = 1
  MaxCrash = 1
INVARIANT TypeOK
INVARIANT ProvisionedHasAccount
PROPERTY FinalizerGuards
PROPERTY DeletesOnlyAsked
PROPERTY ImplementsManaged
PROPERTY AdminConverges
PROPERTY AccountDeleted
PROPERTY KeysConverge
PROPERTY ImportsComplete
CHECK_DEADLOCK FALSE
