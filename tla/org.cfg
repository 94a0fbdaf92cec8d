SPECIFICATION FairSpec
CONSTANTS
  acme = acme
  p1 = p1
  p2 = p2
  devs = devs
  owners = owners
  alice = alice
  s1 = s1
  s2 = s2
  Absent = Absent
  NoTeam = NoTeam
  NoOrg = NoOrg
  Keys = {acme}
  Profiles = {p1, p2}
  Unset = {p1}
  Teams = {devs, owners}
  Settings = {s1, s2}
  Members = {alice}
  Specs <- MCSpecs
  Owners = owners
  PageSize = 2
  MaxOps = 3
  MaxFail = 1
  MaxCrash = 1
INVARIANT TypeOK
INVARIANT ProvisionedHasOrg
PROPERTY ImplementsManaged
PROPERTY OrgDeleted
PROPERTY ProfileConverges
PROPERTY TeamsConverge
CHECK_DEADLOCK FALSE
