SPECIFICATION FairSpec
CONSTANTS
  acme = acme
  site = site
  p1 = p1
  owners = owners
  s1 = s1
  c1 = c1
  Absent = Absent
  NoTeam = NoTeam
  NoOrg = NoOrg
  NoRepo = NoRepo
  Orgs = {acme}
  Home = acme
  Profiles = {p1}
  Unset = {}
  Teams = {owners}
  Settings = {s1}
  Members = {}
  OrgSpecs <- MCOrgSpecs
  Owners = owners
  PageSize = 1
  RepoKeys = {site}
  Contents = {c1}
  RepoSpecs <- MCRepoSpecs
  MaxOps = 4
  MaxFail = 0
  MaxCrash = 1
INVARIANT OrgOutlivesRepos
PROPERTY RepoTornDown
PROPERTY Mirrored
CHECK_DEADLOCK FALSE
