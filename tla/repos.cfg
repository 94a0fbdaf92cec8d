SPECIFICATION FairSpec
CONSTANTS
  site = site
  c1 = c1
  c2 = c2
  Absent = Absent
  NoRepo = NoRepo
  Keys = {site}
  Contents = {c1}
  RepoSpecs <- MCRepoSpecs
  MigrateSpecs <- MCMigrateSpecs
  MaxOps = 3
  MaxFail = 1
  MaxCrash = 1
INVARIANT OneHolder
PROPERTY DeletesOnlyAsked
PROPERTY FinalizersGuard
PROPERTY RepoMade
PROPERTY Migrated
CHECK_DEADLOCK FALSE
