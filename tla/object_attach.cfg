SPECIFICATION FairSpec
CONSTANTS
  g = g
  h1 = h1
  h2 = h2
  Absent = Absent
  None = None
  Keys = {g}
  Providers = {"s3", "gcs"}
  Hosts = {h1, h2}
  KeyLimit = 2
  MaxOps = 3
  MaxFaults = 1
  Turns = FALSE
CHECK_DEADLOCK FALSE
INVARIANT KeysOpenS3
