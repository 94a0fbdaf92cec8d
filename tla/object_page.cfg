SPECIFICATION Spec
CONSTANTS
  g = g
  h1 = h1
  h2 = h2
  Absent = Absent
  None = None
  Keys = {g}
  Providers = {"gcs"}
  Hosts = {h1}
  KeyLimit = 2
  MaxOps = 2
  MaxFaults = 0
  Turns = FALSE
PROPERTY AccountCleanedUp
CHECK_DEADLOCK FALSE
