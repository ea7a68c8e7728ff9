\* Requests of people and restarts of the gateway cross.
CONSTANTS
  Rows <- MCRows
  p1 = p1
  p2 = p2
  Phones = {p1, p2}
  Requests = {r1, r2}
  Codes = {c1, c2, c3}
  Channels = {"own", "verify"}
  MaxSends = 1
  MaxAttempts = 2
  None = none
  Wrong = wrong
  Emails = {e1}
  Roles = {"RIDER", "DRIVER"}
  Jobs = {j1, j2}
  MaxOpened = 2
  Traffics <- MCTraffics
SPECIFICATION AccountsSpec
PROPERTIES
  NumberWasProven
  OneAccountPerWriter
  WriterIsBanked
CHECK_DEADLOCK FALSE
