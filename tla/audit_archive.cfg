CONSTANTS
  u1 = u1
  u2 = u2
  w1 = w1
  w2 = w2
  Users = {u1, u2}
  Workspaces = {w1, w2}
  Founded = {w1}
  Founder <- MCFounder
  OrgOf <- MCOrgOf
  Granted = {"admin", "viewer"}
  AdminRequests = {q1, q2}
  RetentionDays = 0
  GraceDays = 0
  MaxRows = 2
  MaxClock = 2
  Nobody = Nobody
SPECIFICATION GovSpec
INVARIANT ArchivesVerify
CHECK_DEADLOCK FALSE
