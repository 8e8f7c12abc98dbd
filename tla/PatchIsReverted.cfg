SPECIFICATION HSpec
CONSTANTS
  NULL = NULL
  a1 = a1
  u1 = u1
  u2 = u2
  e1 = e1
  e2 = e2
  e3 = e3
  g1 = g1
  d1 = d1
  p1 = p1
  p2 = p2
  Ids = {a1, u1}
  Emails = {e1, e2}
  GoogleAccounts = {g1}
  GoogleEmail <- MCGoogleKnown
  Depts = {d1}
  Roles = {"DeptStaff", "SV"}
  SetsPassword = {TRUE}
  Seed <- MCSeed
  Procs = {p1, p2}
  Ops <- StaffOps
SYMMETRY ProcSymmetry
CHECK_DEADLOCK FALSE
PROPERTIES
  OnlyAdminsChangeRoles
