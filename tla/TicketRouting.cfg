SPECIFICATION Spec
CONSTANTS
  NULL = NULL
  lead = lead
  agent1 = agent1
  agent2 = agent2
  staff1 = staff1
  staff2 = staff2
  student = student
  d1 = d1
  d2 = d2
  p1 = p1
  p2 = p2
  t1 = t1
  c1 = c1
  Users = {lead, agent1, staff1, student}
  Active = {lead, agent1, staff1, student}
  Depts = {d1, d2}
  Role <- MCRole
  DeptOf <- MCDeptOf
  Tickets = {t1}
  Procs = {p1, p2}
  Severities = {"Medium"}
  Categories = {}
  Ops <- RoutingOps
  MaxEvents = 4
  MaxComments = 1
SYMMETRY ProcSymmetry
CHECK_DEADLOCK FALSE
INVARIANTS
  AuditChain
  NoSilentChange
  AuthorityWasHeld
  TheRightPeopleKnow
  PublishedIsCommitted
