SPECIFICATION Spec
CONSTANTS
  NULL = NULL
  lead = lead
  agent1 = agent1
  agent2 = agent2
  staff1 = staff1
  staff2 = staff2
  student = student
  d1 = d1
  d2 = d2
  p1 = p1
  p2 = p2
  t1 = t1
  c1 = c1
  Users = {lead, agent1}
  Active = {lead, agent1}
  Depts = {d1}
  Role <- MCRole
  DeptOf <- MCDeptOf
  Tickets = {t1}
  Procs = {p1, p2}
  Severities = {"Medium", "High"}
  Categories = {c1}
  Ops <- TriageOps
  MaxEvents = 3
  MaxComments = 1
SYMMETRY ProcSymmetry
CHECK_DEADLOCK FALSE
INVARIANTS
  AttributesMatchTrail
PROPERTIES
  ClosedIsFinal
  RecordsWhatItReplaces
