SPECIFICATION Spec
CONSTANTS
  NULL = NULL
  lead = lead
  agent = agent
  clerk = clerk
  d1 = d1
  p1 = p1
  p2 = p2
  c1 = c1
  c2 = c2
  Users = {lead, clerk}
  Active = {lead, clerk}
  Depts = {d1}
  Role <- MCRole
  DeptOf <- MCDeptOf
  Tickets = {1, 2}
  Severities = {"Medium"}
  Categories = {c1, c2}
  Names = {"n1"}
  Procs = {p1, p2}
  Moves = {"close"}
  CatalogueOps = {"create", "remove", "open", "update", "assign"}
  Requesters = {lead}
  Patches <- MCPatches
  MaxTicketRequests = 1
  Readers = {"r1"}
  PageSize = 1
  MaxPage = 1
  StatusQueries <- MCStatusQueries
  Sorts = {"-severity", "-createdAt"}
  Queries = {"byCategory"}
SYMMETRY Symmetry
CHECK_DEADLOCK FALSE
INVARIANTS
  CategoriesExist
  DuplicatesNeedOverlap
  ListIsBracketed
  BlankMeansRemoved
