SPECIFICATION Spec
CONSTANTS
  Users = {"a1", "a2"}
  Agents = {"a1", "a2"}
  Procs = {"p1", "p2"}
  Instances = {"i1"}
  InstanceOf <- OneInstance
  Holidays = {}
  MaxNotes = 2
  PageSize = 100
  Ops = {}
  MaxDays = 2
  MaxRestarts = 1
  MaxFailures = 1
CHECK_DEADLOCK FALSE
INVARIANTS
  OncePerLife
  KeysAreAnswered
