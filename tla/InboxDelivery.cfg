SPECIFICATION InboxSpec
CONSTANTS
  Users = {"u1", "u2"}
  Procs = {"p1", "p2"}
  MaxNotes = 2
  PageSize = 1
  Ops = {"act", "markRead", "readAll", "deleteAll"}
CHECK_DEADLOCK FALSE
INVARIANTS
  TypeOK
  NoPhantomNews
PROPERTIES
  OnlyTheOwner
  UnreadIsShown
