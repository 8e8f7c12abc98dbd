----------------------------- MODULE Transitions -----------------------------
(***************************************************************************)
(* The ticket state machine as data (src/src/lib/transitions.ts): for each *)
(* action the statuses it is allowed from and the roles that may call it,  *)
(* with the per-ticket checks of assertCanPerform layered on top, and the  *)
(* visibility rule of src/src/lib/scoping.ts.                              *)
(*                                                                         *)
(* The user directory is fixed here: Role and DeptOf are the values the    *)
(* session carries, Active the users with isActive = true.                 *)
(***************************************************************************)
CONSTANTS
  Users,      \* user ids
  Depts,      \* department ids
  NULL,       \* the SQL null
  Role,       \* Role[u]: the role of user u
  DeptOf,     \* DeptOf[u]: the department of user u, or NULL
  Active      \* the users who are not deactivated

Roles ==
  {"SV", "GV", "NV", "HelpdeskLead", "HelpdeskAgent", "DeptStaff", "Admin"}

ASSUME NullAssumption == NULL \notin Users /\ NULL \notin Depts
ASSUME DirectoryAssumption ==
  /\ Role \in [Users -> Roles]
  /\ DeptOf \in [Users -> Depts \cup {NULL}]
  /\ Active \subseteq Users

OpenStatus ==
  {"Pending", "Assigned", "InProgress", "CloseRequested", "RedirectRequested"}
Status == OpenStatus \cup {"Closed"}

-----------------------------------------------------------------------------
Helpdesk == {"HelpdeskLead", "HelpdeskAgent"}

Rule(from, to, roles) == [allowedFrom |-> from, to |-> to, baseRoles |-> roles]

\* to = NULL where the action does not decide the status. The handlers write
\* their status literally and never read .to (module TicketService does too).
TRANSITIONS ==
  LET open == {"Pending", "Assigned", "InProgress"}
      routed == {"Assigned", "InProgress"}
      staff == {"DeptStaff"}
  IN
  [ assign           |-> Rule(open, NULL, {"HelpdeskLead"}),
    forward          |-> Rule({"Pending"}, "Assigned", Helpdesk),
    redirect         |-> Rule(routed, "Assigned", Helpdesk),
    progress         |-> Rule({"Assigned"}, "InProgress", Helpdesk \cup staff),
    requestClose     |-> Rule({"InProgress"}, "CloseRequested", staff),
    approveClose     |-> Rule({"CloseRequested"}, "Closed", Helpdesk),
    refuseClose      |-> Rule({"CloseRequested"}, "InProgress", Helpdesk),
    requestRedirect  |-> Rule(routed, "RedirectRequested", staff),
    approveRedirect  |-> Rule({"RedirectRequested"}, "Assigned", Helpdesk),
    refuseRedirect   |-> Rule({"RedirectRequested"}, NULL, Helpdesk),
    close            |-> Rule(open, "Closed", Helpdesk),
    overrideSeverity |-> Rule(open, NULL, Helpdesk) ]

TransitionKey == DOMAIN TRANSITIONS

\* Actions a DeptStaff may take only on tickets routed to their department.
DeptScoped == {"progress", "requestClose", "requestRedirect"}

\* Actions a HelpdeskAgent may take only on tickets assigned to them.
AssigneeScoped == {"close", "approveClose", "refuseClose",
                   "redirect", "approveRedirect", "refuseRedirect"}

OwnDept(u, row) == DeptOf[u] # NULL /\ DeptOf[u] = row.dept

\* Mutant of CanPerform: the role alone decides, as a route's authorize() does.
CanPerformByRole(op, u, row) == Role[u] \in TRANSITIONS[op].baseRoles

\* assertCanPerform(op, u, row) returns instead of throwing ForbiddenError.
CanPerform(op, u, row) ==
  /\ Role[u] \in TRANSITIONS[op].baseRoles
  /\ op \in DeptScoped /\ Role[u] = "DeptStaff" => OwnDept(u, row)
  /\ op \in AssigneeScoped /\ Role[u] = "HelpdeskAgent" => row.assignee = u

\* assertCanViewTicket(u, row) returns instead of throwing ForbiddenError.
CanView(u, row) ==
  \/ Role[u] \in {"HelpdeskLead", "Admin"}
  \/ Role[u] = "HelpdeskAgent" /\ row.assignee = u
  \/ Role[u] = "DeptStaff" /\ OwnDept(u, row)
  \/ Role[u] \in {"SV", "GV", "NV"} /\ row.requester = u

-----------------------------------------------------------------------------
\* Who a fan-out query returns: findMany({ where: { role, isActive: true } }).
ActiveLeads == {u \in Active : Role[u] = "HelpdeskLead"}
ActiveStaff(d) == {u \in Active : Role[u] = "DeptStaff" /\ DeptOf[u] = d}
=============================================================================
