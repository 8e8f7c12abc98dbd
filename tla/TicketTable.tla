----------------------------- MODULE TicketTable -----------------------------
(***************************************************************************)
(* The ticket rows as every other part of the system sees them: each       *)
(* committed transaction of TicketService is one atomic change that        *)
(* follows the table of src/src/lib/transitions.ts. TicketService          *)
(* implements this module (ImplementsTable); the categories and the reads  *)
(* are built on it.                                                        *)
(***************************************************************************)
EXTENDS Transitions

CONSTANTS
  Tickets,      \* ticket ids
  Severities,   \* severities
  Categories    \* category ids

VARIABLE row    \* row[t]: the columns of ticket t that lists and counts use

NoRow == [status |-> NULL, requester |-> NULL, assignee |-> NULL,
          dept |-> NULL, severity |-> NULL, category |-> NULL]

TableInit == row = [t \in Tickets |-> NoRow]

Exists(t) == row[t].status # NULL

Open(t, u, s, c) ==
  /\ ~ Exists(t)
  /\ row' = [row EXCEPT ![t] = [status |-> "Pending", requester |-> u,
                   assignee |-> NULL, dept |-> NULL, severity |-> s, category |-> c]]

\* The column an operation sets besides the status, and its new values.
Sets(k) ==
  CASE k = "assign" -> [column |-> "assignee", to |-> {u \in Users : Role[u] = "HelpdeskAgent"}]
    [] k \in {"forward", "redirect", "approveRedirect"} -> [column |-> "dept", to |-> Depts]
    [] k = "overrideSeverity" -> [column |-> "severity", to |-> Severities]
    [] OTHER -> [column |-> "none", to |-> {NULL}]

\* The statuses operation k may leave a ticket of status s in.
Leaves(k, s) == IF k = "refuseRedirect" THEN {"Assigned", "InProgress"}
                ELSE IF TRANSITIONS[k].to = NULL THEN {s} ELSE {TRANSITIONS[k].to}

\* One of the twelve operations of the state machine commits.
Move(t, k) ==
  /\ row[t].status \in TRANSITIONS[k].allowedFrom
  /\ \E s \in Leaves(k, row[t].status), x \in Sets(k).to :
       row' = [row EXCEPT ![t] = [c \in DOMAIN NoRow |->
                 IF c = "status" THEN s ELSE IF c = Sets(k).column THEN x ELSE @[c]]]

Categorise(t, c) == Exists(t) /\ row' = [row EXCEPT ![t].category = c]

TableNext ==
  \E t \in Tickets :
    \/ \E u \in Users, s \in Severities, c \in Categories \cup {NULL} : Open(t, u, s, c)
    \/ \E k \in TransitionKey : Move(t, k)
    \/ \E c \in Categories \cup {NULL} : Categorise(t, c)

TableSpec == TableInit /\ [][TableNext]_row
=============================================================================
