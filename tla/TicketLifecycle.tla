--------------------------- MODULE TicketLifecycle ---------------------------
(***************************************************************************)
(* What the ticket service promises about one ticket, told as if every     *)
(* request ran alone: a status that follows the state machine of           *)
(* src/docs/feature-plan.md section C, at most one pending ask (to close   *)
(* or to redirect) with the user who made it, and a trail that records     *)
(* every audited operation. Closed is terminal.                            *)
(*                                                                         *)
(* TicketService implements this module although its requests overlap.     *)
(***************************************************************************)
EXTENDS Sequences

CONSTANTS Tickets, Users, NULL

VARIABLES
  status,   \* status[t]: the status of ticket t, NULL before it is created
  asker,    \* asker[t]: the user whose ask awaits a decision, or NULL
  trail     \* trail[t]: the status after each audited operation, oldest first

vars == <<status, asker, trail>>

Init ==
  /\ status = [t \in Tickets |-> NULL]
  /\ asker = [t \in Tickets |-> NULL]
  /\ trail = [t \in Tickets |-> <<>>]

\* Ticket t goes from one of the statuses in from to status to, leaving u as
\* the user to be answered.
Move(t, from, to, u) ==
  /\ status[t] \in from
  /\ status' = [status EXCEPT ![t] = to]
  /\ asker' = [asker EXCEPT ![t] = u]
  /\ trail' = [trail EXCEPT ![t] = Append(@, to)]

Worked == {"Pending", "Assigned", "InProgress"}

Open(t)   == Move(t, {NULL}, "Pending", NULL)
Triage(t) == \E s \in Worked : Move(t, {s}, s, NULL)
Route(t)  == Move(t, Worked, "Assigned", NULL)
Start(t)  == Move(t, {"Assigned"}, "InProgress", NULL)
Close(t)  == Move(t, Worked, "Closed", NULL)

AskClose(t, u)    == Move(t, {"InProgress"}, "CloseRequested", u)
AskRedirect(t, u) == Move(t, {"Assigned", "InProgress"}, "RedirectRequested", u)

GrantClose(t)    == Move(t, {"CloseRequested"}, "Closed", NULL)
GrantRedirect(t) == Move(t, {"RedirectRequested"}, "Assigned", NULL)
RefuseClose(t)   == Move(t, {"CloseRequested"}, "InProgress", NULL)
RefuseRedirect(t) ==
  \E prior \in {"Assigned", "InProgress"} :
    Move(t, {"RedirectRequested"}, prior, NULL)

Next ==
  \E t \in Tickets :
    \/ Open(t) \/ Triage(t) \/ Route(t) \/ Start(t) \/ Close(t)
    \/ \E u \in Users : AskClose(t, u) \/ AskRedirect(t, u)
    \/ GrantClose(t) \/ GrantRedirect(t) \/ RefuseClose(t) \/ RefuseRedirect(t)

Spec == Init /\ [][Next]_vars
=============================================================================
