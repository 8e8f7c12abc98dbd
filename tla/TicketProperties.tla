--------------------------- MODULE TicketProperties ---------------------------
(***************************************************************************)
(* What must hold of module TicketService: invariants that tie a ticket's  *)
(* row to its audit trail, properties of steps, and the lifecycle that the *)
(* service implements. The last part states what comments and documents of *)
(* the repository say and overlapping requests break.                      *)
(***************************************************************************)
EXTENDS TicketService, FiniteSets

EventType ==
  {"Created", "AgentAssigned", "Forwarded", "Redirected", "Started",
   "SeverityChanged", "CloseRequested", "CloseRefused", "RedirectRequested",
   "RedirectRefused", "Closed"}

NotificationType ==
  {"TicketClosed", "TicketAssigned", "TicketForwarded", "StatusChanged",
   "TicketCreated", "TicketCommented", "CloseRequested", "CloseRefused",
   "RedirectRequested", "RedirectRefused"}

Notified == SUBSET (Users \X NotificationType)

TicketRow ==
  [status : Status \cup {NULL}, requester : Users \cup {NULL},
   assignee : Users \cup {NULL}, dept : Depts \cup {NULL},
   severity : Severities \cup {NULL}, category : Categories \cup {NULL},
   closeReq : Users \cup {NULL}, redirectReq : Users \cup {NULL},
   closedAt : BOOLEAN]

Value == Users \cup Depts \cup Severities \cup Categories \cup {NULL}

EventRow ==
  [type : EventType, actor : Users, from : Status \cup {NULL}, to : Status,
   old : Value, new : Value, notified : Notified]

CommentRow == [author : Users, notified : Notified]

Request ==
  [pc : {"idle", "readRequestEvent", "write", "publish"},
   op : TransitionKey \cup OtherOps \cup {NULL},
   caller : Users \cup {NULL}, t : Tickets \cup {NULL}, arg : Value,
   before : TicketRow, prior : {"Assigned", "InProgress", NULL}, seen : Nat]

\* The variables have the types of the Prisma schema, and a process that
\* serves a request knows its caller and ticket.
TypeOK ==
  /\ ticket \in [Tickets -> TicketRow]
  /\ events \in [Tickets -> Seq(EventRow)]
  /\ comments \in [Tickets -> Seq(CommentRow)]
  /\ published \in [Tickets -> SUBSET {"ticketCreated", "ticketClosed"}]
  /\ req \in [Procs -> Request]
  /\ \A p \in Procs : req[p].pc # "idle" =>
       req[p].caller \in Users /\ req[p].t \in Tickets

-----------------------------------------------------------------------------
Last(evs) == evs[Len(evs)]

\* The audit chain (TicketEvent.fromStatus/toStatus): the first event is
\* Created, each event starts at the status the one before it left, and the
\* newest one ends at the row's status, however the requests overlapped.
AuditChain ==
  \A t \in Tickets :
    /\ events[t] = <<>> <=> ticket[t].status = NULL
    /\ events[t] # <<>> =>
         /\ events[t][1].type = "Created"
         /\ Last(events[t]).to = ticket[t].status
    /\ \A i \in 2..Len(events[t]) :
         /\ events[t][i].type # "Created"
         /\ events[t][i].from = events[t][i-1].to

\* closeRequestedById and redirectRequestedById are set exactly while such an
\* ask is pending, and name the actor of the ask, the newest event.
AskIsTracked ==
  \A t \in Tickets :
    /\ ticket[t].closeReq # NULL <=> ticket[t].status = "CloseRequested"
    /\ ticket[t].redirectReq # NULL <=> ticket[t].status = "RedirectRequested"
    /\ ticket[t].status = "CloseRequested" =>
         /\ Last(events[t]).type = "CloseRequested"
         /\ Last(events[t]).actor = ticket[t].closeReq
    /\ ticket[t].status = "RedirectRequested" =>
         /\ Last(events[t]).type = "RedirectRequested"
         /\ Last(events[t]).actor = ticket[t].redirectReq

\* A ticket closes once: the Closed event is the newest, is the only one, and
\* closedAt is set with it, although two handlers (close, approveClose) race.
ClosesOnce ==
  \A t \in Tickets :
    /\ ticket[t].closedAt <=> ticket[t].status = "Closed"
    /\ \A i \in DOMAIN events[t] :
         events[t][i].type = "Closed" =>
           i = Len(events[t]) /\ ticket[t].status = "Closed"

\* Downstream systems are told only what committed: ticketClosed of a closed
\* ticket, ticketCreated of one that exists (publish after commit).
PublishedIsCommitted ==
  \A t \in Tickets :
    /\ "ticketCreated" \in published[t] => ticket[t].status # NULL
    /\ "ticketClosed" \in published[t] => ticket[t].status = "Closed"

\* The newest event of one of the types in types is event i of evs.
IsNewest(evs, i, types) ==
  /\ evs[i].type \in types
  /\ \A j \in DOMAIN evs : evs[j].type \in types => j <= i

Routing == {"Forwarded", "Redirected"}

\* The row's department, assignee and severity are those of the newest event
\* that recorded one, also when the handlers' snapshots were stale; a ticket
\* past Pending that is still open is routed, a Pending one is not.
AttributesMatchTrail ==
  \A t \in Tickets :
    /\ \A i \in DOMAIN events[t] :
         /\ IsNewest(events[t], i, Routing) => ticket[t].dept = events[t][i].new
         /\ IsNewest(events[t], i, {"AgentAssigned"}) =>
              ticket[t].assignee = events[t][i].new
         /\ IsNewest(events[t], i, {"SeverityChanged"}) =>
              ticket[t].severity = events[t][i].new
    /\ ticket[t].status \in OpenStatus =>
         (ticket[t].dept = NULL <=> ticket[t].status = "Pending")

\* A row without the category, the one column with no audit event.
Audited(row) == [row EXCEPT !.category = NULL]

\* Nothing audited changes silently: while no event has been added since a
\* request read the ticket, the row is still the one it read. So a 409 is never
\* spurious: it always means another operation committed in between.
NoSilentChange ==
  \A p \in Procs :
    req[p].pc \in {"readRequestEvent", "write"} =>
      LET t == req[p].t IN
      /\ req[p].seen <= Len(events[t])
      /\ req[p].seen = Len(events[t]) =>
           Audited(ticket[t]) = Audited(req[p].before)

\* Request p commits a transition, and no event was added to its ticket since
\* it read it: nobody overtook it. The properties that use it say what every
\* write must get right as long as that is so.
OnTime(p) ==
  LET t == req[p].t IN
  /\ req[p].pc = "write" /\ req[p].op \in TransitionKey
  /\ req'[p] # req[p]
  /\ events'[t] # events[t]
  /\ req[p].seen = Len(events[t])

\* The audit event of a re-routing or a severity change records as its old value
\* the one it replaces. The value comes from the handler's read; of two changes
\* that overlap, only the first is bound to get it right.
RecordsWhatItReplaces ==
  [][\A p \in Procs : OnTime(p) =>
       LET t == req[p].t
           e == Last(events'[t])
       IN  /\ e.type \in Routing => e.old = ticket[t].dept
           /\ e.type = "SeverityChanged" => e.old = ticket[t].severity]_vars

\* A refused redirect request leaves the ticket in the status from which it was
\* made, which refuseRedirect learns from the event it reads second, unless
\* another decision and another request came between its read and its UPDATE.
RefusalUndoesTheAsk ==
  [][\A p \in Procs : OnTime(p) /\ req[p].op = "refuseRedirect" =>
       LET t == req[p].t
       IN  Last(events'[t]).to = Last(events[t]).from]_vars

\* Whom request p's new event tells.
Hears(p, u) == \E n \in Last(events'[req[p].t]).notified : n[1] = u

\* If request p decides an ask, it tells the user whom the row names as the
\* asker at the commit.
TellsTheAsker(p) ==
  LET row == ticket[req[p].t]
      asker == IF req[p].op \in {"approveClose", "refuseClose"}
               THEN row.closeReq ELSE row.redirectReq
  IN  /\ req[p].op \in {"approveClose", "refuseClose", "approveRedirect",
                        "refuseRedirect"}
      /\ asker # req[p].caller
      => Hears(p, asker)

\* Whoever decides an ask tells the one who made it, although the asker's name
\* comes from the row as read and the event knows only the decider.
AskersHear == [][\A p \in Procs : OnTime(p) => TellsTheAsker(p)]_vars

\* Who has the ticket at the commit hears that it was routed, started, closed,
\* given another severity or needs a decision, unless it is the caller.
AssigneeHears ==
  [][\A p \in Procs :
       /\ OnTime(p)
       /\ req[p].op \in {"forward", "progress", "close", "requestClose",
                         "requestRedirect", "overrideSeverity"}
       => LET assignee == ticket[req[p].t].assignee
          IN  assignee \in {NULL, req[p].caller} \/ Hears(p, assignee)]_vars

\* The action whose handler writes an event of a type, with a status change
\* that the table allows it.
Writes(op, e) ==
  /\ \/ op = "assign"           /\ e.type = "AgentAssigned"
     \/ op = "forward"          /\ e.type = "Forwarded"
     \/ op \in {"redirect", "approveRedirect"} /\ e.type = "Redirected"
     \/ op = "progress"         /\ e.type = "Started"
     \/ op = "requestClose"     /\ e.type = "CloseRequested"
     \/ op \in {"close", "approveClose"}       /\ e.type = "Closed"
     \/ op = "refuseClose"      /\ e.type = "CloseRefused"
     \/ op = "requestRedirect"  /\ e.type = "RedirectRequested"
     \/ op = "refuseRedirect"   /\ e.type = "RedirectRefused"
     \/ op = "overrideSeverity" /\ e.type = "SeverityChanged"
  /\ e.from \in TRANSITIONS[op].allowedFrom
  /\ TRANSITIONS[op].to # NULL => e.to = TRANSITIONS[op].to
  /\ Role[e.actor] \in TRANSITIONS[op].baseRoles

\* Every event after Created follows a row of the transition table: its
\* starting status, its literal result (the handlers never read TRANSITIONS'
\* to) and its actor's role.
TrailFollowsTable ==
  \A t \in Tickets : \A i \in 2..Len(events[t]) :
    \E op \in TransitionKey : Writes(op, events[t][i])

\* An Agent closes, redirects or decides only on a ticket that the trail shows
\* assigned to that Agent before, and DeptStaff start, or ask about, only a
\* ticket that the trail shows routed to their department before.
AuthorityWasHeld ==
  \A t \in Tickets : \A i \in DOMAIN events[t] :
    LET e == events[t][i] IN
    /\ /\ Role[e.actor] = "HelpdeskAgent"
       /\ e.type \in {"Closed", "Redirected", "CloseRefused", "RedirectRefused"}
       => \E j \in 1..(i-1) : events[t][j].type = "AgentAssigned"
                              /\ events[t][j].new = e.actor
    /\ /\ Role[e.actor] = "DeptStaff"
       /\ e.type \in {"Started", "CloseRequested", "RedirectRequested"}
       => \E j \in 1..(i-1) : events[t][j].type \in Routing
                              /\ events[t][j].new = DeptOf[e.actor]

\* The active staff of the department a ticket is in have been told so, and a
\* pending ask is known to every active Lead other than the one who asked.
TheRightPeopleKnow ==
  \A t \in Tickets :
    /\ ticket[t].dept # NULL => \A u \in ActiveStaff(ticket[t].dept) :
         \E i \in DOMAIN events[t] :
           /\ events[t][i].new = ticket[t].dept
           /\ <<u, "TicketForwarded">> \in events[t][i].notified
    /\ ticket[t].status \in {"CloseRequested", "RedirectRequested"} =>
         \A u \in ActiveLeads \ {Last(events[t]).actor} :
           <<u, ticket[t].status>> \in Last(events[t]).notified

\* Every close request carries its proof: a user has at least as many comments
\* on a ticket as close requests, because requestClose commits both or neither.
CloseRequestsHaveProof ==
  \A t \in Tickets, u \in Users :
    LET asks == {i \in DOMAIN events[t] : /\ events[t][i].type = "CloseRequested"
                                          /\ events[t][i].actor = u}
        said == {k \in DOMAIN comments[t] : comments[t][k].author = u}
    IN  Cardinality(asks) <= Cardinality(said)

\* Closed is final: after it the audited columns and the trail never change.
ClosedIsFinal ==
  [][\A t \in Tickets : ticket[t].status = "Closed" =>
       Audited(ticket'[t]) = Audited(ticket[t]) /\ events'[t] = events[t]]_vars

\* The overlapping, snapshot-based requests implement the sequential lifecycle.
Lifecycle == INSTANCE TicketLifecycle WITH
  status <- [t \in Tickets |-> ticket[t].status],
  asker <- [t \in Tickets |-> IF ticket[t].closeReq # NULL
                              THEN ticket[t].closeReq ELSE ticket[t].redirectReq],
  trail <- [t \in Tickets |-> [i \in DOMAIN events[t] |-> events[t][i].to]]

ImplementsLifecycle == Lifecycle!Spec

Table == INSTANCE TicketTable WITH
  row <- [t \in Tickets |->
    [status |-> ticket[t].status, requester |-> ticket[t].requester,
     assignee |-> ticket[t].assignee, dept |-> ticket[t].dept,
     severity |-> ticket[t].severity, category |-> ticket[t].category]]

\* Every committed write is one row of TRANSITIONS applied to the ticket as it is
\* at the commit, although the guards ran on an earlier read: it leaves a status
\* the row allows for the one it names, and sets no column but its own. The
\* handlers rely on it where they write their status literally.
ImplementsTable == Table!TableSpec

-----------------------------------------------------------------------------
(* Stated by a comment or a document, and broken when requests overlap: the *)
(* conditional UPDATE compares the status alone, and a comment is written   *)
(* without any condition.                                                   *)

\* Step adds an event of one of the types to ticket t.
Adds(t, types) == /\ events'[t] # events[t]
                  /\ Last(events'[t]).type \in types

\* "HelpdeskAgent is only allowed when they're the assignee" (transitions.ts,
\* rule close): no Agent closes a ticket that is then another Agent's.
OnlyAssigneeCloses ==
  [][\A t \in Tickets : Adds(t, {"Closed"}) =>
       LET u == Last(events'[t]).actor
       IN  Role[u] = "HelpdeskAgent" => ticket[t].assignee = u]_vars

\* "Restore the status the ticket had when the request was made."
\* (TicketService.refuseRedirect): the refused ask is the event just before.
RefusalRestoresStatus ==
  \A t \in Tickets : \A i \in 2..Len(events[t]) :
    events[t][i].type = "RedirectRefused" => events[t][i].to = events[t][i-1].from

\* "Notifies the DeptStaff who asked so they can redo." (refuseClose) and the
\* like for the other decisions: the one whose ask the decision ends is told.
AskersAlwaysHear ==
  [][\A p \in Procs :
       LET t == req[p].t IN
       /\ req[p].pc = "write" /\ req'[p] # req[p]
       /\ events'[t] # events[t]
       => TellsTheAsker(p)]_vars

\* "comment: any non-Closed" (feature-plan, transition table).
NoCommentOnceClosed ==
  [][\A t \in Tickets : ticket[t].status = "Closed" =>
       comments'[t] = comments[t]]_vars

=============================================================================
