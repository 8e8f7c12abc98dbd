---------------------------- MODULE TicketService ----------------------------
(***************************************************************************)
(* The ticket operations of src/src/services/TicketService.ts and          *)
(* AssignmentService.ts as concurrent requests against one Postgres        *)
(* database at READ COMMITTED.                                             *)
(*                                                                         *)
(* A request is two or three steps. It reads the ticket row and does all   *)
(* its checks on that snapshot (Begin...); refuseRedirect then reads the   *)
(* event table; last, its transaction's conditional UPDATE, its audit      *)
(* event, its comment and its notifications take effect together. The      *)
(* UPDATE takes the row lock, holds it to COMMIT, and, when it had to      *)
(* wait, re-evaluates its WHERE on the row the other transaction left:     *)
(* from the UPDATE to the COMMIT is therefore one step. A request refused  *)
(* with 403, 404, 409 or 422 by its first checks writes nothing and is not *)
(* a step at all.                                                          *)
(*                                                                         *)
(* Left out: ticket code, title and attachments, the note texts, and the   *)
(* user-row refresh of ensureFromSession (the directory is fixed here).    *)
(***************************************************************************)
EXTENDS Transitions, Naturals, Sequences

CONSTANTS
  Tickets,      \* ticket ids
  Procs,        \* requests in flight: each process serves one at a time
  Severities,   \* the severities a caller may choose
  Categories,   \* category ids
  Ops,          \* the operations that clients call (bound)
  MaxEvents,    \* no request begins on a ticket with this many events (bound)
  MaxComments   \* no comment begins on a ticket with this many comments (bound)

OtherOps == {"create", "addComment", "assignCategory"}

ASSUME BoundAssumption ==
  /\ Ops \subseteq TransitionKey \cup OtherOps
  /\ MaxEvents \in Nat /\ MaxComments \in Nat
ASSUME ValueAssumption == NULL \notin Severities /\ NULL \notin Tickets
ASSUME NullStatusAssumption == NULL \notin Status

VARIABLES
  ticket,      \* ticket[t]: the row of ticket t
  events,      \* events[t]: its TicketEvent rows that bear a status, as committed
  comments,    \* comments[t]: its TicketComment rows, as committed
  published,   \* published[t]: downstream events delivered about t
  req          \* req[p]: the request that process p serves

vars == <<ticket, events, comments, published, req>>

NoTicket ==
  [status |-> NULL, requester |-> NULL, assignee |-> NULL, dept |-> NULL,
   severity |-> NULL, category |-> NULL, closeReq |-> NULL,
   redirectReq |-> NULL, closedAt |-> FALSE]

\* seen is a history variable: how many events the ticket had at the read.
NoRequest ==
  [pc |-> "idle", op |-> NULL, caller |-> NULL, t |-> NULL, arg |-> NULL,
   before |-> NoTicket, prior |-> NULL, seen |-> 0]

Init ==
  /\ ticket = [t \in Tickets |-> NoTicket]
  /\ events = [t \in Tickets |-> <<>>]
  /\ comments = [t \in Tickets |-> <<>>]
  /\ published = [t \in Tickets |-> {}]
  /\ req = [p \in Procs |-> NoRequest]

-----------------------------------------------------------------------------
(* The reads and checks that open a request.                               *)

\* The values the argument of each operation ranges over once its own lookup
\* (agent exists and is a HelpdeskAgent, department exists) has passed.
Args(op) ==
  IF op = "assign" THEN {u \in Users : Role[u] = "HelpdeskAgent"}
  ELSE IF op \in {"forward", "redirect", "approveRedirect"} THEN Depts
  ELSE IF op = "overrideSeverity" THEN Severities
  ELSE IF op = "assignCategory" THEN Categories \cup {NULL}
  ELSE {NULL}

Read(p, op, u, t, arg, pc) ==
  /\ op \in Ops
  /\ req[p].pc = "idle"
  /\ ticket[t].status # NULL
  /\ Len(events[t]) < MaxEvents
  /\ req' = [req EXCEPT ![p] =
       [pc |-> pc, op |-> op, caller |-> u, t |-> t, arg |-> arg,
        before |-> ticket[t], prior |-> NULL, seen |-> Len(events[t])]]
  /\ UNCHANGED <<ticket, events, comments, published>>

\* The target of a re-route must not be the department the ticket is in.
DifferentDept(op, arg, row) ==
  op \in {"redirect", "approveRedirect"} => row.dept # arg

\* Mutant of Begin: the check of the status is forgotten.
BeginAnyStatus(p, op, u, t, arg) ==
  /\ CanPerform(op, u, ticket[t])
  /\ DifferentDept(op, arg, ticket[t])
  /\ Read(p, op, u, t, arg,
          IF op = "refuseRedirect" THEN "readRequestEvent" ELSE "write")

\* A state-machine action: authority, then status, then target department.
Begin(p, op, u, t, arg) ==
  /\ CanPerform(op, u, ticket[t])
  /\ ticket[t].status \in TRANSITIONS[op].allowedFrom
  /\ DifferentDept(op, arg, ticket[t])
  /\ Read(p, op, u, t, arg,
          IF op = "refuseRedirect" THEN "readRequestEvent" ELSE "write")

BeginComment(p, u, t) ==
  /\ CanView(u, ticket[t])
  /\ ticket[t].status # "Closed"
  /\ Len(comments[t]) < MaxComments
  /\ Read(p, "addComment", u, t, NULL, "write")

BeginCategorise(p, u, t, c) ==
  /\ Role[u] \in Helpdesk
  /\ ticket[t].status # "Closed"
  /\ Read(p, "assignCategory", u, t, c, "write")

\* Mutant of PriorStatus: InProgress is restored, as refuseClose does.
PriorInProgress(evs) == "InProgress"

\* findFirst({ type: 'RedirectRequested' }, orderBy createdAt desc): the
\* fromStatus of the newest such event, or InProgress when that is neither
\* Assigned nor InProgress.
PriorStatus(evs) ==
  LET asked == {i \in DOMAIN evs : evs[i].type = "RedirectRequested"}
      newest == CHOOSE i \in asked : \A j \in asked : j <= i
  IN  IF asked # {} /\ evs[newest].from \in {"Assigned", "InProgress"}
      THEN evs[newest].from
      ELSE "InProgress"

\* refuseRedirect's second query, a statement (and so a snapshot) of its own.
ReadRequestEvent(p) ==
  /\ req[p].pc = "readRequestEvent"
  /\ req' = [req EXCEPT ![p].prior = PriorStatus(events[req[p].t]),
                        ![p].pc = "write"]
  /\ UNCHANGED <<ticket, events, comments, published>>

-----------------------------------------------------------------------------
(* The writes. Every handler goes through one conditional UPDATE.          *)

\* Mutant of RowMatches: update by id alone.
RowMatchesById(p) == TRUE

\* updateMany({ where: { id, status: before.status } }) matches the row.
RowMatches(p) == ticket[req[p].t].status = req[p].before.status

Tell(users, type) == (users \ {NULL}) \X {type}

\* The transaction of request p commits: the row becomes row, the event is
\* appended with its notifications, and the handler goes on at pc (it returns
\* when that is "idle").
Commit(p, op, row, event, pc) ==
  /\ req[p].pc = "write"
  /\ req[p].op = op
  /\ RowMatches(p)
  /\ ticket' = [ticket EXCEPT ![req[p].t] = row]
  /\ events' = [events EXCEPT ![req[p].t] = Append(@, event)]
  /\ req' = [req EXCEPT ![p] = IF pc = "idle" THEN NoRequest
                                              ELSE [@ EXCEPT !.pc = pc]]
  /\ UNCHANGED published

\* from and to are statuses; old and new the attribute the event records.
Event(p, type, to, old, new, notified) ==
  [type |-> type, actor |-> req[p].caller, from |-> req[p].before.status,
   to |-> to, old |-> old, new |-> new, notified |-> notified]

\* create: the new row, its Created event and the Leads' notifications commit;
\* there is no earlier read to go stale. The publisher is called next.
Create(p, u, t, s, c) ==
  LET row == [NoTicket EXCEPT !.status = "Pending", !.requester = u,
                              !.severity = s, !.category = c]
      told == Tell(ActiveLeads \ {u}, "TicketCreated")
  IN
  /\ "create" \in Ops
  /\ req[p].pc = "idle"
  /\ ticket[t].status = NULL
  /\ ticket' = [ticket EXCEPT ![t] = row]
  /\ events' = [events EXCEPT ![t] =
       <<[type |-> "Created", actor |-> u, from |-> NULL, to |-> "Pending",
          old |-> NULL, new |-> NULL, notified |-> told]>>]
  /\ req' = [req EXCEPT ![p] = [NoRequest EXCEPT !.pc = "publish",
                                !.op = "create", !.caller = u, !.t = t]]
  /\ UNCHANGED <<comments, published>>

\* Mutant of Assign: the row is updated without its audit event.
AssignUnaudited(p) ==
  LET r == req[p] IN
  /\ r.pc = "write" /\ r.op = "assign" /\ RowMatches(p)
  /\ ticket' = [ticket EXCEPT ![r.t].assignee = r.arg]
  /\ req' = [req EXCEPT ![p] = NoRequest]
  /\ UNCHANGED <<events, comments, published>>

Assign(p) ==
  LET r == req[p]
      told == Tell({r.arg}, "TicketAssigned")
              \cup Tell({r.before.requester} \ {r.caller}, "StatusChanged")
  IN
  /\ Commit(p, "assign", [ticket[r.t] EXCEPT !.assignee = r.arg],
            Event(p, "AgentAssigned", r.before.status, NULL, r.arg, told), "idle")
  /\ UNCHANGED comments

Forward(p) ==
  LET r == req[p]
      told == Tell(ActiveStaff(r.arg), "TicketForwarded")
              \cup Tell({r.before.assignee, r.before.requester} \ {r.caller},
                        "StatusChanged")
  IN
  /\ Commit(p, "forward",
            [ticket[r.t] EXCEPT !.status = "Assigned", !.dept = r.arg],
            Event(p, "Forwarded", "Assigned", r.before.dept, r.arg, told), "idle")
  /\ UNCHANGED comments

\* Mutant of Redirect: the staff of the department left are told, not the new one's.
RedirectTellsOldDept(p) ==
  LET r == req[p] IN
  /\ Commit(p, "redirect",
            [ticket[r.t] EXCEPT !.status = "Assigned", !.dept = r.arg],
            Event(p, "Redirected", "Assigned", r.before.dept, r.arg,
                  Tell(ActiveStaff(r.before.dept), "TicketForwarded")), "idle")
  /\ UNCHANGED comments

Redirect(p) ==
  LET r == req[p]
      told == Tell(ActiveStaff(r.arg), "TicketForwarded")
              \cup Tell({r.before.requester} \ {r.caller}, "StatusChanged")
  IN
  /\ Commit(p, "redirect",
            [ticket[r.t] EXCEPT !.status = "Assigned", !.dept = r.arg],
            Event(p, "Redirected", "Assigned", r.before.dept, r.arg, told), "idle")
  /\ UNCHANGED comments

StartProgress(p) ==
  LET r == req[p]
      told == Tell({r.before.requester} \cup ({r.before.assignee} \ {r.caller}),
                   "StatusChanged")
  IN
  /\ Commit(p, "progress", [ticket[r.t] EXCEPT !.status = "InProgress"],
            Event(p, "Started", "InProgress", NULL, NULL, told), "idle")
  /\ UNCHANGED comments

Close(p) ==
  LET r == req[p]
      told == Tell({r.before.requester} \cup ({r.before.assignee} \ {r.caller}),
                   "TicketClosed")
  IN
  /\ Commit(p, "close",
            [ticket[r.t] EXCEPT !.status = "Closed", !.closedAt = TRUE],
            Event(p, "Closed", "Closed", NULL, NULL, told), "publish")
  /\ UNCHANGED comments

\* Mutant of Deciders: the Leads alone.
DecidersAreLeads(p) == ActiveLeads \ {req[p].caller}

\* Whoever can decide an ask: the assignee as read, and every active Lead.
Deciders(p) ==
  ({req[p].before.assignee} \cup ActiveLeads) \ {req[p].caller}

\* The proof comment is part of the transaction; it has no Commented event.
RequestClose(p) ==
  LET r == req[p] IN
  /\ Commit(p, "requestClose",
            [ticket[r.t] EXCEPT !.status = "CloseRequested", !.closeReq = r.caller],
            Event(p, "CloseRequested", "CloseRequested", NULL, NULL,
                  Tell(Deciders(p), "CloseRequested")), "idle")
  /\ comments' = [comments EXCEPT ![r.t] =
       Append(@, [author |-> r.caller, notified |-> {}])]

\* Mutant of ApproveClose: closeRequestedById is not cleared.
ApproveCloseKeepsAsk(p) ==
  /\ Commit(p, "approveClose",
            [ticket[req[p].t] EXCEPT !.status = "Closed", !.closedAt = TRUE],
            Event(p, "Closed", "Closed", NULL, NULL, {}), "publish")
  /\ UNCHANGED comments

ApproveClose(p) ==
  LET r == req[p]
      told == Tell({r.before.requester} \cup ({r.before.closeReq} \ {r.caller}),
                   "TicketClosed")
  IN
  /\ Commit(p, "approveClose",
            [ticket[r.t] EXCEPT !.status = "Closed", !.closedAt = TRUE,
                                !.closeReq = NULL],
            Event(p, "Closed", "Closed", NULL, NULL, told), "publish")
  /\ UNCHANGED comments

\* Mutants of RefuseClose: the ticket's requester is told, not the asker; the
\* status is restored as in refuseRedirect, from a second read never made.
RefuseCloseTellsRequester(p) ==
  LET r == req[p] IN
  /\ Commit(p, "refuseClose",
            [ticket[r.t] EXCEPT !.status = "InProgress", !.closeReq = NULL],
            Event(p, "CloseRefused", "InProgress", NULL, NULL,
                  Tell({r.before.requester} \ {r.caller}, "CloseRefused")), "idle")
  /\ UNCHANGED comments
RefuseCloseToPrior(p) ==
  LET r == req[p] IN
  /\ Commit(p, "refuseClose",
            [ticket[r.t] EXCEPT !.status = r.prior, !.closeReq = NULL],
            Event(p, "CloseRefused", r.prior, NULL, NULL, {}), "idle")
  /\ UNCHANGED comments

RefuseClose(p) ==
  LET r == req[p] IN
  /\ Commit(p, "refuseClose",
            [ticket[r.t] EXCEPT !.status = "InProgress", !.closeReq = NULL],
            Event(p, "CloseRefused", "InProgress", NULL, NULL,
                  Tell({r.before.closeReq} \ {r.caller}, "CloseRefused")), "idle")
  /\ UNCHANGED comments

RequestRedirect(p) ==
  LET r == req[p] IN
  /\ Commit(p, "requestRedirect",
            [ticket[r.t] EXCEPT !.status = "RedirectRequested",
                                !.redirectReq = r.caller],
            Event(p, "RedirectRequested", "RedirectRequested", NULL, NULL,
                  Tell(Deciders(p), "RedirectRequested")), "idle")
  /\ UNCHANGED comments

\* Mutants of ApproveRedirect: redirectRequestedById is not cleared; the
\* department is recorded in the event but not written to the row.
ApproveRedirectKeepsAsk(p) ==
  LET r == req[p] IN
  /\ Commit(p, "approveRedirect",
            [ticket[r.t] EXCEPT !.status = "Assigned", !.dept = r.arg],
            Event(p, "Redirected", "Assigned", r.before.dept, r.arg, {}), "idle")
  /\ UNCHANGED comments
ApproveRedirectKeepsDept(p) ==
  LET r == req[p] IN
  /\ Commit(p, "approveRedirect",
            [ticket[r.t] EXCEPT !.status = "Assigned", !.redirectReq = NULL],
            Event(p, "Redirected", "Assigned", r.before.dept, r.arg, {}), "idle")
  /\ UNCHANGED comments

ApproveRedirect(p) ==
  LET r == req[p]
      told == Tell(ActiveStaff(r.arg), "TicketForwarded")
              \cup Tell({r.before.redirectReq, r.before.requester} \ {r.caller},
                        "StatusChanged")
  IN
  /\ Commit(p, "approveRedirect",
            [ticket[r.t] EXCEPT !.status = "Assigned", !.dept = r.arg,
                                !.redirectReq = NULL],
            Event(p, "Redirected", "Assigned", r.before.dept, r.arg, told), "idle")
  /\ UNCHANGED comments

RefuseRedirect(p) ==
  LET r == req[p] IN
  /\ Commit(p, "refuseRedirect",
            [ticket[r.t] EXCEPT !.status = r.prior, !.redirectReq = NULL],
            Event(p, "RedirectRefused", r.prior, NULL, NULL,
                  Tell({r.before.redirectReq} \ {r.caller}, "RedirectRefused")),
            "idle")
  /\ UNCHANGED comments

\* Mutants of OverrideSeverity: the snapshot is written back; the old value is
\* read after the UPDATE.
OverrideSeverityWritesSnapshot(p) ==
  LET r == req[p] IN
  /\ Commit(p, "overrideSeverity", [r.before EXCEPT !.severity = r.arg],
            Event(p, "SeverityChanged", r.before.status,
                  r.before.severity, r.arg, {}), "idle")
  /\ UNCHANGED comments

OverrideSeverityRecordsNew(p) ==
  LET r == req[p] IN
  /\ Commit(p, "overrideSeverity", [ticket[r.t] EXCEPT !.severity = r.arg],
            Event(p, "SeverityChanged", r.before.status, r.arg, r.arg, {}), "idle")
  /\ UNCHANGED comments

OverrideSeverity(p) ==
  LET r == req[p]
      told == Tell({r.before.requester, r.before.assignee} \ {r.caller},
                   "StatusChanged")
  IN
  /\ Commit(p, "overrideSeverity", [ticket[r.t] EXCEPT !.severity = r.arg],
            Event(p, "SeverityChanged", r.before.status,
                  r.before.severity, r.arg, told), "idle")
  /\ UNCHANGED comments

\* No conditional UPDATE: the comment and its Commented event, which bears no
\* status and is not in events, commit whatever the status has become.
AddComment(p) ==
  LET r == req[p]
      told == Tell((ActiveLeads \cup {r.before.assignee, r.before.requester})
                   \ {r.caller}, "TicketCommented")
  IN
  /\ r.pc = "write" /\ r.op = "addComment"
  /\ comments' = [comments EXCEPT ![r.t] =
       Append(@, [author |-> r.caller, notified |-> told])]
  /\ req' = [req EXCEPT ![p] = NoRequest]
  /\ UNCHANGED <<ticket, events, published>>

\* A plain UPDATE by id: no condition on the status, no event, no transaction.
AssignCategory(p) ==
  LET r == req[p] IN
  /\ r.pc = "write" /\ r.op = "assignCategory"
  /\ ticket' = [ticket EXCEPT ![r.t].category = r.arg]
  /\ req' = [req EXCEPT ![p] = NoRequest]
  /\ UNCHANGED <<events, comments, published>>

-----------------------------------------------------------------------------
(* How a request ends when it does not just commit and return.             *)

\* Mutant of Conflict: the count of updated rows is ignored.
ConflictIgnored(p) ==
  /\ req[p].pc = "write"
  /\ req[p].op \in TransitionKey
  /\ ~RowMatches(p)
  /\ req' = [req EXCEPT ![p].pc = IF req[p].op = "close" THEN "publish" ELSE "idle"]
  /\ UNCHANGED <<ticket, events, comments, published>>

\* updateMany matched no row: ConflictError (409), the transaction rolls back.
Conflict(p) ==
  /\ req[p].pc = "write"
  /\ req[p].op \in TransitionKey
  /\ ~RowMatches(p)
  /\ req' = [req EXCEPT ![p] = NoRequest]
  /\ UNCHANGED <<ticket, events, comments, published>>

DownstreamEvent(op) == IF op = "create" THEN "ticketCreated" ELSE "ticketClosed"

\* safePublishCreated / safePublishClosed after the commit: delivered, or every
\* attempt failed and the error is swallowed.
Publish(p) ==
  LET r == req[p] IN
  /\ r.pc = "publish"
  /\ \/ published' = [published EXCEPT ![r.t] = @ \cup {DownstreamEvent(r.op)}]
     \/ UNCHANGED published
  /\ req' = [req EXCEPT ![p] = NoRequest]
  /\ UNCHANGED <<ticket, events, comments>>

\* The database, the storage or the process fails before the request ends:
\* the open transaction rolls back, a publication not yet made is never made.
Fail(p) ==
  /\ req[p].pc # "idle"
  /\ req' = [req EXCEPT ![p] = NoRequest]
  /\ UNCHANGED <<ticket, events, comments, published>>

-----------------------------------------------------------------------------
Arrive(p) ==
  \E u \in Active, t \in Tickets :
    \/ \E s \in Severities, c \in Categories \cup {NULL} : Create(p, u, t, s, c)
    \/ \E op \in TransitionKey \cap Ops : \E arg \in Args(op) :
         Begin(p, op, u, t, arg)
    \/ BeginComment(p, u, t)
    \/ \E c \in Args("assignCategory") : BeginCategorise(p, u, t, c)

Write(p) ==
  \/ Assign(p) \/ Forward(p) \/ Redirect(p) \/ StartProgress(p) \/ Close(p)
  \/ RequestClose(p) \/ ApproveClose(p) \/ RefuseClose(p)
  \/ RequestRedirect(p) \/ ApproveRedirect(p) \/ RefuseRedirect(p)
  \/ OverrideSeverity(p) \/ AddComment(p) \/ AssignCategory(p)

Next ==
  \E p \in Procs :
    \/ Arrive(p) \/ ReadRequestEvent(p) \/ Write(p)
    \/ Conflict(p) \/ Publish(p) \/ Fail(p)

Spec == Init /\ [][Next]_vars
=============================================================================
