----------------------------- MODULE TicketProofs -----------------------------
(***************************************************************************)
(* Type correctness of module TicketService, for every directory and any   *)
(* number of tickets, processes and events. TypeOK alone is not inductive: *)
(* that a write produces a well-typed row needs what its request checked   *)
(* earlier, so the invariant is TypeOK together with SnapshotChecked.      *)
(***************************************************************************)
EXTENDS TicketProperties, TLAPS

\* A request that has yet to write has a valid argument; if it is a
\* state-machine action it passed every check on its snapshot, and
\* refuseRedirect knows the status to restore.
Checked(p) ==
  LET r == req[p] IN
  r.pc \in {"readRequestEvent", "write"} =>
    /\ r.arg \in Args(r.op)
    /\ r.op \in TransitionKey =>
         /\ r.before.status \in TRANSITIONS[r.op].allowedFrom
         /\ CanPerform(r.op, r.caller, r.before)
         /\ DifferentDept(r.op, r.arg, r.before)
    /\ r.pc = "write" /\ r.op = "refuseRedirect" =>
         r.prior \in {"Assigned", "InProgress"}

SnapshotChecked == \A p \in Procs : Checked(p)

TypeInv == TypeOK /\ SnapshotChecked

\* The keys of the transition table, one per state-machine action.
LEMMA KeysAreNames ==
  TransitionKey =
    {"assign", "forward", "redirect", "progress", "requestClose",
     "approveClose", "refuseClose", "requestRedirect", "approveRedirect",
     "refuseRedirect", "close", "overrideSeverity"}
BY DEF TransitionKey, TRANSITIONS

\* An action is only ever allowed from a real status.
LEMMA AllowedFromIsStatus ==
  \A op \in TransitionKey : TRANSITIONS[op].allowedFrom \subseteq Status
BY KeysAreNames DEF TRANSITIONS, Rule, Status, OpenStatus

\* Every argument is a user, a department, a severity, a category or NULL.
LEMMA ArgsAreValues == \A op : Args(op) \subseteq Value
BY DEF Args, Value

\* The row before create has the row's type.
LEMMA NoTicketType == NoTicket \in TicketRow
BY DEF NoTicket, TicketRow

\* An idle process has the request's type.
LEMMA NoRequestType == NoRequest \in Request
BY NoTicketType DEF NoRequest, Request, Value

\* The type invariant holds of the empty database.
LEMMA InitTypeInv == Init => TypeInv
BY NoTicketType, NoRequestType DEF Init, TypeInv, TypeOK, SnapshotChecked, Checked, NoRequest

-----------------------------------------------------------------------------
BusyPc == {"readRequestEvent", "write"}

\* A request that opens: only req[p] changes, to a record of the right type.
LEMMA ReadType ==
  ASSUME TypeOK, NEW p \in Procs, NEW op \in TransitionKey \cup OtherOps,
         NEW u \in Users, NEW t \in Tickets, NEW arg \in Args(op),
         NEW pc \in BusyPc, Read(p, op, u, t, arg, pc)
  PROVE  /\ TypeOK'
         /\ req'[p] = [pc |-> pc, op |-> op, caller |-> u, t |-> t, arg |-> arg,
                       before |-> ticket[t], prior |-> NULL,
                       seen |-> Len(events[t])]
         /\ \A q \in Procs \ {p} : req'[q] = req[q]
<1>1. arg \in Value
  BY ArgsAreValues
<1>2. ticket[t] \in TicketRow /\ Len(events[t]) \in Nat
  BY DEF TypeOK
<1>3. [pc |-> pc, op |-> op, caller |-> u, t |-> t, arg |-> arg,
       before |-> ticket[t], prior |-> NULL, seen |-> Len(events[t])] \in Request
  BY <1>1, <1>2 DEF Request, BusyPc
<1> QED
  BY <1>3 DEF Read, TypeOK, BusyPc

\* A state-machine request that opens passed its checks on its snapshot.
LEMMA BeginTypeInv ==
  ASSUME TypeInv, NEW p \in Procs, NEW op \in TransitionKey, NEW u \in Active,
         NEW t \in Tickets, NEW arg \in Args(op), Begin(p, op, u, t, arg)
  PROVE  TypeInv'
<1>1. /\ TypeOK
      /\ op \in TransitionKey \cup OtherOps
      /\ u \in Users
  BY DirectoryAssumption DEF TypeInv
<1>2. PICK pc \in BusyPc :
        /\ Read(p, op, u, t, arg, pc)
        /\ op = "refuseRedirect" => pc = "readRequestEvent"
  BY DEF Begin, BusyPc
<1>3. /\ TypeOK'
      /\ req'[p] = [pc |-> pc, op |-> op, caller |-> u, t |-> t, arg |-> arg,
                    before |-> ticket[t], prior |-> NULL,
                    seen |-> Len(events[t])]
      /\ \A q \in Procs \ {p} : req'[q] = req[q]
  BY <1>1, <1>2, ReadType
<1>4. SnapshotChecked'
  <2> SUFFICES ASSUME NEW q \in Procs PROVE Checked(q)'
    BY DEF SnapshotChecked
  <2>1. CASE q = p
    BY <1>2, <1>3, <2>1 DEF Begin, Checked, CanPerform, DifferentDept, OwnDept
  <2>2. CASE q # p
    <3>1. req'[q] = req[q]
      BY <1>3, <2>2
    <3> QED
      BY <3>1 DEF TypeInv, SnapshotChecked, Checked
  <2> QED
    BY <2>1, <2>2
<1> QED
  BY <1>3, <1>4 DEF TypeInv

\* addComment and assignCategory open with a valid argument.
LEMMA BeginOtherTypeInv ==
  ASSUME TypeInv, NEW p \in Procs, NEW u \in Active, NEW t \in Tickets,
         \/ BeginComment(p, u, t)
         \/ \E c \in Args("assignCategory") : BeginCategorise(p, u, t, c)
  PROVE  TypeInv'
<1>1. u \in Users /\ TypeOK /\ "write" \in BusyPc
  BY DirectoryAssumption DEF TypeInv, BusyPc
<1>2. PICK op \in OtherOps : \E arg \in Args(op) : Read(p, op, u, t, arg, "write")
  BY DEF BeginComment, BeginCategorise, OtherOps, Args
<1>3. op \in TransitionKey \cup OtherOps /\ op \notin TransitionKey
  BY KeysAreNames DEF OtherOps
<1>4. PICK arg \in Args(op) : Read(p, op, u, t, arg, "write")
  BY <1>2
<1>5. /\ TypeOK'
      /\ req'[p] = [pc |-> "write", op |-> op, caller |-> u, t |-> t, arg |-> arg,
                    before |-> ticket[t], prior |-> NULL,
                    seen |-> Len(events[t])]
      /\ \A q \in Procs \ {p} : req'[q] = req[q]
  BY <1>1, <1>3, <1>4, ReadType, Zenon
<1>6. SnapshotChecked'
  BY <1>3, <1>4, <1>5, KeysAreNames DEF TypeInv, SnapshotChecked, Checked
<1> QED
  BY <1>5, <1>6 DEF TypeInv

\* refuseRedirect's second read yields Assigned or InProgress.
LEMMA ReadRequestEventTypeInv ==
  ASSUME TypeInv, NEW p \in Procs, ReadRequestEvent(p)
  PROVE  TypeInv'
<1>1. PICK prior \in {"Assigned", "InProgress"} :
        req' = [req EXCEPT ![p].prior = prior, ![p].pc = "write"]
  BY DEF ReadRequestEvent, PriorStatus
<1>2. UNCHANGED <<ticket, events, comments, published>>
  BY DEF ReadRequestEvent
<1>3. req[p] \in Request /\ req[p].pc = "readRequestEvent"
  BY DEF ReadRequestEvent, TypeInv, TypeOK
<1>4. req' \in [Procs -> Request]
  BY <1>1, <1>3 DEF TypeInv, TypeOK, Request
<1>5. TypeOK'
  BY <1>1, <1>2, <1>3, <1>4 DEF TypeInv, TypeOK, Request
<1>6. SnapshotChecked'
  BY <1>1, <1>3 DEF TypeInv, TypeOK, Request, SnapshotChecked, Checked
<1> QED
  BY <1>5, <1>6 DEF TypeInv

-----------------------------------------------------------------------------
\* What the type invariant says of a request about to write.
LEMMA RequestFacts ==
  ASSUME TypeInv, NEW p \in Procs, req[p].pc = "write"
  PROVE  /\ req[p] \in Request /\ req[p].t \in Tickets /\ req[p].caller \in Users
         /\ ticket[req[p].t] \in TicketRow
         /\ events[req[p].t] \in Seq(EventRow)
         /\ comments[req[p].t] \in Seq(CommentRow)
         /\ req[p].before \in TicketRow
         /\ req[p].arg \in Value
         /\ Checked(p)
BY DEF TypeInv, TypeOK, SnapshotChecked, Request

\* A request that ends or goes on to publish keeps the other requests' checks.
LEMMA RequestEnds ==
  ASSUME TypeInv, NEW p \in Procs, req[p].pc # "idle",
         \/ req' = [req EXCEPT ![p] = NoRequest]
         \/ req' = [req EXCEPT ![p] = [@ EXCEPT !.pc = "publish"]]
  PROVE  /\ req' \in [Procs -> Request]
         /\ \A q \in Procs : req'[q].pc # "idle" =>
              req'[q].caller \in Users /\ req'[q].t \in Tickets
         /\ SnapshotChecked'
<1>1. /\ req \in [Procs -> Request] /\ req[p] \in Request
      /\ \A q \in Procs : req[q].pc # "idle" =>
           req[q].caller \in Users /\ req[q].t \in Tickets
      /\ SnapshotChecked
  BY DEF TypeInv, TypeOK
<1>2. [req[p] EXCEPT !.pc = "publish"] \in Request
  BY <1>1 DEF Request
<1>3. PICK new \in Request :
        /\ req' = [req EXCEPT ![p] = new]
        /\ new.pc \in {"idle", "publish"}
        /\ new.pc = "publish" => new.caller \in Users /\ new.t \in Tickets
  <2>1. CASE req' = [req EXCEPT ![p] = NoRequest]
    BY <2>1, NoRequestType DEF NoRequest
  <2>2. CASE req' = [req EXCEPT ![p] = [@ EXCEPT !.pc = "publish"]]
    BY <1>1, <1>2, <2>2 DEF Request
  <2> QED
    BY <2>1, <2>2
<1>4. req'[p] = new /\ \A q \in Procs \ {p} : req'[q] = req[q]
  BY <1>1, <1>3
<1>5. SnapshotChecked'
  BY <1>1, <1>3, <1>4 DEF SnapshotChecked, Checked
<1> QED
  BY <1>1, <1>3, <1>4, <1>5

\* A commit of a well-typed row and event keeps the type invariant.
LEMMA CommitTypeInv ==
  ASSUME TypeInv, NEW p \in Procs, NEW op, NEW row \in TicketRow,
         NEW event \in EventRow, NEW pc \in {"idle", "publish"},
         Commit(p, op, row, event, pc),
         comments' \in [Tickets -> Seq(CommentRow)]
  PROVE  TypeInv'
<1>1. req[p].pc = "write"
  BY DEF Commit
<1>2. req[p].t \in Tickets /\ events[req[p].t] \in Seq(EventRow)
  BY <1>1, RequestFacts
<1>3. /\ req' \in [Procs -> Request]
      /\ \A q \in Procs : req'[q].pc # "idle" =>
           req'[q].caller \in Users /\ req'[q].t \in Tickets
      /\ SnapshotChecked'
  BY <1>1, RequestEnds DEF Commit
<1>4. ticket' \in [Tickets -> TicketRow]
  BY <1>2 DEF Commit, TypeInv, TypeOK
<1>5. events' \in [Tickets -> Seq(EventRow)]
  BY <1>2 DEF Commit, TypeInv, TypeOK
<1>6. published' = published
  BY DEF Commit
<1> QED
  BY <1>3, <1>4, <1>5, <1>6 DEF TypeInv, TypeOK

\* The fan-out queries return users.
LEMMA FanOutTypes ==
  /\ ActiveLeads \in SUBSET Users
  /\ \A d : ActiveStaff(d) \in SUBSET Users
BY DirectoryAssumption DEF ActiveLeads, ActiveStaff

\* An event built by a handler has the event row's type.
LEMMA EventIsRow ==
  ASSUME TypeInv, NEW p \in Procs, req[p].pc = "write",
         NEW type \in EventType, NEW to \in Status, NEW old \in Value,
         NEW new \in Value, NEW notified \in Notified
  PROVE  Event(p, type, to, old, new, notified) \in EventRow
<1>1. req[p].caller \in Users /\ req[p].before \in TicketRow
  BY RequestFacts
<1>2. req[p].before.status \in Status \cup {NULL}
  BY <1>1 DEF TicketRow
<1> QED
  BY <1>1, <1>2 DEF Event, EventRow

\* The write of a state-machine action: a Commit with a well-typed row and
\* event, and at most one comment more.
TransitionWrite(p) ==
  \/ Assign(p) \/ Forward(p) \/ Redirect(p) \/ StartProgress(p) \/ Close(p)
  \/ RequestClose(p) \/ ApproveClose(p) \/ RefuseClose(p)
  \/ RequestRedirect(p) \/ ApproveRedirect(p) \/ RefuseRedirect(p)
  \/ OverrideSeverity(p)

\* Each of the twelve state-machine writes keeps the type invariant.
LEMMA TransitionWriteTypeInv ==
  ASSUME TypeInv, NEW p \in Procs, TransitionWrite(p)
  PROVE  TypeInv'
<1> DEFINE r == req[p]
           b == r.before
           cur == ticket[r.t]
<1>1. r.pc = "write" /\ r.op \in TransitionKey
  BY KeysAreNames DEF TransitionWrite, Assign, Forward, Redirect, StartProgress,
     Close, RequestClose, ApproveClose, RefuseClose, RequestRedirect,
     ApproveRedirect, RefuseRedirect, OverrideSeverity, Commit
<1>2. /\ r \in Request /\ r.t \in Tickets /\ r.caller \in Users
      /\ cur \in TicketRow
      /\ comments[r.t] \in Seq(CommentRow)
      /\ r.before \in TicketRow
      /\ r.arg \in Value
      /\ Checked(p)
  BY <1>1, RequestFacts
<1>3. /\ r.before.status \in Status
      /\ r.before.requester \in Users \cup {NULL}
      /\ r.before.assignee \in Users \cup {NULL}
      /\ r.before.closeReq \in Users \cup {NULL}
      /\ r.before.redirectReq \in Users \cup {NULL}
      /\ r.before.dept \in Value /\ r.before.severity \in Value
      /\ r.before.status # NULL
  BY <1>1, <1>2, AllowedFromIsStatus, NullStatusAssumption
     DEF TicketRow, Value, Checked
<1>4. comments \in [Tickets -> Seq(CommentRow)]
  BY DEF TypeInv, TypeOK
<1>5. NULL \in Value
  BY DEF Value
<1>6. {"Assigned", "InProgress", "Closed", "CloseRequested",
       "RedirectRequested"} \subseteq Status
  BY DEF Status, OpenStatus
<1>11. CASE Assign(p)
  <2> DEFINE told == Tell({r.arg}, "TicketAssigned")
                     \cup Tell({b.requester} \ {r.caller}, "StatusChanged")
             row == [cur EXCEPT !.assignee = r.arg]
             event == Event(p, "AgentAssigned", b.status, NULL, r.arg, told)
  <2>1. r.op = "assign"
    BY <1>11 DEF Assign, Commit
  <2>2. r.arg \in Users
    BY <1>1, <1>2, <2>1 DEF Checked, Args
  <2>3. told \in Notified
    BY <1>2, <1>3, <2>2, FanOutTypes DEF Tell, Notified, NotificationType
  <2>4. event \in EventRow
    <3> HIDE DEF told
    <3> QED BY <1>1, <1>3, <1>5, <1>6, <2>2, <2>3, EventIsRow DEF EventType, Value
  <2>5. row \in TicketRow
    BY <1>2, <1>3, <1>6, <2>2 DEF TicketRow
  <2>6. comments' \in [Tickets -> Seq(CommentRow)]
    BY <1>4, <1>11 DEF Assign
  <2>7. Commit(p, "assign", row, event, "idle")
    BY <1>11 DEF Assign
  <2> QED
    BY <2>4, <2>5, <2>6, <2>7, CommitTypeInv
<1>12. CASE Forward(p)
  <2> DEFINE told == Tell(ActiveStaff(r.arg), "TicketForwarded")
                     \cup Tell({b.assignee, b.requester} \ {r.caller},
                               "StatusChanged")
             row == [cur EXCEPT !.status = "Assigned", !.dept = r.arg]
             event == Event(p, "Forwarded", "Assigned", b.dept, r.arg, told)
  <2>1. r.op = "forward"
    BY <1>12 DEF Forward, Commit
  <2>2. r.arg \in Depts
    BY <1>1, <1>2, <2>1 DEF Checked, Args
  <2>3. told \in Notified
    BY <1>2, <1>3, <2>2, FanOutTypes DEF Tell, Notified, NotificationType
  <2>4. event \in EventRow
    <3> HIDE DEF told
    <3> QED BY <1>1, <1>3, <1>5, <1>6, <2>2, <2>3, EventIsRow DEF EventType, Value
  <2>5. row \in TicketRow
    BY <1>2, <1>3, <1>6, <2>2 DEF TicketRow
  <2>6. comments' \in [Tickets -> Seq(CommentRow)]
    BY <1>4, <1>12 DEF Forward
  <2>7. Commit(p, "forward", row, event, "idle")
    BY <1>12 DEF Forward
  <2> QED
    BY <2>4, <2>5, <2>6, <2>7, CommitTypeInv
<1>13. CASE Redirect(p)
  <2> DEFINE told == Tell(ActiveStaff(r.arg), "TicketForwarded")
                     \cup Tell({b.requester} \ {r.caller}, "StatusChanged")
             row == [cur EXCEPT !.status = "Assigned", !.dept = r.arg]
             event == Event(p, "Redirected", "Assigned", b.dept, r.arg, told)
  <2>1. r.op = "redirect"
    BY <1>13 DEF Redirect, Commit
  <2>2. r.arg \in Depts
    BY <1>1, <1>2, <2>1 DEF Checked, Args
  <2>3. told \in Notified
    BY <1>2, <1>3, <2>2, FanOutTypes DEF Tell, Notified, NotificationType
  <2>4. event \in EventRow
    <3> HIDE DEF told
    <3> QED BY <1>1, <1>3, <1>5, <1>6, <2>2, <2>3, EventIsRow DEF EventType, Value
  <2>5. row \in TicketRow
    BY <1>2, <1>3, <1>6, <2>2 DEF TicketRow
  <2>6. comments' \in [Tickets -> Seq(CommentRow)]
    BY <1>4, <1>13 DEF Redirect
  <2>7. Commit(p, "redirect", row, event, "idle")
    BY <1>13 DEF Redirect
  <2> QED
    BY <2>4, <2>5, <2>6, <2>7, CommitTypeInv
<1>14. CASE StartProgress(p)
  <2> DEFINE told == Tell({b.requester} \cup ({b.assignee} \ {r.caller}),
                          "StatusChanged")
             row == [cur EXCEPT !.status = "InProgress"]
             event == Event(p, "Started", "InProgress", NULL, NULL, told)
  <2>1. r.op = "progress"
    BY <1>14 DEF StartProgress, Commit
  <2>2. told \in Notified
    BY <1>2, <1>3, FanOutTypes DEF Tell, Notified, NotificationType
  <2>3. event \in EventRow
    <3> HIDE DEF told
    <3> QED BY <1>1, <1>3, <1>5, <1>6, <2>2, EventIsRow DEF EventType, Value
  <2>4. row \in TicketRow
    BY <1>2, <1>3, <1>6 DEF TicketRow
  <2>5. comments' \in [Tickets -> Seq(CommentRow)]
    BY <1>4, <1>14 DEF StartProgress
  <2>6. Commit(p, "progress", row, event, "idle")
    BY <1>14 DEF StartProgress
  <2> QED
    BY <2>3, <2>4, <2>5, <2>6, CommitTypeInv
<1>15. CASE Close(p)
  <2> DEFINE told == Tell({b.requester} \cup ({b.assignee} \ {r.caller}),
                          "TicketClosed")
             row == [cur EXCEPT !.status = "Closed", !.closedAt = TRUE]
             event == Event(p, "Closed", "Closed", NULL, NULL, told)
  <2>1. r.op = "close"
    BY <1>15 DEF Close, Commit
  <2>2. told \in Notified
    BY <1>2, <1>3, FanOutTypes DEF Tell, Notified, NotificationType
  <2>3. event \in EventRow
    <3> HIDE DEF told
    <3> QED BY <1>1, <1>3, <1>5, <1>6, <2>2, EventIsRow DEF EventType, Value
  <2>4. row \in TicketRow
    BY <1>2, <1>3, <1>6 DEF TicketRow
  <2>5. comments' \in [Tickets -> Seq(CommentRow)]
    BY <1>4, <1>15 DEF Close
  <2>6. Commit(p, "close", row, event, "publish")
    BY <1>15 DEF Close
  <2> QED
    BY <2>3, <2>4, <2>5, <2>6, CommitTypeInv
<1>16. CASE RequestClose(p)
  <2> DEFINE told == Tell(Deciders(p), "CloseRequested")
             row == [cur EXCEPT !.status = "CloseRequested",
                                   !.closeReq = r.caller]
             event == Event(p, "CloseRequested", "CloseRequested", NULL, NULL, told)
  <2>1. r.op = "requestClose"
    BY <1>16 DEF RequestClose, Commit
  <2>2. told \in Notified
    BY <1>2, <1>3, FanOutTypes DEF Tell, Notified, NotificationType, Deciders
  <2>3. event \in EventRow
    <3> HIDE DEF told
    <3> QED BY <1>1, <1>3, <1>5, <1>6, <2>2, EventIsRow DEF EventType, Value
  <2>4. row \in TicketRow
    BY <1>2, <1>3, <1>6 DEF TicketRow
  <2>5. comments' \in [Tickets -> Seq(CommentRow)]
    <3> DEFINE proof == [author |-> r.caller, notified |-> {}]
    <3>1. proof \in CommentRow
      BY <1>2 DEF CommentRow, Notified
    <3>2. comments' = [comments EXCEPT ![r.t] = Append(@, proof)]
      BY <1>16 DEF RequestClose
    <3> HIDE DEF proof
    <3> QED
      BY <1>2, <1>4, <3>1, <3>2
  <2>6. Commit(p, "requestClose", row, event, "idle")
    BY <1>16 DEF RequestClose
  <2> QED
    BY <2>3, <2>4, <2>5, <2>6, CommitTypeInv
<1>17. CASE ApproveClose(p)
  <2> DEFINE told == Tell({b.requester} \cup ({b.closeReq} \ {r.caller}),
                          "TicketClosed")
             row == [cur EXCEPT !.status = "Closed", !.closedAt = TRUE,
                                   !.closeReq = NULL]
             event == Event(p, "Closed", "Closed", NULL, NULL, told)
  <2>1. r.op = "approveClose"
    BY <1>17 DEF ApproveClose, Commit
  <2>2. told \in Notified
    BY <1>2, <1>3, FanOutTypes DEF Tell, Notified, NotificationType
  <2>3. event \in EventRow
    <3> HIDE DEF told
    <3> QED BY <1>1, <1>3, <1>5, <1>6, <2>2, EventIsRow DEF EventType, Value
  <2>4. row \in TicketRow
    BY <1>2, <1>3, <1>6 DEF TicketRow
  <2>5. comments' \in [Tickets -> Seq(CommentRow)]
    BY <1>4, <1>17 DEF ApproveClose
  <2>6. Commit(p, "approveClose", row, event, "publish")
    BY <1>17 DEF ApproveClose
  <2> QED
    BY <2>3, <2>4, <2>5, <2>6, CommitTypeInv
<1>18. CASE RefuseClose(p)
  <2> DEFINE told == Tell({b.closeReq} \ {r.caller}, "CloseRefused")
             row == [cur EXCEPT !.status = "InProgress", !.closeReq = NULL]
             event == Event(p, "CloseRefused", "InProgress", NULL, NULL, told)
  <2>1. r.op = "refuseClose"
    BY <1>18 DEF RefuseClose, Commit
  <2>2. told \in Notified
    BY <1>2, <1>3, FanOutTypes DEF Tell, Notified, NotificationType
  <2>3. event \in EventRow
    <3> HIDE DEF told
    <3> QED BY <1>1, <1>3, <1>5, <1>6, <2>2, EventIsRow DEF EventType, Value
  <2>4. row \in TicketRow
    BY <1>2, <1>3, <1>6 DEF TicketRow
  <2>5. comments' \in [Tickets -> Seq(CommentRow)]
    BY <1>4, <1>18 DEF RefuseClose
  <2>6. Commit(p, "refuseClose", row, event, "idle")
    BY <1>18 DEF RefuseClose
  <2> QED
    BY <2>3, <2>4, <2>5, <2>6, CommitTypeInv
<1>19. CASE RequestRedirect(p)
  <2> DEFINE told == Tell(Deciders(p), "RedirectRequested")
             row == [cur EXCEPT !.status = "RedirectRequested",
                                   !.redirectReq = r.caller]
             event == Event(p, "RedirectRequested", "RedirectRequested", NULL, NULL, told)
  <2>1. r.op = "requestRedirect"
    BY <1>19 DEF RequestRedirect, Commit
  <2>2. told \in Notified
    BY <1>2, <1>3, FanOutTypes DEF Tell, Notified, NotificationType, Deciders
  <2>3. event \in EventRow
    <3> HIDE DEF told
    <3> QED BY <1>1, <1>3, <1>5, <1>6, <2>2, EventIsRow DEF EventType, Value
  <2>4. row \in TicketRow
    BY <1>2, <1>3, <1>6 DEF TicketRow
  <2>5. comments' \in [Tickets -> Seq(CommentRow)]
    BY <1>4, <1>19 DEF RequestRedirect
  <2>6. Commit(p, "requestRedirect", row, event, "idle")
    BY <1>19 DEF RequestRedirect
  <2> QED
    BY <2>3, <2>4, <2>5, <2>6, CommitTypeInv
<1>20. CASE ApproveRedirect(p)
  <2> DEFINE told == Tell(ActiveStaff(r.arg), "TicketForwarded")
                     \cup Tell({b.redirectReq, b.requester} \ {r.caller},
                               "StatusChanged")
             row == [cur EXCEPT !.status = "Assigned", !.dept = r.arg,
                                   !.redirectReq = NULL]
             event == Event(p, "Redirected", "Assigned", b.dept, r.arg, told)
  <2>1. r.op = "approveRedirect"
    BY <1>20 DEF ApproveRedirect, Commit
  <2>2. r.arg \in Depts
    BY <1>1, <1>2, <2>1 DEF Checked, Args
  <2>3. told \in Notified
    BY <1>2, <1>3, <2>2, FanOutTypes DEF Tell, Notified, NotificationType
  <2>4. event \in EventRow
    <3> HIDE DEF told
    <3> QED BY <1>1, <1>3, <1>5, <1>6, <2>2, <2>3, EventIsRow DEF EventType, Value
  <2>5. row \in TicketRow
    BY <1>2, <1>3, <1>6, <2>2 DEF TicketRow
  <2>6. comments' \in [Tickets -> Seq(CommentRow)]
    BY <1>4, <1>20 DEF ApproveRedirect
  <2>7. Commit(p, "approveRedirect", row, event, "idle")
    BY <1>20 DEF ApproveRedirect
  <2> QED
    BY <2>4, <2>5, <2>6, <2>7, CommitTypeInv
<1>21. CASE RefuseRedirect(p)
  <2> DEFINE told == Tell({b.redirectReq} \ {r.caller}, "RedirectRefused")
             row == [cur EXCEPT !.status = r.prior, !.redirectReq = NULL]
             event == Event(p, "RedirectRefused", r.prior, NULL, NULL, told)
  <2>1. r.op = "refuseRedirect"
    BY <1>21 DEF RefuseRedirect, Commit
  <2>2. r.prior \in {"Assigned", "InProgress"}
    BY <1>1, <1>2, <2>1 DEF Checked, Args
  <2>3. told \in Notified
    BY <1>2, <1>3, <2>2, FanOutTypes DEF Tell, Notified, NotificationType
  <2>4. event \in EventRow
    <3> HIDE DEF told
    <3> QED BY <1>1, <1>3, <1>5, <1>6, <2>2, <2>3, EventIsRow DEF EventType, Value
  <2>5. row \in TicketRow
    BY <1>2, <1>3, <1>6, <2>2 DEF TicketRow
  <2>6. comments' \in [Tickets -> Seq(CommentRow)]
    BY <1>4, <1>21 DEF RefuseRedirect
  <2>7. Commit(p, "refuseRedirect", row, event, "idle")
    BY <1>21 DEF RefuseRedirect
  <2> QED
    BY <2>4, <2>5, <2>6, <2>7, CommitTypeInv
<1>22. CASE OverrideSeverity(p)
  <2> DEFINE told == Tell({b.requester, b.assignee} \ {r.caller}, "StatusChanged")
             row == [cur EXCEPT !.severity = r.arg]
             event == Event(p, "SeverityChanged", b.status, b.severity, r.arg, told)
  <2>1. r.op = "overrideSeverity"
    BY <1>22 DEF OverrideSeverity, Commit
  <2>2. r.arg \in Severities
    BY <1>1, <1>2, <2>1 DEF Checked, Args
  <2>3. told \in Notified
    BY <1>2, <1>3, <2>2, FanOutTypes DEF Tell, Notified, NotificationType
  <2>4. event \in EventRow
    <3> HIDE DEF told
    <3> QED BY <1>1, <1>3, <1>5, <1>6, <2>2, <2>3, EventIsRow DEF EventType, Value
  <2>5. row \in TicketRow
    BY <1>2, <1>3, <1>6, <2>2 DEF TicketRow
  <2>6. comments' \in [Tickets -> Seq(CommentRow)]
    BY <1>4, <1>22 DEF OverrideSeverity
  <2>7. Commit(p, "overrideSeverity", row, event, "idle")
    BY <1>22 DEF OverrideSeverity
  <2> QED
    BY <2>4, <2>5, <2>6, <2>7, CommitTypeInv
<1> QED
  BY <1>11, <1>12, <1>13, <1>14, <1>15, <1>16,
     <1>17, <1>18, <1>19, <1>20, <1>21, <1>22 DEF TransitionWrite
-----------------------------------------------------------------------------
\* create keeps the type invariant.
LEMMA CreateTypeInv ==
  ASSUME TypeInv, NEW p \in Procs, NEW u \in Active, NEW t \in Tickets,
         NEW s \in Severities, NEW c \in Categories \cup {NULL},
         Create(p, u, t, s, c)
  PROVE  TypeInv'
<1> DEFINE row == [NoTicket EXCEPT !.status = "Pending", !.requester = u,
                                   !.severity = s, !.category = c]
           told == Tell(ActiveLeads \ {u}, "TicketCreated")
           created == [type |-> "Created", actor |-> u, from |-> NULL,
                       to |-> "Pending", old |-> NULL, new |-> NULL,
                       notified |-> told]
           new == [NoRequest EXCEPT !.pc = "publish", !.op = "create",
                                    !.caller = u, !.t = t]
<1>1. u \in Users /\ "Pending" \in Status /\ NULL \in Value /\ TypeOK
  BY DirectoryAssumption DEF Status, OpenStatus, Value, TypeInv
<1>2. row \in TicketRow
  BY <1>1 DEF NoTicket, TicketRow
<1>3. told \in Notified
  BY FanOutTypes DEF Tell, Notified, NotificationType
<1>4. created \in EventRow
  <2> HIDE DEF told
  <2> QED BY <1>1, <1>3 DEF EventRow, EventType
<1>5. /\ new \in Request
      /\ new.pc = "publish" /\ new.caller = u /\ new.t = t
  BY <1>1, NoRequestType DEF Request, NoRequest, OtherOps
<1>6. /\ ticket' = [ticket EXCEPT ![t] = row]
      /\ events' = [events EXCEPT ![t] = <<created>>]
      /\ req' = [req EXCEPT ![p] = new]
      /\ UNCHANGED <<comments, published>>
  BY DEF Create
<1> HIDE DEF row, created, new
<1>7. TypeOK'
  <2>1. <<created>> \in Seq(EventRow)
    BY <1>4
  <2> QED
    BY <1>1, <1>2, <1>5, <1>6, <2>1 DEF TypeOK
<1>8. SnapshotChecked'
  BY <1>1, <1>5, <1>6 DEF TypeInv, TypeOK, SnapshotChecked, Checked
<1> QED
  BY <1>7, <1>8 DEF TypeInv

\* addComment keeps the type invariant.
LEMMA AddCommentTypeInv ==
  ASSUME TypeInv, NEW p \in Procs, AddComment(p)
  PROVE  TypeInv'
<1> DEFINE r == req[p]
           told == Tell((ActiveLeads \cup {r.before.assignee, r.before.requester})
                        \ {r.caller}, "TicketCommented")
           comment == [author |-> r.caller, notified |-> told]
<1>1. /\ r.t \in Tickets /\ r.caller \in Users /\ r.before \in TicketRow
      /\ r.pc = "write"
  BY RequestFacts DEF AddComment
<1>2. told \in Notified
  BY <1>1, FanOutTypes DEF Tell, Notified, NotificationType, TicketRow
<1>3. comment \in CommentRow
  <2> HIDE DEF told
  <2> QED BY <1>1, <1>2 DEF CommentRow
<1>4. /\ comments' = [comments EXCEPT ![r.t] = Append(@, comment)]
      /\ req' = [req EXCEPT ![p] = NoRequest]
      /\ UNCHANGED <<ticket, events, published>>
  BY DEF AddComment
<1> HIDE DEF comment
<1>5. comments' \in [Tickets -> Seq(CommentRow)]
  BY <1>1, <1>3, <1>4 DEF TypeInv, TypeOK
<1>6. /\ req' \in [Procs -> Request]
      /\ \A q \in Procs : req'[q].pc # "idle" =>
           req'[q].caller \in Users /\ req'[q].t \in Tickets
      /\ SnapshotChecked'
  BY <1>1, <1>4, RequestEnds
<1> QED
  BY <1>4, <1>5, <1>6 DEF TypeInv, TypeOK

\* assignCategory keeps the type invariant.
LEMMA AssignCategoryTypeInv ==
  ASSUME TypeInv, NEW p \in Procs, AssignCategory(p)
  PROVE  TypeInv'
<1>1. /\ req[p].t \in Tickets /\ req[p].pc = "write"
      /\ ticket[req[p].t] \in TicketRow
      /\ req[p].arg \in Categories \cup {NULL}
  BY RequestFacts DEF AssignCategory, Checked, Args
<1>2. [ticket[req[p].t] EXCEPT !.category = req[p].arg] \in TicketRow
  BY <1>1 DEF TicketRow
<1>3. ticket' \in [Tickets -> TicketRow]
  BY <1>1, <1>2 DEF AssignCategory, TypeInv, TypeOK
<1>4. /\ req' \in [Procs -> Request]
      /\ \A q \in Procs : req'[q].pc # "idle" =>
           req'[q].caller \in Users /\ req'[q].t \in Tickets
      /\ SnapshotChecked'
  BY <1>1, RequestEnds DEF AssignCategory
<1>5. UNCHANGED <<events, comments, published>>
  BY DEF AssignCategory
<1> QED
  BY <1>3, <1>4, <1>5 DEF TypeInv, TypeOK

\* Every step keeps the type invariant.
LEMMA NextTypeInv == TypeInv /\ [Next]_vars => TypeInv'
<1> SUFFICES ASSUME TypeInv, [Next]_vars PROVE TypeInv'
  OBVIOUS
<1>1. ASSUME NEW p \in Procs, Arrive(p) PROVE TypeInv'
  BY <1>1, CreateTypeInv, BeginTypeInv, BeginOtherTypeInv DEF Arrive
<1>2. ASSUME NEW p \in Procs, ReadRequestEvent(p) PROVE TypeInv'
  BY <1>2, ReadRequestEventTypeInv
<1>3. ASSUME NEW p \in Procs, Write(p) PROVE TypeInv'
  BY <1>3, TransitionWriteTypeInv, AddCommentTypeInv, AssignCategoryTypeInv
     DEF Write, TransitionWrite
<1>4. ASSUME NEW p \in Procs, Conflict(p) \/ Publish(p) \/ Fail(p)
      PROVE  TypeInv'
  <2>1. req[p].pc # "idle" /\ req' = [req EXCEPT ![p] = NoRequest]
    BY <1>4 DEF Conflict, Publish, Fail
  <2>2. /\ req' \in [Procs -> Request]
        /\ \A q \in Procs : req'[q].pc # "idle" =>
             req'[q].caller \in Users /\ req'[q].t \in Tickets
        /\ SnapshotChecked'
    BY <2>1, RequestEnds
  <2>3. UNCHANGED <<ticket, events, comments>>
    BY <1>4 DEF Conflict, Publish, Fail
  <2>4. published' \in [Tickets -> SUBSET {"ticketCreated", "ticketClosed"}]
    <3>1. DownstreamEvent(req[p].op) \in {"ticketCreated", "ticketClosed"}
      BY DEF DownstreamEvent
    <3>2. CASE UNCHANGED published
      BY <3>2 DEF TypeInv, TypeOK
    <3>3. CASE published' = [published EXCEPT ![req[p].t] =
                               @ \cup {DownstreamEvent(req[p].op)}]
      <4> HIDE DEF DownstreamEvent
      <4> QED BY <3>1, <3>3 DEF TypeInv, TypeOK
    <3> QED
      BY <1>4, <3>2, <3>3 DEF Conflict, Publish, Fail
  <2> QED
    BY <2>2, <2>3, <2>4 DEF TypeInv, TypeOK
<1>5. CASE UNCHANGED vars
  BY <1>5 DEF vars, TypeInv, TypeOK, SnapshotChecked, Checked
<1> QED
  BY <1>1, <1>2, <1>3, <1>4, <1>5 DEF Next

\* The variables always have their types, for every directory, every number of
\* tickets, processes and events.
THEOREM TypeCorrect == Spec => []TypeOK
<1>1. TypeInv => TypeOK
  BY DEF TypeInv
<1> QED
  BY <1>1, InitTypeInv, NextTypeInv, PTL DEF Spec
=============================================================================
