---------------------------- MODULE TicketTrailProofs ----------------------------
(***************************************************************************)
(* Theorems about module TicketService that tie a ticket's row to its      *)
(* audit trail, for every directory and any number of tickets, processes   *)
(* and events. TicketStep tells what the writes of the twelve              *)
(* state-machine actions have in common; each theorem's invariant is       *)
(* shown to survive a TicketStep, a Create and everything else.            *)
(*                                                                         *)
(* In order: the audit chain and that nothing changes silently; that each  *)
(* event follows the table, its actor had been given the ticket, and those *)
(* who must act next were told; the proof comments of close requests; one  *)
(* close per ticket and one ask at a time; that row and trail agree; what  *)
(* is published downstream; and what a write says of the row it changes,   *)
(* whom it tells and what it restores, unless it has been overtaken.       *)
(***************************************************************************)
EXTENDS TicketProofs, FiniteSetTheorems

\* The status changes that a write may make.
Edge(from, to) ==
  \/ from \in {"Pending", "Assigned", "InProgress"} /\ to \in {from, "Assigned", "Closed"}
  \/ from = "Assigned" /\ to \in {"InProgress", "RedirectRequested"}
  \/ from = "InProgress" /\ to \in {"CloseRequested", "RedirectRequested"}
  \/ from = "CloseRequested" /\ to \in {"Closed", "InProgress"}
  \/ from = "RedirectRequested" /\ to \in {"Assigned", "InProgress"}

\* What a write by user u does to the row: cur becomes row, under an event of
\* a type whose attribute becomes new.
StepShape(u, cur, row, type, new) ==
  /\ cur.status \in OpenStatus /\ row.status \in Status
  /\ type \in EventType \ {"Created"}
  /\ Edge(cur.status, row.status)
  /\ row.status = "CloseRequested" <=> type = "CloseRequested"
  /\ row.status = "RedirectRequested" <=> type = "RedirectRequested"
  /\ row.status = "Closed" <=> type = "Closed"
  /\ row.status = "Pending" => cur.status = "Pending"
  /\ type \in Routing => row.status = "Assigned" /\ new \in Depts
  /\ cur.status = "Pending" /\ type \notin Routing =>
       row.status \in {"Pending", "Closed"}
  /\ row.closeReq = IF row.status = "CloseRequested" THEN u
                    ELSE IF cur.status = "CloseRequested" THEN NULL
                    ELSE cur.closeReq
  /\ row.redirectReq = IF row.status = "RedirectRequested" THEN u
                       ELSE IF cur.status = "RedirectRequested" THEN NULL
                       ELSE cur.redirectReq
  /\ row.dept = IF type \in Routing THEN new ELSE cur.dept
  /\ row.assignee = IF type = "AgentAssigned" THEN new ELSE cur.assignee
  /\ row.severity = IF type = "SeverityChanged" THEN new ELSE cur.severity
  /\ type = "AgentAssigned" => new \in Args("assign")
  /\ type = "SeverityChanged" => new \in Severities
  /\ row.requester = cur.requester /\ row.category = cur.category
  /\ row.closedAt <=> cur.closedAt \/ row.status = "Closed"

\* Operation op, allowed from the status, writes an event of a type and a status.
Signs(op, type, from, to) ==
  /\ \/ op = "assign"           /\ type = "AgentAssigned"
     \/ op = "forward"          /\ type = "Forwarded"
     \/ op \in {"redirect", "approveRedirect"} /\ type = "Redirected"
     \/ op = "progress"         /\ type = "Started"
     \/ op = "requestClose"     /\ type = "CloseRequested"
     \/ op \in {"close", "approveClose"}       /\ type = "Closed"
     \/ op = "refuseClose"      /\ type = "CloseRefused"
     \/ op = "requestRedirect"  /\ type = "RedirectRequested"
     \/ op = "refuseRedirect"   /\ type = "RedirectRefused"
     \/ op = "overrideSeverity" /\ type = "SeverityChanged"
  /\ TRANSITIONS[op].to # NULL => to = TRANSITIONS[op].to
  /\ TRANSITIONS[op].to = NULL /\ op # "refuseRedirect" => to = from

\* An event of a type, by user u, with the attribute new, told those whom
\* TheRightPeopleKnow is about.
Told(u, type, new, told) ==
  /\ type \in Routing => ActiveStaff(new) \X {"TicketForwarded"} \subseteq told
  /\ type \in {"CloseRequested", "RedirectRequested"} =>
       (ActiveLeads \ {u}) \X {type} \subseteq told

\* Request p, which passed the checks of its operation, writes ticket t of its
\* own, and no other, and appends one event.
TicketStep(p) ==
  LET t == req[p].t
      u == req[p].caller
      e == Last(events'[t])
  IN
  /\ t \in Tickets /\ u \in Users
  /\ req[p].pc = "write" /\ req[p].op \in TransitionKey /\ Checked(p)
  /\ \A x \in Tickets \ {t} : ticket'[x] = ticket[x] /\ events'[x] = events[x]
  /\ ticket' = [ticket EXCEPT ![t] = ticket'[t]]
  /\ events'[t] = Append(events[t], e)
  /\ e.from \in TRANSITIONS[req[p].op].allowedFrom
  /\ Signs(req[p].op, e.type, e.from, e.to)
  /\ Told(u, e.type, e.new, e.notified)
  /\ e.from = ticket[t].status /\ e.to = ticket'[t].status /\ e.actor = u
  /\ StepShape(u, ticket[t], ticket'[t], e.type, e.new)

\* What the conditional UPDATE guarantees of the row it matched.
LEMMA CommitFacts ==
  ASSUME TypeInv, NEW p \in Procs, NEW op \in TransitionKey, NEW row, NEW event,
         NEW pc, Commit(p, op, row, event, pc)
  PROVE  /\ req[p].pc = "write" /\ req[p].op = op /\ req[p].t \in Tickets
         /\ Checked(p)
         /\ req[p].caller \in Users
         /\ op = "assign" => req[p].arg \in Args("assign")
         /\ op \in {"forward", "redirect", "approveRedirect"} => req[p].arg \in Depts
         /\ op = "overrideSeverity" => req[p].arg \in Severities
         /\ op = "refuseRedirect" => req[p].prior \in {"Assigned", "InProgress"}
         /\ ticket[req[p].t] \in TicketRow
         /\ ticket[req[p].t].status = req[p].before.status
         /\ ticket[req[p].t].status \in TRANSITIONS[op].allowedFrom
<1>1. req[p].pc = "write" /\ req[p].op = op
  BY DEF Commit
<1>2. /\ req[p].t \in Tickets /\ req[p].caller \in Users
      /\ Checked(p) /\ ticket[req[p].t] \in TicketRow
  BY <1>1, RequestFacts
<1> QED
  BY <1>1, <1>2 DEF Commit, RowMatches, Checked, Args

\* A commit whose row has the right shape is a TicketStep.
LEMMA CommitGivesStep ==
  ASSUME TypeInv, NEW p \in Procs, NEW op \in TransitionKey, NEW row,
         NEW type, NEW to, NEW old, NEW new, NEW told, NEW pc,
         Commit(p, op, row, Event(p, type, to, old, new, told), pc),
         row.status = to, Signs(op, type, req[p].before.status, to),
         Told(req[p].caller, type, new, told),
         StepShape(req[p].caller, ticket[req[p].t], row, type, new)
  PROVE  TicketStep(p)
<1> DEFINE event == Event(p, type, to, old, new, told)
           t == req[p].t
<1>1. /\ event.type = type /\ event.to = to /\ event.from = req[p].before.status
      /\ event.actor = req[p].caller /\ event.new = new /\ event.notified = told
  BY DEF Event
<1>2. Commit(p, op, row, event, pc)
  OBVIOUS
<1> HIDE DEF event
<1>3. /\ t \in Tickets /\ req[p].caller \in Users
      /\ ticket[t].status = req[p].before.status
      /\ req[p].pc = "write" /\ req[p].op = op /\ Checked(p)
      /\ ticket[t].status \in TRANSITIONS[op].allowedFrom
  BY <1>2, CommitFacts
<1>4. /\ ticket' = [ticket EXCEPT ![t] = row]
      /\ events' = [events EXCEPT ![t] = Append(@, event)]
      /\ ticket \in [Tickets -> TicketRow]
      /\ events \in [Tickets -> Seq(EventRow)]
  BY <1>2 DEF Commit, TypeInv, TypeOK
<1>5. /\ ticket'[t] = row
      /\ events'[t] = Append(events[t], event)
      /\ \A x \in Tickets \ {t} : ticket'[x] = ticket[x] /\ events'[x] = events[x]
  BY <1>3, <1>4
<1>6. Last(events'[t]) = event
  BY <1>3, <1>4, <1>5 DEF Last
<1>7. ticket' = [ticket EXCEPT ![t] = ticket'[t]]
  BY <1>4, <1>5
<1>8. /\ event.from \in TRANSITIONS[op].allowedFrom
      /\ Signs(op, event.type, event.from, event.to)
      /\ Told(req[p].caller, event.type, event.new, event.notified)
  BY <1>1, <1>3
<1>9. StepShape(req[p].caller, ticket[t], ticket'[t], event.type, event.new)
  BY <1>1, <1>5
<1> HIDE DEF t
<1> QED
  BY <1>1, <1>3, <1>5, <1>6, <1>7, <1>8, <1>9 DEF TicketStep, t

\* The table's source statuses, action by action.
LEMMA AllowedFrom ==
  /\ \A op \in {"assign", "close", "overrideSeverity"} :
       TRANSITIONS[op].allowedFrom = {"Pending", "Assigned", "InProgress"}
  /\ TRANSITIONS["forward"].allowedFrom = {"Pending"}
  /\ TRANSITIONS["progress"].allowedFrom = {"Assigned"}
  /\ \A op \in {"redirect", "requestRedirect"} :
       TRANSITIONS[op].allowedFrom = {"Assigned", "InProgress"}
  /\ TRANSITIONS["requestClose"].allowedFrom = {"InProgress"}
  /\ \A op \in {"approveClose", "refuseClose"} :
       TRANSITIONS[op].allowedFrom = {"CloseRequested"}
  /\ \A op \in {"approveRedirect", "refuseRedirect"} :
       TRANSITIONS[op].allowedFrom = {"RedirectRequested"}
BY DEF TRANSITIONS, Rule

\* The table's literal results.
LEMMA LeadsTo ==
  /\ \A op \in {"assign", "overrideSeverity", "refuseRedirect"} : TRANSITIONS[op].to = NULL
  /\ \A op \in {"forward", "redirect", "approveRedirect"} : TRANSITIONS[op].to = "Assigned"
  /\ \A op \in {"progress", "refuseClose"} : TRANSITIONS[op].to = "InProgress"
  /\ \A op \in {"close", "approveClose"} : TRANSITIONS[op].to = "Closed"
  /\ TRANSITIONS["requestClose"].to = "CloseRequested"
  /\ TRANSITIONS["requestRedirect"].to = "RedirectRequested"
BY DEF TRANSITIONS, Rule

\* Each of the twelve state-machine writes is a TicketStep.
LEMMA TransitionStep ==
  ASSUME TypeInv, NEW p \in Procs, TransitionWrite(p)
  PROVE  TicketStep(p)
<1> DEFINE r == req[p]
           cur == ticket[r.t]
<1>1. CASE Assign(p)
  <2> DEFINE row == [cur EXCEPT !.assignee = r.arg]
  <2>1. PICK old, told :
          Commit(p, "assign", row,
                 Event(p, "AgentAssigned", r.before.status, old, r.arg, told), "idle")
    BY <1>1, Zenon DEF Assign
  <2>2. "assign" \in TransitionKey
    BY KeysAreNames
  <2>3. /\ cur \in TicketRow /\ r.caller \in Users
        /\ cur.status = r.before.status
        /\ cur.status \in {"Pending", "Assigned", "InProgress"}
        /\ r.arg \in Args("assign")
    <3> HIDE DEF row
    <3> QED BY <2>1, <2>2, CommitFacts, AllowedFrom
  <2>4. /\ row.status = r.before.status
        /\ StepShape(r.caller, cur, row, "AgentAssigned", r.arg)
    BY <2>3 DEF StepShape, Edge, TicketRow, Status, OpenStatus, EventType, Routing
  <2>5. Signs("assign", "AgentAssigned", r.before.status, r.before.status)
    BY LeadsTo, NullStatusAssumption DEF Signs, Status, OpenStatus
  <2>6. Told(r.caller, "AgentAssigned", r.arg, told)
    BY DEF Told, Routing
  <2> HIDE DEF row
  <2> QED
    BY <2>1, <2>2, <2>4, <2>5, <2>6, CommitGivesStep
<1>2. CASE Forward(p)
  <2> DEFINE row == [cur EXCEPT !.status = "Assigned", !.dept = r.arg]
  <2>1. PICK old, told :
       /\ Tell(ActiveStaff(r.arg), "TicketForwarded") \subseteq told
       /\ Commit(p, "forward", row,
                 Event(p, "Forwarded", "Assigned", old, r.arg, told), "idle")
    BY <1>2, Zenon DEF Forward
  <2>2. "forward" \in TransitionKey
    BY KeysAreNames
  <2>3. /\ cur \in TicketRow /\ r.caller \in Users
        /\ cur.status = r.before.status
        /\ cur.status \in {"Pending"}
        /\ r.arg \in Depts
    <3> HIDE DEF row
    <3> QED BY <2>1, <2>2, CommitFacts, AllowedFrom
  <2>4. /\ row.status = "Assigned"
        /\ StepShape(r.caller, cur, row, "Forwarded", r.arg)
    BY <2>3 DEF StepShape, Edge, TicketRow, Status, OpenStatus, EventType, Routing
  <2>5. Signs("forward", "Forwarded", r.before.status, "Assigned")
    BY LeadsTo, NullStatusAssumption DEF Signs, Status, OpenStatus
  <2>6. Told(r.caller, "Forwarded", r.arg, told)
    BY <2>1, FanOutTypes, NullAssumption DEF Told, Tell
  <2> HIDE DEF row
  <2> QED
    BY <2>1, <2>2, <2>4, <2>5, <2>6, CommitGivesStep
<1>3. CASE Redirect(p)
  <2> DEFINE row == [cur EXCEPT !.status = "Assigned", !.dept = r.arg]
  <2>1. PICK old, told :
       /\ Tell(ActiveStaff(r.arg), "TicketForwarded") \subseteq told
       /\ Commit(p, "redirect", row,
                 Event(p, "Redirected", "Assigned", old, r.arg, told), "idle")
    BY <1>3, Zenon DEF Redirect
  <2>2. "redirect" \in TransitionKey
    BY KeysAreNames
  <2>3. /\ cur \in TicketRow /\ r.caller \in Users
        /\ cur.status = r.before.status
        /\ cur.status \in {"Assigned", "InProgress"}
        /\ r.arg \in Depts
    <3> HIDE DEF row
    <3> QED BY <2>1, <2>2, CommitFacts, AllowedFrom
  <2>4. /\ row.status = "Assigned"
        /\ StepShape(r.caller, cur, row, "Redirected", r.arg)
    BY <2>3 DEF StepShape, Edge, TicketRow, Status, OpenStatus, EventType, Routing
  <2>5. Signs("redirect", "Redirected", r.before.status, "Assigned")
    BY LeadsTo, NullStatusAssumption DEF Signs, Status, OpenStatus
  <2>6. Told(r.caller, "Redirected", r.arg, told)
    BY <2>1, FanOutTypes, NullAssumption DEF Told, Tell
  <2> HIDE DEF row
  <2> QED
    BY <2>1, <2>2, <2>4, <2>5, <2>6, CommitGivesStep
<1>4. CASE StartProgress(p)
  <2> DEFINE row == [cur EXCEPT !.status = "InProgress"]
  <2>1. PICK old, told :
          Commit(p, "progress", row,
                 Event(p, "Started", "InProgress", old, NULL, told), "idle")
    BY <1>4, Zenon DEF StartProgress
  <2>2. "progress" \in TransitionKey
    BY KeysAreNames
  <2>3. /\ cur \in TicketRow /\ r.caller \in Users
        /\ cur.status = r.before.status
        /\ cur.status \in {"Assigned"}
    <3> HIDE DEF row
    <3> QED BY <2>1, <2>2, CommitFacts, AllowedFrom
  <2>4. /\ row.status = "InProgress"
        /\ StepShape(r.caller, cur, row, "Started", NULL)
    BY <2>3 DEF StepShape, Edge, TicketRow, Status, OpenStatus, EventType, Routing
  <2>5. Signs("progress", "Started", r.before.status, "InProgress")
    BY LeadsTo, NullStatusAssumption DEF Signs, Status, OpenStatus
  <2>6. Told(r.caller, "Started", NULL, told)
    BY DEF Told, Routing
  <2> HIDE DEF row
  <2> QED
    BY <2>1, <2>2, <2>4, <2>5, <2>6, CommitGivesStep
<1>5. CASE Close(p)
  <2> DEFINE row == [cur EXCEPT !.status = "Closed", !.closedAt = TRUE]
  <2>1. PICK old, told :
          Commit(p, "close", row,
                 Event(p, "Closed", "Closed", old, NULL, told), "publish")
    BY <1>5, Zenon DEF Close
  <2>2. "close" \in TransitionKey
    BY KeysAreNames
  <2>3. /\ cur \in TicketRow /\ r.caller \in Users
        /\ cur.status = r.before.status
        /\ cur.status \in {"Pending", "Assigned", "InProgress"}
    <3> HIDE DEF row
    <3> QED BY <2>1, <2>2, CommitFacts, AllowedFrom
  <2>4. /\ row.status = "Closed"
        /\ StepShape(r.caller, cur, row, "Closed", NULL)
    BY <2>3 DEF StepShape, Edge, TicketRow, Status, OpenStatus, EventType, Routing
  <2>5. Signs("close", "Closed", r.before.status, "Closed")
    BY LeadsTo, NullStatusAssumption DEF Signs, Status, OpenStatus
  <2>6. Told(r.caller, "Closed", NULL, told)
    BY DEF Told, Routing
  <2> HIDE DEF row
  <2> QED
    BY <2>1, <2>2, <2>4, <2>5, <2>6, CommitGivesStep
<1>6. CASE RequestClose(p)
  <2> DEFINE row == [cur EXCEPT !.status = "CloseRequested",
                                !.closeReq = r.caller]
  <2>1. PICK old, told :
       /\ told = Tell(Deciders(p), "CloseRequested")
       /\ Commit(p, "requestClose", row,
                 Event(p, "CloseRequested", "CloseRequested", old, NULL, told), "idle")
    BY <1>6, Zenon DEF RequestClose
  <2>2. "requestClose" \in TransitionKey
    BY KeysAreNames
  <2>3. /\ cur \in TicketRow /\ r.caller \in Users
        /\ cur.status = r.before.status
        /\ cur.status \in {"InProgress"}
    <3> HIDE DEF row
    <3> QED BY <2>1, <2>2, CommitFacts, AllowedFrom
  <2>4. /\ row.status = "CloseRequested"
        /\ StepShape(r.caller, cur, row, "CloseRequested", NULL)
    BY <2>3 DEF StepShape, Edge, TicketRow, Status, OpenStatus, EventType, Routing
  <2>5. Signs("requestClose", "CloseRequested", r.before.status, "CloseRequested")
    BY LeadsTo, NullStatusAssumption DEF Signs, Status, OpenStatus
  <2>6. Told(r.caller, "CloseRequested", NULL, told)
    BY <2>1, FanOutTypes, NullAssumption DEF Told, Tell, Deciders, Routing
  <2> HIDE DEF row
  <2> QED
    BY <2>1, <2>2, <2>4, <2>5, <2>6, CommitGivesStep
<1>7. CASE ApproveClose(p)
  <2> DEFINE row == [cur EXCEPT !.status = "Closed", !.closedAt = TRUE,
                                !.closeReq = NULL]
  <2>1. PICK old, told :
          Commit(p, "approveClose", row,
                 Event(p, "Closed", "Closed", old, NULL, told), "publish")
    BY <1>7, Zenon DEF ApproveClose
  <2>2. "approveClose" \in TransitionKey
    BY KeysAreNames
  <2>3. /\ cur \in TicketRow /\ r.caller \in Users
        /\ cur.status = r.before.status
        /\ cur.status \in {"CloseRequested"}
    <3> HIDE DEF row
    <3> QED BY <2>1, <2>2, CommitFacts, AllowedFrom
  <2>4. /\ row.status = "Closed"
        /\ StepShape(r.caller, cur, row, "Closed", NULL)
    BY <2>3 DEF StepShape, Edge, TicketRow, Status, OpenStatus, EventType, Routing
  <2>5. Signs("approveClose", "Closed", r.before.status, "Closed")
    BY LeadsTo, NullStatusAssumption DEF Signs, Status, OpenStatus
  <2>6. Told(r.caller, "Closed", NULL, told)
    BY DEF Told, Routing
  <2> HIDE DEF row
  <2> QED
    BY <2>1, <2>2, <2>4, <2>5, <2>6, CommitGivesStep
<1>8. CASE RefuseClose(p)
  <2> DEFINE row == [cur EXCEPT !.status = "InProgress", !.closeReq = NULL]
  <2>1. PICK old, told :
          Commit(p, "refuseClose", row,
                 Event(p, "CloseRefused", "InProgress", old, NULL, told), "idle")
    BY <1>8, Zenon DEF RefuseClose
  <2>2. "refuseClose" \in TransitionKey
    BY KeysAreNames
  <2>3. /\ cur \in TicketRow /\ r.caller \in Users
        /\ cur.status = r.before.status
        /\ cur.status \in {"CloseRequested"}
    <3> HIDE DEF row
    <3> QED BY <2>1, <2>2, CommitFacts, AllowedFrom
  <2>4. /\ row.status = "InProgress"
        /\ StepShape(r.caller, cur, row, "CloseRefused", NULL)
    BY <2>3 DEF StepShape, Edge, TicketRow, Status, OpenStatus, EventType, Routing
  <2>5. Signs("refuseClose", "CloseRefused", r.before.status, "InProgress")
    BY LeadsTo, NullStatusAssumption DEF Signs, Status, OpenStatus
  <2>6. Told(r.caller, "CloseRefused", NULL, told)
    BY DEF Told, Routing
  <2> HIDE DEF row
  <2> QED
    BY <2>1, <2>2, <2>4, <2>5, <2>6, CommitGivesStep
<1>9. CASE RequestRedirect(p)
  <2> DEFINE row == [cur EXCEPT !.status = "RedirectRequested",
                                !.redirectReq = r.caller]
  <2>1. PICK old, told :
       /\ told = Tell(Deciders(p), "RedirectRequested")
       /\ Commit(p, "requestRedirect", row,
                 Event(p, "RedirectRequested", "RedirectRequested", old, NULL, told), "idle")
    BY <1>9, Zenon DEF RequestRedirect
  <2>2. "requestRedirect" \in TransitionKey
    BY KeysAreNames
  <2>3. /\ cur \in TicketRow /\ r.caller \in Users
        /\ cur.status = r.before.status
        /\ cur.status \in {"Assigned", "InProgress"}
    <3> HIDE DEF row
    <3> QED BY <2>1, <2>2, CommitFacts, AllowedFrom
  <2>4. /\ row.status = "RedirectRequested"
        /\ StepShape(r.caller, cur, row, "RedirectRequested", NULL)
    BY <2>3 DEF StepShape, Edge, TicketRow, Status, OpenStatus, EventType, Routing
  <2>5. Signs("requestRedirect", "RedirectRequested", r.before.status, "RedirectRequested")
    BY LeadsTo, NullStatusAssumption DEF Signs, Status, OpenStatus
  <2>6. Told(r.caller, "RedirectRequested", NULL, told)
    BY <2>1, FanOutTypes, NullAssumption DEF Told, Tell, Deciders, Routing
  <2> HIDE DEF row
  <2> QED
    BY <2>1, <2>2, <2>4, <2>5, <2>6, CommitGivesStep
<1>10. CASE ApproveRedirect(p)
  <2> DEFINE row == [cur EXCEPT !.status = "Assigned", !.dept = r.arg,
                                !.redirectReq = NULL]
  <2>1. PICK old, told :
       /\ Tell(ActiveStaff(r.arg), "TicketForwarded") \subseteq told
       /\ Commit(p, "approveRedirect", row,
                 Event(p, "Redirected", "Assigned", old, r.arg, told), "idle")
    BY <1>10, Zenon DEF ApproveRedirect
  <2>2. "approveRedirect" \in TransitionKey
    BY KeysAreNames
  <2>3. /\ cur \in TicketRow /\ r.caller \in Users
        /\ cur.status = r.before.status
        /\ cur.status \in {"RedirectRequested"}
        /\ r.arg \in Depts
    <3> HIDE DEF row
    <3> QED BY <2>1, <2>2, CommitFacts, AllowedFrom
  <2>4. /\ row.status = "Assigned"
        /\ StepShape(r.caller, cur, row, "Redirected", r.arg)
    BY <2>3 DEF StepShape, Edge, TicketRow, Status, OpenStatus, EventType, Routing
  <2>5. Signs("approveRedirect", "Redirected", r.before.status, "Assigned")
    BY LeadsTo, NullStatusAssumption DEF Signs, Status, OpenStatus
  <2>6. Told(r.caller, "Redirected", r.arg, told)
    BY <2>1, FanOutTypes, NullAssumption DEF Told, Tell
  <2> HIDE DEF row
  <2> QED
    BY <2>1, <2>2, <2>4, <2>5, <2>6, CommitGivesStep
<1>11. CASE RefuseRedirect(p)
  <2> DEFINE row == [cur EXCEPT !.status = r.prior, !.redirectReq = NULL]
  <2>1. PICK old, told :
          Commit(p, "refuseRedirect", row,
                 Event(p, "RedirectRefused", r.prior, old, NULL, told), "idle")
    BY <1>11, Zenon DEF RefuseRedirect
  <2>2. "refuseRedirect" \in TransitionKey
    BY KeysAreNames
  <2>3. /\ cur \in TicketRow /\ r.caller \in Users
        /\ cur.status = r.before.status
        /\ cur.status \in {"RedirectRequested"}
        /\ r.prior \in {"Assigned", "InProgress"}
    <3> HIDE DEF row
    <3> QED BY <2>1, <2>2, CommitFacts, AllowedFrom
  <2>4. /\ row.status = r.prior
        /\ StepShape(r.caller, cur, row, "RedirectRefused", NULL)
    BY <2>3 DEF StepShape, Edge, TicketRow, Status, OpenStatus, EventType, Routing
  <2>5. Signs("refuseRedirect", "RedirectRefused", r.before.status, r.prior)
    BY LeadsTo, NullStatusAssumption DEF Signs, Status, OpenStatus
  <2>6. Told(r.caller, "RedirectRefused", NULL, told)
    BY DEF Told, Routing
  <2> HIDE DEF row
  <2> QED
    BY <2>1, <2>2, <2>4, <2>5, <2>6, CommitGivesStep
<1>12. CASE OverrideSeverity(p)
  <2> DEFINE row == [cur EXCEPT !.severity = r.arg]
  <2>1. PICK old, told :
          Commit(p, "overrideSeverity", row,
                 Event(p, "SeverityChanged", r.before.status, old, r.arg, told), "idle")
    BY <1>12, Zenon DEF OverrideSeverity
  <2>2. "overrideSeverity" \in TransitionKey
    BY KeysAreNames
  <2>3. /\ cur \in TicketRow /\ r.caller \in Users
        /\ cur.status = r.before.status
        /\ cur.status \in {"Pending", "Assigned", "InProgress"}
        /\ r.arg \in Severities
    <3> HIDE DEF row
    <3> QED BY <2>1, <2>2, CommitFacts, AllowedFrom
  <2>4. /\ row.status = r.before.status
        /\ StepShape(r.caller, cur, row, "SeverityChanged", r.arg)
    BY <2>3 DEF StepShape, Edge, TicketRow, Status, OpenStatus, EventType, Routing
  <2>5. Signs("overrideSeverity", "SeverityChanged", r.before.status, r.before.status)
    BY LeadsTo, NullStatusAssumption DEF Signs, Status, OpenStatus
  <2>6. Told(r.caller, "SeverityChanged", r.arg, told)
    BY DEF Told, Routing
  <2> HIDE DEF row
  <2> QED
    BY <2>1, <2>2, <2>4, <2>5, <2>6, CommitGivesStep
<1> QED
  BY <1>1, <1>2, <1>3, <1>4, <1>5, <1>6, <1>7, <1>8,
     <1>9, <1>10, <1>11, <1>12 DEF TransitionWrite

-----------------------------------------------------------------------------
(* Every step is a TicketStep, opens a ticket, or leaves trail and row alone. *)

OpenStep(t) ==
  /\ ticket[t].status = NULL
  /\ ticket'[t].status = "Pending" /\ ticket'[t].closedAt = FALSE
  /\ ticket'[t].closeReq = NULL /\ ticket'[t].redirectReq = NULL
  /\ ticket'[t].dept = NULL /\ ticket'[t].assignee = NULL
  /\ Len(events'[t]) = 1
  /\ events'[t][1].type = "Created" /\ events'[t][1].to = "Pending"
  /\ \A x \in Tickets \ {t} : ticket'[x] = ticket[x] /\ events'[x] = events[x]

QuietStep ==
  \A t \in Tickets :
    /\ events'[t] = events[t]
    /\ ticket'[t].status = ticket[t].status
    /\ ticket'[t].closedAt = ticket[t].closedAt
    /\ ticket'[t].closeReq = ticket[t].closeReq
    /\ ticket'[t].redirectReq = ticket[t].redirectReq
    /\ ticket'[t].dept = ticket[t].dept
    /\ ticket'[t].assignee = ticket[t].assignee
    /\ ticket'[t].severity = ticket[t].severity
    /\ Audited(ticket'[t]) = Audited(ticket[t])

\* create gives an absent ticket its first row and its Created event.
LEMMA CreateOpens ==
  ASSUME TypeInv, NEW p \in Procs, NEW u \in Active, NEW t \in Tickets,
         NEW s \in Severities, NEW c \in Categories \cup {NULL},
         Create(p, u, t, s, c)
  PROVE  OpenStep(t)
<1> DEFINE row == [NoTicket EXCEPT !.status = "Pending", !.requester = u,
                                   !.severity = s, !.category = c]
<1>1. /\ row.status = "Pending" /\ row.closedAt = FALSE
      /\ row.closeReq = NULL /\ row.redirectReq = NULL
      /\ row.dept = NULL /\ row.assignee = NULL
  BY DEF NoTicket
<1>2. PICK told :
        events' = [events EXCEPT ![t] =
          <<[type |-> "Created", actor |-> u, from |-> NULL, to |-> "Pending",
             old |-> NULL, new |-> NULL, notified |-> told]>>]
  BY Zenon DEF Create
<1>3. /\ ticket' = [ticket EXCEPT ![t] = row]
      /\ ticket[t].status = NULL
      /\ ticket \in [Tickets -> TicketRow]
      /\ events \in [Tickets -> Seq(EventRow)]
  BY DEF Create, TypeInv, TypeOK
<1> HIDE DEF row
<1> QED
  BY <1>1, <1>2, <1>3 DEF OpenStep

\* assignCategory leaves the trail and the audited columns alone.
LEMMA CategoryIsQuiet ==
  ASSUME TypeInv, NEW p \in Procs, AssignCategory(p)
  PROVE  QuietStep
<1> DEFINE t == req[p].t
           row == [ticket[t] EXCEPT !.category = req[p].arg]
<1>1. t \in Tickets /\ ticket[t] \in TicketRow
  BY RequestFacts DEF AssignCategory
<1>2. /\ row.status = ticket[t].status /\ row.closedAt = ticket[t].closedAt
      /\ row.closeReq = ticket[t].closeReq
      /\ row.redirectReq = ticket[t].redirectReq
      /\ row.dept = ticket[t].dept /\ row.assignee = ticket[t].assignee
      /\ row.severity = ticket[t].severity
      /\ Audited(row) = Audited(ticket[t])
  BY <1>1 DEF TicketRow, Audited
<1>3. ticket' = [ticket EXCEPT ![t] = row] /\ UNCHANGED events
  BY <1>1 DEF AssignCategory, TypeInv, TypeOK
<1>4. ticket \in [Tickets -> TicketRow]
  BY DEF TypeInv, TypeOK
<1> HIDE DEF t, row
<1> QED
  BY <1>1, <1>2, <1>3, <1>4 DEF QuietStep

\* Every step of the service is of one of the three kinds.
LEMMA StepCases ==
  ASSUME TypeInv, [Next]_vars
  PROVE  \/ \E p \in Procs : TicketStep(p)
         \/ \E t \in Tickets : OpenStep(t)
         \/ QuietStep
<1>1. UNCHANGED <<ticket, events>> => QuietStep
  BY DEF QuietStep
<1>2. CASE UNCHANGED vars
  BY <1>1, <1>2 DEF vars
<1>3. ASSUME NEW p \in Procs, Arrive(p)
      PROVE  (\E t \in Tickets : OpenStep(t)) \/ QuietStep
  BY <1>1, <1>3, CreateOpens
     DEF Arrive, Begin, BeginComment, BeginCategorise, Read
<1>4. ASSUME NEW p \in Procs, Write(p)
      PROVE  TicketStep(p) \/ QuietStep
  BY <1>1, <1>4, TransitionStep, CategoryIsQuiet
     DEF Write, TransitionWrite, AddComment
<1>5. ASSUME NEW p \in Procs,
             ReadRequestEvent(p) \/ Conflict(p) \/ Publish(p) \/ Fail(p)
      PROVE  QuietStep
  BY <1>1, <1>5 DEF ReadRequestEvent, Conflict, Publish, Fail
<1> QED
  BY <1>2, <1>3, <1>4, <1>5 DEF Next

\* What appending e does to a ticket's trail.
LEMMA TrailGrows ==
  ASSUME TypeInv, NEW p \in Procs, TicketStep(p)
  PROVE  LET t == req[p].t IN
         /\ Len(events[t]) \in Nat
         /\ Len(events'[t]) = Len(events[t]) + 1
         /\ DOMAIN events[t] = 1..Len(events[t])
         /\ DOMAIN events'[t] = 1..(Len(events[t]) + 1)
         /\ \A i \in 1..Len(events[t]) : events'[t][i] = events[t][i]
         /\ events'[t][Len(events[t]) + 1] = Last(events'[t])
<1> DEFINE t == req[p].t
<1>1. PICK e : events'[t] = Append(events[t], e)
  BY DEF TicketStep
<1>2. events[t] \in Seq(EventRow)
  BY DEF TicketStep, TypeInv, TypeOK
<1> HIDE DEF t
<1>3. /\ Len(events[t]) \in Nat
      /\ Len(events'[t]) = Len(events[t]) + 1
      /\ DOMAIN events[t] = 1..Len(events[t])
      /\ DOMAIN events'[t] = 1..(Len(events[t]) + 1)
      /\ \A i \in 1..Len(events[t]) : events'[t][i] = events[t][i]
  BY <1>1, <1>2
<1> QED
  BY <1>3 DEF Last, t

-----------------------------------------------------------------------------
(* The audit chain.                                                        *)

\* The empty trails are chains.
LEMMA ChainInit == Init => AuditChain
BY DEF Init, AuditChain, NoTicket

\* A write appends an event that starts where the chain ended.
LEMMA ChainStep ==
  ASSUME TypeInv, AuditChain, NEW p \in Procs, TicketStep(p)
  PROVE  AuditChain'
<1> DEFINE t == req[p].t
           n == Len(events[t])
           e == Last(events'[t])
<1>1. /\ t \in Tickets
      /\ \A x \in Tickets \ {t} : ticket'[x] = ticket[x] /\ events'[x] = events[x]
      /\ e.from = ticket[t].status /\ e.to = ticket'[t].status
      /\ e.type # "Created"
      /\ ticket[t].status # NULL /\ ticket'[t].status # NULL
  BY NullStatusAssumption DEF TicketStep, StepShape, Status
<1>2. /\ n \in Nat /\ Len(events'[t]) = n + 1
      /\ \A i \in 1..n : events'[t][i] = events[t][i]
      /\ events'[t][n + 1] = e
  BY TrailGrows
<1>3. events[t] # <<>> /\ n > 0
  BY <1>1, <1>2 DEF AuditChain, TypeInv, TypeOK
<1> QED
  <2> SUFFICES ASSUME NEW x \in Tickets
               PROVE  /\ (events[x] = <<>> <=> ticket[x].status = NULL)'
                      /\ (events[x] # <<>> =>
                            /\ events[x][1].type = "Created"
                            /\ Last(events[x]).to = ticket[x].status)'
                      /\ \A i \in 2..Len(events'[x]) :
                           /\ events'[x][i].type # "Created"
                           /\ events'[x][i].from = events'[x][i-1].to
    BY DEF AuditChain
  <2>1. CASE x # t
    BY <1>1, <2>1 DEF AuditChain, Last
  <2>2. CASE x = t
    <3>1. events'[t] # <<>>
      BY <1>2
    <3>2. events'[t][1].type = "Created"
      BY <1>1, <1>2, <1>3 DEF AuditChain
    <3>3. events[t][n].to = ticket[t].status
      BY <1>1, <1>3 DEF AuditChain, Last
    <3>4. ASSUME NEW i \in 2..Len(events'[t])
          PROVE  /\ events'[t][i].type # "Created"
                 /\ events'[t][i].from = events'[t][i-1].to
      <4>1. CASE i = n + 1
        <5>1. events'[t][i] = e /\ i - 1 = n /\ n \in 1..n
          BY <1>2, <1>3, <4>1
        <5>2. events'[t][n].to = ticket[t].status
          BY <1>2, <3>3, <5>1
        <5> HIDE DEF t, n, e
        <5> QED
          BY <1>1, <5>1, <5>2
      <4>2. CASE i # n + 1
        <5>1. i \in 2..n /\ i - 1 \in 1..n /\ i \in 1..n
          BY <1>2, <4>2
        <5>2. /\ events[t][i].type # "Created"
              /\ events[t][i].from = events[t][i-1].to
          BY <1>1, <5>1 DEF AuditChain
        <5> HIDE DEF t, n, e
        <5> QED
          BY <1>2, <5>1, <5>2
      <4> QED
        BY <4>1, <4>2
    <3> QED
      BY <1>1, <2>2, <3>1, <3>2, <3>4
  <2> QED
    BY <2>1, <2>2

\* The trail of a new ticket is the chain of its Created event.
LEMMA ChainOpens ==
  ASSUME TypeInv', AuditChain, NEW t \in Tickets, OpenStep(t)
  PROVE  AuditChain'
<1>1. events'[t] \in Seq(EventRow) /\ "Pending" # NULL
  BY NullStatusAssumption DEF TypeInv, TypeOK, Status, OpenStatus
<1>2. /\ events'[t] # <<>> /\ ticket'[t].status # NULL
      /\ Len(events'[t]) = 1 /\ events'[t][1].type = "Created"
      /\ Last(events'[t]).to = ticket'[t].status
      /\ \A i \in 2..Len(events'[t]) : FALSE
  BY <1>1 DEF OpenStep, Last
<1>3. \A x \in Tickets \ {t} : ticket'[x] = ticket[x] /\ events'[x] = events[x]
  BY DEF OpenStep
<1> QED
  BY <1>2, <1>3 DEF AuditChain, Last

\* A quiet step leaves the chain alone.
LEMMA ChainQuiet ==
  ASSUME AuditChain, QuietStep
  PROVE  AuditChain'
BY DEF AuditChain, QuietStep, Last

\* Every step keeps the audit chain.
LEMMA ChainNext == TypeInv /\ AuditChain /\ [Next]_vars => AuditChain'
BY NextTypeInv, StepCases, ChainStep, ChainOpens, ChainQuiet

\* The trail of every ticket is one unbroken chain from Created to the row's
\* status, whatever the overlap of the requests.
THEOREM TrailIsAChain == Spec => []AuditChain
BY InitTypeInv, NextTypeInv, ChainInit, ChainNext, PTL DEF Spec

-----------------------------------------------------------------------------
(* Trails only grow, and what a request has read stays in the past.        *)

\* An event of the next state is an old one, the one that a request writes, or
\* the first event of a new ticket.
LEMMA NewEvent ==
  ASSUME TypeInv, AuditChain, [Next]_vars, NEW t \in Tickets, NEW i \in DOMAIN events'[t]
  PROVE  \/ i \in 1..Len(events[t]) /\ events'[t][i] = events[t][i]
         \/ /\ i = Len(events[t]) + 1 /\ events'[t][i] = Last(events'[t])
            /\ \E p \in Procs : TicketStep(p) /\ req[p].t = t
         \/ i = 1 /\ events'[t][i].type = "Created" /\ OpenStep(t)
<1>0. /\ events[t] \in Seq(EventRow) /\ events'[t] \in Seq(EventRow)
      /\ DOMAIN events[t] = 1..Len(events[t])
  BY NextTypeInv DEF TypeInv, TypeOK
<1>1. CASE events'[t] = events[t]
  BY <1>0, <1>1
<1>2. ASSUME NEW p \in Procs, TicketStep(p), events'[t] # events[t]
      PROVE  \/ i \in 1..Len(events[t]) /\ events'[t][i] = events[t][i]
             \/ /\ i = Len(events[t]) + 1 /\ events'[t][i] = Last(events'[t])
                /\ req[p].t = t
  <2>1. req[p].t = t
    BY <1>2 DEF TicketStep
  <2>2. /\ DOMAIN events'[t] = 1..(Len(events[t]) + 1)
        /\ \A k \in 1..Len(events[t]) : events'[t][k] = events[t][k]
        /\ events'[t][Len(events[t]) + 1] = Last(events'[t])
        /\ Len(events[t]) \in Nat
    BY <1>2, <2>1, TrailGrows
  <2>3. i \in 1..Len(events[t]) \/ i = Len(events[t]) + 1
    BY <2>2
  <2> QED
    BY <2>1, <2>2, <2>3
<1>3. ASSUME NEW x \in Tickets, OpenStep(x), events'[t] # events[t]
      PROVE  i = 1 /\ events'[t][i].type = "Created" /\ OpenStep(t)
  <2>1. x = t
    BY <1>3 DEF OpenStep
  <2>2. DOMAIN events'[t] = 1..1
    BY <1>0, <1>3, <2>1 DEF OpenStep
  <2> QED
    BY <1>3, <2>1, <2>2 DEF OpenStep
<1> QED
  BY <1>1, <1>2, <1>3, StepCases DEF QuietStep

\* A trail keeps its events; while it gets no new one, the audited columns of the
\* row stay as well.
LEMMA TrailsGrow ==
  ASSUME TypeInv, AuditChain, [Next]_vars, NEW t \in Tickets
  PROVE  /\ Len(events[t]) \in Nat /\ Len(events'[t]) \in Nat
         /\ DOMAIN events[t] = 1..Len(events[t]) /\ DOMAIN events'[t] = 1..Len(events'[t])
         /\ \A i \in 1..Len(events[t]) :
              i \in 1..Len(events'[t]) /\ events'[t][i] = events[t][i]
         /\ \/ events'[t] = events[t] /\ Audited(ticket'[t]) = Audited(ticket[t])
            \/ Len(events[t]) < Len(events'[t])
<1>0. events[t] \in Seq(EventRow) /\ events'[t] \in Seq(EventRow)
  BY NextTypeInv DEF TypeInv, TypeOK
<1>1. ASSUME NEW p \in Procs, TicketStep(p)
      PROVE  \/ events'[t] = events[t] /\ ticket'[t] = ticket[t]
             \/ /\ Len(events'[t]) = Len(events[t]) + 1
                /\ \A i \in 1..Len(events[t]) : events'[t][i] = events[t][i]
  <2>1. CASE req[p].t = t
    BY <1>1, <2>1, TrailGrows
  <2>2. CASE req[p].t # t
    BY <1>1, <2>2 DEF TicketStep
  <2> QED
    BY <2>1, <2>2
<1>2. ASSUME NEW x \in Tickets, OpenStep(x)
      PROVE  \/ events'[t] = events[t] /\ ticket'[t] = ticket[t]
             \/ Len(events'[t]) = 1 /\ Len(events[t]) = 0
  BY <1>2 DEF OpenStep, AuditChain
<1>3. /\ Len(events[t]) \in Nat /\ Len(events'[t]) \in Nat
      /\ DOMAIN events[t] = 1..Len(events[t]) /\ DOMAIN events'[t] = 1..Len(events'[t])
  BY <1>0
<1>4. \/ events'[t] = events[t] /\ Audited(ticket'[t]) = Audited(ticket[t])
      \/ /\ Len(events'[t]) = Len(events[t]) + 1
         /\ \A i \in 1..Len(events[t]) : events'[t][i] = events[t][i]
      \/ Len(events'[t]) = 1 /\ Len(events[t]) = 0
  BY <1>1, <1>2, StepCases DEF QuietStep
<1> QED
  BY <1>3, <1>4

\* A request past its read keeps what it read, or has just read it.
Evolves(q) ==
  req'[q].pc \in BusyPc =>
    \/ /\ req[q].pc \in BusyPc
       /\ req'[q].t = req[q].t /\ req'[q].before = req[q].before
       /\ req'[q].seen = req[q].seen
    \/ /\ req'[q].t \in Tickets /\ ticket[req'[q].t].status # NULL
       /\ req'[q].before = ticket[req'[q].t] /\ req'[q].seen = Len(events[req'[q].t])
       /\ UNCHANGED <<ticket, events>>

LEMMA RequestEvolves ==
  ASSUME TypeInv, [Next]_vars, NEW q \in Procs
  PROVE  Evolves(q)
<1>0. /\ DOMAIN req = Procs /\ NoRequest.pc = "idle"
      /\ \A p \in Procs : req[p] \in Request
  BY DEF TypeInv, TypeOK, NoRequest
<1>1. ASSUME NEW p \in Procs, NEW r, req' = [req EXCEPT ![p] = r], r.pc \notin BusyPc
      PROVE  Evolves(q)
  BY <1>0, <1>1 DEF Evolves
<1>2. ASSUME NEW p \in Procs, Write(p) PROVE Evolves(q)
  <2>1. CASE AddComment(p) \/ AssignCategory(p)
    BY <1>0, <1>1, <2>1 DEF AddComment, AssignCategory, BusyPc
  <2>2. CASE TransitionWrite(p)
    <3>1. PICK op, row, event, pc : /\ pc \in {"idle", "publish"}
                                    /\ Commit(p, op, row, event, pc)
      <4>1. \/ \E op, row, event : Commit(p, op, row, event, "idle")
            \/ \E op, row, event : Commit(p, op, row, event, "publish")
        BY <2>2, Zenon DEF TransitionWrite, Assign, Forward, Redirect, StartProgress,
           Close, RequestClose, ApproveClose, RefuseClose, RequestRedirect,
           ApproveRedirect, RefuseRedirect, OverrideSeverity
      <4> QED
        BY <4>1
    <3>2. PICK r : r = IF pc = "idle" THEN NoRequest ELSE [req[p] EXCEPT !.pc = pc]
      OBVIOUS
    <3>3. r.pc = pc
      BY <1>0, <3>2 DEF Request
    <3>4. req' = [req EXCEPT ![p] = r]
      BY <3>1, <3>2 DEF Commit
    <3> QED
      BY <1>1, <3>1, <3>3, <3>4 DEF BusyPc
  <2> QED
    BY <1>2, <2>1, <2>2 DEF Write, TransitionWrite
<1>3. ASSUME NEW p \in Procs, Arrive(p) PROVE Evolves(q)
  <2>1. ASSUME NEW op, NEW u, NEW t \in Tickets, NEW arg, NEW pc, Read(p, op, u, t, arg, pc)
        PROVE  Evolves(q)
    <3>1. PICK r : r = [pc |-> pc, op |-> op, caller |-> u, t |-> t, arg |-> arg,
                        before |-> ticket[t], prior |-> NULL, seen |-> Len(events[t])]
      OBVIOUS
    <3>3. req' = [req EXCEPT ![p] = r]
      BY <2>1, <3>1 DEF Read
    <3>4. r.t = t /\ r.before = ticket[t] /\ r.seen = Len(events[t])
      BY <3>1
    <3>2. ticket[t].status # NULL /\ UNCHANGED <<ticket, events>>
      BY <2>1 DEF Read
    <3> QED
      BY <1>0, <2>1, <3>2, <3>3, <3>4 DEF Evolves
  <2>2. ASSUME NEW u, NEW t, NEW s, NEW c, Create(p, u, t, s, c)
        PROVE  Evolves(q)
    <3>1. PICK r : /\ req' = [req EXCEPT ![p] = r]
                   /\ r = [NoRequest EXCEPT !.pc = "publish", !.op = "create",
                                            !.caller = u, !.t = t]
      BY <2>2, Zenon DEF Create
    <3>2. r.pc = "publish"
      BY <3>1 DEF NoRequest
    <3> QED
      BY <1>1, <3>1, <3>2 DEF BusyPc
  <2> QED
    BY <1>3, <2>1, <2>2, Zenon DEF Arrive, Begin, BeginComment, BeginCategorise
<1>4. ASSUME NEW p \in Procs, ReadRequestEvent(p) PROVE Evolves(q)
  <2>1. PICK r : r = [req[p] EXCEPT !.prior = PriorStatus(events[req[p].t]), !.pc = "write"]
    OBVIOUS
  <2>2. req' = [req EXCEPT ![p] = r] /\ req[p].pc \in BusyPc
    BY <1>4, <2>1 DEF ReadRequestEvent, BusyPc
  <2>3. r.t = req[p].t /\ r.before = req[p].before /\ r.seen = req[p].seen
    BY <1>0, <2>1 DEF Request
  <2> QED
    BY <1>0, <2>2, <2>3 DEF Evolves
<1>5. ASSUME NEW p \in Procs, Conflict(p) \/ Publish(p) \/ Fail(p) PROVE Evolves(q)
  BY <1>0, <1>1, <1>5 DEF Conflict, Publish, Fail, BusyPc
<1>6. CASE UNCHANGED vars
  BY <1>6 DEF vars, Evolves
<1> QED
  BY <1>2, <1>3, <1>4, <1>5, <1>6 DEF Next

\* A request's ticket is a ticket.
LEMMA BusyTicket ==
  ASSUME TypeInv, NEW p \in Procs, req[p].pc \in BusyPc
  PROVE  req[p].t \in Tickets /\ req[p] \in Request
BY DEF TypeInv, TypeOK, BusyPc

\* Nothing audited changes without an event: however long a request waits for its
\* write, it finds the row it read or a longer trail, so no 409 is spurious.
THEOREM NothingChangesSilently == Spec => []NoSilentChange
<1>1. Init => NoSilentChange
  BY DEF Init, NoSilentChange, NoRequest
<1>2. TypeInv /\ AuditChain /\ NoSilentChange /\ [Next]_vars => NoSilentChange'
  <2> SUFFICES ASSUME TypeInv, AuditChain, NoSilentChange, [Next]_vars,
                      NEW q \in Procs, req'[q].pc \in BusyPc
               PROVE  /\ req'[q].seen <= Len(events'[req'[q].t])
                      /\ req'[q].seen = Len(events'[req'[q].t]) =>
                           Audited(ticket'[req'[q].t]) = Audited(req'[q].before)
    BY DEF NoSilentChange, BusyPc
  <2>1. Evolves(q)
    BY RequestEvolves
  <2>2. CASE /\ req[q].pc \in BusyPc
             /\ req'[q].t = req[q].t /\ req'[q].before = req[q].before
             /\ req'[q].seen = req[q].seen
    <3> DEFINE t == req[q].t
    <3>1. t \in Tickets /\ req[q].seen \in Nat
      BY <2>2, BusyTicket DEF Request
    <3>2. /\ req[q].seen <= Len(events[t])
          /\ req[q].seen = Len(events[t]) => Audited(ticket[t]) = Audited(req[q].before)
      BY <2>2 DEF NoSilentChange, BusyPc
    <3>3. /\ Len(events[t]) \in Nat /\ Len(events'[t]) \in Nat
          /\ \/ events'[t] = events[t] /\ Audited(ticket'[t]) = Audited(ticket[t])
             \/ Len(events[t]) < Len(events'[t])
      BY <3>1, TrailsGrow
    <3> HIDE DEF t
    <3> QED
      BY <2>2, <3>1, <3>2, <3>3 DEF t
  <2>3. CASE /\ req'[q].t \in Tickets
             /\ req'[q].before = ticket[req'[q].t] /\ req'[q].seen = Len(events[req'[q].t])
             /\ UNCHANGED <<ticket, events>>
    BY <2>3, TrailsGrow
  <2> QED
    BY <2>1, <2>2, <2>3 DEF Evolves
<1> QED
  BY <1>1, <1>2, InitTypeInv, NextTypeInv, ChainInit, ChainNext, PTL DEF Spec

-----------------------------------------------------------------------------
(* Events follow the table, and their actors had the authority.            *)

\* What a request's write shows of it in the new event.
LEMMA WrittenEvent ==
  ASSUME TypeInv, NEW p \in Procs, TicketStep(p)
  PROVE  LET e == Last(events'[req[p].t]) IN
         /\ req[p].op \in TransitionKey /\ Writes(req[p].op, e)
         /\ e.actor = req[p].caller
         /\ CanPerform(req[p].op, req[p].caller, req[p].before)
<1>1. /\ req[p].pc = "write" /\ req[p].op \in TransitionKey /\ Checked(p)
  BY DEF TicketStep
<1>2. CanPerform(req[p].op, req[p].caller, req[p].before)
  BY <1>1 DEF Checked
<1> DEFINE e == Last(events'[req[p].t])
<1>3. /\ e.actor = req[p].caller
      /\ e.from \in TRANSITIONS[req[p].op].allowedFrom
      /\ Signs(req[p].op, e.type, e.from, e.to)
  BY DEF TicketStep
<1>4. Role[req[p].caller] \in TRANSITIONS[req[p].op].baseRoles
  BY <1>2 DEF CanPerform
<1> HIDE DEF e
<1>5. Writes(req[p].op, e)
  BY <1>3, <1>4 DEF Writes, Signs
<1> QED
  BY <1>1, <1>2, <1>3, <1>5 DEF e

\* The literal statuses of the handlers never leave the table: every event after
\* Created obeys the rule of an action that writes it.
THEOREM TrailsFollowTheTable == Spec => []TrailFollowsTable
<1>1. Init => TrailFollowsTable
  BY DEF Init, TrailFollowsTable
<1>2. TypeInv /\ AuditChain /\ TrailFollowsTable /\ [Next]_vars => TrailFollowsTable'
  <2> SUFFICES ASSUME TypeInv, AuditChain, TrailFollowsTable, [Next]_vars,
                      NEW t \in Tickets, NEW i \in 2..Len(events'[t])
               PROVE  \E op \in TransitionKey : Writes(op, events'[t][i])
    BY DEF TrailFollowsTable, Writes
  <2>1. i \in DOMAIN events'[t] /\ i # 1 /\ Len(events[t]) \in Nat
    BY TrailsGrow
  <2>2. CASE i \in 1..Len(events[t]) /\ events'[t][i] = events[t][i]
    <3>1. i \in 2..Len(events[t])
      BY <2>1, <2>2
    <3> QED
      BY <2>2, <3>1 DEF TrailFollowsTable
  <2>3. ASSUME NEW p \in Procs, TicketStep(p), req[p].t = t,
               events'[t][i] = Last(events'[t])
        PROVE  \E op \in TransitionKey : Writes(op, events'[t][i])
    BY <2>3, WrittenEvent
  <2> QED
    BY <2>1, <2>2, <2>3, NewEvent
<1> QED
  BY <1>1, <1>2, InitTypeInv, NextTypeInv, ChainInit, ChainNext, PTL DEF Spec

-----------------------------------------------------------------------------
(* Whoever acted had been given the ticket.                                *)

\* A row names the assignee and the department that some event gave it.
Basis(row, evs) ==
  /\ row.assignee # NULL => \E j \in DOMAIN evs :
       evs[j].type = "AgentAssigned" /\ evs[j].new = row.assignee
  /\ row.dept # NULL => \E j \in DOMAIN evs :
       evs[j].type \in Routing /\ evs[j].new = row.dept

\* So do the rows, and the snapshots on which requests were let through: what
\* makes AuthorityWasHeld inductive, since a write never looks at the trail.
RowsHaveBasis == \A t \in Tickets : Basis(ticket[t], events[t])
SnapshotsHaveBasis ==
  \A p \in Procs : req[p].pc \in BusyPc => Basis(req[p].before, events[req[p].t])

\* A basis is never lost: trails only grow.
LEMMA BasisLasts ==
  ASSUME TypeInv, AuditChain, [Next]_vars, NEW t \in Tickets, NEW row, Basis(row, events[t])
  PROVE  Basis(row, events'[t])
<1>1. /\ DOMAIN events[t] = 1..Len(events[t]) /\ DOMAIN events'[t] = 1..Len(events'[t])
      /\ \A j \in 1..Len(events[t]) :
           j \in 1..Len(events'[t]) /\ events'[t][j] = events[t][j]
  BY TrailsGrow
<1> QED
  BY <1>1 DEF Basis

\* A write gives the row its assignee or its department in the event it appends.
LEMMA RowBasisNext ==
  ASSUME TypeInv, AuditChain, RowsHaveBasis, [Next]_vars
  PROVE  RowsHaveBasis'
<1> SUFFICES ASSUME NEW t \in Tickets PROVE Basis(ticket'[t], events'[t])
  BY DEF RowsHaveBasis, Basis
<1>1. Basis(ticket[t], events'[t])
  BY BasisLasts DEF RowsHaveBasis
<1>2. ASSUME NEW p \in Procs, TicketStep(p), req[p].t = t
      PROVE  Basis(ticket'[t], events'[t])
  <2> DEFINE n == Len(events[t])
             e == Last(events'[t])
  <2>1. StepShape(req[p].caller, ticket[t], ticket'[t], e.type, e.new)
    BY <1>2 DEF TicketStep
  <2>2. n + 1 \in DOMAIN events'[t] /\ events'[t][n + 1] = e
    BY <1>2, TrailGrows
  <2>3. /\ ticket'[t].dept = IF e.type \in Routing THEN e.new ELSE ticket[t].dept
        /\ ticket'[t].assignee = IF e.type = "AgentAssigned" THEN e.new
                                                             ELSE ticket[t].assignee
    BY <2>1 DEF StepShape
  <2> HIDE DEF n, e
  <2> QED
    BY <1>1, <2>2, <2>3 DEF Basis
<1>3. ASSUME NEW p \in Procs, TicketStep(p), req[p].t # t
      PROVE  Basis(ticket'[t], events'[t])
  BY <1>1, <1>3 DEF TicketStep
<1>4. ASSUME NEW x \in Tickets, OpenStep(x)
      PROVE  Basis(ticket'[t], events'[t])
  BY <1>1, <1>4 DEF OpenStep, Basis
<1>5. CASE QuietStep
  BY <1>1, <1>5 DEF QuietStep, Basis
<1> QED
  BY <1>2, <1>3, <1>4, <1>5, StepCases

\* A snapshot was a row once.
LEMMA SnapshotBasisNext ==
  ASSUME TypeInv, AuditChain, RowsHaveBasis, SnapshotsHaveBasis, [Next]_vars
  PROVE  SnapshotsHaveBasis'
<1> SUFFICES ASSUME NEW q \in Procs, req'[q].pc \in BusyPc
             PROVE  Basis(req'[q].before, events'[req'[q].t])
  BY DEF SnapshotsHaveBasis, Basis, BusyPc
<1>1. Evolves(q)
  BY RequestEvolves
<1>2. CASE /\ req[q].pc \in BusyPc
           /\ req'[q].t = req[q].t /\ req'[q].before = req[q].before
  <2>1. Basis(req[q].before, events[req[q].t]) /\ req[q].t \in Tickets
    BY <1>2, BusyTicket DEF SnapshotsHaveBasis
  <2> QED
    BY <1>2, <2>1, BasisLasts
<1>3. CASE /\ req'[q].t \in Tickets /\ req'[q].before = ticket[req'[q].t]
           /\ UNCHANGED <<ticket, events>>
  BY <1>3 DEF RowsHaveBasis
<1> QED
  BY <1>1, <1>2, <1>3 DEF Evolves

\* Who may write an event that needs a scope, judged on the row as it was read.
LEMMA WriterWasScoped ==
  ASSUME TypeInv, NEW p \in Procs, TicketStep(p)
  PROVE  LET e == Last(events'[req[p].t])
             u == req[p].caller
             row == req[p].before
         IN  /\ e.actor = u /\ u \in Users
             /\ /\ Role[u] = "HelpdeskAgent"
                /\ e.type \in {"Closed", "Redirected", "CloseRefused", "RedirectRefused"}
                => row.assignee = u
             /\ /\ Role[u] = "DeptStaff"
                /\ e.type \in {"Started", "CloseRequested", "RedirectRequested"}
                => row.dept = DeptOf[u] /\ row.dept # NULL
<1> DEFINE e == Last(events'[req[p].t])
           op == req[p].op
           u == req[p].caller
<1>1. /\ op \in TransitionKey /\ Writes(op, e) /\ e.actor = u /\ u \in Users
      /\ CanPerform(op, u, req[p].before)
  BY WrittenEvent DEF TicketStep
<1> HIDE DEF e, op, u
<1>2. /\ e.type \in {"Closed", "Redirected", "CloseRefused", "RedirectRefused"} =>
           op \in AssigneeScoped
      /\ e.type \in {"Started", "CloseRequested", "RedirectRequested"} => op \in DeptScoped
  BY <1>1 DEF Writes, AssigneeScoped, DeptScoped
<1>3. /\ /\ Role[u] = "HelpdeskAgent"
         /\ e.type \in {"Closed", "Redirected", "CloseRefused", "RedirectRefused"}
         => req[p].before.assignee = u
      /\ /\ Role[u] = "DeptStaff"
         /\ e.type \in {"Started", "CloseRequested", "RedirectRequested"}
         => req[p].before.dept = DeptOf[u] /\ req[p].before.dept # NULL
  BY <1>1, <1>2 DEF CanPerform, OwnDept
<1> QED
  BY <1>1, <1>3 DEF e, u

\* AuthorityWasHeld, event by event.
Authorised(evs, i) ==
  LET e == evs[i] IN
  /\ /\ Role[e.actor] = "HelpdeskAgent"
     /\ e.type \in {"Closed", "Redirected", "CloseRefused", "RedirectRefused"}
     => \E j \in 1..(i-1) : evs[j].type = "AgentAssigned" /\ evs[j].new = e.actor
  /\ /\ Role[e.actor] = "DeptStaff"
     /\ e.type \in {"Started", "CloseRequested", "RedirectRequested"}
     => \E j \in 1..(i-1) : evs[j].type \in Routing /\ evs[j].new = DeptOf[e.actor]

LEMMA AuthorityNext ==
  ASSUME TypeInv, AuditChain, SnapshotsHaveBasis, AuthorityWasHeld, [Next]_vars
  PROVE  AuthorityWasHeld'
<1> SUFFICES ASSUME NEW t \in Tickets, NEW i \in DOMAIN events'[t]
             PROVE  Authorised(events'[t], i)
  BY DEF AuthorityWasHeld, Authorised
<1>1. /\ Len(events[t]) \in Nat
      /\ DOMAIN events[t] = 1..Len(events[t])
      /\ \A j \in 1..Len(events[t]) : events'[t][j] = events[t][j]
  BY TrailsGrow
<1>2. CASE i \in 1..Len(events[t]) /\ events'[t][i] = events[t][i]
  <2>1. Authorised(events[t], i)
    BY <1>1, <1>2 DEF AuthorityWasHeld, Authorised
  <2>2. \A j \in 1..(i-1) : events'[t][j] = events[t][j]
    BY <1>1, <1>2
  <2> QED
    BY <1>2, <2>1, <2>2 DEF Authorised
<1>3. ASSUME NEW p \in Procs, TicketStep(p), req[p].t = t,
             i = Len(events[t]) + 1, events'[t][i] = Last(events'[t])
      PROVE  Authorised(events'[t], i)
  <2> DEFINE e == events'[t][i]
             row == req[p].before
  <2>1. Basis(row, events[t])
    BY <1>3 DEF SnapshotsHaveBasis, TicketStep, BusyPc
  <2>2. /\ e.actor \in Users
        /\ /\ Role[e.actor] = "HelpdeskAgent"
           /\ e.type \in {"Closed", "Redirected", "CloseRefused", "RedirectRefused"}
           => row.assignee = e.actor
        /\ /\ Role[e.actor] = "DeptStaff"
           /\ e.type \in {"Started", "CloseRequested", "RedirectRequested"}
           => row.dept = DeptOf[e.actor] /\ row.dept # NULL
    BY <1>3, WriterWasScoped
  <2>3. i - 1 = Len(events[t])
    BY <1>1, <1>3
  <2> HIDE DEF e, row
  <2>4. /\ row.assignee # NULL => \E j \in 1..(i-1) :
             events'[t][j].type = "AgentAssigned" /\ events'[t][j].new = row.assignee
        /\ row.dept # NULL => \E j \in 1..(i-1) :
             events'[t][j].type \in Routing /\ events'[t][j].new = row.dept
    BY <1>1, <2>1, <2>3 DEF Basis
  <2> QED
    BY <2>2, <2>4, NullAssumption DEF Authorised, e
<1>4. CASE events'[t][i].type = "Created"
  BY <1>4 DEF Authorised
<1> QED
  BY <1>2, <1>3, <1>4, NewEvent

\* However stale the snapshot on which a request was let through, its actor had
\* been given the ticket, or the department, by an earlier event of the trail.
THEOREM ActorsHadAuthority == Spec => []AuthorityWasHeld
<1>1. Init => RowsHaveBasis /\ SnapshotsHaveBasis /\ AuthorityWasHeld
  BY DEF Init, RowsHaveBasis, SnapshotsHaveBasis, AuthorityWasHeld, Basis, NoTicket,
     NoRequest, BusyPc
<1> QED
  BY <1>1, InitTypeInv, NextTypeInv, ChainInit, ChainNext, RowBasisNext,
     SnapshotBasisNext, AuthorityNext, PTL DEF Spec

-----------------------------------------------------------------------------
(* Those who must act were told.                                           *)

\* TheRightPeopleKnow, ticket by ticket.
StaffKnow(row, evs) ==
  row.dept # NULL => \A u \in ActiveStaff(row.dept) : \E i \in DOMAIN evs :
    evs[i].new = row.dept /\ <<u, "TicketForwarded">> \in evs[i].notified
LeadsKnow(row, e) ==
  row.status \in {"CloseRequested", "RedirectRequested"} =>
    \A u \in ActiveLeads \ {e.actor} : <<u, row.status>> \in e.notified

\* The write of a department, or of an ask, tells them in its own event.
LEMMA WriteTells ==
  ASSUME TypeInv, NEW p \in Procs, TicketStep(p),
         StaffKnow(ticket[req[p].t], events[req[p].t])
  PROVE  /\ StaffKnow(ticket'[req[p].t], events'[req[p].t])
         /\ LeadsKnow(ticket'[req[p].t], Last(events'[req[p].t]))
<1> DEFINE t == req[p].t
           n == Len(events[t])
           e == Last(events'[t])
<1>1. /\ StepShape(req[p].caller, ticket[t], ticket'[t], e.type, e.new)
      /\ Told(req[p].caller, e.type, e.new, e.notified) /\ e.actor = req[p].caller
  BY DEF TicketStep
<1>2. /\ n + 1 \in DOMAIN events'[t] /\ events'[t][n + 1] = e
      /\ DOMAIN events[t] \subseteq DOMAIN events'[t]
      /\ \A i \in DOMAIN events[t] : events'[t][i] = events[t][i]
  BY TrailGrows
<1>3. /\ ticket'[t].dept = IF e.type \in Routing THEN e.new ELSE ticket[t].dept
      /\ ticket'[t].status \in {"CloseRequested", "RedirectRequested"} =>
           e.type = ticket'[t].status
  BY <1>1 DEF StepShape
<1> HIDE DEF n, e
<1>4. LeadsKnow(ticket'[t], e)
  BY <1>1, <1>3 DEF LeadsKnow, Told
<1>5. CASE e.type \in Routing
  BY <1>1, <1>2, <1>3, <1>4, <1>5 DEF StaffKnow, Told, e
<1>6. CASE e.type \notin Routing
  BY <1>2, <1>3, <1>4, <1>6 DEF StaffKnow, e
<1> QED
  BY <1>5, <1>6

\* The active staff of a ticket's department and the Leads who can decide an ask
\* have been told, in the transaction that made it theirs.
THEOREM TheRightPeopleAreTold == Spec => []TheRightPeopleKnow
<1>1. Init => TheRightPeopleKnow
  BY NullStatusAssumption DEF Init, TheRightPeopleKnow, NoTicket, Status, OpenStatus
<1>2. TypeInv /\ TheRightPeopleKnow /\ [Next]_vars => TheRightPeopleKnow'
  <2> SUFFICES ASSUME TypeInv, TheRightPeopleKnow, [Next]_vars,
                      NEW t \in Tickets
               PROVE  /\ StaffKnow(ticket'[t], events'[t])
                      /\ LeadsKnow(ticket'[t], Last(events'[t]))
    BY DEF TheRightPeopleKnow, StaffKnow, LeadsKnow, Last
  <2>1. StaffKnow(ticket[t], events[t]) /\ LeadsKnow(ticket[t], Last(events[t]))
    BY DEF TheRightPeopleKnow, StaffKnow, LeadsKnow
  <2>2. ASSUME NEW p \in Procs, TicketStep(p)
        PROVE  StaffKnow(ticket'[t], events'[t]) /\ LeadsKnow(ticket'[t], Last(events'[t]))
    <3>1. CASE req[p].t = t
      BY <2>1, <2>2, <3>1, WriteTells
    <3>2. CASE req[p].t # t
      BY <2>1, <2>2, <3>2 DEF TicketStep, Last
    <3> QED
      BY <3>1, <3>2
  <2>3. ASSUME NEW x \in Tickets, OpenStep(x)
        PROVE  StaffKnow(ticket'[t], events'[t]) /\ LeadsKnow(ticket'[t], Last(events'[t]))
    BY <2>1, <2>3 DEF OpenStep, StaffKnow, LeadsKnow, Last
  <2>4. CASE QuietStep
    BY <2>1, <2>4 DEF QuietStep, StaffKnow, LeadsKnow, Last
  <2> QED
    BY <2>2, <2>3, <2>4, StepCases
<1> QED
  BY <1>1, <1>2, InitTypeInv, NextTypeInv, PTL DEF Spec

-----------------------------------------------------------------------------
(* Every close request has its proof comment.                              *)

Asks(evs, u) == {i \in DOMAIN evs : evs[i].type = "CloseRequested" /\ evs[i].actor = u}
Said(coms, u) == {k \in DOMAIN coms : coms[k].author = u}

OneMore(S, T) == Cardinality(T) = Cardinality(S) + 1

\* Positions of a sequence are finitely many, and the next one is a new one.
LEMMA Positions ==
  ASSUME NEW n \in Nat, NEW S \in SUBSET (1..n)
  PROVE  /\ IsFiniteSet(S) /\ Cardinality(S) \in Nat
         /\ OneMore(S, S \cup {n + 1})
<1>0. IsFiniteSet(1..n)
  BY FS_Interval
<1>1. IsFiniteSet(S)
  BY <1>0, FS_Subset
<1>2. n + 1 \notin S
  OBVIOUS
<1> QED
  BY <1>1, <1>2, FS_CardinalityType, FS_AddElement DEF OneMore

\* A longer trail has one ask of u's more if its last event is one.
LEMMA AsksGrow ==
  ASSUME NEW evs \in Seq(EventRow), NEW e, NEW u, Append(evs, e) \in Seq(EventRow)
  PROVE  \/ /\ e.type = "CloseRequested" /\ e.actor = u
            /\ OneMore(Asks(evs, u), Asks(Append(evs, e), u))
         \/ Asks(Append(evs, e), u) = Asks(evs, u)
<1> DEFINE longer == Append(evs, e)
           n == Len(evs)
<1>1. /\ n \in Nat /\ DOMAIN evs = 1..n /\ DOMAIN longer = 1..(n + 1)
      /\ \A i \in 1..n : longer[i] = evs[i]
      /\ longer[n + 1] = e
  OBVIOUS
<1> HIDE DEF n, longer
<1>2. ASSUME e.type = "CloseRequested", e.actor = u
      PROVE  OneMore(Asks(evs, u), Asks(longer, u))
  <2>1. Asks(longer, u) = Asks(evs, u) \cup {n + 1} /\ Asks(evs, u) \in SUBSET (1..n)
    BY <1>1, <1>2 DEF Asks
  <2> QED
    BY <1>1, <1>2, <2>1, Positions
<1>3. ASSUME ~(e.type = "CloseRequested" /\ e.actor = u)
      PROVE  Asks(longer, u) = Asks(evs, u)
  BY <1>1, <1>3 DEF Asks
<1> QED
  BY <1>2, <1>3 DEF longer

\* One more comment is one more of its author's.
LEMMA SaidGrows ==
  ASSUME NEW coms \in Seq(CommentRow), NEW c, NEW u, Append(coms, c) \in Seq(CommentRow)
  PROVE  \/ OneMore(Said(coms, u), Said(Append(coms, c), u))
         \/ c.author # u /\ Said(Append(coms, c), u) = Said(coms, u)
<1> DEFINE longer == Append(coms, c)
           n == Len(coms)
<1>1. /\ n \in Nat /\ DOMAIN coms = 1..n /\ DOMAIN longer = 1..(n + 1)
      /\ \A i \in 1..n : longer[i] = coms[i]
      /\ longer[n + 1] = c
  OBVIOUS
<1> HIDE DEF n, longer
<1>2. ASSUME c.author = u PROVE OneMore(Said(coms, u), Said(longer, u))
  <2>1. Said(longer, u) = Said(coms, u) \cup {n + 1} /\ Said(coms, u) \in SUBSET (1..n)
    BY <1>1, <1>2 DEF Said
  <2> QED
    BY <1>1, <1>2, <2>1, Positions
<1>3. ASSUME c.author # u PROVE Said(longer, u) = Said(coms, u)
  BY <1>1, <1>3 DEF Said
<1> QED
  BY <1>2, <1>3 DEF longer

\* Comments are only added, and the write of an ask adds its author's.
LEMMA CommentsGrow ==
  ASSUME TypeInv, [Next]_vars
  PROVE  \/ /\ UNCHANGED comments
            /\ \/ UNCHANGED events
               \/ \E t \in Tickets : OpenStep(t)
               \/ \E p \in Procs : TicketStep(p) /\ req[p].op # "requestClose"
         \/ \E p \in Procs : \E c :
              /\ req[p].t \in Tickets
              /\ comments' = [comments EXCEPT ![req[p].t] = Append(@, c)]
              /\ \/ UNCHANGED events
                 \/ TicketStep(p) /\ c.author = req[p].caller
<1>1. ASSUME NEW p \in Procs, RequestClose(p)
      PROVE  /\ req[p].t \in Tickets /\ TicketStep(p)
             /\ \E c : /\ comments' = [comments EXCEPT ![req[p].t] = Append(@, c)]
                       /\ c.author = req[p].caller
  <2>1. TicketStep(p)
    BY <1>1, TransitionStep DEF TransitionWrite
  <2>2. PICK c : c = [author |-> req[p].caller, notified |-> {}]
    OBVIOUS
  <2>3. comments' = [comments EXCEPT ![req[p].t] = Append(@, c)]
    BY <1>1, <2>2 DEF RequestClose
  <2>4. c.author = req[p].caller
    BY <2>2
  <2> QED
    BY <2>1, <2>3, <2>4 DEF TicketStep
<1>2. ASSUME NEW p \in Procs, TransitionWrite(p), ~RequestClose(p)
      PROVE  UNCHANGED comments /\ TicketStep(p) /\ req[p].op # "requestClose"
  <2>1. TicketStep(p)
    BY <1>2, TransitionStep
  <2>2. UNCHANGED comments
    BY <1>2 DEF TransitionWrite, Assign, Forward, Redirect, StartProgress, Close,
       ApproveClose, RefuseClose, RequestRedirect, ApproveRedirect, RefuseRedirect,
       OverrideSeverity
  <2>3. req[p].op # "requestClose"
    BY <1>2 DEF TransitionWrite, Assign, Forward, Redirect, StartProgress, Close,
       ApproveClose, RefuseClose, RequestRedirect, ApproveRedirect, RefuseRedirect,
       OverrideSeverity, Commit
  <2> QED
    BY <2>1, <2>2, <2>3
<1>3. ASSUME NEW p \in Procs, AddComment(p)
      PROVE  /\ req[p].t \in Tickets /\ UNCHANGED events
             /\ \E c : comments' = [comments EXCEPT ![req[p].t] = Append(@, c)]
  BY <1>3, RequestFacts DEF AddComment
<1>4. ASSUME NEW p \in Procs, Arrive(p)
      PROVE  /\ UNCHANGED comments
             /\ UNCHANGED events \/ \E t \in Tickets : OpenStep(t)
  <2>1. ASSUME NEW u \in Active, NEW t \in Tickets, NEW s \in Severities,
               NEW c \in Categories \cup {NULL}, Create(p, u, t, s, c)
        PROVE  UNCHANGED comments /\ OpenStep(t)
    BY <2>1, CreateOpens DEF Create
  <2>2. ASSUME NEW op, NEW u, NEW t, NEW arg, NEW pc, Read(p, op, u, t, arg, pc)
        PROVE  UNCHANGED <<comments, events>>
    BY <2>2 DEF Read
  <2> QED
    BY <1>4, <2>1, <2>2 DEF Arrive, Begin, BeginComment, BeginCategorise
<1>5. ASSUME NEW p \in Procs,
             \/ AssignCategory(p) \/ ReadRequestEvent(p) \/ Conflict(p)
             \/ Publish(p) \/ Fail(p)
      PROVE  UNCHANGED <<comments, events>>
  BY <1>5 DEF AssignCategory, ReadRequestEvent, Conflict, Publish, Fail
<1>6. CASE UNCHANGED vars
  BY <1>6 DEF vars
<1> QED
  BY <1>1, <1>2, <1>3, <1>4, <1>5, <1>6 DEF Next, Write, TransitionWrite

\* A new ask of u's is the write of u's own requestClose.
LEMMA AsksNextOf ==
  ASSUME TypeInv, TypeInv', NEW p \in Procs, TicketStep(p), NEW t \in Tickets, NEW u
  PROVE  \/ Asks(events'[t], u) = Asks(events[t], u)
         \/ /\ req[p].t = t /\ req[p].op = "requestClose" /\ req[p].caller = u
            /\ OneMore(Asks(events[t], u), Asks(events'[t], u))
<1> DEFINE e == Last(events'[t])
<1>1. CASE req[p].t # t
  BY <1>1 DEF TicketStep
<1>2. CASE req[p].t = t
  <2>1. /\ events'[t] = Append(events[t], e)
        /\ events[t] \in Seq(EventRow) /\ events'[t] \in Seq(EventRow)
    BY <1>2 DEF TicketStep, TypeInv, TypeOK
  <2>2. Writes(req[p].op, e) /\ e.actor = req[p].caller
    BY <1>2, WrittenEvent
  <2> HIDE DEF e
  <2>3. \/ /\ e.type = "CloseRequested" /\ e.actor = u
           /\ OneMore(Asks(events[t], u), Asks(events'[t], u))
        \/ Asks(events'[t], u) = Asks(events[t], u)
    BY <2>1, AsksGrow
  <2>4. e.type = "CloseRequested" => req[p].op = "requestClose"
    BY <2>2 DEF Writes
  <2> QED
    BY <1>2, <2>2, <2>3, <2>4
<1> QED
  BY <1>1, <1>2

\* requestClose commits its event and its comment together, so no user has asked
\* more often than commented.
THEOREM AsksHaveProof == Spec => []CloseRequestsHaveProof
<1> DEFINE Proven(evs, coms, u) == Cardinality(Asks(evs, u)) <= Cardinality(Said(coms, u))
<1>1. Init => CloseRequestsHaveProof
  <2> SUFFICES ASSUME Init, NEW t \in Tickets, NEW u \in Users
               PROVE  Proven(events[t], comments[t], u)
    BY DEF CloseRequestsHaveProof, Asks, Said
  <2>1. Asks(events[t], u) = {} /\ Said(comments[t], u) = {}
    BY DEF Init, Asks, Said
  <2> QED
    BY <2>1, FS_EmptySet
<1>2. TypeInv /\ CloseRequestsHaveProof /\ [Next]_vars => CloseRequestsHaveProof'
  <2> SUFFICES ASSUME TypeInv, CloseRequestsHaveProof, [Next]_vars,
                      NEW t \in Tickets, NEW u \in Users
               PROVE  Proven(events'[t], comments'[t], u)
    BY DEF CloseRequestsHaveProof, Asks, Said
  <2> DEFINE asked == Cardinality(Asks(events[t], u))
             said == Cardinality(Said(comments[t], u))
  <2>0. TypeInv'
    BY NextTypeInv
  <2>1. asked <= said
    BY DEF CloseRequestsHaveProof, Asks, Said
  <2>2. /\ events[t] \in Seq(EventRow) /\ comments \in [Tickets -> Seq(CommentRow)]
        /\ comments[t] \in Seq(CommentRow) /\ comments'[t] \in Seq(CommentRow)
    BY <2>0 DEF TypeInv, TypeOK
  <2>3. asked \in Nat /\ said \in Nat
    <3>1. Len(events[t]) \in Nat /\ Asks(events[t], u) \in SUBSET (1..Len(events[t]))
      BY <2>2 DEF Asks
    <3>2. Len(comments[t]) \in Nat /\ Said(comments[t], u) \in SUBSET (1..Len(comments[t]))
      BY <2>2 DEF Said
    <3> QED
      BY <3>1, <3>2, Positions
  <2>4. ASSUME NEW p \in Procs, TicketStep(p)
        PROVE  \/ Asks(events'[t], u) = Asks(events[t], u)
               \/ /\ req[p].t = t /\ req[p].op = "requestClose" /\ req[p].caller = u
                  /\ OneMore(Asks(events[t], u), Asks(events'[t], u))
    BY <2>0, <2>4, AsksNextOf
  <2>5. ASSUME NEW x \in Tickets, OpenStep(x)
        PROVE  Asks(events'[t], u) = Asks(events[t], u) \/ Asks(events'[t], u) = {}
    <3>1. events'[t] \in Seq(EventRow)
      BY <2>0 DEF TypeInv, TypeOK
    <3> QED
      BY <2>5, <3>1 DEF OpenStep, Asks
  <2>6. CASE /\ UNCHANGED comments
             /\ \/ UNCHANGED events
                \/ \E x \in Tickets : OpenStep(x)
                \/ \E p \in Procs : TicketStep(p) /\ req[p].op # "requestClose"
    <3>1. Asks(events'[t], u) = Asks(events[t], u) \/ Asks(events'[t], u) = {}
      BY <2>4, <2>5, <2>6
    <3> QED
      BY <2>1, <2>3, <2>6, <3>1, FS_EmptySet
  <2>7. ASSUME NEW p \in Procs, NEW c, req[p].t \in Tickets,
               comments' = [comments EXCEPT ![req[p].t] = Append(@, c)],
               UNCHANGED events \/ (TicketStep(p) /\ c.author = req[p].caller)
        PROVE  Proven(events'[t], comments'[t], u)
    <3>1. CASE req[p].t # t
      <4>1. comments'[t] = comments[t]
        BY <2>2, <2>7, <3>1
      <4>2. Asks(events'[t], u) = Asks(events[t], u)
        BY <2>4, <2>7, <3>1
      <4> QED
        BY <2>1, <4>1, <4>2
    <3>2. CASE req[p].t = t
      <4>1. comments'[t] = Append(comments[t], c)
        BY <2>2, <2>7, <3>2
      <4>2. \/ OneMore(Said(comments[t], u), Said(comments'[t], u))
            \/ c.author # u /\ Said(comments'[t], u) = Said(comments[t], u)
        BY <2>2, <4>1, SaidGrows
      <4>3. \/ Asks(events'[t], u) = Asks(events[t], u)
            \/ c.author = u /\ OneMore(Asks(events[t], u), Asks(events'[t], u))
        BY <2>4, <2>7
      <4> QED
        BY <2>1, <2>3, <4>2, <4>3 DEF OneMore
    <3> QED
      BY <3>1, <3>2
  <2> HIDE DEF Proven
  <2> QED
    BY <2>6, <2>7, CommentsGrow
<1> QED
  BY <1>1, <1>2, InitTypeInv, NextTypeInv, PTL DEF Spec

-----------------------------------------------------------------------------
(* A ticket closes once, and asks are tracked.                             *)

\* Every step keeps ClosesOnce: a closed ticket is never written again.
LEMMA ClosesOnceNext == TypeInv /\ ClosesOnce /\ [Next]_vars => ClosesOnce'
<1> SUFFICES ASSUME TypeInv, ClosesOnce, [Next]_vars PROVE ClosesOnce'
  OBVIOUS
<1>1. ASSUME NEW p \in Procs, TicketStep(p) PROVE ClosesOnce'
  <2> DEFINE t == req[p].t
             n == Len(events[t])
             e == Last(events'[t])
  <2>1. /\ t \in Tickets
        /\ \A x \in Tickets \ {t} : ticket'[x] = ticket[x] /\ events'[x] = events[x]
        /\ ticket[t].status # "Closed"
        /\ ticket'[t].status = "Closed" <=> e.type = "Closed"
        /\ ticket'[t].closedAt <=> ticket[t].closedAt \/ ticket'[t].status = "Closed"
    BY <1>1 DEF TicketStep, StepShape, OpenStatus
  <2>2. /\ n \in Nat /\ Len(events'[t]) = n + 1
        /\ DOMAIN events[t] = 1..n
        /\ DOMAIN events'[t] = 1..(n + 1)
        /\ \A i \in 1..n : events'[t][i] = events[t][i]
        /\ events'[t][n + 1] = e
    BY <1>1, TrailGrows
  <2>3. ~ticket[t].closedAt /\ \A i \in 1..n : events[t][i].type # "Closed"
    BY <2>1, <2>2 DEF ClosesOnce
  <2>4. ticket'[t].closedAt <=> ticket'[t].status = "Closed"
    <3> HIDE DEF t, n, e
    <3> QED BY <2>1, <2>3
  <2>5. \A i \in DOMAIN events'[t] : events'[t][i].type = "Closed" =>
          i = Len(events'[t]) /\ ticket'[t].status = "Closed"
    <3> HIDE DEF t, n, e
    <3> SUFFICES ASSUME NEW i \in 1..(n + 1), events'[t][i].type = "Closed"
                 PROVE  i = n + 1 /\ ticket'[t].status = "Closed"
      BY <2>2
    <3>1. i = n + 1 \/ i \in 1..n
      BY <2>2
    <3> QED
      BY <2>1, <2>2, <2>3, <3>1
  <2> HIDE DEF t, n, e
  <2> QED
    BY <2>1, <2>4, <2>5 DEF ClosesOnce
<1>2. ASSUME NEW t \in Tickets, OpenStep(t) PROVE ClosesOnce'
  <2>1. events'[t] \in Seq(EventRow)
    BY NextTypeInv DEF TypeInv, TypeOK
  <2>2. /\ \A i \in DOMAIN events'[t] : events'[t][i].type # "Closed"
        /\ ticket'[t].closedAt = FALSE /\ ticket'[t].status = "Pending"
        /\ \A x \in Tickets \ {t} : ticket'[x] = ticket[x] /\ events'[x] = events[x]
    BY <1>2, <2>1 DEF OpenStep
  <2> QED
    BY <2>2 DEF ClosesOnce
<1>3. CASE QuietStep
  BY <1>3 DEF ClosesOnce, QuietStep
<1> QED
  BY <1>1, <1>2, <1>3, StepCases

\* close and approveClose cannot both win: every ticket has at most one Closed
\* event, as its last, and closedAt says so.
THEOREM ClosesAtMostOnce == Spec => []ClosesOnce
<1>1. Init => ClosesOnce
  BY NullStatusAssumption DEF Init, ClosesOnce, NoTicket, Status
<1> QED
  BY <1>1, InitTypeInv, NextTypeInv, ClosesOnceNext, PTL DEF Spec

\* Every step keeps AskIsTracked: the three ways out of an ask clear it.
LEMMA AsksNext == TypeInv /\ AskIsTracked /\ [Next]_vars => AskIsTracked'
<1> SUFFICES ASSUME TypeInv, AskIsTracked, [Next]_vars PROVE AskIsTracked'
  OBVIOUS
<1>1. ASSUME NEW p \in Procs, TicketStep(p) PROVE AskIsTracked'
  <2> DEFINE t == req[p].t
             u == req[p].caller
             e == Last(events'[t])
  <2>1. /\ t \in Tickets /\ u \in Users /\ u # NULL /\ e.actor = u
        /\ \A x \in Tickets \ {t} : ticket'[x] = ticket[x] /\ events'[x] = events[x]
        /\ ticket'[t].status = "CloseRequested" <=> e.type = "CloseRequested"
        /\ ticket'[t].status = "RedirectRequested" <=> e.type = "RedirectRequested"
    BY <1>1, NullAssumption DEF TicketStep, StepShape
  <2>2. /\ ticket'[t].closeReq =
             IF ticket'[t].status = "CloseRequested" THEN u
             ELSE IF ticket[t].status = "CloseRequested" THEN NULL
             ELSE ticket[t].closeReq
        /\ ticket'[t].redirectReq =
             IF ticket'[t].status = "RedirectRequested" THEN u
             ELSE IF ticket[t].status = "RedirectRequested" THEN NULL
             ELSE ticket[t].redirectReq
    BY <1>1 DEF TicketStep, StepShape
  <2>3. /\ ticket[t].closeReq # NULL <=> ticket[t].status = "CloseRequested"
        /\ ticket[t].redirectReq # NULL <=> ticket[t].status = "RedirectRequested"
    BY <2>1 DEF AskIsTracked
  <2>4. ASSUME NEW x \in Tickets, x # t
        PROVE  ticket'[x] = ticket[x] /\ events'[x] = events[x]
    BY <2>1, <2>4
  <2>5. /\ ticket'[t].closeReq # NULL <=> ticket'[t].status = "CloseRequested"
        /\ ticket'[t].redirectReq # NULL <=> ticket'[t].status = "RedirectRequested"
        /\ ticket'[t].status = "CloseRequested" =>
             e.type = "CloseRequested" /\ e.actor = ticket'[t].closeReq
        /\ ticket'[t].status = "RedirectRequested" =>
             e.type = "RedirectRequested" /\ e.actor = ticket'[t].redirectReq
    <3> HIDE DEF t, u, e
    <3> QED BY <2>1, <2>2, <2>3
  <2> QED
    BY <2>4, <2>5 DEF AskIsTracked, Last
<1>2. ASSUME NEW t \in Tickets, OpenStep(t) PROVE AskIsTracked'
  BY <1>2 DEF OpenStep, AskIsTracked, Last
<1>3. CASE QuietStep
  BY <1>3 DEF AskIsTracked, QuietStep, Last
<1> QED
  BY <1>1, <1>2, <1>3, StepCases

\* closeRequestedById and redirectRequestedById never outlive their ask and
\* always name its author.
THEOREM AsksAreTracked == Spec => []AskIsTracked
<1>1. Init => AskIsTracked
  BY NullStatusAssumption DEF Init, AskIsTracked, NoTicket, Status, OpenStatus
<1> QED
  BY <1>1, InitTypeInv, NextTypeInv, AsksNext, PTL DEF Spec

-----------------------------------------------------------------------------
(* Closed is final.                                                        *)

\* No step changes the trail of a closed ticket, nor any audited column.
THEOREM ClosedStaysClosed == Spec => ClosedIsFinal
<1>1. TypeInv /\ [Next]_vars =>
        [\A t \in Tickets : ticket[t].status = "Closed" =>
           Audited(ticket'[t]) = Audited(ticket[t]) /\ events'[t] = events[t]]_vars
  <2> SUFFICES ASSUME TypeInv, [Next]_vars, NEW t \in Tickets,
                      ticket[t].status = "Closed"
               PROVE  Audited(ticket'[t]) = Audited(ticket[t])
                      /\ events'[t] = events[t]
    OBVIOUS
  <2>1. CASE ticket'[t] = ticket[t] /\ events'[t] = events[t]
    BY <2>1
  <2>2. ASSUME NEW p \in Procs, TransitionWrite(p)
        PROVE  ticket'[t] = ticket[t] /\ events'[t] = events[t]
    BY <2>2, TransitionStep DEF TicketStep, StepShape, OpenStatus
  <2>3. ASSUME NEW p \in Procs, NEW u \in Active, NEW x \in Tickets,
               NEW s \in Severities, NEW c \in Categories \cup {NULL},
               Create(p, u, x, s, c)
        PROVE  ticket'[t] = ticket[t] /\ events'[t] = events[t]
    BY <2>3, CreateOpens, NullStatusAssumption DEF OpenStep, Status
  <2>4. ASSUME NEW p \in Procs, AssignCategory(p)
        PROVE  Audited(ticket'[t]) = Audited(ticket[t]) /\ events'[t] = events[t]
    <3>1. /\ ticket' = [ticket EXCEPT ![req[p].t].category = req[p].arg]
          /\ UNCHANGED events
          /\ ticket \in [Tickets -> TicketRow]
      BY <2>4 DEF AssignCategory, TypeInv, TypeOK
    <3>2. \/ ticket'[t] = ticket[t]
          \/ ticket'[t] = [ticket[t] EXCEPT !.category = req[p].arg]
      BY <3>1
    <3>3. ticket[t] \in TicketRow
      BY <3>1
    <3>4. Audited([ticket[t] EXCEPT !.category = req[p].arg]) = Audited(ticket[t])
      BY <3>3 DEF Audited, TicketRow
    <3> QED
      BY <3>1, <3>2, <3>4
  <2>5. ASSUME NEW p \in Procs,
               ReadRequestEvent(p) \/ Conflict(p) \/ Publish(p) \/ Fail(p)
               \/ AddComment(p)
        PROVE  ticket'[t] = ticket[t] /\ events'[t] = events[t]
    BY <2>5 DEF ReadRequestEvent, Conflict, Publish, Fail, AddComment
  <2>6. ASSUME NEW p \in Procs, Arrive(p)
        PROVE  ticket'[t] = ticket[t] /\ events'[t] = events[t]
    BY <2>3, <2>6 DEF Arrive, Begin, BeginComment, BeginCategorise, Read
  <2>7. CASE UNCHANGED vars
    BY <2>7 DEF vars
  <2> QED
    BY <2>2, <2>4, <2>5, <2>6, <2>7 DEF Next, Write, TransitionWrite
<1> QED
  BY <1>1, InitTypeInv, NextTypeInv, PTL DEF Spec, ClosedIsFinal

-----------------------------------------------------------------------------
(* The row and the trail agree.                                            *)

\* What the newest event of the given types records is in a column with value v.
Records(evs, types, v) ==
  \A i \in DOMAIN evs : IsNewest(evs, i, types) => v = evs[i].new

\* An event of one of the types renews the column, any other one leaves it.
LEMMA RecordsGrow ==
  ASSUME NEW old, NEW evs, NEW n \in Nat, NEW types, NEW v, NEW w,
         DOMAIN old = 1..n, DOMAIN evs = 1..(n + 1),
         \A i \in 1..n : evs[i] = old[i],
         Records(old, types, v),
         w = IF evs[n + 1].type \in types THEN evs[n + 1].new ELSE v
  PROVE  Records(evs, types, w)
<1> SUFFICES ASSUME NEW i \in 1..(n + 1), IsNewest(evs, i, types)
             PROVE  w = evs[i].new
  BY DEF Records
<1>1. CASE evs[n + 1].type \in types
  <2>1. n + 1 <= i
    BY <1>1 DEF IsNewest
  <2>2. i = n + 1
    BY <2>1
  <2> QED
    BY <1>1, <2>2
<1>2. CASE evs[n + 1].type \notin types
  <2>1. i \in 1..n /\ evs[i] = old[i]
    BY <1>2 DEF IsNewest
  <2>2. IsNewest(old, i, types)
    BY <2>1 DEF IsNewest
  <2> QED
    BY <1>2, <2>1, <2>2 DEF Records
<1> QED
  BY <1>1, <1>2

\* AttributesMatchTrail, ticket by ticket.
Matches(row, evs) ==
  /\ Records(evs, Routing, row.dept)
  /\ Records(evs, {"AgentAssigned"}, row.assignee)
  /\ Records(evs, {"SeverityChanged"}, row.severity)
  /\ row.status \in OpenStatus => (row.dept = NULL <=> row.status = "Pending")

LEMMA MatchesAll == AttributesMatchTrail <=> \A t \in Tickets : Matches(ticket[t], events[t])
BY DEF AttributesMatchTrail, Matches, Records

LEMMA MatchesNext ==
  ASSUME TypeInv, \A t \in Tickets : Matches(ticket[t], events[t]), [Next]_vars
  PROVE  \A t \in Tickets : Matches(ticket'[t], events'[t])
<1>1. ASSUME NEW p \in Procs, TicketStep(p)
      PROVE  \A t \in Tickets : Matches(ticket'[t], events'[t])
  <2> DEFINE t == req[p].t
             n == Len(events[t])
             e == Last(events'[t])
             cur == ticket[t]
             row == ticket'[t]
  <2>1. /\ t \in Tickets /\ Matches(cur, events[t])
        /\ \A x \in Tickets \ {t} : ticket'[x] = ticket[x] /\ events'[x] = events[x]
        /\ StepShape(req[p].caller, cur, row, e.type, e.new)
    BY <1>1 DEF TicketStep
  <2>2. /\ n \in Nat /\ DOMAIN events[t] = 1..n /\ DOMAIN events'[t] = 1..(n + 1)
        /\ \A i \in 1..n : events'[t][i] = events[t][i]
        /\ events'[t][n + 1] = e
    BY <1>1, TrailGrows
  <2> HIDE DEF t, n, e, cur, row
  <2>3. /\ row.dept = IF e.type \in Routing THEN e.new ELSE cur.dept
        /\ row.assignee = IF e.type \in {"AgentAssigned"} THEN e.new ELSE cur.assignee
        /\ row.severity = IF e.type \in {"SeverityChanged"} THEN e.new ELSE cur.severity
    BY <2>1 DEF StepShape
  <2> DEFINE Grows(types, v, w) == Records(events[t], types, v) => Records(events'[t], types, w)
  <2>5. ASSUME NEW types, NEW v, NEW w, w = IF e.type \in types THEN e.new ELSE v
        PROVE  Grows(types, v, w)
    <3> SUFFICES ASSUME Records(events[t], types, v) PROVE Records(events'[t], types, w)
      OBVIOUS
    <3>1. PICK old, evs : old = events[t] /\ evs = events'[t]
      OBVIOUS
    <3>2. /\ DOMAIN old = 1..n /\ DOMAIN evs = 1..(n + 1) /\ n \in Nat
          /\ \A i \in 1..n : evs[i] = old[i]
          /\ Records(old, types, v)
          /\ w = IF evs[n + 1].type \in types THEN evs[n + 1].new ELSE v
      BY <2>2, <2>5, <3>1
    <3>3. Records(evs, types, w)
      BY <3>2, RecordsGrow
    <3> QED
      BY <3>1, <3>3
  <2>6. /\ Grows(Routing, cur.dept, row.dept)
        /\ Grows({"AgentAssigned"}, cur.assignee, row.assignee)
        /\ Grows({"SeverityChanged"}, cur.severity, row.severity)
    <3> HIDE DEF Grows
    <3> QED
      BY <2>3, <2>5
  <2>4. /\ Records(events'[t], Routing, row.dept)
        /\ Records(events'[t], {"AgentAssigned"}, row.assignee)
        /\ Records(events'[t], {"SeverityChanged"}, row.severity)
    BY <2>1, <2>6 DEF Matches
  <2>7. row.status \in OpenStatus => (row.dept = NULL <=> row.status = "Pending")
    BY <2>1, <2>3, NullAssumption DEF StepShape, Matches, OpenStatus
  <2>8. Matches(row, events'[t])
    BY <2>4, <2>7 DEF Matches
  <2> QED
    BY <2>1, <2>8 DEF row
<1>2. ASSUME NEW t \in Tickets, OpenStep(t)
      PROVE  \A x \in Tickets : Matches(ticket'[x], events'[x])
  <2>1. events'[t] \in Seq(EventRow)
    BY NextTypeInv DEF TypeInv, TypeOK
  <2>2. DOMAIN events'[t] = {1} /\ events'[t][1].type = "Created"
    BY <1>2, <2>1 DEF OpenStep
  <2>3. Matches(ticket'[t], events'[t])
    BY <1>2, <2>2 DEF OpenStep, Matches, Records, IsNewest, Routing
  <2> QED
    BY <1>2, <2>3 DEF OpenStep
<1>3. CASE QuietStep
  BY <1>3 DEF QuietStep, Matches
<1> QED
  BY <1>1, <1>2, <1>3, StepCases

\* The department, the assignee and the severity of every ticket are what the
\* newest event about them says, although handlers decide on stale snapshots.
THEOREM RowsMatchTrails == Spec => []AttributesMatchTrail
<1>1. Init => AttributesMatchTrail
  BY NullStatusAssumption DEF Init, AttributesMatchTrail, NoTicket, Status
<1>2. TypeInv /\ AttributesMatchTrail /\ [Next]_vars => AttributesMatchTrail'
  <2> SUFFICES ASSUME TypeInv, AttributesMatchTrail, [Next]_vars
               PROVE  AttributesMatchTrail'
    OBVIOUS
  <2>1. \A t \in Tickets : Matches(ticket'[t], events'[t])
    BY MatchesAll, MatchesNext
  <2> QED
    BY <2>1 DEF AttributesMatchTrail, Matches, Records
<1> QED
  BY <1>1, <1>2, InitTypeInv, NextTypeInv, PTL DEF Spec

-----------------------------------------------------------------------------
(* What downstream systems are told.                                       *)

\* A row may be told of: it is there for ticketCreated, closed for ticketClosed.
Tellable(row, what) ==
  /\ what = "ticketCreated" => row.status # NULL
  /\ what = "ticketClosed" => row.status = "Closed"

\* A request that is to publish has committed what it will tell.
PublisherCommitted ==
  \A p \in Procs : req[p].pc = "publish" =>
    req[p].t \in Tickets /\ Tellable(ticket[req[p].t], DownstreamEvent(req[p].op))

\* What could be told of a ticket can be told of it later.
LEMMA TellableLasts ==
  ASSUME TypeInv, [Next]_vars, NEW t \in Tickets, NEW what, Tellable(ticket[t], what)
  PROVE  Tellable(ticket'[t], what)
<1>1. /\ ticket[t].status # NULL => ticket'[t].status # NULL
      /\ ticket[t].status = "Closed" => ticket'[t].status = "Closed"
  <2>1. ASSUME NEW p \in Procs, TicketStep(p)
        PROVE  \/ ticket'[t] = ticket[t]
               \/ ticket[t].status \in OpenStatus /\ ticket'[t].status \in Status
    BY <2>1 DEF TicketStep, StepShape
  <2>2. ASSUME NEW x \in Tickets, OpenStep(x)
        PROVE  ticket'[t] = ticket[t] \/ ticket[t].status = NULL
    BY <2>2 DEF OpenStep
  <2> QED
    BY <2>1, <2>2, StepCases, NullStatusAssumption DEF QuietStep, OpenStatus, Status
<1> QED
  BY <1>1 DEF Tellable

\* Only create, close and approveClose go on to publish, with their row written.
GoesOn(q) ==
  \/ req'[q] = req[q] \/ req'[q].pc # "publish"
  \/ req'[q].t \in Tickets /\ Tellable(ticket'[req'[q].t], DownstreamEvent(req'[q].op))

LEMMA PublisherStep ==
  ASSUME TypeInv, [Next]_vars, NEW q \in Procs
  PROVE  GoesOn(q)
<1>0. /\ DOMAIN req = Procs /\ ticket \in [Tickets -> TicketRow]
      /\ NoRequest.pc = "idle"
  BY DEF TypeInv, TypeOK, NoRequest
<1>1. ASSUME NEW p \in Procs, NEW op \in {"close", "approveClose"}, NEW row, NEW event,
             row.status = "Closed", Commit(p, op, row, event, "publish")
      PROVE  GoesOn(q)
  <2>1. req[p].t \in Tickets /\ req[p].op = op
    BY <1>1, RequestFacts DEF Commit
  <2>2. ticket'[req[p].t] = row
    BY <1>0, <1>1, <2>1 DEF Commit
  <2>3. PICK r : r = [req[p] EXCEPT !.pc = "publish"]
    OBVIOUS
  <2>4. req' = [req EXCEPT ![p] = r]
    BY <1>1, <2>3 DEF Commit
  <2>5. r.t = req[p].t /\ r.op = op
    <3>1. req[p] \in Request
      BY DEF TypeInv, TypeOK
    <3> QED
      BY <2>1, <2>3, <3>1 DEF Request
  <2>6. q # p => req'[q] = req[q]
    BY <2>4
  <2>7. q = p => req'[q] = r
    BY <1>0, <2>4
  <2> QED
    BY <1>1, <2>1, <2>2, <2>5, <2>6, <2>7 DEF GoesOn, Tellable, DownstreamEvent
<1>2. ASSUME NEW p \in Procs, Close(p) PROVE GoesOn(q)
  <2> DEFINE row == [ticket[req[p].t] EXCEPT !.status = "Closed", !.closedAt = TRUE]
  <2>1. PICK event : Commit(p, "close", row, event, "publish")
    BY <1>2, Zenon DEF Close
  <2>2. req[p].t \in Tickets
    BY <2>1, RequestFacts DEF Commit
  <2>3. row.status = "Closed"
    BY <1>0, <2>2 DEF TicketRow
  <2> HIDE DEF row
  <2> QED
    BY <1>1, <2>1, <2>3
<1>3. ASSUME NEW p \in Procs, ApproveClose(p) PROVE GoesOn(q)
  <2> DEFINE row == [ticket[req[p].t] EXCEPT !.status = "Closed", !.closedAt = TRUE,
                                             !.closeReq = NULL]
  <2>1. PICK event : Commit(p, "approveClose", row, event, "publish")
    BY <1>3, Zenon DEF ApproveClose
  <2>2. req[p].t \in Tickets
    BY <2>1, RequestFacts DEF Commit
  <2>3. row.status = "Closed"
    BY <1>0, <2>2 DEF TicketRow
  <2> HIDE DEF row
  <2> QED
    BY <1>1, <2>1, <2>3
<1>4. ASSUME NEW p \in Procs, NEW op, NEW row, NEW event, Commit(p, op, row, event, "idle")
      PROVE  GoesOn(q)
  BY <1>0, <1>4 DEF Commit, GoesOn
<1>5. ASSUME NEW p \in Procs, Write(p) PROVE GoesOn(q)
  <2>1. CASE AddComment(p) \/ AssignCategory(p)
    BY <1>0, <2>1 DEF AddComment, AssignCategory, GoesOn
  <2>2. CASE \/ Assign(p) \/ Forward(p) \/ Redirect(p) \/ StartProgress(p)
             \/ RequestClose(p) \/ RefuseClose(p)
             \/ RequestRedirect(p) \/ ApproveRedirect(p) \/ RefuseRedirect(p)
             \/ OverrideSeverity(p)
    <3>1. \E op, row, event : Commit(p, op, row, event, "idle")
      BY <2>2, Zenon DEF Assign, Forward, Redirect, StartProgress, RequestClose, RefuseClose,
         RequestRedirect, ApproveRedirect, RefuseRedirect, OverrideSeverity
    <3> QED
      BY <1>4, <3>1
  <2> QED
    BY <1>2, <1>3, <1>5, <2>1, <2>2 DEF Write
<1>6. ASSUME NEW p \in Procs, NEW u \in Active, NEW t \in Tickets, NEW s \in Severities,
             NEW c \in Categories \cup {NULL}, Create(p, u, t, s, c)
      PROVE  GoesOn(q)
  <2>1. ticket'[t].status # NULL
    BY <1>6, CreateOpens, NullStatusAssumption DEF OpenStep, Status, OpenStatus
  <2>2. PICK r : r = [NoRequest EXCEPT !.pc = "publish", !.op = "create", !.caller = u, !.t = t]
    OBVIOUS
  <2>3. r.op = "create" /\ r.t = t
    BY <2>2 DEF NoRequest
  <2>4. req' = [req EXCEPT ![p] = r]
    BY <1>6, <2>2, Zenon DEF Create
  <2> QED
    BY <1>0, <2>1, <2>3, <2>4 DEF GoesOn, Tellable, DownstreamEvent
<1>7. ASSUME NEW p \in Procs, Arrive(p) PROVE GoesOn(q)
  <2>1. ASSUME NEW op, NEW u, NEW t, NEW arg, NEW pc \in {"readRequestEvent", "write"},
               Read(p, op, u, t, arg, pc)
        PROVE  GoesOn(q)
    BY <1>0, <2>1 DEF Read, GoesOn
  <2> QED
    BY <1>6, <1>7, <2>1 DEF Arrive, Begin, BeginComment, BeginCategorise
<1>8. ASSUME NEW p \in Procs,
             ReadRequestEvent(p) \/ Conflict(p) \/ Publish(p) \/ Fail(p)
      PROVE  GoesOn(q)
  <2>1. CASE ReadRequestEvent(p)
    <3>1. PICK r : r = [req[p] EXCEPT !.prior = PriorStatus(events[req[p].t]), !.pc = "write"]
      OBVIOUS
    <3>2. req' = [req EXCEPT ![p] = r]
      BY <2>1, <3>1 DEF ReadRequestEvent
    <3>3. r.pc = "write"
      <4>1. req[p] \in Request
        BY DEF TypeInv, TypeOK
      <4> QED
        BY <3>1, <4>1 DEF Request
    <3> QED
      BY <1>0, <3>2, <3>3 DEF GoesOn
  <2>2. CASE Conflict(p) \/ Publish(p) \/ Fail(p)
    BY <1>0, <2>2 DEF Conflict, Publish, Fail, GoesOn
  <2> QED
    BY <1>8, <2>1, <2>2
<1>9. CASE UNCHANGED vars
  BY <1>9 DEF vars, GoesOn
<1> QED
  BY <1>5, <1>7, <1>8, <1>9 DEF Next

LEMMA PublisherNext ==
  TypeInv /\ PublisherCommitted /\ PublishedIsCommitted /\ [Next]_vars =>
    PublisherCommitted' /\ PublishedIsCommitted'
<1> SUFFICES ASSUME TypeInv, PublisherCommitted, PublishedIsCommitted, [Next]_vars
             PROVE  PublisherCommitted' /\ PublishedIsCommitted'
  OBVIOUS
<1>1. PublisherCommitted'
  <2> SUFFICES ASSUME NEW q \in Procs, req'[q].pc = "publish"
               PROVE  /\ req'[q].t \in Tickets
                      /\ Tellable(ticket'[req'[q].t], DownstreamEvent(req'[q].op))
    BY DEF PublisherCommitted, Tellable, DownstreamEvent
  <2>1. CASE req'[q] = req[q]
    BY <2>1, TellableLasts DEF PublisherCommitted
  <2> QED
    BY <2>1, PublisherStep DEF GoesOn
<1>2. \A t \in Tickets, what \in {"ticketCreated", "ticketClosed"} :
        what \in published'[t] => Tellable(ticket[t], what)
  <2>1. \A t \in Tickets, what \in {"ticketCreated", "ticketClosed"} :
          what \in published[t] => Tellable(ticket[t], what)
    BY DEF PublishedIsCommitted, Tellable
  <2>2. ASSUME NEW p \in Procs, Publish(p)
        PROVE  \A t \in Tickets : \A what \in published'[t] \ published[t] :
                 Tellable(ticket[t], what)
    <3>1. PICK u, new : u = req[p].t /\ new = DownstreamEvent(req[p].op)
      OBVIOUS
    <3>2. u \in Tickets /\ Tellable(ticket[u], new)
      BY <2>2, <3>1 DEF Publish, PublisherCommitted
    <3>3. \/ published' = [published EXCEPT ![u] = @ \cup {new}]
          \/ UNCHANGED published
      BY <2>2, <3>1 DEF Publish
    <3>4. published \in [Tickets -> SUBSET {"ticketCreated", "ticketClosed"}]
      BY DEF TypeInv, TypeOK
    <3> QED
      BY <3>2, <3>3, <3>4
  <2>3. UNCHANGED published \/ \E p \in Procs : Publish(p)
    <3>1. ASSUME NEW p \in Procs, Write(p) PROVE UNCHANGED published
      <4>1. CASE AddComment(p) \/ AssignCategory(p)
        BY <4>1 DEF AddComment, AssignCategory
      <4>2. CASE TransitionWrite(p)
        <5>1. \E op, row, event, pc : Commit(p, op, row, event, pc)
          BY <4>2, Zenon DEF TransitionWrite, Assign, Forward, Redirect, StartProgress,
             Close, RequestClose, ApproveClose, RefuseClose, RequestRedirect,
             ApproveRedirect, RefuseRedirect, OverrideSeverity
        <5> QED
          BY <5>1 DEF Commit
      <4> QED
        BY <3>1, <4>1, <4>2 DEF Write, TransitionWrite
    <3>2. ASSUME NEW p \in Procs, Arrive(p) PROVE UNCHANGED published
      <4>1. ASSUME NEW u, NEW t, NEW s, NEW c, Create(p, u, t, s, c)
            PROVE  UNCHANGED published
        BY <4>1, Zenon DEF Create
      <4>2. ASSUME NEW op, NEW u, NEW t, NEW arg, NEW pc, Read(p, op, u, t, arg, pc)
            PROVE  UNCHANGED published
        BY <4>2 DEF Read
      <4> QED
        BY <3>2, <4>1, <4>2, Zenon DEF Arrive, Begin, BeginComment, BeginCategorise
    <3>3. ASSUME NEW p \in Procs, ReadRequestEvent(p) \/ Conflict(p) \/ Fail(p)
          PROVE  UNCHANGED published
      BY <3>3 DEF ReadRequestEvent, Conflict, Fail
    <3> QED
      BY <3>1, <3>2, <3>3 DEF Next, vars
  <2> QED
    BY <2>1, <2>2, <2>3
<1>3. PublishedIsCommitted'
  BY <1>2, TellableLasts DEF PublishedIsCommitted, Tellable
<1> QED
  BY <1>1, <1>3

\* Downstream systems hear only of what committed and stays so: however requests
\* overlap, fail or lose the race for the row, ticketClosed is about a closed ticket.
THEOREM OnlyCommitsArePublished == Spec => []PublishedIsCommitted
<1>1. Init => PublisherCommitted /\ PublishedIsCommitted
  BY DEF Init, PublisherCommitted, PublishedIsCommitted, NoRequest
<1> QED
  BY <1>1, InitTypeInv, NextTypeInv, PublisherNext, PTL DEF Spec

-----------------------------------------------------------------------------
(* What a write says, of the row as it is unless somebody overtook it.     *)

\* A write records, and tells those concerned, by what its request read.
Informed(r, op, type, old, told) ==
  /\ type \in Routing => old = r.before.dept
  /\ type = "SeverityChanged" => old = r.before.severity
  /\ /\ op \in {"approveClose", "refuseClose"}
     /\ r.before.closeReq \notin {NULL, r.caller}
     => \E n \in told : n[1] = r.before.closeReq
  /\ /\ op \in {"approveRedirect", "refuseRedirect"}
     /\ r.before.redirectReq \notin {NULL, r.caller}
     => \E n \in told : n[1] = r.before.redirectReq
  /\ /\ op \in {"forward", "progress", "close", "requestClose",
                "requestRedirect", "overrideSeverity"}
     /\ r.before.assignee \notin {NULL, r.caller}
     => \E n \in told : n[1] = r.before.assignee

InformedStep(p) ==
  LET e == Last(events'[req[p].t])
  IN  Informed(req[p], req[p].op, e.type, e.old, e.notified)

LEMMA TellReaches ==
  \A S, type, u : u \in S /\ u # NULL => <<u, type>> \in Tell(S, type)
BY DEF Tell

LEMMA CommitInforms ==
  ASSUME TypeInv, NEW p \in Procs, NEW op, NEW row, NEW type, NEW to, NEW old,
         NEW new, NEW told, NEW pc,
         Commit(p, op, row, Event(p, type, to, old, new, told), pc),
         Informed(req[p], op, type, old, told)
  PROVE  InformedStep(p)
<1> DEFINE event == Event(p, type, to, old, new, told)
           t == req[p].t
<1>1. event.type = type /\ event.old = old /\ event.notified = told
  BY DEF Event
<1>2. /\ req[p].pc = "write" /\ req[p].op = op
      /\ events' = [events EXCEPT ![t] = Append(@, event)]
  BY DEF Commit
<1>3. t \in Tickets /\ events \in [Tickets -> Seq(EventRow)] /\ events[t] \in Seq(EventRow)
  BY <1>2, RequestFacts DEF TypeInv, TypeOK
<1> HIDE DEF event, t
<1>4. Last(events'[t]) = event
  BY <1>2, <1>3 DEF Last
<1> QED
  BY <1>1, <1>2, <1>4 DEF InformedStep, t

\* Each of the twelve state-machine writes is informed by its request's read.
LEMMA WritesAreInformed ==
  ASSUME TypeInv, NEW p \in Procs, TransitionWrite(p)
  PROVE  InformedStep(p)
<1> DEFINE r == req[p]
<1>1. CASE Assign(p)
  <2>1. PICK row, told :
       /\ Commit(p, "assign", row,
                 Event(p, "AgentAssigned", r.before.status, NULL, r.arg, told), "idle")
    BY <1>1, Zenon DEF Assign
  <2>3. Informed(r, "assign", "AgentAssigned", NULL, told)
    BY DEF Informed, Routing
  <2> QED
    BY <2>1, <2>3, CommitInforms
<1>2. CASE Forward(p)
  <2> DEFINE audience == {r.before.assignee, r.before.requester} \ {r.caller}
  <2>1. PICK row, told :
       /\ Tell(audience, "StatusChanged") \subseteq told
       /\ Commit(p, "forward", row,
                 Event(p, "Forwarded", "Assigned", r.before.dept, r.arg, told), "idle")
    BY <1>2, Zenon DEF Forward
  <2>2. ASSUME r.before.assignee \notin {NULL, r.caller}
        PROVE  \E n \in told : n[1] = r.before.assignee
    <3>1. r.before.assignee \in audience
      BY <2>2
    <3> HIDE DEF audience
    <3>2. <<r.before.assignee, "StatusChanged">> \in told
      BY <2>1, <2>2, <3>1, TellReaches
    <3> QED BY <3>2
  <2>3. Informed(r, "forward", "Forwarded", r.before.dept, told)
    BY <2>2 DEF Informed, Routing
  <2> QED
    BY <2>1, <2>3, CommitInforms
<1>3. CASE Redirect(p)
  <2>1. PICK row, told :
       /\ Commit(p, "redirect", row,
                 Event(p, "Redirected", "Assigned", r.before.dept, r.arg, told), "idle")
    BY <1>3, Zenon DEF Redirect
  <2>3. Informed(r, "redirect", "Redirected", r.before.dept, told)
    BY DEF Informed, Routing
  <2> QED
    BY <2>1, <2>3, CommitInforms
<1>4. CASE StartProgress(p)
  <2> DEFINE audience == {r.before.requester} \cup ({r.before.assignee} \ {r.caller})
  <2>1. PICK row, told :
       /\ Tell(audience, "StatusChanged") \subseteq told
       /\ Commit(p, "progress", row,
                 Event(p, "Started", "InProgress", NULL, NULL, told), "idle")
    BY <1>4, Zenon DEF StartProgress
  <2>2. ASSUME r.before.assignee \notin {NULL, r.caller}
        PROVE  \E n \in told : n[1] = r.before.assignee
    <3>1. r.before.assignee \in audience
      BY <2>2
    <3> HIDE DEF audience
    <3>2. <<r.before.assignee, "StatusChanged">> \in told
      BY <2>1, <2>2, <3>1, TellReaches
    <3> QED BY <3>2
  <2>3. Informed(r, "progress", "Started", NULL, told)
    BY <2>2 DEF Informed, Routing
  <2> QED
    BY <2>1, <2>3, CommitInforms
<1>5. CASE Close(p)
  <2> DEFINE audience == {r.before.requester} \cup ({r.before.assignee} \ {r.caller})
  <2>1. PICK row, told :
       /\ Tell(audience, "TicketClosed") \subseteq told
       /\ Commit(p, "close", row,
                 Event(p, "Closed", "Closed", NULL, NULL, told), "publish")
    BY <1>5, Zenon DEF Close
  <2>2. ASSUME r.before.assignee \notin {NULL, r.caller}
        PROVE  \E n \in told : n[1] = r.before.assignee
    <3>1. r.before.assignee \in audience
      BY <2>2
    <3> HIDE DEF audience
    <3>2. <<r.before.assignee, "TicketClosed">> \in told
      BY <2>1, <2>2, <3>1, TellReaches
    <3> QED BY <3>2
  <2>3. Informed(r, "close", "Closed", NULL, told)
    BY <2>2 DEF Informed, Routing
  <2> QED
    BY <2>1, <2>3, CommitInforms
<1>6. CASE RequestClose(p)
  <2> DEFINE audience == ({r.before.assignee} \cup ActiveLeads) \ {r.caller}
  <2>1. PICK row, told :
       /\ Tell(audience, "CloseRequested") \subseteq told
       /\ Commit(p, "requestClose", row,
                 Event(p, "CloseRequested", "CloseRequested", NULL, NULL, told), "idle")
    BY <1>6, Zenon DEF RequestClose, Deciders
  <2>2. ASSUME r.before.assignee \notin {NULL, r.caller}
        PROVE  \E n \in told : n[1] = r.before.assignee
    <3>1. r.before.assignee \in audience
      BY <2>2
    <3> HIDE DEF audience
    <3>2. <<r.before.assignee, "CloseRequested">> \in told
      BY <2>1, <2>2, <3>1, TellReaches
    <3> QED BY <3>2
  <2>3. Informed(r, "requestClose", "CloseRequested", NULL, told)
    BY <2>2 DEF Informed, Routing
  <2> QED
    BY <2>1, <2>3, CommitInforms
<1>7. CASE ApproveClose(p)
  <2> DEFINE audience == {r.before.requester} \cup ({r.before.closeReq} \ {r.caller})
  <2>1. PICK row, told :
       /\ Tell(audience, "TicketClosed") \subseteq told
       /\ Commit(p, "approveClose", row,
                 Event(p, "Closed", "Closed", NULL, NULL, told), "publish")
    BY <1>7, Zenon DEF ApproveClose
  <2>2. ASSUME r.before.closeReq \notin {NULL, r.caller}
        PROVE  \E n \in told : n[1] = r.before.closeReq
    <3>1. r.before.closeReq \in audience
      BY <2>2
    <3> HIDE DEF audience
    <3>2. <<r.before.closeReq, "TicketClosed">> \in told
      BY <2>1, <2>2, <3>1, TellReaches
    <3> QED BY <3>2
  <2>3. Informed(r, "approveClose", "Closed", NULL, told)
    BY <2>2 DEF Informed, Routing
  <2> QED
    BY <2>1, <2>3, CommitInforms
<1>8. CASE RefuseClose(p)
  <2> DEFINE audience == {r.before.closeReq} \ {r.caller}
  <2>1. PICK row, told :
       /\ Tell(audience, "CloseRefused") \subseteq told
       /\ Commit(p, "refuseClose", row,
                 Event(p, "CloseRefused", "InProgress", NULL, NULL, told), "idle")
    BY <1>8, Zenon DEF RefuseClose
  <2>2. ASSUME r.before.closeReq \notin {NULL, r.caller}
        PROVE  \E n \in told : n[1] = r.before.closeReq
    <3>1. r.before.closeReq \in audience
      BY <2>2
    <3> HIDE DEF audience
    <3>2. <<r.before.closeReq, "CloseRefused">> \in told
      BY <2>1, <2>2, <3>1, TellReaches
    <3> QED BY <3>2
  <2>3. Informed(r, "refuseClose", "CloseRefused", NULL, told)
    BY <2>2 DEF Informed, Routing
  <2> QED
    BY <2>1, <2>3, CommitInforms
<1>9. CASE RequestRedirect(p)
  <2> DEFINE audience == ({r.before.assignee} \cup ActiveLeads) \ {r.caller}
  <2>1. PICK row, told :
       /\ Tell(audience, "RedirectRequested") \subseteq told
       /\ Commit(p, "requestRedirect", row,
                 Event(p, "RedirectRequested", "RedirectRequested", NULL, NULL, told), "idle")
    BY <1>9, Zenon DEF RequestRedirect, Deciders
  <2>2. ASSUME r.before.assignee \notin {NULL, r.caller}
        PROVE  \E n \in told : n[1] = r.before.assignee
    <3>1. r.before.assignee \in audience
      BY <2>2
    <3> HIDE DEF audience
    <3>2. <<r.before.assignee, "RedirectRequested">> \in told
      BY <2>1, <2>2, <3>1, TellReaches
    <3> QED BY <3>2
  <2>3. Informed(r, "requestRedirect", "RedirectRequested", NULL, told)
    BY <2>2 DEF Informed, Routing
  <2> QED
    BY <2>1, <2>3, CommitInforms
<1>10. CASE ApproveRedirect(p)
  <2> DEFINE audience == {r.before.redirectReq, r.before.requester} \ {r.caller}
  <2>1. PICK row, told :
       /\ Tell(audience, "StatusChanged") \subseteq told
       /\ Commit(p, "approveRedirect", row,
                 Event(p, "Redirected", "Assigned", r.before.dept, r.arg, told), "idle")
    BY <1>10, Zenon DEF ApproveRedirect
  <2>2. ASSUME r.before.redirectReq \notin {NULL, r.caller}
        PROVE  \E n \in told : n[1] = r.before.redirectReq
    <3>1. r.before.redirectReq \in audience
      BY <2>2
    <3> HIDE DEF audience
    <3>2. <<r.before.redirectReq, "StatusChanged">> \in told
      BY <2>1, <2>2, <3>1, TellReaches
    <3> QED BY <3>2
  <2>3. Informed(r, "approveRedirect", "Redirected", r.before.dept, told)
    BY <2>2 DEF Informed, Routing
  <2> QED
    BY <2>1, <2>3, CommitInforms
<1>11. CASE RefuseRedirect(p)
  <2> DEFINE audience == {r.before.redirectReq} \ {r.caller}
  <2>1. PICK row, told :
       /\ Tell(audience, "RedirectRefused") \subseteq told
       /\ Commit(p, "refuseRedirect", row,
                 Event(p, "RedirectRefused", r.prior, NULL, NULL, told), "idle")
    BY <1>11, Zenon DEF RefuseRedirect
  <2>2. ASSUME r.before.redirectReq \notin {NULL, r.caller}
        PROVE  \E n \in told : n[1] = r.before.redirectReq
    <3>1. r.before.redirectReq \in audience
      BY <2>2
    <3> HIDE DEF audience
    <3>2. <<r.before.redirectReq, "RedirectRefused">> \in told
      BY <2>1, <2>2, <3>1, TellReaches
    <3> QED BY <3>2
  <2>3. Informed(r, "refuseRedirect", "RedirectRefused", NULL, told)
    BY <2>2 DEF Informed, Routing
  <2> QED
    BY <2>1, <2>3, CommitInforms
<1>12. CASE OverrideSeverity(p)
  <2> DEFINE audience == {r.before.requester, r.before.assignee} \ {r.caller}
  <2>1. PICK row, told :
       /\ Tell(audience, "StatusChanged") \subseteq told
       /\ Commit(p, "overrideSeverity", row,
                 Event(p, "SeverityChanged", r.before.status, r.before.severity, r.arg, told), "idle")
    BY <1>12, Zenon DEF OverrideSeverity
  <2>2. ASSUME r.before.assignee \notin {NULL, r.caller}
        PROVE  \E n \in told : n[1] = r.before.assignee
    <3>1. r.before.assignee \in audience
      BY <2>2
    <3> HIDE DEF audience
    <3>2. <<r.before.assignee, "StatusChanged">> \in told
      BY <2>1, <2>2, <3>1, TellReaches
    <3> QED BY <3>2
  <2>3. Informed(r, "overrideSeverity", "SeverityChanged", r.before.severity, told)
    BY <2>2 DEF Informed, Routing
  <2> QED
    BY <2>1, <2>3, CommitInforms
<1> QED
  BY <1>1, <1>2, <1>3, <1>4, <1>5, <1>6, <1>7, <1>8,
     <1>9, <1>10, <1>11, <1>12 DEF TransitionWrite

\* Only a request itself moves on: one that was about to write, moves and adds an
\* event has made its write.
LEMMA OwnWrite ==
  ASSUME TypeInv, [Next]_vars, NEW p \in Procs,
         req[p].pc = "write", req'[p] # req[p], events'[req[p].t] # events[req[p].t]
  PROVE  TransitionWrite(p)
<1>1. req \in [Procs -> Request]
  BY DEF TypeInv, TypeOK
<1>2. ASSUME NEW q \in Procs, NEW r, req' = [req EXCEPT ![q] = r] PROVE q = p
  BY <1>1, <1>2
<1>3. ~ UNCHANGED vars
  BY DEF vars
<1>4. ASSUME NEW q \in Procs, Arrive(q) PROVE FALSE
  <2>1. ASSUME NEW op, NEW u, NEW t, NEW arg, NEW pc, Read(q, op, u, t, arg, pc)
        PROVE  FALSE
    BY <2>1 DEF Read
  <2>2. ASSUME NEW u, NEW t, NEW s, NEW c, Create(q, u, t, s, c)
        PROVE  FALSE
    <3>1. PICK r : req' = [req EXCEPT ![q] = r]
      BY <2>2, Zenon DEF Create
    <3> QED
      BY <1>2, <2>2, <3>1 DEF Create
  <2> QED
    BY <1>4, <2>1, <2>2, Zenon DEF Arrive, Begin, BeginComment, BeginCategorise
<1>5. ASSUME NEW q \in Procs, TransitionWrite(q) PROVE q = p
  <2>1. PICK op, row, event, pc : Commit(q, op, row, event, pc)
    BY <1>5, Zenon DEF TransitionWrite, Assign, Forward, Redirect, StartProgress,
       Close, RequestClose, ApproveClose, RefuseClose, RequestRedirect,
       ApproveRedirect, RefuseRedirect, OverrideSeverity
  <2>2. PICK r : req' = [req EXCEPT ![q] = r]
    BY <2>1, Zenon DEF Commit
  <2> QED
    BY <1>2, <2>2
<1>6. ASSUME NEW q \in Procs,
             \/ ReadRequestEvent(q) \/ AddComment(q) \/ AssignCategory(q)
             \/ Conflict(q) \/ Publish(q) \/ Fail(q)
      PROVE  FALSE
  BY <1>6 DEF ReadRequestEvent, AddComment, AssignCategory, Conflict, Publish, Fail
<1> QED
  BY <1>3, <1>4, <1>5, <1>6 DEF Next, Write, TransitionWrite

\* A request that nobody overtook writes by the row as it is at the commit.
LEMMA OnTimeFacts ==
  ASSUME TypeInv, NoSilentChange, [Next]_vars, NEW p \in Procs, OnTime(p)
  PROVE  LET row == ticket[req[p].t]
             before == req[p].before
         IN  /\ TransitionWrite(p) /\ InformedStep(p) /\ TicketStep(p)
             /\ row \in TicketRow
             /\ row.status = before.status /\ row.dept = before.dept
             /\ row.assignee = before.assignee /\ row.severity = before.severity
             /\ row.closeReq = before.closeReq /\ row.redirectReq = before.redirectReq
<1>1. TransitionWrite(p) /\ InformedStep(p) /\ TicketStep(p)
  BY OwnWrite, WritesAreInformed, TransitionStep DEF OnTime
<1>2. ticket[req[p].t] \in TicketRow /\ req[p].before \in TicketRow
  BY RequestFacts DEF OnTime
<1>3. Audited(ticket[req[p].t]) = Audited(req[p].before)
  BY DEF OnTime, NoSilentChange
<1>4. \A row, x \in TicketRow : Audited(row) = Audited(x) =>
        /\ row.status = x.status /\ row.dept = x.dept
        /\ row.assignee = x.assignee /\ row.severity = x.severity
        /\ row.closeReq = x.closeReq /\ row.redirectReq = x.redirectReq
  <2> SUFFICES ASSUME NEW row \in TicketRow, NEW x \in TicketRow,
                      Audited(row) = Audited(x)
               PROVE  /\ row.status = x.status /\ row.dept = x.dept
                      /\ row.assignee = x.assignee /\ row.severity = x.severity
                      /\ row.closeReq = x.closeReq /\ row.redirectReq = x.redirectReq
    OBVIOUS
  <2>1. \A y \in TicketRow :
          /\ Audited(y).status = y.status /\ Audited(y).dept = y.dept
          /\ Audited(y).assignee = y.assignee /\ Audited(y).severity = y.severity
          /\ Audited(y).closeReq = y.closeReq /\ Audited(y).redirectReq = y.redirectReq
    BY DEF Audited, TicketRow
  <2> QED
    BY <2>1
<1> QED
  BY <1>1, <1>2, <1>3, <1>4

\* However requests overlap, one that nobody overtook records as the old value of
\* the attribute it changes the value that the row loses.
THEOREM OldValuesAreRecorded == Spec => RecordsWhatItReplaces
<1>1. TypeInv /\ NoSilentChange /\ [Next]_vars =>
        [\A p \in Procs : OnTime(p) =>
           LET t == req[p].t
               e == Last(events'[t])
           IN  /\ e.type \in Routing => e.old = ticket[t].dept
               /\ e.type = "SeverityChanged" => e.old = ticket[t].severity]_vars
  BY OnTimeFacts DEF InformedStep, Informed
<1> QED
  BY <1>1, InitTypeInv, NextTypeInv, NothingChangesSilently, PTL
     DEF Spec, RecordsWhatItReplaces

\* A decision that nobody overtook tells the one whose ask it ends.
THEOREM AskersAreTold == Spec => AskersHear
<1>1. TypeInv /\ NoSilentChange /\ AskIsTracked /\ [Next]_vars =>
        [\A p \in Procs : OnTime(p) => TellsTheAsker(p)]_vars
  <2> SUFFICES ASSUME TypeInv, NoSilentChange, AskIsTracked, [Next]_vars,
                      NEW p \in Procs, OnTime(p)
               PROVE  TellsTheAsker(p)
    OBVIOUS
  <2>1. /\ InformedStep(p) /\ req[p].t \in Tickets /\ req[p].op \in TransitionKey
        /\ ticket[req[p].t].status = req[p].before.status
        /\ ticket[req[p].t].closeReq = req[p].before.closeReq
        /\ ticket[req[p].t].redirectReq = req[p].before.redirectReq
        /\ req[p].before.status \in TRANSITIONS[req[p].op].allowedFrom
    BY OnTimeFacts DEF TicketStep, Checked
  <2>2. /\ req[p].op \in {"approveClose", "refuseClose"} =>
             req[p].before.closeReq # NULL
        /\ req[p].op \in {"approveRedirect", "refuseRedirect"} =>
             req[p].before.redirectReq # NULL
    BY <2>1, AllowedFrom DEF AskIsTracked
  <2> QED
    BY <2>1, <2>2 DEF InformedStep, Informed, TellsTheAsker, Hears
<1> QED
  BY <1>1, InitTypeInv, NextTypeInv, NothingChangesSilently, AsksAreTracked, PTL
     DEF Spec, AskersHear

\* A write that nobody overtook tells the assignee whom the row names then.
THEOREM AssigneesAreTold == Spec => AssigneeHears
<1>1. TypeInv /\ NoSilentChange /\ [Next]_vars =>
        [\A p \in Procs :
           /\ OnTime(p)
           /\ req[p].op \in {"forward", "progress", "close", "requestClose",
                             "requestRedirect", "overrideSeverity"}
           => LET assignee == ticket[req[p].t].assignee
              IN  assignee \in {NULL, req[p].caller} \/ Hears(p, assignee)]_vars
  BY OnTimeFacts DEF InformedStep, Informed, Hears
<1> QED
  BY <1>1, InitTypeInv, NextTypeInv, NothingChangesSilently, PTL
     DEF Spec, AssigneeHears

\* refuseRedirect's second read has seen the newest request, unless the trail has
\* grown since its first.
PriorIsCurrent ==
  \A p \in Procs :
    LET t == req[p].t IN
    req[p].pc = "write" /\ req[p].op = "refuseRedirect" /\ req[p].seen = Len(events[t])
    => req[p].prior = PriorStatus(events[t])

\* A request enters "write" as refuseRedirect only from its second read.
RefusalKeeps(q) ==
  req'[q].pc = "write" /\ req'[q].op = "refuseRedirect" =>
    /\ req'[q].t = req[q].t /\ req'[q].seen = req[q].seen
    /\ req[q].pc \in BusyPc
    /\ \/ /\ req[q].pc = "write" /\ req[q].op = "refuseRedirect"
          /\ req'[q].prior = req[q].prior
       \/ /\ req'[q].prior = PriorStatus(events[req[q].t])
          /\ UNCHANGED events

LEMMA RefusalEvolves ==
  ASSUME TypeInv, [Next]_vars, NEW q \in Procs
  PROVE  RefusalKeeps(q)
<1>0. /\ DOMAIN req = Procs /\ NoRequest.pc = "idle"
      /\ \A p \in Procs : req[p] \in Request
  BY DEF TypeInv, TypeOK, NoRequest
<1>1. req'[q] = req[q] => RefusalKeeps(q)
  BY DEF BusyPc, RefusalKeeps
<1>2. ASSUME NEW p \in Procs, NEW r, req' = [req EXCEPT ![p] = r],
             r.pc # "write" \/ r.op # "refuseRedirect"
      PROVE  RefusalKeeps(q)
  BY <1>0, <1>1, <1>2 DEF RefusalKeeps
<1>3. ASSUME NEW p \in Procs, Write(p) PROVE RefusalKeeps(q)
  <2>1. CASE AddComment(p) \/ AssignCategory(p)
    BY <1>0, <1>2, <2>1 DEF AddComment, AssignCategory
  <2>2. CASE TransitionWrite(p)
    <3>1. PICK op, row, event, pc : /\ pc \in {"idle", "publish"}
                                    /\ Commit(p, op, row, event, pc)
      <4>1. \/ \E op, row, event : Commit(p, op, row, event, "idle")
            \/ \E op, row, event : Commit(p, op, row, event, "publish")
        BY <2>2, Zenon DEF TransitionWrite, Assign, Forward, Redirect, StartProgress,
           Close, RequestClose, ApproveClose, RefuseClose, RequestRedirect,
           ApproveRedirect, RefuseRedirect, OverrideSeverity
      <4> QED
        BY <4>1
    <3>2. PICK r : r = IF pc = "idle" THEN NoRequest ELSE [req[p] EXCEPT !.pc = pc]
      OBVIOUS
    <3>3. r.pc = pc
      BY <1>0, <3>2 DEF Request
    <3>4. req' = [req EXCEPT ![p] = r]
      BY <3>1, <3>2 DEF Commit
    <3> QED
      BY <1>2, <3>1, <3>3, <3>4
  <2> QED
    BY <1>3, <2>1, <2>2 DEF Write, TransitionWrite
<1>4. ASSUME NEW p \in Procs, Arrive(p) PROVE RefusalKeeps(q)
  <2>1. ASSUME NEW op, NEW u, NEW t, NEW arg, NEW pc, Read(p, op, u, t, arg, pc),
               pc # "write" \/ op # "refuseRedirect"
        PROVE  RefusalKeeps(q)
    <3>1. PICK r : r = [pc |-> pc, op |-> op, caller |-> u, t |-> t, arg |-> arg,
                        before |-> ticket[t], prior |-> NULL, seen |-> Len(events[t])]
      OBVIOUS
    <3>2. req' = [req EXCEPT ![p] = r]
      BY <2>1, <3>1 DEF Read
    <3> QED
      BY <1>2, <2>1, <3>1, <3>2
  <2>2. ASSUME NEW u, NEW t, NEW s, NEW c, Create(p, u, t, s, c)
        PROVE  RefusalKeeps(q)
    <3>1. PICK r : /\ req' = [req EXCEPT ![p] = r]
                   /\ r = [NoRequest EXCEPT !.pc = "publish", !.op = "create",
                                            !.caller = u, !.t = t]
      BY <2>2, Zenon DEF Create
    <3>2. r.pc = "publish"
      BY <3>1 DEF NoRequest
    <3> QED
      BY <1>2, <3>1, <3>2
  <2>3. ASSUME NEW op, NEW u, NEW t, NEW arg, Begin(p, op, u, t, arg)
        PROVE  RefusalKeeps(q)
    <3>1. PICK pc : /\ Read(p, op, u, t, arg, pc)
                    /\ pc # "write" \/ op # "refuseRedirect"
      BY <2>3 DEF Begin
    <3> QED
      BY <2>1, <3>1
  <2>4. ASSUME NEW u, NEW t, NEW c, BeginComment(p, u, t) \/ BeginCategorise(p, u, t, c)
        PROVE  RefusalKeeps(q)
    BY <2>1, <2>4 DEF BeginComment, BeginCategorise
  <2> QED
    BY <1>4, <2>2, <2>3, <2>4, Zenon DEF Arrive
<1>5. ASSUME NEW p \in Procs, ReadRequestEvent(p) PROVE RefusalKeeps(q)
  <2>1. CASE p # q
    BY <1>0, <1>1, <1>5, <2>1 DEF ReadRequestEvent
  <2>2. CASE p = q
    <3>1. PICK prior : /\ prior = PriorStatus(events[req[p].t])
                       /\ req' = [req EXCEPT ![p].prior = prior, ![p].pc = "write"]
      BY <1>5 DEF ReadRequestEvent
    <3>2. req'[q] = [req[q] EXCEPT !.prior = prior, !.pc = "write"]
      BY <1>0, <2>2, <3>1
    <3>3. /\ req'[q].t = req[q].t /\ req'[q].seen = req[q].seen
          /\ req'[q].prior = prior
      BY <1>0, <3>2 DEF Request
    <3> QED
      BY <1>5, <2>2, <3>1, <3>3 DEF ReadRequestEvent, RefusalKeeps, BusyPc
  <2> QED
    BY <2>1, <2>2
<1>6. ASSUME NEW p \in Procs, Conflict(p) \/ Publish(p) \/ Fail(p) PROVE RefusalKeeps(q)
  BY <1>0, <1>2, <1>6 DEF Conflict, Publish, Fail
<1>7. CASE UNCHANGED vars
  BY <1>1, <1>7 DEF vars
<1> QED
  BY <1>3, <1>4, <1>5, <1>6, <1>7 DEF Next

LEMMA PriorNext ==
  TypeInv /\ AuditChain /\ NoSilentChange /\ PriorIsCurrent /\ [Next]_vars =>
    PriorIsCurrent'
<1> SUFFICES ASSUME TypeInv, AuditChain, NoSilentChange, PriorIsCurrent, [Next]_vars,
                    NEW q \in Procs, req'[q].pc = "write",
                    req'[q].op = "refuseRedirect",
                    req'[q].seen = Len(events'[req'[q].t])
             PROVE  req'[q].prior = PriorStatus(events'[req'[q].t])
  BY DEF PriorIsCurrent, PriorStatus
<1> DEFINE t == req[q].t
<1>1. /\ req'[q].t = t /\ req'[q].seen = req[q].seen
      /\ req[q].pc \in BusyPc
      /\ \/ /\ req[q].pc = "write" /\ req[q].op = "refuseRedirect"
            /\ req'[q].prior = req[q].prior
         \/ /\ req'[q].prior = PriorStatus(events[t])
            /\ UNCHANGED events
  BY RefusalEvolves DEF RefusalKeeps
<1>2. t \in Tickets /\ req[q].seen \in Nat
  BY <1>1, BusyTicket DEF Request
<1>3. req[q].seen <= Len(events[t])
  BY <1>1 DEF NoSilentChange, BusyPc
<1>4. /\ Len(events[t]) \in Nat /\ Len(events'[t]) \in Nat
      /\ events'[t] = events[t] \/ Len(events[t]) < Len(events'[t])
  BY <1>2, TrailsGrow
<1>5. events'[t] = events[t] /\ req[q].seen = Len(events[t])
  <2> HIDE DEF t
  <2> QED BY <1>1, <1>2, <1>3, <1>4
<1> QED
  BY <1>1, <1>5 DEF PriorIsCurrent

\* A refusal that nobody overtook restores the status from which the request that
\* it refuses was made, although it learns the status from a query of its own.
THEOREM RefusalsUndoTheirAsk == Spec => RefusalUndoesTheAsk
<1>1. TypeInv /\ AuditChain /\ NoSilentChange /\ AskIsTracked /\ TrailFollowsTable
      /\ PriorIsCurrent /\ [Next]_vars =>
        [\A p \in Procs : OnTime(p) /\ req[p].op = "refuseRedirect" =>
           LET t == req[p].t
           IN  Last(events'[t]).to = Last(events[t]).from]_vars
  <2> SUFFICES ASSUME TypeInv, AuditChain, NoSilentChange, AskIsTracked,
                      TrailFollowsTable, PriorIsCurrent, [Next]_vars,
                      NEW p \in Procs, OnTime(p), req[p].op = "refuseRedirect"
               PROVE  Last(events'[req[p].t]).to = Last(events[req[p].t]).from
    OBVIOUS
  <2> DEFINE t == req[p].t
             evs == events[t]
             n == Len(evs)
  <2>1. /\ TransitionWrite(p) /\ TicketStep(p) /\ t \in Tickets
        /\ req[p].pc = "write" /\ req[p].seen = n
        /\ ticket[t].status = "RedirectRequested"
    BY OnTimeFacts, AllowedFrom DEF OnTime, TicketStep
  <2>2. req[p].prior = PriorStatus(evs)
    BY <2>1 DEF PriorIsCurrent
  <2>3. evs \in Seq(EventRow) /\ n \in Nat /\ DOMAIN evs = 1..n
    BY <2>1, RequestFacts
  <2>4. /\ evs # <<>> /\ evs[1].type = "Created"
        /\ evs[n].type = "RedirectRequested"
    BY <2>1, NullStatusAssumption
       DEF AuditChain, AskIsTracked, Last, Status, OpenStatus
  <2>5. n \in 2..n /\ n \in DOMAIN evs
    <3>1. n # 0 /\ n # 1
      <4>1. n # 0
        BY <2>3, <2>4
      <4>2. n # 1
        BY <2>4
      <4> QED BY <4>1, <4>2
    <3> HIDE DEF n
    <3> QED BY <2>3, <3>1
  <2>6. evs[n].from \in {"Assigned", "InProgress"}
    <3>1. PICK op \in TransitionKey : Writes(op, evs[n])
      BY <2>1, <2>5 DEF TrailFollowsTable
    <3>2. op = "requestRedirect"
      BY <2>4, <3>1 DEF Writes
    <3> QED
      BY <3>1, <3>2, AllowedFrom DEF Writes
  <2>7. PriorStatus(evs) = evs[n].from
    <3> DEFINE asked == {i \in DOMAIN evs : evs[i].type = "RedirectRequested"}
               newest == CHOOSE i \in asked : \A j \in asked : j <= i
    <3>1. n \in asked /\ \A j \in asked : j <= n
      BY <2>3, <2>4, <2>5
    <3>2. newest \in asked /\ \A j \in asked : j <= newest
      <4> HIDE DEF asked
      <4> QED BY <3>1
    <3>3. newest = n
      <4>1. newest <= n /\ n <= newest /\ newest \in 1..n
        BY <2>3, <3>1, <3>2
      <4> HIDE DEF newest
      <4> QED BY <2>3, <4>1
    <3> QED
      BY <2>6, <3>1, <3>3 DEF PriorStatus
  <2>8. Last(events'[t]).to = req[p].prior
    <3>1. RefuseRedirect(p)
      BY <2>1 DEF TransitionWrite, Assign, Forward, Redirect, StartProgress, Close,
         RequestClose, ApproveClose, RefuseClose, RequestRedirect, ApproveRedirect,
         OverrideSeverity, Commit
    <3>2. PICK event : /\ event.to = req[p].prior
                       /\ events' = [events EXCEPT ![t] = Append(@, event)]
      BY <3>1 DEF RefuseRedirect, Commit, Event
    <3>3. events \in [Tickets -> Seq(EventRow)]
      BY DEF TypeInv, TypeOK
    <3>4. events'[t] = Append(evs, event)
      BY <2>1, <3>2, <3>3
    <3> QED
      BY <2>3, <3>2, <3>4 DEF Last
  <2> QED
    BY <2>2, <2>7, <2>8 DEF Last
<1>2. Init => PriorIsCurrent
  BY DEF Init, PriorIsCurrent, NoRequest
<1> QED
  BY <1>1, <1>2, InitTypeInv, NextTypeInv, TrailIsAChain, NothingChangesSilently,
     AsksAreTracked, TrailsFollowTheTable, PriorNext, PTL DEF Spec, RefusalUndoesTheAsk
=============================================================================
