------------------------- MODULE TicketRefinementProofs -------------------------
(***************************************************************************)
(* TicketService implements TicketLifecycle: requests that check one       *)
(* snapshot and write later look, ticket by ticket, like the operations of *)
(* the sequential state machine, each at the moment its UPDATE commits.    *)
(* It implements TicketTable too, on which the other modules are built:    *)
(* each commit changes the columns that one row of the transition table    *)
(* lets it change, and no other.                                           *)
(***************************************************************************)
EXTENDS TicketTrailProofs, SequenceTheorems

StatusMap == [t \in Tickets |-> ticket[t].status]
AskerMap == [t \in Tickets |-> IF ticket[t].closeReq # NULL
                               THEN ticket[t].closeReq ELSE ticket[t].redirectReq]
TrailOf(evs) == [i \in DOMAIN evs |-> evs[i].to]
TrailMap == [t \in Tickets |-> TrailOf(events[t])]

\* Ticket t makes the lifecycle's move to status to, with u left to answer.
Moves(t, from, to, u) ==
  /\ t \in Tickets /\ ticket[t].status \in from
  /\ StatusMap' = [StatusMap EXCEPT ![t] = to]
  /\ AskerMap' = [AskerMap EXCEPT ![t] = u]
  /\ TrailMap' = [TrailMap EXCEPT ![t] = Append(@, to)]

\* The abstract trail of a longer event list is longer by its status.
LEMMA TrailOfAppend ==
  ASSUME NEW evs \in Seq(EventRow), NEW evs2 \in Seq(EventRow), NEW e,
         evs2 = Append(evs, e)
  PROVE  TrailOf(evs2) = Append(TrailOf(evs), e.to)
<1> DEFINE n == Len(evs)
<1>1. /\ n \in Nat /\ DOMAIN evs = 1..n /\ DOMAIN evs2 = 1..(n + 1)
      /\ \A i \in 1..n : evs2[i] = evs[i]
      /\ evs2[n + 1] = e
  OBVIOUS
<1>2. \A i \in 1..n : evs[i].to \in Status
  <2>1. \A i \in 1..n : evs[i] \in EventRow
    OBVIOUS
  <2> QED
    BY <2>1 DEF EventRow
<1>3. /\ TrailOf(evs) \in Seq(Status \cup {e.to})
      /\ Len(TrailOf(evs)) = n
      /\ \A i \in 1..n : TrailOf(evs)[i] = evs[i].to
  BY <1>1, <1>2, IsASeq DEF TrailOf
<1>4. /\ Append(TrailOf(evs), e.to) \in Seq(Status \cup {e.to})
      /\ Len(Append(TrailOf(evs), e.to)) = n + 1
      /\ \A i \in 1..n : Append(TrailOf(evs), e.to)[i] = TrailOf(evs)[i]
      /\ Append(TrailOf(evs), e.to)[n + 1] = e.to
  BY <1>1, <1>3
<1>5. /\ TrailOf(evs2) = [i \in 1..(n + 1) |-> evs2[i].to]
      /\ \A i \in 1..(n + 1) : evs2[i].to \in Status \cup {e.to}
  BY <1>1, <1>2 DEF TrailOf
<1>6. /\ TrailOf(evs2) \in Seq(Status \cup {e.to})
      /\ Len(TrailOf(evs2)) = n + 1
      /\ \A i \in 1..(n + 1) : TrailOf(evs2)[i] = evs2[i].to
  BY <1>1, <1>5, IsASeq
<1>7. \A i \in 1..(n + 1) : TrailOf(evs2)[i] = Append(TrailOf(evs), e.to)[i]
  <2> HIDE DEF n
  <2> SUFFICES ASSUME NEW i \in 1..(n + 1)
               PROVE  TrailOf(evs2)[i] = Append(TrailOf(evs), e.to)[i]
    OBVIOUS
  <2>1. i \in 1..n \/ i = n + 1
    BY <1>1
  <2> QED
    BY <1>1, <1>3, <1>4, <1>6, <2>1
<1> HIDE DEF n
<1> QED
  BY <1>1, <1>4, <1>6, <1>7, SeqEqual

\* Whom a write by u that makes the status to leaves waiting for an answer.
Asker(to, u) ==
  IF to \in {"CloseRequested", "RedirectRequested"} THEN u ELSE NULL

\* Under the mapping a write moves one ticket along one edge.
LEMMA StepMoves ==
  ASSUME TypeInv, TypeInv', AskIsTracked, NEW p \in Procs, TicketStep(p)
  PROVE  LET t == req[p].t
             to == ticket'[t].status
         IN  /\ t \in Tickets /\ req[p].caller \in Users
             /\ ticket[t].status \in Status /\ to \in Status
             /\ Edge(ticket[t].status, to)
             /\ Moves(t, {ticket[t].status}, to, Asker(to, req[p].caller))
<1> DEFINE t == req[p].t
           u == req[p].caller
           e == Last(events'[t])
           to == ticket'[t].status
           asker == Asker(to, u)
<1>1. /\ t \in Tickets /\ u \in Users /\ u # NULL /\ e.to = to
      /\ ticket[t].status \in Status /\ to \in Status
      /\ Edge(ticket[t].status, to)
      /\ events'[t] = Append(events[t], e)
      /\ \A x \in Tickets \ {t} : ticket'[x] = ticket[x] /\ events'[x] = events[x]
  BY NullAssumption DEF TicketStep, StepShape, Status
<1>2. /\ ticket'[t].closeReq =
           IF to = "CloseRequested" THEN u
           ELSE IF ticket[t].status = "CloseRequested" THEN NULL
           ELSE ticket[t].closeReq
      /\ ticket'[t].redirectReq =
           IF to = "RedirectRequested" THEN u
           ELSE IF ticket[t].status = "RedirectRequested" THEN NULL
           ELSE ticket[t].redirectReq
  BY DEF TicketStep, StepShape
<1>3. /\ ticket[t].closeReq # NULL <=> ticket[t].status = "CloseRequested"
      /\ ticket[t].redirectReq # NULL <=> ticket[t].status = "RedirectRequested"
  BY <1>1 DEF AskIsTracked
<1>4. asker = IF ticket'[t].closeReq # NULL THEN ticket'[t].closeReq
                                            ELSE ticket'[t].redirectReq
  <2>1. asker = IF to \in {"CloseRequested", "RedirectRequested"} THEN u ELSE NULL
    BY DEF Asker
  <2> HIDE DEF t, u, e, asker
  <2> QED BY <1>1, <1>2, <1>3, <2>1 DEF Edge
<1>5. TrailOf(events'[t]) = Append(TrailOf(events[t]), to)
  <2>1. events[t] \in Seq(EventRow) /\ events'[t] \in Seq(EventRow)
    BY <1>1 DEF TypeInv, TypeOK
  <2> HIDE DEF t, u, e
  <2>2. TrailOf(events'[t]) = Append(TrailOf(events[t]), e.to)
    BY <1>1, <2>1, TrailOfAppend
  <2>3. e.to = to
    BY <1>1
  <2> QED
    BY <2>2, <2>3, Zenon
<1> HIDE DEF t, u, e, asker
<1>6. StatusMap' = [StatusMap EXCEPT ![t] = to]
  BY <1>1 DEF StatusMap
<1>7. AskerMap' = [AskerMap EXCEPT ![t] = asker]
  BY <1>1, <1>4 DEF AskerMap
<1>8. TrailMap' = [TrailMap EXCEPT ![t] = Append(@, to)]
  <2> HIDE DEF to
  <2> QED BY <1>1, <1>5 DEF TrailMap
<1> QED
  BY <1>1, <1>6, <1>7, <1>8 DEF Moves, t, u, asker

\* The lifecycle's Move, spelled out under the refinement mapping.
LEMMA MovesIsMove ==
  ASSUME NEW t, NEW from, NEW to, NEW u, Moves(t, from, to, u)
  PROVE  /\ t \in Tickets
         /\ Lifecycle!Move(t, from, to, u)
         /\ StatusMap[t] = ticket[t].status
<1>1. t \in Tickets
  BY DEF Moves
<1>2. StatusMap[t] = ticket[t].status
  BY <1>1 DEF StatusMap
<1> QED
  BY <1>1, <1>2 DEF Moves, Lifecycle!Move, StatusMap, AskerMap, TrailMap, TrailOf

\* A move from one status is a move from any set that has it.
LEMMA MoveIsWeakened ==
  ASSUME NEW t, NEW s, NEW from, s \in from, NEW to, NEW u,
         Lifecycle!Move(t, {s}, to, u)
  PROVE  Lifecycle!Move(t, from, to, u)
BY DEF Lifecycle!Move

\* Each edge of the state machine is an operation of the lifecycle.
LEMMA EdgeRefines ==
  ASSUME NEW t \in Tickets, NEW u \in Users, NEW s \in Status, NEW to \in Status,
         Edge(s, to), ticket[t].status = s, Moves(t, {s}, to, Asker(to, u))
  PROVE  Lifecycle!Next
<1> DEFINE asker == Asker(to, u)
<1>3. Lifecycle!Move(t, {s}, to, asker)
  BY MovesIsMove
<1>4. asker = IF to \in {"CloseRequested", "RedirectRequested"} THEN u ELSE NULL
  BY DEF Asker
<1> HIDE DEF asker
<1>5. CASE s \in Lifecycle!Worked /\ to = s
  <2>1. Lifecycle!Triage(t)
    BY <1>3, <1>4, <1>5 DEF Lifecycle!Triage, Lifecycle!Worked
  <2> QED
    BY <2>1 DEF Lifecycle!Next
<1>6. CASE s \in Lifecycle!Worked /\ to = "Assigned"
  <2>1. Lifecycle!Route(t)
    BY <1>3, <1>4, <1>6, MoveIsWeakened DEF Lifecycle!Route
  <2> QED
    BY <2>1 DEF Lifecycle!Next
<1>7. CASE s \in Lifecycle!Worked /\ to = "Closed"
  <2>1. Lifecycle!Close(t)
    BY <1>3, <1>4, <1>7, MoveIsWeakened DEF Lifecycle!Close
  <2> QED
    BY <2>1 DEF Lifecycle!Next
<1>8. CASE s = "Assigned" /\ to = "InProgress"
  <2>1. Lifecycle!Start(t)
    BY <1>3, <1>4, <1>8, MoveIsWeakened DEF Lifecycle!Start
  <2> QED
    BY <2>1 DEF Lifecycle!Next
<1>9. CASE s \in {"Assigned", "InProgress"} /\ to = "RedirectRequested"
  <2>1. Lifecycle!AskRedirect(t, u)
    BY <1>3, <1>4, <1>9, MoveIsWeakened DEF Lifecycle!AskRedirect
  <2> QED
    BY <2>1 DEF Lifecycle!Next
<1>10. CASE s = "InProgress" /\ to = "CloseRequested"
  <2>1. Lifecycle!AskClose(t, u)
    BY <1>3, <1>4, <1>10, MoveIsWeakened DEF Lifecycle!AskClose
  <2> QED
    BY <2>1 DEF Lifecycle!Next
<1>11. CASE s = "CloseRequested" /\ to = "Closed"
  <2>1. Lifecycle!GrantClose(t)
    BY <1>3, <1>4, <1>11, MoveIsWeakened DEF Lifecycle!GrantClose
  <2> QED
    BY <2>1 DEF Lifecycle!Next
<1>12. CASE s = "CloseRequested" /\ to = "InProgress"
  <2>1. Lifecycle!RefuseClose(t)
    BY <1>3, <1>4, <1>12, MoveIsWeakened DEF Lifecycle!RefuseClose
  <2> QED
    BY <2>1 DEF Lifecycle!Next
<1>13. CASE s = "RedirectRequested" /\ to \in {"Assigned", "InProgress"}
  <2>1. Lifecycle!Move(t, {"RedirectRequested"}, to, NULL)
    BY <1>3, <1>4, <1>13
  <2>2. Lifecycle!RefuseRedirect(t)
    BY <1>13, <2>1 DEF Lifecycle!RefuseRedirect
  <2> QED
    BY <2>2 DEF Lifecycle!Next
<1> QED
  BY <1>5, <1>6, <1>7, <1>8, <1>9, <1>10, <1>11, <1>12, <1>13
     DEF Edge, Lifecycle!Worked

\* A write is a step of the lifecycle.
LEMMA StepRefines ==
  ASSUME TypeInv, TypeInv', AskIsTracked, NEW p \in Procs, TicketStep(p)
  PROVE  Lifecycle!Next
<1> DEFINE t == req[p].t
           to == ticket'[t].status
<1>1. /\ t \in Tickets /\ req[p].caller \in Users
      /\ ticket[t].status \in Status /\ to \in Status
      /\ Edge(ticket[t].status, to)
      /\ Moves(t, {ticket[t].status}, to, Asker(to, req[p].caller))
  BY StepMoves
<1> HIDE DEF t, to
<1> QED
  BY <1>1, EdgeRefines

\* create is the lifecycle's Open.
LEMMA OpenRefines ==
  ASSUME TypeInv, TypeInv', AskIsTracked, AuditChain,
         NEW t \in Tickets, OpenStep(t)
  PROVE  Lifecycle!Next
<1> DEFINE e == events'[t][1]
<1>1. /\ ticket[t].status = NULL /\ ticket'[t].status = "Pending"
      /\ ticket'[t].closeReq = NULL /\ ticket'[t].redirectReq = NULL
      /\ Len(events'[t]) = 1 /\ e.to = "Pending"
      /\ \A x \in Tickets \ {t} : ticket'[x] = ticket[x] /\ events'[x] = events[x]
  BY DEF OpenStep
<1>2. events[t] = <<>> /\ events[t] \in Seq(EventRow) /\ events'[t] \in Seq(EventRow)
  BY <1>1 DEF AuditChain, TypeInv, TypeOK
<1>3. events'[t] = Append(events[t], e)
  BY <1>1, <1>2
<1> HIDE DEF e
<1>4. TrailOf(events'[t]) = Append(TrailOf(events[t]), "Pending")
  <2>1. TrailOf(events'[t]) = Append(TrailOf(events[t]), e.to)
    BY <1>2, <1>3, TrailOfAppend
  <2> QED
    BY <1>1, <2>1, Zenon
<1>5. StatusMap' = [StatusMap EXCEPT ![t] = "Pending"]
  BY <1>1 DEF StatusMap
<1>6. AskerMap' = [AskerMap EXCEPT ![t] = NULL]
  BY <1>1 DEF AskerMap
<1>7. TrailMap' = [TrailMap EXCEPT ![t] = Append(@, "Pending")]
  BY <1>1, <1>4 DEF TrailMap
<1>8. Moves(t, {NULL}, "Pending", NULL)
  BY <1>1, <1>5, <1>6, <1>7 DEF Moves
<1>9. Lifecycle!Open(t)
  BY <1>8, MovesIsMove DEF Lifecycle!Open
<1> QED
  BY <1>9 DEF Lifecycle!Next

\* A quiet step is a stutter of the lifecycle.
LEMMA QuietRefines ==
  ASSUME QuietStep
  PROVE  UNCHANGED Lifecycle!vars
BY DEF QuietStep, Lifecycle!vars

\* Every step is a step of the lifecycle or a stutter.
LEMMA NextRefines ==
  TypeInv /\ AskIsTracked /\ AuditChain /\ [Next]_vars =>
    [Lifecycle!Next]_Lifecycle!vars
<1> SUFFICES ASSUME TypeInv, AskIsTracked, AuditChain, [Next]_vars
             PROVE  Lifecycle!Next \/ UNCHANGED Lifecycle!vars
  OBVIOUS
<1> QED
  BY NextTypeInv, StepCases, StepRefines, OpenRefines, QuietRefines

\* The empty database is the lifecycle's initial state.
LEMMA InitRefines == Init => Lifecycle!Init
BY DEF Init, NoTicket, Lifecycle!Init

\* Overlapping requests, stale snapshots and failures included, the ticket
\* service implements the sequential lifecycle.
THEOREM ServiceImplementsLifecycle == Spec => ImplementsLifecycle
<1>1. Spec => [](TypeInv /\ AskIsTracked /\ AuditChain)
  <2>1. Init => AskIsTracked
    BY NullStatusAssumption DEF Init, AskIsTracked, NoTicket, Status, OpenStatus
  <2> QED
    BY <2>1, InitTypeInv, NextTypeInv, ChainInit, ChainNext, AsksNext, PTL DEF Spec
<1> QED
  BY <1>1, InitRefines, NextRefines, PTL
     DEF Spec, ImplementsLifecycle, Lifecycle!Spec

-----------------------------------------------------------------------------
(* Every committed write is one row of the transition table, applied to    *)
(* the ticket as it is at the commit.                                      *)

RowOf(r) == [status |-> r.status, requester |-> r.requester, assignee |-> r.assignee,
             dept |-> r.dept, severity |-> r.severity, category |-> r.category]
RowMap == [t \in Tickets |-> RowOf(ticket[t])]

Column == {"status", "requester", "assignee", "dept", "severity", "category"}

\* The instance's transition table is the service's.
LEMMA SameTable ==
  /\ Table!TRANSITIONS = TRANSITIONS /\ Table!TransitionKey = TransitionKey
  /\ DOMAIN Table!NoRow = Column
BY DEF Table!TRANSITIONS, TRANSITIONS, Table!TransitionKey, TransitionKey, Table!Rule, Rule,
   Table!Helpdesk, Helpdesk, Table!NoRow, Column

\* The column that each operation sets.
LEMMA SetsOf ==
  /\ Table!Sets("assign").column = "assignee" /\ Table!Sets("assign").to = Args("assign")
  /\ \A k \in {"forward", "redirect", "approveRedirect"} :
       Table!Sets(k).column = "dept" /\ Table!Sets(k).to = Depts
  /\ Table!Sets("overrideSeverity").column = "severity"
  /\ Table!Sets("overrideSeverity").to = Severities
  /\ \A k \in {"progress", "requestClose", "close", "approveClose", "refuseClose",
               "requestRedirect", "refuseRedirect"} :
       Table!Sets(k).column = "none" /\ Table!Sets(k).to = {NULL}
BY DEF Table!Sets, Args

\* Ticket t's row becomes cur with status st and value x in a column.
Rewritten(cur, st, column, x) ==
  [c \in Column |-> IF c = "status" THEN st ELSE IF c = column THEN x ELSE RowOf(cur)[c]]

\* The table's Move, spelled out under the mapping.
LEMMA RewrittenIsMove ==
  ASSUME NEW t \in Tickets, NEW k, NEW st, NEW x,
         ticket[t].status \in TRANSITIONS[k].allowedFrom,
         st \in Table!Leaves(k, ticket[t].status), x \in Table!Sets(k).to,
         RowMap' = [RowMap EXCEPT ![t] = Rewritten(ticket[t], st, Table!Sets(k).column, x)]
  PROVE  Table!Move(t, k)
<1>1. RowMap[t] = RowOf(ticket[t]) /\ RowMap[t].status = ticket[t].status
  BY DEF RowMap, RowOf
<1>2. RowMap' = [RowMap EXCEPT ![t] = [c \in DOMAIN Table!NoRow |->
         IF c = "status" THEN st ELSE IF c = Table!Sets(k).column THEN x ELSE @[c]]]
  BY <1>1, SameTable DEF Rewritten
<1>3. RowMap[t].status \in Table!TRANSITIONS[k].allowedFrom
  BY <1>1, SameTable
<1>4. st \in Table!Leaves(k, RowMap[t].status)
  BY <1>1
<1> QED
  BY <1>2, <1>3, <1>4 DEF Table!Move, RowMap, RowOf

\* The status a signed write leaves is one its table row leaves.
LEMMA SignedLeaves ==
  ASSUME NEW op \in TransitionKey, NEW type, NEW from, NEW to, Signs(op, type, from, to),
         from \in TRANSITIONS[op].allowedFrom, Edge(from, to)
  PROVE  to \in Table!Leaves(op, from)
<1>1. CASE op = "refuseRedirect"
  BY <1>1, AllowedFrom DEF Table!Leaves, Edge
<1>2. CASE op # "refuseRedirect"
  BY <1>2, SameTable DEF Table!Leaves, Signs
<1> QED
  BY <1>1, <1>2

\* The columns of a row after a write: those that its operation does not set are
\* as they were at the commit, not as the request read them.
LEMMA ShapeRewrites ==
  ASSUME NEW op \in TransitionKey, NEW u, NEW cur, NEW row, NEW type, NEW new,
         NEW from, NEW to, Signs(op, type, from, to), row.status = to,
         StepShape(u, cur, row, type, new)
  PROVE  \E x \in Table!Sets(op).to :
           RowOf(row) = Rewritten(cur, to, Table!Sets(op).column, x)
<1>1. /\ row.requester = cur.requester /\ row.category = cur.category
      /\ row.dept = IF type \in Routing THEN new ELSE cur.dept
      /\ row.assignee = IF type = "AgentAssigned" THEN new ELSE cur.assignee
      /\ row.severity = IF type = "SeverityChanged" THEN new ELSE cur.severity
      /\ type \in Routing => new \in Depts
      /\ type = "AgentAssigned" => new \in Args("assign")
      /\ type = "SeverityChanged" => new \in Severities
  BY DEF StepShape
<1>2. CASE op = "assign"
  <2>1. type = "AgentAssigned"
    BY <1>2 DEF Signs
  <2>2. new \in Table!Sets(op).to /\ Table!Sets(op).column = "assignee"
    BY <1>1, <1>2, <2>1, SetsOf
  <2>3. RowOf(row) = Rewritten(cur, to, "assignee", new)
    BY <1>1, <2>1 DEF RowOf, Rewritten, Column, Routing
  <2> QED
    BY <2>2, <2>3
<1>3. CASE op \in {"forward", "redirect", "approveRedirect"}
  <2>1. type \in Routing
    BY <1>3 DEF Signs, Routing
  <2>2. new \in Table!Sets(op).to /\ Table!Sets(op).column = "dept"
    BY <1>1, <1>3, <2>1, SetsOf
  <2>3. RowOf(row) = Rewritten(cur, to, "dept", new)
    BY <1>1, <2>1 DEF RowOf, Rewritten, Column, Routing
  <2> QED
    BY <2>2, <2>3
<1>4. CASE op = "overrideSeverity"
  <2>1. type = "SeverityChanged"
    BY <1>4 DEF Signs
  <2>2. new \in Table!Sets(op).to /\ Table!Sets(op).column = "severity"
    BY <1>1, <1>4, <2>1, SetsOf
  <2>3. RowOf(row) = Rewritten(cur, to, "severity", new)
    BY <1>1, <2>1 DEF RowOf, Rewritten, Column, Routing
  <2> QED
    BY <2>2, <2>3
<1>5. CASE op \notin {"assign", "forward", "redirect", "approveRedirect", "overrideSeverity"}
  <2>1. type \notin Routing \cup {"AgentAssigned", "SeverityChanged"}
    BY <1>5 DEF Signs, Routing
  <2>2. NULL \in Table!Sets(op).to /\ Table!Sets(op).column = "none"
    BY <1>5, KeysAreNames, SetsOf
  <2>3. RowOf(row) = Rewritten(cur, to, "none", NULL)
    BY <1>1, <2>1 DEF RowOf, Rewritten, Column
  <2> QED
    BY <2>2, <2>3
<1> QED
  BY <1>2, <1>3, <1>4, <1>5

\* Each of the twelve writes is the table's move of its operation.
LEMMA StepIsMove ==
  ASSUME TypeInv, NEW p \in Procs, TicketStep(p)
  PROVE  Table!TableNext
<1>0. PICK t, op : t = req[p].t /\ op = req[p].op
  OBVIOUS
<1> DEFINE e == Last(events'[t])
           cur == ticket[t]
           row == ticket'[t]
<1>1. /\ t \in Tickets /\ op \in TransitionKey
      /\ Signs(op, e.type, e.from, e.to)
      /\ e.from = cur.status /\ e.to = row.status
      /\ cur.status \in TRANSITIONS[op].allowedFrom
      /\ StepShape(req[p].caller, cur, row, e.type, e.new)
      /\ \A x \in Tickets \ {t} : ticket'[x] = ticket[x]
  BY <1>0 DEF TicketStep
<1> HIDE DEF e
<1>2. Edge(cur.status, row.status)
  BY <1>1 DEF StepShape
<1>3. row.status \in Table!Leaves(op, cur.status)
  BY <1>1, <1>2, SignedLeaves
<1>4. PICK x \in Table!Sets(op).to :
        RowOf(row) = Rewritten(cur, row.status, Table!Sets(op).column, x)
  BY <1>1, ShapeRewrites
<1>5. RowMap' = [RowMap EXCEPT ![t] = Rewritten(cur, row.status, Table!Sets(op).column, x)]
  BY <1>1, <1>4 DEF RowMap
<1>6. PICK st : st = row.status
  OBVIOUS
<1>7. Table!Move(t, op)
  BY <1>1, <1>3, <1>4, <1>5, <1>6, RewrittenIsMove
<1> QED
  BY <1>1, <1>7, SameTable DEF Table!TableNext

\* create is the table's Open.
LEMMA CreateIsOpen ==
  ASSUME TypeInv, NEW p \in Procs, NEW u \in Active, NEW t \in Tickets,
         NEW s \in Severities, NEW c \in Categories \cup {NULL}, Create(p, u, t, s, c)
  PROVE  Table!TableNext
<1> DEFINE row == [NoTicket EXCEPT !.status = "Pending", !.requester = u,
                                   !.severity = s, !.category = c]
           abs == [status |-> "Pending", requester |-> u, assignee |-> NULL,
                   dept |-> NULL, severity |-> s, category |-> c]
<1>1. RowOf(row) = abs
  BY DEF RowOf, NoTicket
<1>2. /\ ticket' = [ticket EXCEPT ![t] = row] /\ ticket[t].status = NULL
      /\ ticket \in [Tickets -> TicketRow]
  BY Zenon DEF Create, TypeInv, TypeOK
<1> HIDE DEF row, abs
<1>3. RowMap' = [RowMap EXCEPT ![t] = abs]
  BY <1>1, <1>2 DEF RowMap
<1>4. Table!Open(t, u, s, c)
  BY <1>2, <1>3 DEF Table!Open, Table!Exists, RowMap, RowOf, abs
<1>5. u \in Users
  BY DirectoryAssumption
<1> QED
  BY <1>4, <1>5 DEF Table!TableNext

\* A request past its read is about a ticket that exists.
BusyOnExisting ==
  \A p \in Procs : req[p].pc \in BusyPc => ticket[req[p].t].status # NULL

LEMMA BusyNext ==
  ASSUME TypeInv, BusyOnExisting, [Next]_vars
  PROVE  BusyOnExisting'
<1> SUFFICES ASSUME NEW q \in Procs, req'[q].pc \in BusyPc
             PROVE  ticket'[req'[q].t].status # NULL
  BY DEF BusyOnExisting, BusyPc
<1>1. req'[q].t \in Tickets /\ ticket[req'[q].t].status # NULL
  BY RequestEvolves, BusyTicket DEF Evolves, BusyOnExisting
<1>2. Tellable(ticket'[req'[q].t], "ticketCreated")
  BY <1>1, TellableLasts DEF Tellable
<1> QED
  BY <1>2 DEF Tellable

\* assignCategory changes the category of a ticket that exists.
LEMMA CategoryIsCategorise ==
  ASSUME TypeInv, BusyOnExisting, NEW p \in Procs, AssignCategory(p)
  PROVE  Table!TableNext
<1>0. PICK t, c : t = req[p].t /\ c = req[p].arg
  OBVIOUS
<1> DEFINE row == [ticket[t] EXCEPT !.category = c]
<1>1. /\ t \in Tickets /\ ticket[t] \in TicketRow /\ ticket[t].status # NULL
      /\ c \in Categories \cup {NULL}
  BY <1>0, RequestFacts DEF AssignCategory, BusyOnExisting, BusyPc, Checked, Args
<1>2. ticket' = [ticket EXCEPT ![t] = row] /\ ticket \in [Tickets -> TicketRow]
  BY <1>0 DEF AssignCategory, TypeInv, TypeOK
<1>3. RowOf(row) = [RowOf(ticket[t]) EXCEPT !.category = c]
  BY <1>1 DEF RowOf, TicketRow
<1> HIDE DEF row
<1>4. RowMap' = [RowMap EXCEPT ![t].category = c]
  BY <1>1, <1>2, <1>3 DEF RowMap
<1>5. Table!Categorise(t, c)
  BY <1>1, <1>4 DEF Table!Categorise, Table!Exists, RowMap, RowOf
<1> QED
  BY <1>1, <1>5 DEF Table!TableNext

\* Every other step leaves the rows alone.
LEMMA NextFollowsTable ==
  TypeInv /\ BusyOnExisting /\ [Next]_vars => [Table!TableNext]_RowMap
<1> SUFFICES ASSUME TypeInv, BusyOnExisting, [Next]_vars
             PROVE  Table!TableNext \/ UNCHANGED RowMap
  OBVIOUS
<1>1. UNCHANGED ticket => UNCHANGED RowMap
  BY DEF RowMap
<1>2. ASSUME NEW p \in Procs, Arrive(p)
      PROVE  Table!TableNext \/ UNCHANGED ticket
  BY <1>2, CreateIsOpen DEF Arrive, Begin, BeginComment, BeginCategorise, Read
<1>3. ASSUME NEW p \in Procs, Write(p)
      PROVE  Table!TableNext \/ UNCHANGED ticket
  BY <1>3, TransitionStep, StepIsMove, CategoryIsCategorise
     DEF Write, TransitionWrite, AddComment
<1>4. ASSUME NEW p \in Procs,
             ReadRequestEvent(p) \/ Conflict(p) \/ Publish(p) \/ Fail(p)
      PROVE  UNCHANGED ticket
  BY <1>4 DEF ReadRequestEvent, Conflict, Publish, Fail
<1>5. CASE UNCHANGED vars
  BY <1>1, <1>5 DEF vars
<1> QED
  BY <1>1, <1>2, <1>3, <1>4, <1>5 DEF Next

\* The status that a handler writes literally, and the columns that it leaves
\* out, are those of the table applied at the commit, however old the read was.
THEOREM ServiceImplementsTable == Spec => ImplementsTable
<1>1. Init => Table!TableInit
  BY DEF Init, NoTicket, Table!TableInit, Table!NoRow
<1>2. Init => BusyOnExisting
  BY DEF Init, NoRequest, BusyOnExisting, BusyPc
<1>3. Spec => [](TypeInv /\ BusyOnExisting)
  BY <1>2, InitTypeInv, NextTypeInv, BusyNext, PTL DEF Spec
<1>4. TypeInv /\ BusyOnExisting /\ [Next]_vars =>
        [Table!TableNext]_[t \in Tickets |->
          [status |-> ticket[t].status, requester |-> ticket[t].requester,
           assignee |-> ticket[t].assignee, dept |-> ticket[t].dept,
           severity |-> ticket[t].severity, category |-> ticket[t].category]]
  BY NextFollowsTable DEF RowMap, RowOf
<1> QED
  BY <1>1, <1>3, <1>4, PTL DEF Spec, ImplementsTable, Table!TableSpec
=============================================================================
