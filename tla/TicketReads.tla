----------------------------- MODULE TicketReads -----------------------------
(***************************************************************************)
(* Reads that take several queries: the ticket list                        *)
(* (TicketService.list, with ticketWhereForCaller of lib/scoping.ts) and   *)
(* the dashboard (AnalyticsService.summary), over a ticket table and       *)
(* categories that change between the queries.                             *)
(*                                                                         *)
(* A list keeps two history fields: the tickets that its caller could see  *)
(* and its filter let through at some time, and at all times, since it     *)
(* began.                                                                   *)
(***************************************************************************)
EXTENDS CategoryService, FiniteSets

CONSTANTS
  Readers,       \* reads in flight: each process serves one at a time
  PageSize,      \* the pageSize of a list, 1 to 100
  MaxPage,       \* the last page asked for (bound)
  StatusQueries, \* the words in the ?status= of a list (bound)
  Sorts,         \* the ?sort= of a list (bound)
  Queries        \* the queries of a summary that a run models (bound); byCategory
                 \* is one, since the names are looked up for what it answers

ASSUME ReadAssumption ==
  /\ PageSize \in 1 .. 100 /\ MaxPage \in Nat /\ IsFiniteSet(Tickets)
  /\ "byCategory" \in Queries
  /\ Queries \subseteq {"total", "closed", "bySeverity", "byStatus", "byDept", "byCategory"}
  /\ Severities \subseteq {"Critical", "High", "Medium", "Low"}
  /\ Sorts \subseteq {"-createdAt", "createdAt", "-severity", "severity"}

VARIABLE read    \* read[r]: the read that r serves

vars == <<catalogueVars, read>>

NoRead == [pc |-> "idle", user |-> NULL, status |-> {}, sort |-> NULL, page |-> 1,
           todo |-> {}, ids |-> {}, items |-> {}, total |-> 0,
           ever |-> {}, always |-> {},
           answer |-> [q \in Queries |-> NULL], blank |-> {}]

-----------------------------------------------------------------------------
(* The list.                                                               *)

\* Mutant of InScope: null equals null for staff without a department.
InScopeNullDept(u, x) ==
  CASE Role[u] \in {"SV", "GV", "NV"} -> x.requester = u
    [] Role[u] \in {"HelpdeskLead", "Admin"} -> TRUE
    [] Role[u] = "HelpdeskAgent" -> x.assignee = u
    [] Role[u] = "DeptStaff" -> x.dept = DeptOf[u]

\* ticketWhereForCaller, the list's own statement of who sees what.
InScope(u, x) ==
  CASE Role[u] \in {"SV", "GV", "NV"} -> x.requester = u
    [] Role[u] \in {"HelpdeskLead", "Admin"} -> TRUE
    [] Role[u] = "HelpdeskAgent" -> x.assignee = u
    [] Role[u] = "DeptStaff" -> DeptOf[u] # NULL /\ x.dept = DeptOf[u]

\* parseStatusFilter: unknown words are dropped; if none is left, no filter.
StatusFilter(words) == IF words \cap Status = {} THEN Status ELSE words \cap Status

\* The where clause.
Matching(r) ==
  {t \in Tickets : row[t].status \in read[r].status /\ InScope(read[r].user, row[t])}

\* What the caller could open one by one: assertCanViewTicket, and the filter.
Openable(rows, u, status) ==
  {t \in Tickets : rows[t].status \in status /\ CanView(u, rows[t])}

SEVERITY_RANK == [Critical |-> 0, High |-> 1, Medium |-> 2, Low |-> 3]

\* s comes before t. Tickets of one severity come newest first.
Before(sort, s, t) ==
  LET rank(x) == SEVERITY_RANK[row[x].severity] IN
  CASE sort = "-createdAt" -> s > t
    [] sort = "createdAt" -> s < t
    [] sort = "-severity" -> rank(s) < rank(t) \/ (rank(s) = rank(t) /\ s > t)
    [] sort = "severity" -> rank(s) > rank(t) \/ (rank(s) = rank(t) /\ s > t)

\* skip: (page - 1) * pageSize, take: pageSize.
Slice(ts, sort, page) ==
  {t \in ts : LET n == Cardinality({s \in ts : Before(sort, s, t)})
              IN  (page - 1) * PageSize <= n /\ n < page * PageSize}

BySeverity(sort) == sort \in {"-severity", "severity"}

BeginList(r, u, words, sort, page) ==
  LET status == StatusFilter(words)
      ts == Openable(row, u, status)
  IN
  /\ read[r].pc = "idle"
  /\ read' = [read EXCEPT ![r] = [NoRead EXCEPT
       !.pc = "list", !.user = u, !.status = status, !.sort = sort, !.page = page,
       !.todo = IF BySeverity(sort) THEN {"candidates"} ELSE {"count", "page"},
       !.ever = ts, !.always = ts]]
  /\ UNCHANGED catalogueVars

\* The query q of list r is answered; the last answer ends the list.
Answered(r, q) ==
  /\ read[r].pc = "list" /\ q \in read[r].todo
  /\ UNCHANGED catalogueVars

Rest(x, q) == [x EXCEPT !.todo = @ \ {q}, !.pc = IF x.todo = {q} THEN "listed" ELSE @]

Count(r) ==
  /\ Answered(r, "count")
  /\ read' = [read EXCEPT ![r] = [Rest(@, "count") EXCEPT !.total = Cardinality(Matching(r))]]

\* Filter, order and slice in one statement.
Page(r) ==
  /\ Answered(r, "page")
  /\ read' = [read EXCEPT ![r] = [Rest(@, "page") EXCEPT
       !.items = Slice(Matching(r), read[r].sort, read[r].page)]]

\* The severity sort loads every match, sorts and slices in memory ...
Candidates(r) ==
  /\ Answered(r, "candidates")
  /\ read' = [read EXCEPT ![r] = [@ EXCEPT
       !.todo = {"fetch"}, !.total = Cardinality(Matching(r)),
       !.ids = Slice(Matching(r), read[r].sort, read[r].page)]]

\* ... and asks for the page by its ids alone, whatever became of the tickets.
Fetch(r) ==
  /\ Answered(r, "fetch")
  /\ read' = [read EXCEPT ![r] = [Rest(@, "fetch") EXCEPT !.items = read[r].ids]]

-----------------------------------------------------------------------------
(* The summary.                                                            *)

All == {t \in Tickets : Exists(t)}

BeginSummary(r, u) ==
  /\ Role[u] \in Helpdesk \cup {"Admin"}
  /\ read[r].pc = "idle"
  /\ read' = [read EXCEPT ![r] = [NoRead EXCEPT !.pc = "summary", !.todo = Queries]]
  /\ UNCHANGED catalogueVars

\* groupBy: the rows of All per value of a column.
PerValue(column, values) ==
  [v \in values |-> Cardinality({t \in All : row[t][column] = v})]

\* What the database answers to each of the queries that Promise.all sends. The
\* average is left out.
Answer(q) ==
  CASE q = "total" -> Cardinality(All)
    [] q = "closed" -> Cardinality({t \in All : row[t].status = "Closed"})
    [] q = "bySeverity" -> PerValue("severity", Severities)
    [] q = "byStatus" -> PerValue("status", Status)
    [] q = "byDept" -> PerValue("dept", Depts)
    [] q = "byCategory" -> PerValue("category", Categories)

Query(r, q) ==
  /\ read[r].pc = "summary" /\ q \in read[r].todo
  /\ read' = [read EXCEPT ![r].todo = @ \ {q}, ![r].answer[q] = Answer(q)]
  /\ UNCHANGED catalogueVars

\* The categories a summary has tickets of.
Counted(r) == {c \in Categories : read[r].answer["byCategory"][c] > 0}

\* Mutant of NameThem: the look-up leaves inactive categories out.
NameActive(r) ==
  /\ read[r].pc = "summary" /\ read[r].todo = {}
  /\ read' = [read EXCEPT ![r].pc = "summarised",
               ![r].blank = {c \in Counted(r) : ~ category[c].isActive}]
  /\ UNCHANGED catalogueVars

\* The names are looked up when all counts are in; a name that is not found is ''.
NameThem(r) ==
  /\ read[r].pc = "summary" /\ read[r].todo = {}
  /\ read' = [read EXCEPT ![r].pc = "summarised",
               ![r].blank = {c \in Counted(r) : ~ Live(c)}]
  /\ UNCHANGED catalogueVars

-----------------------------------------------------------------------------
\* The answer is sent, or a query fails (500).
Finish(r) ==
  /\ read[r].pc # "idle"
  /\ read' = [read EXCEPT ![r] = NoRead]
  /\ UNCHANGED catalogueVars

\* The table and the categories change; the lists in progress take note.
Change ==
  /\ CatalogueNext
  /\ read' = [r \in Readers |->
       LET x == read[r]
           ts == Openable(row', x.user, x.status)
       IN  IF x.pc # "list" THEN x
           ELSE [x EXCEPT !.ever = @ \cup ts, !.always = @ \cap ts]]

Init == CatalogueInit /\ read = [r \in Readers |-> NoRead]

Next ==
  \/ Change
  \/ \E r \in Readers :
       \/ \E u \in Users, words \in StatusQueries, sort \in Sorts, page \in 1 .. MaxPage :
            BeginList(r, u, words, sort, page)
       \/ Count(r) \/ Page(r) \/ Candidates(r) \/ Fetch(r)
       \/ \E u \in Users : BeginSummary(r, u)
       \/ \E q \in Queries : Query(r, q)
       \/ NameThem(r) \/ Finish(r)

Spec == Init /\ [][Next]_vars
=============================================================================
