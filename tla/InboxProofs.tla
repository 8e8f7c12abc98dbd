----------------------------- MODULE InboxProofs -----------------------------
(***************************************************************************)
(* Theorems about module Inbox, for any number of users, requests and      *)
(* notifications and any page size.                                        *)
(*                                                                         *)
(* The argument is about the sinks: a request's sink holds rows that it    *)
(* inserted itself, so they are drafts while its transaction is open and   *)
(* committed when its status is 200. What was committed stays so, and      *)
(* keeps its owner.                                                        *)
(***************************************************************************)
EXTENDS InboxProperties, WellFoundedInduction, TLAPS

\* No two requests share a row; a row is a draft while its transaction is open,
\* and committed when the response is a success.
SinkIsOwn ==
  /\ \A p, q \in Procs : p # q => req[p].sink \cap req[q].sink = {}
  /\ \A p \in Procs : \A n \in req[p].sink :
       /\ note[n].state # "free"
       /\ req[p].pc = "tx" => note[n].state = "draft"
       /\ req[p].pc = "respond" /\ req[p].status = 200 => n \in Committed
  /\ \A p \in Procs : req[p].pc \in {"idle", "query"} => req[p].sink = {}

\* What a pending markRead has found belongs to its caller.
FoundIsMine ==
  \A p \in Procs : req[p].pc = "query" /\ req[p].op = "markRead" =>
    /\ req[p].n \in Notes
    /\ note[req[p].n].state # "free" /\ note[req[p].n].owner = req[p].user

IInv == TypeOK /\ SinkIsOwn /\ FoundIsMine /\ NoPhantomNews

LEMMA InitIInv == InboxInit => IInv
BY DEF InboxInit, IInv, TypeOK, NoNote, NoRequest, Request, SinkIsOwn, FoundIsMine,
       NoPhantomNews, Committed

-----------------------------------------------------------------------------
(* The clock.                                                              *)

\* A set of naturals has a least element.
LEMMA Least ==
  ASSUME NEW S \in SUBSET Nat, S # {}
  PROVE  \E k \in S : \A m \in S : k <= m
<1>1. PICK k \in S : \A m \in S : <<m, k>> \notin OpToRel(<, Nat)
  BY WFMin, NatLessThanWellFounded
<1>2. \A m \in S : ~ (m < k)
  BY <1>1 DEF OpToRel
<1> QED
  BY <1>2

\* Finitely many times of reading have a latest, so that now is later.
LEMMA NowIsLater ==
  ASSUME \A n \in Notes : note[n].readAt \in Nat
  PROVE  Now \in Nat \ {0}
<1> DEFINE f(n) == note[n].readAt
           S == {k \in Nat : k <= MaxNotes
                   /\ ~ \E b \in Nat : \A n \in 1 .. k : f(n) <= b}
           T == {0} \cup {f(n) : n \in Notes}
           U == {b \in Nat : \A x \in T : x <= b}
<1> HIDE DEF f
<1>0. \A n \in Notes : f(n) \in Nat
  BY DEF f
<1>1. S = {}
  <2> SUFFICES ASSUME S # {} PROVE FALSE
    OBVIOUS
  <2>0. S \in SUBSET Nat
    OBVIOUS
  <2>1. PICK k \in S : \A m \in S : k <= m
    <3> HIDE DEF S
    <3> QED
      BY <2>0, Least
  <2>2. k # 0
    <3>1. \A n \in 1 .. 0 : f(n) <= 0
      OBVIOUS
    <3> QED
      BY <3>1
  <2>3. k - 1 \in Nat /\ k - 1 <= MaxNotes /\ k - 1 \notin S
    <3>1. k \in Nat /\ k <= MaxNotes
      OBVIOUS
    <3>2. k - 1 \in Nat /\ k - 1 < k /\ k - 1 <= MaxNotes
      BY <3>1, <2>2, InboxAssumption
    <3> HIDE DEF S
    <3>3. k - 1 \notin S
      BY <3>1, <3>2, <2>1
    <3> QED
      BY <3>2, <3>3
  <2>4. PICK b \in Nat : \A n \in 1 .. k - 1 : f(n) <= b
    BY <2>3
  <2>5. k \in Notes /\ f(k) \in Nat
    BY <2>2, <1>0 DEF Notes
  <2>6. \A n \in 1 .. k : f(n) <= IF f(k) > b THEN f(k) ELSE b
    <3> SUFFICES ASSUME NEW n \in 1 .. k
                 PROVE  f(n) <= IF f(k) > b THEN f(k) ELSE b
      OBVIOUS
    <3>1. n \in Notes /\ f(n) \in Nat
      BY <2>5, <1>0, InboxAssumption DEF Notes
    <3>2. n = k \/ n \in 1 .. k - 1
      OBVIOUS
    <3> QED
      BY <3>1, <3>2, <2>4, <2>5
  <2> QED
    BY <2>5, <2>6
<1>2. PICK b \in Nat : \A n \in Notes : f(n) <= b
  <2>1. MaxNotes \in Nat /\ MaxNotes <= MaxNotes
    BY InboxAssumption
  <2> QED
    BY <1>1, <2>1 DEF Notes
<1>3. T \subseteq Nat /\ 0 \in T
  BY <1>0
<1>4. b \in U
  BY <1>2, <1>3
<1>5. PICK u \in U : \A x \in U : u <= x
  <2>1. U \in SUBSET Nat
    OBVIOUS
  <2> HIDE DEF U
  <2> QED
    BY <1>4, <2>1, Least
<1>6. u \in T
  <2> SUFFICES ASSUME u \notin T PROVE FALSE
    OBVIOUS
  <2>1. u \in Nat /\ u # 0 /\ \A x \in T : x <= u - 1
    BY <1>3
  <2>2. u - 1 \in U
    BY <2>1
  <2> QED
    BY <1>5, <2>1, <2>2
<1>7. Max(T) \in T
  <2>1. \E x \in T : \A y \in T : x >= y
    BY <1>3, <1>6
  <2> HIDE DEF T
  <2> QED
    BY <2>1 DEF Max
<1>8. Now = 1 + Max(T)
  BY DEF Now, f
<1>9. Max(T) \in Nat
  BY <1>3, <1>7
<1> QED
  BY <1>8, <1>9

-----------------------------------------------------------------------------
(* One lemma per kind of step.                                             *)

\* A process takes a request, or drops one, with an empty sink, and the rows
\* keep their owners.
LEMMA EmptySink ==
  ASSUME IInv, TypeOK', NEW p \in Procs, NEW r, req' = [req EXCEPT ![p] = r],
         seen' = seen, r.sink = {},
         \A n \in Notes : note'[n].state = note[n].state /\ note'[n].owner = note[n].owner,
         r.pc = "query" /\ r.op = "markRead" =>
           r.n \in Notes /\ note[r.n].state # "free" /\ note[r.n].owner = r.user
  PROVE  IInv'
<1> USE DEF IInv
<1>1. \A q \in Procs : req'[q] = IF q = p THEN r ELSE req[q]
  BY DEF TypeOK
<1>2. \A q \in Procs : req'[q].sink # {} => req'[q] = req[q]
  BY <1>1
<1>3. Committed' = Committed
  BY DEF Committed
<1>4. \A q \in Procs : req'[q].sink \subseteq req[q].sink /\ req[q].sink \subseteq Notes
  BY <1>1 DEF TypeOK
<1>5. SinkIsOwn'
  BY <1>2, <1>3, <1>4 DEF SinkIsOwn
<1>6. FoundIsMine'
  BY <1>1 DEF FoundIsMine
<1>7. NoPhantomNews'
  BY <1>3 DEF NoPhantomNews, Committed
<1> QED
  BY <1>5, <1>6, <1>7

LEMMA Started ==
  ASSUME IInv, NEW p \in Procs, NEW pc \in {"tx", "query"}, NEW u \in Users,
         NEW op \in {"none", "markRead", "readAll", "deleteAll"}, NEW n \in Notes \cup {0},
         req' = [req EXCEPT ![p] = Request(pc, u, op, n)], UNCHANGED <<note, seen>>,
         pc = "query" /\ op = "markRead" =>
           n \in Notes /\ note[n].state # "free" /\ note[n].owner = u
  PROVE  IInv'
<1> DEFINE r == Request(pc, u, op, n)
<1>1. r.pc = pc /\ r.op = op /\ r.n = n /\ r.user = u /\ r.sink = {}
  BY DEF Request
<1>2. TypeOK'
  BY DEF IInv, TypeOK, Request
<1>3. \A m \in Notes : note'[m].state = note[m].state /\ note'[m].owner = note[m].owner
  OBVIOUS
<1> HIDE DEF r
<1>4. req' = [req EXCEPT ![p] = r]
  BY DEF r
<1> QED
  BY <1>1, <1>2, <1>3, <1>4, EmptySink

\* A request begins.
LEMMA BeginSteps ==
  ASSUME IInv, NEW p \in Procs, NEW u \in Users,
         \/ BeginAct(p, u)
         \/ \E n \in Notes : BeginMarkRead(p, u, n)
         \/ \E op \in {"readAll", "deleteAll"} : BeginBulk(p, u, op)
  PROVE  IInv'
<1>1. CASE BeginAct(p, u)
  BY <1>1, Started DEF BeginAct
<1>2. ASSUME NEW n \in Notes, BeginMarkRead(p, u, n) PROVE IInv'
  BY <1>2, Started DEF BeginMarkRead, Unread, Mine, Stored
<1>3. ASSUME NEW op \in {"readAll", "deleteAll"}, BeginBulk(p, u, op) PROVE IInv'
  BY <1>3, Started DEF BeginBulk
<1> QED
  BY <1>1, <1>2, <1>3

RequestType ==
  [pc : {"idle", "tx", "respond", "query"}, user : Users \cup {"nobody"},
   op : {"none", "markRead", "readAll", "deleteAll"},
   n : Notes \cup {0}, sink : SUBSET Notes, status : {200, 409}]

\* What an insert changes of its request's record keeps the type.
LEMMA Kept ==
  ASSUME NEW r \in RequestType
  PROVE  \A n \in Notes : [r EXCEPT !.sink = @ \cup {n}] \in RequestType
<1>1. ASSUME NEW n \in Notes PROVE [r EXCEPT !.sink = @ \cup {n}] \in RequestType
  <2>1. r.sink \cup {n} \in SUBSET Notes
    BY DEF RequestType
  <2> QED
    BY <2>1 DEF RequestType
<1> QED
  BY <1>1

\* A transaction inserts a row.
LEMMA InsertStep ==
  ASSUME IInv, NEW p \in Procs, NEW u \in Users, NEW n \in Notes, Insert(p, u, n)
  PROVE  IInv'
<1> USE DEF IInv, TypeOK
<1> DEFINE row == [state |-> "draft", owner |-> u, readAt |-> 0]
           r == [req[p] EXCEPT !.sink = @ \cup {n}]
<1>1. note[n].state = "free" /\ req[p].pc = "tx" /\ seen' = seen
  BY DEF Insert, Create
<1>2. note' = [note EXCEPT ![n] = row]
  BY DEF Insert, Create
<1>3. req' = [req EXCEPT ![p] = r]
  BY DEF Insert
<1>4. r.pc = "tx" /\ r.sink = req[p].sink \cup {n}
  BY <1>1
<1>5. TypeOK'
  <2>0. req[p] \in RequestType
    BY DEF RequestType
  <2>1. r \in RequestType
    BY <2>0, Kept
  <2> HIDE DEF r
  <2> QED
    BY <1>1, <1>2, <1>3, <2>1 DEF RequestType
<1>6. \A q \in Procs : req'[q] = IF q = p THEN r ELSE req[q]
  BY <1>3
<1>7. \A m \in Notes : note'[m] = IF m = n THEN row ELSE note[m]
  BY <1>2
<1>8. \A q \in Procs : n \notin req[q].sink
  BY <1>1 DEF SinkIsOwn
<1> HIDE DEF r
<1>9. SinkIsOwn'
  <2>1. \A q, q2 \in Procs : q # q2 => req'[q].sink \cap req'[q2].sink = {}
    BY <1>4, <1>6, <1>8 DEF SinkIsOwn
  <2>2. ASSUME NEW q \in Procs, NEW m \in req'[q].sink
        PROVE  /\ note'[m].state # "free"
               /\ req'[q].pc = "tx" => note'[m].state = "draft"
               /\ req'[q].pc = "respond" /\ req'[q].status = 200 => m \in Committed'
    <3>1. CASE q = p /\ m = n
      BY <1>4, <1>6, <1>7, <3>1
    <3>2. CASE m # n
      <4>1. m \in req[q].sink /\ m \in Notes /\ note'[m] = note[m]
        BY <1>4, <1>6, <1>7, <2>2, <3>2
      <4> QED
        BY <1>1, <1>4, <1>6, <4>1 DEF SinkIsOwn, Committed
    <3> QED
      BY <1>6, <1>8, <2>2, <3>1, <3>2
  <2>3. \A q \in Procs : req'[q].pc \in {"idle", "query"} => req'[q].sink = {}
    BY <1>4, <1>6 DEF SinkIsOwn
  <2> QED
    BY <2>1, <2>2, <2>3 DEF SinkIsOwn
<1>10. FoundIsMine'
  <2> SUFFICES ASSUME NEW q \in Procs, req'[q].pc = "query", req'[q].op = "markRead"
               PROVE  /\ req'[q].n \in Notes
                      /\ note'[req'[q].n].state # "free"
                      /\ note'[req'[q].n].owner = req'[q].user
    BY DEF FoundIsMine
  <2>1. q # p /\ req'[q] = req[q]
    BY <1>4, <1>6
  <2>2. /\ req[q].n \in Notes
        /\ note[req[q].n].state # "free" /\ note[req[q].n].owner = req[q].user
    BY <2>1 DEF FoundIsMine
  <2>3. note'[req[q].n] = note[req[q].n]
    BY <1>1, <1>7, <2>2
  <2> QED
    BY <2>1, <2>2, <2>3
<1>11. NoPhantomNews'
  BY <1>1, <1>7 DEF NoPhantomNews, Committed
<1> QED
  BY <1>5, <1>9, <1>10, <1>11

\* A transaction ends.
LEMMA EndTxStep ==
  ASSUME IInv, NEW p \in Procs, Commit(p) \/ Rollback(p)
  PROVE  IInv'
<1> USE DEF IInv, TypeOK
<1>0. PICK state \in {"stored", "rolledBack"}, status \in {200, 409} :
        EndTx(p, state, status) /\ (status = 200 => state = "stored")
  BY DEF Commit, Rollback
<1> DEFINE r == [req[p] EXCEPT !.pc = "respond", !.status = status]
<1>1. req[p].pc = "tx" /\ seen' = seen
  BY <1>0 DEF EndTx
<1>2. note' = [n \in Notes |->
        IF n \in req[p].sink THEN [note[n] EXCEPT !.state = state] ELSE note[n]]
  BY <1>0 DEF EndTx
<1>3. req' = [req EXCEPT ![p] = r]
  BY <1>0 DEF EndTx
<1>4. r.pc = "respond" /\ r.sink = req[p].sink /\ r.status = status
  OBVIOUS
<1>5. \A n \in req[p].sink : note[n].state = "draft"
  BY <1>1 DEF SinkIsOwn
<1>6. TypeOK'
  <2>0. req[p] \in RequestType
    BY DEF RequestType
  <2>1. r \in RequestType
    <3> HIDE DEF IInv, TypeOK
    <3>1. PICK o \in RequestType : o = req[p]
      BY <2>0
    <3>2. PICK x : x = [o EXCEPT !.pc = "respond"]
      OBVIOUS
    <3>3. x \in RequestType
      BY <3>1, <3>2 DEF RequestType
    <3>4. [x EXCEPT !.status = status] \in RequestType
      BY <3>3 DEF RequestType
    <3> QED
      BY <3>1, <3>2, <3>4
  <2> HIDE DEF r
  <2> QED
    BY <1>1, <1>2, <1>3, <1>5, <2>1 DEF RequestType
<1>7. \A q \in Procs : req'[q] = IF q = p THEN r ELSE req[q]
  BY <1>3
<1>8. \A n \in Notes :
        IF n \in req[p].sink
        THEN note'[n].state = state /\ note'[n].owner = note[n].owner
        ELSE note'[n] = note[n]
  BY <1>2
<1> HIDE DEF r
<1>9. SinkIsOwn'
  BY <1>0, <1>4, <1>7, <1>8 DEF SinkIsOwn, Committed
<1>10. FoundIsMine' /\ NoPhantomNews'
  BY <1>0, <1>1, <1>4, <1>5, <1>7, <1>8 DEF FoundIsMine, NoPhantomNews, Committed
<1> QED
  BY <1>6, <1>9, <1>10

\* The response goes out, and after it the push; or it does not.
LEMMA RespondStep ==
  ASSUME IInv, NEW p \in Procs,
         FailLate(p) \/ \E got \in SUBSET req[p].sink : Respond(p, got)
  PROVE  IInv'
<1> USE DEF IInv, TypeOK, NoRequest, Request
<1>1. CASE FailLate(p)
  <2> USE <1>1 DEF FailLate
  <2>1. TypeOK'
    OBVIOUS
  <2>2. SinkIsOwn' /\ FoundIsMine' /\ NoPhantomNews'
    BY DEF SinkIsOwn, FoundIsMine, NoPhantomNews, Committed
  <2> QED
    BY <2>1, <2>2
<1>2. ASSUME NEW got \in SUBSET req[p].sink, Respond(p, got) PROVE IInv'
  <2> USE <1>2 DEF Respond, Push
  <2>1. got # {} => req[p].status = 200
    OBVIOUS
  <2>2. got \subseteq Committed
    BY <2>1 DEF SinkIsOwn
  <2>3. TypeOK'
    OBVIOUS
  <2>4. SinkIsOwn' /\ FoundIsMine'
    BY DEF SinkIsOwn, FoundIsMine, Committed
  <2>5. NoPhantomNews'
    BY <2>2 DEF NoPhantomNews, Committed
  <2> QED
    BY <2>3, <2>4, <2>5
<1> QED
  BY <1>1, <1>2

\* The inbox is listed.
LEMMA ListStep ==
  ASSUME IInv, NEW u \in Users, List(u)
  PROVE  IInv'
<1> USE DEF IInv, TypeOK, List
<1>1. Page(u) \subseteq {n \in Notes : note[n].state = "stored" /\ note[n].owner = u}
  BY DEF Page, Mine, Stored
<1>2. TypeOK'
  BY <1>1
<1>3. SinkIsOwn' /\ FoundIsMine'
  BY DEF SinkIsOwn, FoundIsMine, Committed
<1>4. NoPhantomNews'
  BY <1>1 DEF NoPhantomNews, Committed
<1> QED
  BY <1>2, <1>3, <1>4

\* Rows are marked read.
LEMMA MarkSteps ==
  ASSUME IInv, NEW p \in Procs, NEW op, NEW ns, Mark(p, op, ns)
  PROVE  IInv'
<1>1. PICK t \in Nat : t = Now
  BY NowIsLater DEF IInv, TypeOK
<1>2. note' = [n \in Notes |->
        IF n \in ns THEN [note[n] EXCEPT !.readAt = t] ELSE note[n]]
  BY <1>1 DEF Mark
<1>3. req' = [req EXCEPT ![p] = NoRequest] /\ seen' = seen
  BY DEF Mark
<1>4. NoRequest.pc = "idle" /\ NoRequest.sink = {}
  BY DEF NoRequest, Request
<1>5. TypeOK'
  BY <1>2, <1>3 DEF IInv, TypeOK, NoRequest, Request
<1>6. \A n \in Notes : /\ note'[n].state = note[n].state
                       /\ note'[n].owner = note[n].owner
  BY <1>2 DEF IInv, TypeOK
<1> QED
  BY <1>3, <1>4, <1>5, <1>6, EmptySink

\* An inbox is emptied.
LEMMA DeleteStep ==
  ASSUME IInv, NEW p \in Procs, DeleteAll(p)
  PROVE  IInv'
<1> USE DEF IInv, TypeOK, DeleteAll, Mine, Stored, NoRequest, Request
<1>1. TypeOK'
  OBVIOUS
<1>2. \A n \in Notes :
        /\ note'[n].owner = note[n].owner
        /\ note[n].state # "stored" => note'[n].state = note[n].state
        /\ note[n].state = "stored" => note'[n].state \in {"stored", "deleted"}
  OBVIOUS
<1>3. SinkIsOwn'
  BY <1>2 DEF SinkIsOwn, Committed
<1>4. FoundIsMine' /\ NoPhantomNews'
  BY <1>2 DEF FoundIsMine, NoPhantomNews, Committed
<1> QED
  BY <1>1, <1>3, <1>4

LEMMA Inductive == IInv /\ [InboxNext]_inboxVars => IInv'
<1> SUFFICES ASSUME IInv, [InboxNext]_inboxVars PROVE IInv'
  OBVIOUS
<1>1. CASE UNCHANGED inboxVars
  BY <1>1 DEF inboxVars, IInv, TypeOK, SinkIsOwn, FoundIsMine, NoPhantomNews,
              Committed
<1>2. CASE InboxNext
  BY <1>2, BeginSteps, InsertStep, EndTxStep, RespondStep, ListStep, MarkSteps,
     DeleteStep DEF InboxNext, MarkRead, ReadAll
<1> QED
  BY <1>1, <1>2

LEMMA Invariance == InboxSpec => []IInv
BY InitIInv, Inductive, PTL DEF InboxSpec

-----------------------------------------------------------------------------

\* Rows and requests always have their types, and every row has an owner.
THEOREM TypeCorrect == InboxSpec => []TypeOK
<1>1. IInv => TypeOK
  BY DEF IInv
<1> QED
  BY <1>1, Invariance, PTL

\* However transactions, responses, pushes and fetches overlap, nobody hears of
\* a notification that has not committed or is another user's
\* (realtimeCollectMiddleware, listForCaller).
THEOREM NewsIsCommitted == InboxSpec => []NoPhantomNews
<1>1. IInv => NoPhantomNews
  BY DEF IInv
<1> QED
  BY <1>1, Invariance, PTL

\* A stored notification changes only by a request of its owner, and never
\* becomes unread again (markRead, markAllRead, deleteAllForCaller).
THEOREM OwnersDecide == InboxSpec => OnlyTheOwner
<1> DEFINE A(n) ==
      /\ \E p \in Procs : /\ req[p].pc = "query" /\ req'[p].pc = "idle"
                          /\ req[p].user = note[n].owner
      /\ note[n].readAt # 0 => note'[n].readAt # 0
<1>1. IInv /\ [InboxNext]_inboxVars =>
        [\A n \in Notes : Stored(n) /\ note'[n] # note[n] => A(n)]_inboxVars
  <2> SUFFICES ASSUME IInv, InboxNext, NEW n \in Notes, Stored(n), note'[n] # note[n]
               PROVE  A(n)
    OBVIOUS
  <2> USE DEF IInv, TypeOK, Stored
  <2>1. ASSUME NEW p \in Procs, NEW u \in Users, NEW m \in Notes, Insert(p, u, m)
        PROVE  FALSE
    BY <2>1 DEF Insert, Create
  <2>2. ASSUME NEW p \in Procs, Commit(p) \/ Rollback(p) PROVE FALSE
    BY <2>2 DEF Commit, Rollback, EndTx, SinkIsOwn
  <2>3. ASSUME NEW p \in Procs, NEW op, NEW ns, Mark(p, op, ns)
        PROVE  /\ n \in ns /\ req[p].pc = "query" /\ req[p].op = op
               /\ req'[p].pc = "idle" /\ note'[n].readAt # 0
    <3>1. Now \in Nat \ {0}
      BY NowIsLater
    <3> QED
      BY <2>3, <3>1 DEF Mark, NoRequest, Request
  <2>4. ASSUME NEW p \in Procs, MarkRead(p) PROVE A(n)
    <3>1. n = req[p].n /\ note[n].owner = req[p].user
      BY <2>3, <2>4 DEF MarkRead, FoundIsMine
    <3> QED
      BY <2>3, <2>4, <3>1 DEF MarkRead
  <2>5. ASSUME NEW p \in Procs, ReadAll(p) PROVE A(n)
    BY <2>3, <2>5 DEF ReadAll, Unread, Mine
  <2>6. ASSUME NEW p \in Procs, DeleteAll(p) PROVE A(n)
    BY <2>6 DEF DeleteAll, Mine, NoRequest, Request
  <2>7. ASSUME UNCHANGED note PROVE FALSE
    BY <2>7
  <2> QED
    BY <2>1, <2>2, <2>4, <2>5, <2>6, <2>7 DEF InboxNext, BeginAct, BeginMarkRead,
       BeginBulk, FailLate, Respond, List
<1> QED
  BY <1>1, Invariance, PTL DEF InboxSpec, OnlyTheOwner
=============================================================================
