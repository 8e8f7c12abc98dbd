-------------------------------- MODULE Inbox --------------------------------
(***************************************************************************)
(* Notifications: the rows that transactions insert, what the realtime     *)
(* server is told once a response is out, and the owner's inbox            *)
(* (src/src/services/NotificationService.ts, lib/prisma.ts,                *)
(* middleware/realtimeCollect.ts, lib/realtime.ts).                        *)
(*                                                                         *)
(* A request that writes runs one transaction; lib/prisma.ts notes every   *)
(* row it inserts in the request's sink, before the COMMIT. The response   *)
(* comes later and can still be an error. Only a response below 400 sends  *)
(* the sink to the realtime server, by a fetch that nobody waits for.      *)
(*                                                                         *)
(* Note ids are numbers in the order of creation, as createdAt is.         *)
(***************************************************************************)
EXTENDS Naturals, FiniteSets, FiniteSetsExt

CONSTANTS
  Users,      \* user ids
  Procs,      \* requests in flight: each process serves one at a time
  MaxNotes,   \* no note is inserted after this many (bound)
  Ops,        \* the requests that clients make (bound)
  PageSize    \* the pageSize of GET /notifications, 1 to 200

ASSUME InboxAssumption == MaxNotes \in Nat /\ PageSize \in 1 .. 200

VARIABLES
  note,   \* note[n]: the row of notification n
  req,    \* req[p]: the request that process p serves
  seen    \* seen[u]: what user u's screen has shown so far (history)

inboxVars == <<note, req, seen>>

Notes == 1 .. MaxNotes

\* readAt = 0 is the SQL null; later times are larger numbers.
NoNote == [state |-> "free", owner |-> "nobody", readAt |-> 0]
Request(pc, u, op, n) == [pc |-> pc, user |-> u, op |-> op, n |-> n,
                          sink |-> {}, status |-> 200]
NoRequest == Request("idle", "nobody", "none", 0)

InboxInit ==
  /\ note = [n \in Notes |-> NoNote]
  /\ req = [p \in Procs |-> NoRequest]
  /\ seen = [u \in Users |-> {}]

Stored(n) == note[n].state = "stored"
Mine(u) == {n \in Notes : Stored(n) /\ note[n].owner = u}
Unread(u) == {n \in Mine(u) : note[n].readAt = 0}

-----------------------------------------------------------------------------
(* A request whose handler writes: transaction, response, push.            *)

BeginAct(p, u) ==
  /\ "act" \in Ops /\ req[p].pc = "idle"
  /\ req' = [req EXCEPT ![p] = Request("tx", u, "none", 0)]
  /\ UNCHANGED <<note, seen>>

\* Mutant of Create: the id of an owner that is null is not filtered out.
CreateUnowned(n, u, state) ==
  /\ n \in Notes /\ note[n].state = "free"
  /\ \A m \in 1 .. n - 1 : note[m].state # "free"
  /\ note' = [note EXCEPT ![n].state = state]

\* The next row id, created for owner u in the given state.
Create(n, u, state) ==
  /\ n \in Notes /\ note[n].state = "free"
  /\ \A m \in 1 .. n - 1 : note[m].state # "free"
  /\ note' = [note EXCEPT ![n] = [state |-> state, owner |-> u, readAt |-> 0]]

\* tx.notification.create: $use puts the row in the sink though the
\* transaction is still open.
Insert(p, u, n) ==
  /\ req[p].pc = "tx"
  /\ Create(n, u, "draft")
  /\ req' = [req EXCEPT ![p].sink = @ \cup {n}]
  /\ UNCHANGED seen

\* The transaction ends: its rows are stored or gone, and the handler goes on
\* to its response.
EndTx(p, state, status) ==
  /\ req[p].pc = "tx"
  /\ note' = [n \in Notes |->
       IF n \in req[p].sink THEN [note[n] EXCEPT !.state = state] ELSE note[n]]
  /\ req' = [req EXCEPT ![p] = [@ EXCEPT !.pc = "respond", !.status = status]]
  /\ UNCHANGED seen

Commit(p) == EndTx(p, "stored", 200)
Rollback(p) == EndTx(p, "rolledBack", 409)

\* The handler throws after its transaction has committed, or the client is
\* gone and the response never finishes: nothing is pushed.
FailLate(p) ==
  /\ req[p].pc = "respond" /\ req[p].status = 200
  /\ req' = [req EXCEPT ![p] = NoRequest]
  /\ UNCHANGED <<note, seen>>

\* emitNewNotifications: one POST /emit per row of the sink, to its owner's
\* room. Those in got reach a screen; a fetch that fails, is refused or finds
\* nobody connected is only logged.
Push(sink, got) ==
  /\ got \subseteq sink
  /\ seen' = [u \in Users |-> seen[u] \cup {n \in got : note[n].owner = u}]

\* Mutant of Respond: the push does not look at the status.
RespondAnyStatus(p, got) ==
  /\ req[p].pc = "respond"
  /\ Push(req[p].sink, got)
  /\ req' = [req EXCEPT ![p] = NoRequest]
  /\ UNCHANGED note

\* res.on('finish').
Respond(p, got) ==
  /\ req[p].pc = "respond"
  /\ Push(IF req[p].status >= 400 THEN {} ELSE req[p].sink, got)
  /\ req' = [req EXCEPT ![p] = NoRequest]
  /\ UNCHANGED note

-----------------------------------------------------------------------------
(* The inbox.                                                              *)

\* Mutant of Precedes: createdAt alone orders the page.
PrecedesByAge(m, n) == m > n

\* orderBy: [{ readAt: desc, nulls first }, { createdAt: desc }].
Precedes(m, n) ==
  LET rm == note[m].readAt
      rn == note[n].readAt
  IN  \/ rm = 0 /\ rn # 0
      \/ rm # 0 /\ rn # 0 /\ rm > rn
      \/ rm = rn /\ m > n

Page(u) ==
  {n \in Mine(u) : Cardinality({m \in Mine(u) : Precedes(m, n)}) < PageSize}

\* GET /notifications, at a mount, a reconnect or a poll; a fetch that shows
\* nothing new is no step.
List(u) ==
  /\ ~ Page(u) \subseteq seen[u]
  /\ seen' = [seen EXCEPT ![u] = @ \cup Page(u)]
  /\ UNCHANGED <<note, req>>

\* Mutant of BeginMarkRead: the owner is not compared.
BeginMarkAnyRead(p, u, n) ==
  /\ "markRead" \in Ops /\ req[p].pc = "idle"
  /\ Stored(n) /\ note[n].readAt = 0
  /\ req' = [req EXCEPT ![p] = Request("query", u, "markRead", n)]
  /\ UNCHANGED <<note, seen>>

\* findUnique and its checks: no row is 404, another owner's 403, and a read
\* one is returned as it is; none of these writes.
BeginMarkRead(p, u, n) ==
  /\ "markRead" \in Ops /\ req[p].pc = "idle"
  /\ n \in Unread(u)
  /\ req' = [req EXCEPT ![p] = Request("query", u, "markRead", n)]
  /\ UNCHANGED <<note, seen>>

\* read-all and delete-all: ensureFromSession comes before the statement.
BeginBulk(p, u, op) ==
  /\ op \in Ops /\ req[p].pc = "idle"
  /\ Mine(u) # {}
  /\ req' = [req EXCEPT ![p] = Request("query", u, op, 0)]
  /\ UNCHANGED <<note, seen>>

Now == 1 + Max({0} \cup {note[n].readAt : n \in Notes})

\* The rows of set ns get readAt = now; the request ends.
Mark(p, op, ns) ==
  /\ req[p].pc = "query" /\ req[p].op = op
  /\ note' = [n \in Notes |->
       IF n \in ns THEN [note[n] EXCEPT !.readAt = Now] ELSE note[n]]
  /\ req' = [req EXCEPT ![p] = NoRequest]
  /\ UNCHANGED seen

\* update({ where: { id } }) whatever readAt is by now; a row deleted since the
\* find makes it fail (500) without a change.
MarkRead(p) == Mark(p, "markRead", {n \in {req[p].n} : Stored(n)})
ReadAll(p) == Mark(p, "readAll", Unread(req[p].user))

DeleteAll(p) ==
  /\ req[p].pc = "query" /\ req[p].op = "deleteAll"
  /\ note' = [n \in Notes |-> IF n \in Mine(req[p].user)
                              THEN [note[n] EXCEPT !.state = "deleted"]
                              ELSE note[n]]
  /\ req' = [req EXCEPT ![p] = NoRequest]
  /\ UNCHANGED seen

InboxNext ==
  \/ \E p \in Procs :
       \/ \E u \in Users :
            \/ BeginAct(p, u)
            \/ \E n \in Notes : Insert(p, u, n) \/ BeginMarkRead(p, u, n)
            \/ \E op \in {"readAll", "deleteAll"} : BeginBulk(p, u, op)
       \/ \E got \in SUBSET req[p].sink : Respond(p, got)
       \/ Commit(p) \/ Rollback(p) \/ FailLate(p)
       \/ MarkRead(p) \/ ReadAll(p) \/ DeleteAll(p)
  \/ \E u \in Users : List(u)

\* The screen fetches again and again; nothing else is owed to a notification.
InboxSpec ==
  InboxInit /\ [][InboxNext]_inboxVars /\ \A u \in Users : WF_inboxVars(List(u))
=============================================================================
