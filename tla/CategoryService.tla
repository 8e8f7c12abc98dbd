--------------------------- MODULE CategoryService ---------------------------
(***************************************************************************)
(* The categories an administrator keeps and the tickets that refer to     *)
(* them: src/src/services/CategoryService.ts with the category look-ups of *)
(* create and assignCategory in TicketService.ts and the foreign key of    *)
(* schema.prisma (onDelete: SetNull).                                      *)
(*                                                                         *)
(* No operation here runs in one transaction with its look-up: each is two *)
(* steps. Ticket ids are numbers in the order of creation.                 *)
(***************************************************************************)
EXTENDS TicketTable, Naturals, FiniteSets

CONSTANTS
  Names,    \* category names, trimmed
  Procs,    \* requests in flight: each process serves one at a time
  Moves,    \* the operations of the state machine that clients call (bound)
  CatalogueOps, \* the operations of this module that clients call (bound)
  Requesters,   \* the users who open tickets (bound)
  Patches,      \* bodies of updates: name and isActive, NULL where left out (bound)
  MaxTicketRequests \* requests in flight that write a ticket's category (bound)

ASSUME CategoryAssumption ==
  /\ Tickets \subseteq Nat /\ NULL \notin Categories /\ NULL \notin Status
  /\ Moves \subseteq TransitionKey /\ Requesters \subseteq Users
  /\ MaxTicketRequests \in Nat
  /\ Patches \subseteq [name : Names \cup {NULL}, isActive : {TRUE, FALSE, NULL}]

VARIABLES
  category,   \* category[c]: the row of category c
  creq        \* creq[p]: the request that process p serves

catalogueVars == <<row, category, creq>>

\* Ids are never used again. rivals is a history field: the categories that got
\* the same name between the look-up and the write of this one.
NoCategory == [name |-> NULL, isActive |-> FALSE, removed |-> FALSE, rivals |-> {}]
Removed == [NoCategory EXCEPT !.removed = TRUE]

NoRequest == [pc |-> "idle", op |-> NULL, c |-> NULL, name |-> NULL,
              isActive |-> NULL, t |-> NULL, rivals |-> {}]

\* A catalogue kept by this code alone: no rows of an older seed, whose names may
\* already collide (the comment on create).
CatalogueInit ==
  /\ TableInit
  /\ category = [c \in Categories |-> NoCategory]
  /\ creq = [p \in Procs |-> NoRequest]

Live(c) == category[c].name # NULL
Named(name) == {c \in Categories : category[c].name = name}

-----------------------------------------------------------------------------
(* The look-ups and checks.                                                *)

Begin(p, request) ==
  /\ creq[p].pc = "idle" /\ request.op \in CatalogueOps
  /\ creq' = [creq EXCEPT ![p] = request]
  /\ UNCHANGED <<row, category>>

TicketRequests == {p \in Procs : creq[p].op \in {"assign", "open"}}

Request(op, c, name, isActive, t) ==
  [pc |-> "write", op |-> op, c |-> c, name |-> name, isActive |-> isActive,
   t |-> t, rivals |-> {}]

\* POST /categories: nobody has the name.
BeginCreate(p, name) ==
  /\ Named(name) = {}
  /\ Begin(p, Request("create", NULL, name, TRUE, NULL))

\* Mutant of BeginUpdate: the new name is not looked up.
BeginUpdateUnchecked(p, c, name, isActive) ==
  /\ Live(c)
  /\ Begin(p, Request("update", c, name, isActive, NULL))

\* PATCH /categories/:id: NULL stands for a key the body leaves out.
BeginUpdate(p, c, name, isActive) ==
  /\ Live(c)
  /\ name # NULL => Named(name) \subseteq {c}
  /\ Begin(p, Request("update", c, name, isActive, NULL))

BeginRemove(p, c) == Live(c) /\ Begin(p, Request("remove", c, NULL, NULL, NULL))

\* PATCH /tickets/:id/category, c = NULL clears it. Inactive ones are accepted.
BeginAssign(p, t, c, u) ==
  /\ Role[u] \in Helpdesk
  /\ c # NULL => Live(c)
  /\ Exists(t) /\ row[t].status # "Closed"
  /\ Cardinality(TicketRequests) < MaxTicketRequests
  /\ Begin(p, Request("assign", c, NULL, NULL, t))

\* POST /tickets: the category is looked up before the transaction.
BeginOpen(p, c) ==
  /\ c # NULL => Live(c)
  /\ Cardinality(TicketRequests) < MaxTicketRequests
  /\ Begin(p, Request("open", c, NULL, NULL, NULL))

-----------------------------------------------------------------------------
(* The writes.                                                             *)

Writes(p, op) == creq[p].pc = "write" /\ creq[p].op = op

\* Request p ends.
Return(p) == creq' = [creq EXCEPT ![p] = NoRequest]

\* Request p ends having named c; the others have missed it.
ReturnNamed(p, c) ==
  creq' = [q \in Procs |->
    IF q = p THEN NoRequest
    ELSE IF creq[q].name # NULL /\ creq[q].name = creq[p].name
         THEN [creq[q] EXCEPT !.rivals = @ \cup {c}]
         ELSE creq[q]]

Create(p, c) ==
  /\ Writes(p, "create") /\ category[c] = NoCategory
  /\ category' = [category EXCEPT ![c] = [name |-> creq[p].name, isActive |-> TRUE,
                                    removed |-> FALSE, rivals |-> creq[p].rivals]]
  /\ ReturnNamed(p, c)
  /\ UNCHANGED row

\* update({ where: { id }, data }) with the keys of the body; a category that
\* is gone makes it fail.
Update(p) ==
  LET r == creq[p]
      old == category[r.c] IN
  /\ Writes(p, "update") /\ Live(r.c)
  /\ category' = [category EXCEPT ![r.c] =
       [name |-> IF r.name = NULL THEN old.name ELSE r.name,
        isActive |-> IF r.isActive = NULL THEN old.isActive ELSE r.isActive,
        removed |-> FALSE,
        rivals |-> IF r.name = NULL THEN old.rivals ELSE r.rivals]]
  /\ IF r.name = NULL THEN Return(p) ELSE ReturnNamed(p, r.c)
  /\ UNCHANGED row

\* Mutant of Remove: the tickets keep their reference.
RemoveOnly(p) ==
  LET c == creq[p].c IN
  /\ Writes(p, "remove") /\ Live(c)
  /\ category' = [category EXCEPT ![c] = Removed]
  /\ Return(p)
  /\ UNCHANGED row

\* delete({ where: { id } }): the database clears the column of every ticket in
\* the category, closed ones included.
Remove(p) ==
  LET c == creq[p].c IN
  /\ Writes(p, "remove") /\ Live(c)
  /\ category' = [category EXCEPT ![c] = Removed]
  /\ row' = [t \in Tickets |-> IF row[t].category = c
                               THEN [row[t] EXCEPT !.category = NULL] ELSE row[t]]
  /\ Return(p)

\* The foreign key: a ticket's category exists when the statement runs.
References(c) == c # NULL => Live(c)

Assign(p) ==
  /\ Writes(p, "assign") /\ References(creq[p].c)
  /\ Categorise(creq[p].t, creq[p].c)
  /\ Return(p)
  /\ UNCHANGED category

OpenTicket(p, u, s) ==
  /\ Writes(p, "open") /\ References(creq[p].c)
  /\ \E t \in Tickets : /\ \A older \in Tickets : older < t => Exists(older)
                        /\ Open(t, u, s, creq[p].c)
  /\ Return(p)
  /\ UNCHANGED category

\* A row or a reference that is gone, or a failure: 500, nothing is written.
Fail(p) ==
  /\ creq[p].pc # "idle"
  /\ Return(p)
  /\ UNCHANGED <<row, category>>

CatalogueNext ==
  \/ \E p \in Procs :
       \/ \E name \in Names : BeginCreate(p, name)
       \/ \E c \in Categories :
            \/ \E patch \in Patches : BeginUpdate(p, c, patch.name, patch.isActive)
            \/ BeginRemove(p, c) \/ Create(p, c)
       \/ \E c \in Categories \cup {NULL} :
            BeginOpen(p, c) \/ \E t \in Tickets, u \in Users : BeginAssign(p, t, c, u)
       \/ \E u \in Requesters, s \in Severities : OpenTicket(p, u, s)
       \/ Update(p) \/ Remove(p) \/ Assign(p) \/ Fail(p)
  \/ /\ \E t \in Tickets, k \in Moves : Move(t, k)
     /\ UNCHANGED <<category, creq>>
=============================================================================
