---------------------------- MODULE CategoryProofs ----------------------------
(***************************************************************************)
(* What holds of the categories for any number of tickets, categories,     *)
(* requests and reads.                                                     *)
(*                                                                         *)
(* A name is looked up before it is written. Between the two, a request    *)
(* that is to write name x knows (rivals) every category that got x since  *)
(* its look-up; that is all it knows, and it is the reason for a           *)
(* duplicate. References need no such argument: the foreign key compares   *)
(* at the write itself.                                                    *)
(*                                                                         *)
(* The reads take several queries. What a dashboard has counted stays      *)
(* there or is marked as removed; what a list has found stays within       *)
(* bounds that only move apart while it runs.                              *)
(***************************************************************************)
EXTENDS ReadProperties, FiniteSetTheorems, TLAPS

Row == [name : Names \cup {NULL}, isActive : {TRUE, FALSE, NULL},
        removed : BOOLEAN, rivals : SUBSET Categories]
Req == [pc : {"idle", "write"}, op : {"create", "update", "remove", "assign", "open", NULL},
        c : Categories \cup {NULL}, name : Names \cup {NULL},
        isActive : {TRUE, FALSE, NULL}, t : Tickets \cup {NULL},
        rivals : SUBSET Categories]

Typed ==
  /\ category \in [Categories -> Row]
  /\ creq \in [Procs -> Req]
  /\ \A p \in Procs : creq[p].pc = "write" /\ creq[p].op \in {"update", "remove"} =>
       creq[p].c \in Categories
  /\ DOMAIN row = Tickets
  /\ \A t \in Tickets : DOMAIN row[t] = DOMAIN NoRow

\* A request that is to write a name knows who has got it since.
RivalsAreKnown ==
  \A p \in Procs : creq[p].name # NULL =>
    /\ creq[p].op \in {"create", "update"}
    /\ creq[p].op = "create" => creq[p].c = NULL
    /\ \A d \in Categories :
         category[d].name = creq[p].name => d = creq[p].c \/ d \in creq[p].rivals

IInv == Typed /\ RivalsAreKnown /\ CategoriesExist /\ DuplicatesNeedOverlap

LEMMA InitIInv == Init => IInv
<1> SUFFICES ASSUME Init PROVE IInv
  OBVIOUS
<1> USE DEF Init, CatalogueInit, TableInit
<1>1. Typed
  <2>1. NoCategory \in Row /\ NoRequest \in Req /\ NoRequest.pc = "idle"
    BY DEF Row, Req, NoCategory, NoRequest
  <2> QED
    BY <2>1 DEF Typed
<1>2. RivalsAreKnown
  BY DEF RivalsAreKnown, NoRequest
<1>3. CategoriesExist /\ DuplicatesNeedOverlap
  BY DEF CategoriesExist, DuplicatesNeedOverlap, NoRow, Live, NoCategory
<1> QED
  BY <1>1, <1>2, <1>3 DEF IInv

-----------------------------------------------------------------------------
(* One lemma per kind of step.                                             *)

\* A look-up.
LEMMA BeginStep ==
  ASSUME IInv, NEW p \in Procs, NEW c \in Categories \cup {NULL},
         NEW name \in Names \cup {NULL}, NEW isActive \in {TRUE, FALSE, NULL},
         NEW t \in Tickets \cup {NULL},
         NEW op \in {"create", "update", "remove", "assign", "open"},
         op \in {"update", "remove"} => c \in Categories,
         name # NULL => /\ op \in {"create", "update"} /\ Named(name) \subseteq {c}
                        /\ op = "create" => c = NULL,
         Begin(p, Request(op, c, name, isActive, t))
  PROVE  IInv'
<1> DEFINE r == Request(op, c, name, isActive, t)
<1>1. creq' = [creq EXCEPT ![p] = r] /\ category' = category /\ row' = row
  BY DEF Begin
<1>2. r.name = name /\ r.op = op /\ r.c = c /\ r \in Req
  BY DEF Request, Req
<1> HIDE DEF r
<1>3. Typed'
  BY <1>1, <1>2 DEF IInv, Typed
<1>4. \A q \in Procs : creq'[q] = IF q = p THEN r ELSE creq[q]
  BY <1>1 DEF IInv, Typed
<1>5. RivalsAreKnown'
  BY <1>1, <1>2, <1>4 DEF IInv, RivalsAreKnown, Named
<1>6. CategoriesExist' /\ DuplicatesNeedOverlap'
  BY <1>1 DEF IInv, CategoriesExist, DuplicatesNeedOverlap, Live
<1> QED
  BY <1>3, <1>5, <1>6 DEF IInv

\* Request p names category c.
LEMMA NameStep ==
  ASSUME IInv, NEW p \in Procs, NEW c \in Categories, NEW x \in Row,
         creq[p].name # NULL, creq[p].c \in {c, NULL},
         x.name = creq[p].name, x.rivals = creq[p].rivals,
         category' = [category EXCEPT ![c] = x], ReturnNamed(p, c), row' = row
  PROVE  IInv'
<1>1. /\ creq'[p] = NoRequest
      /\ \A q \in Procs \ {p} :
           IF creq[q].name = x.name
           THEN /\ creq'[q].rivals = creq[q].rivals \cup {c}
                /\ creq'[q].name = creq[q].name /\ creq'[q].op = creq[q].op
                /\ creq'[q].c = creq[q].c /\ creq'[q].pc = creq[q].pc
                /\ creq'[q] \in Req
           ELSE creq'[q] = creq[q]
  <2> DEFINE y(q) == [creq[q] EXCEPT !.rivals = creq[q].rivals \cup {c}]
  <2>1. ASSUME NEW q \in Procs \ {p}, creq[q].name = x.name PROVE creq'[q] = y(q)
    BY <2>1 DEF ReturnNamed
  <2>2. ASSUME NEW q \in Procs
        PROVE  /\ y(q) \in Req /\ y(q).rivals = creq[q].rivals \cup {c}
               /\ y(q).name = creq[q].name /\ y(q).op = creq[q].op
               /\ y(q).c = creq[q].c /\ y(q).pc = creq[q].pc
    <3>1. creq[q] \in Req /\ creq[q].rivals \cup {c} \in SUBSET Categories
      BY DEF Req, IInv, Typed
    <3> QED
      BY <3>1 DEF Req
  <2> HIDE DEF y
  <2>3. ASSUME NEW q \in Procs \ {p}, creq[q].name # x.name PROVE creq'[q] = creq[q]
    BY <2>3 DEF ReturnNamed
  <2>4. creq'[p] = NoRequest
    BY DEF ReturnNamed
  <2> QED
    BY <2>1, <2>2, <2>3, <2>4
<1>2. NoRequest \in Req /\ NoRequest.name = NULL /\ NoRequest.pc = "idle"
  BY DEF NoRequest, Req
<1>3. \A d \in Categories : category'[d] = IF d = c THEN x ELSE category[d]
  BY DEF IInv, Typed
<1>4. creq' \in [Procs -> Req]
  BY <1>1, <1>2 DEF ReturnNamed, IInv, Typed
<1>5. Typed'
  <2>1. \A q \in Procs : creq'[q].pc = "write" =>
          creq'[q].op = creq[q].op /\ creq'[q].c = creq[q].c /\ creq[q].pc = "write"
    BY <1>1, <1>2
  <2> QED
    BY <1>4, <2>1 DEF IInv, Typed
<1>6. RivalsAreKnown'
  <2> SUFFICES ASSUME NEW q \in Procs, creq'[q].name # NULL
               PROVE  /\ creq'[q].op \in {"create", "update"}
                      /\ creq'[q].op = "create" => creq'[q].c = NULL
                      /\ \A d \in Categories : category'[d].name = creq'[q].name =>
                           d = creq'[q].c \/ d \in creq'[q].rivals
    BY DEF RivalsAreKnown
  <2>1. /\ q # p /\ creq'[q].name = creq[q].name /\ creq'[q].op = creq[q].op
        /\ creq'[q].c = creq[q].c /\ creq[q].rivals \subseteq creq'[q].rivals
        /\ creq[q].name = x.name => c \in creq'[q].rivals
    BY <1>1, <1>2
  <2> QED
    BY <1>3, <2>1 DEF IInv, RivalsAreKnown
<1>7. CategoriesExist'
  BY <1>3 DEF IInv, CategoriesExist, Live
<1>8. DuplicatesNeedOverlap'
  <2>1. \A d \in Categories \ {c} : category[d].name = x.name => d \in x.rivals
    BY CategoryAssumption DEF IInv, RivalsAreKnown
  <2> QED
    BY <1>3, <2>1 DEF IInv, DuplicatesNeedOverlap, Live
<1> QED
  BY <1>5, <1>6, <1>7, <1>8 DEF IInv

\* The steps that take no name.
LEMMA PlainStep ==
  ASSUME IInv, Typed', CategoriesExist',
         \A c \in Categories :
           \/ category'[c].name = NULL
           \/ /\ category'[c].name = category[c].name
              /\ category'[c].rivals = category[c].rivals,
         \A p \in Procs : creq'[p] = creq[p] \/ creq'[p].name = NULL
  PROVE  IInv'
<1>1. RivalsAreKnown'
  BY DEF IInv, RivalsAreKnown
<1>2. DuplicatesNeedOverlap'
  BY DEF IInv, DuplicatesNeedOverlap, Live
<1> QED
  BY <1>1, <1>2 DEF IInv

LEMMA ReturnStep ==
  ASSUME IInv, NEW p \in Procs, Return(p)
  PROVE  /\ creq' \in [Procs -> Req]
         /\ \A q \in Procs :
              \/ creq'[q] = creq[q]
              \/ creq'[q].name = NULL /\ creq'[q].pc = "idle"
<1>1. NoRequest \in Req /\ NoRequest.name = NULL /\ NoRequest.pc = "idle"
  BY DEF NoRequest, Req
<1> QED
  BY <1>1 DEF Return, IInv, Typed

LEMMA CreateStep ==
  ASSUME IInv, NEW p \in Procs, NEW c \in Categories, Create(p, c)
  PROVE  IInv'
<1> DEFINE x == [name |-> creq[p].name, isActive |-> TRUE, removed |-> FALSE,
                 rivals |-> creq[p].rivals]
<1>1. category' = [category EXCEPT ![c] = x] /\ ReturnNamed(p, c) /\ row' = row
  BY DEF Create
<1>2. creq[p] \in Req /\ creq[p].op = "create" /\ category[c].name = NULL
  BY DEF Create, Writes, IInv, Typed, NoCategory
<1>3. x.name = creq[p].name /\ x.rivals = creq[p].rivals /\ x \in Row
  BY <1>2 DEF Req, Row
<1> HIDE DEF x
<1>4. CASE creq[p].name # NULL
  <2>1. creq[p].c = NULL
    BY <1>2, <1>4 DEF IInv, RivalsAreKnown
  <2> QED
    BY <1>1, <1>3, <1>4, <2>1, NameStep
<1>5. CASE creq[p].name = NULL
  <2>1. Return(p)
    BY <1>1, <1>5 DEF ReturnNamed, Return, IInv, Typed
  <2>2. /\ category' \in [Categories -> Row]
        /\ \A d \in Categories : category'[d] = IF d = c THEN x ELSE category[d]
    BY <1>1, <1>3 DEF IInv, Typed
  <2>3. Typed'
    BY <1>1, <2>1, <2>2, ReturnStep DEF IInv, Typed
  <2>4. CategoriesExist'
    BY <1>1, <1>2, <2>2 DEF IInv, CategoriesExist, Live
  <2> QED
    BY <1>3, <1>5, <2>1, <2>2, <2>3, <2>4, ReturnStep, PlainStep
<1> QED
  BY <1>4, <1>5

LEMMA UpdateStep ==
  ASSUME IInv, NEW p \in Procs, Update(p)
  PROVE  IInv'
<1> DEFINE r == creq[p]
           old == category[r.c]
           x == [name |-> IF r.name = NULL THEN old.name ELSE r.name,
                 isActive |-> IF r.isActive = NULL THEN old.isActive ELSE r.isActive,
                 removed |-> FALSE,
                 rivals |-> IF r.name = NULL THEN old.rivals ELSE r.rivals]
<1>1. /\ category' = [category EXCEPT ![r.c] = x] /\ row' = row
      /\ IF r.name = NULL THEN Return(p) ELSE ReturnNamed(p, r.c)
  BY DEF Update
<1>2. r \in Req /\ category \in [Categories -> Row]
  BY DEF IInv, Typed
<1>3. r.c \in Categories
  BY DEF Update, Writes, IInv, Typed
<1>4. x \in Row /\ old \in Row
  BY <1>2, <1>3 DEF Req, Row
<1>5. CASE r.name # NULL
  <2>1. x.name = r.name /\ x.rivals = r.rivals
    BY <1>5
  <2> HIDE DEF x
  <2> QED
    BY <1>1, <1>3, <1>4, <1>5, <2>1, NameStep
<1>6. CASE r.name = NULL
  <2>1. x.name = old.name /\ x.rivals = old.rivals
    BY <1>6
  <2> HIDE DEF x
  <2>2. /\ category' \in [Categories -> Row]
        /\ \A d \in Categories : /\ category'[d].name = category[d].name
                                 /\ category'[d].rivals = category[d].rivals
    BY <1>1, <1>2, <1>3, <1>4, <2>1
  <2>3. CategoriesExist'
    BY <1>1, <2>2 DEF IInv, CategoriesExist, Live
  <2>4. Return(p)
    BY <1>1, <1>6
  <2>5. Typed'
    BY <1>1, <2>2, <2>4, ReturnStep DEF IInv, Typed
  <2> QED
    BY <2>2, <2>3, <2>4, <2>5, ReturnStep, PlainStep
<1> QED
  BY <1>5, <1>6

\* A category goes, and the tickets' references with it.
LEMMA RemoveStep ==
  ASSUME IInv, NEW p \in Procs, Remove(p)
  PROVE  IInv'
<1> DEFINE c == creq[p].c
<1>1. /\ category' = [category EXCEPT ![c] = Removed] /\ Return(p)
      /\ row' = [t \in Tickets |-> IF row[t].category = c
                                  THEN [row[t] EXCEPT !.category = NULL] ELSE row[t]]
  BY DEF Remove
<1>2. Removed \in Row /\ Removed.name = NULL
  BY DEF Removed, NoCategory, Row
<1>3. /\ category' \in [Categories -> Row]
      /\ \A d \in Categories : category'[d] = IF d = c THEN Removed ELSE category[d]
  BY <1>1, <1>2 DEF IInv, Typed
<1>4. \A t \in Tickets :
        /\ DOMAIN row'[t] = DOMAIN row[t] /\ "category" \in DOMAIN row[t]
        /\ row'[t].category = IF row[t].category = c THEN NULL ELSE row[t].category
  BY <1>1 DEF IInv, Typed, NoRow
<1>5. Typed'
  BY <1>1, <1>3, <1>4, ReturnStep DEF IInv, Typed
<1>6. CategoriesExist'
  <2>1. ASSUME NEW t \in Tickets, row'[t].category # NULL
        PROVE  category'[row'[t].category].name # NULL
    <3>1. row[t].category # c /\ row'[t].category = row[t].category /\ Live(row[t].category)
      BY <1>4, <2>1 DEF IInv, CategoriesExist
    <3>2. category'[row[t].category] = category[row[t].category]
      BY <1>1, <3>1 DEF IInv, Typed
    <3> QED
      BY <3>1, <3>2 DEF Live
  <2> QED
    BY <2>1 DEF CategoriesExist, Live
<1> QED
  BY <1>1, <1>2, <1>3, <1>5, <1>6, ReturnStep, PlainStep

\* A ticket gets a category, or is opened with one, or moves, or nothing is
\* written: categories stay as they are.
LEMMA RowStep ==
  ASSUME IInv, category' = category, creq' = creq \/ \E p \in Procs : Return(p),
         DOMAIN row' = Tickets,
         \A t \in Tickets :
           /\ DOMAIN row'[t] = DOMAIN NoRow
           /\ \/ row'[t].category = row[t].category
              \/ References(row'[t].category)
  PROVE  IInv'
<1>1. /\ creq' \in [Procs -> Req]
      /\ \A q \in Procs : \/ creq'[q] = creq[q]
                          \/ creq'[q].name = NULL /\ creq'[q].pc = "idle"
  BY ReturnStep DEF IInv, Typed
<1>2. Typed'
  BY <1>1 DEF IInv, Typed
<1>3. CategoriesExist'
  BY DEF IInv, CategoriesExist, Live, References
<1> QED
  BY <1>1, <1>2, <1>3, PlainStep

LEMMA MoveStep ==
  ASSUME IInv, NEW t \in Tickets, NEW k \in TransitionKey, Move(t, k),
         UNCHANGED <<category, creq>>
  PROVE  IInv'
<1>1. Sets(k).column # "category"
  BY DEF Sets
<1>2. /\ DOMAIN row' = Tickets
      /\ \A u \in Tickets : DOMAIN row'[u] = DOMAIN NoRow
                          /\ row'[u].category = row[u].category
  BY <1>1 DEF Move, IInv, Typed, NoRow
<1> QED
  BY <1>2, RowStep

LEMMA Inductive == IInv /\ [Next]_vars => IInv'
<1> SUFFICES ASSUME IInv, [Next]_vars PROVE IInv'
  OBVIOUS
<1>1. CASE UNCHANGED catalogueVars
  <2>1. UNCHANGED <<row, category, creq>>
    BY <1>1 DEF catalogueVars
  <2>2. Typed' /\ RivalsAreKnown'
    BY <2>1 DEF IInv, Typed, RivalsAreKnown
  <2>3. CategoriesExist' /\ DuplicatesNeedOverlap'
    BY <2>1 DEF IInv, CategoriesExist, DuplicatesNeedOverlap, Live
  <2> QED
    BY <2>2, <2>3 DEF IInv
<1>2. ASSUME NEW p \in Procs, NEW name \in Names, BeginCreate(p, name) PROVE IInv'
  BY <1>2, BeginStep DEF BeginCreate
<1>3. ASSUME NEW p \in Procs, NEW c \in Categories, NEW patch \in Patches,
             BeginUpdate(p, c, patch.name, patch.isActive)
      PROVE  IInv'
  <2>1. patch.name \in Names \cup {NULL} /\ patch.isActive \in {TRUE, FALSE, NULL}
    BY CategoryAssumption
  <2> QED
    BY <1>3, <2>1, BeginStep DEF BeginUpdate
<1>4. ASSUME NEW p \in Procs, NEW c \in Categories, BeginRemove(p, c) PROVE IInv'
  BY <1>4, BeginStep DEF BeginRemove
<1>5. ASSUME NEW p \in Procs, NEW c \in Categories \cup {NULL}, BeginOpen(p, c) PROVE IInv'
  BY <1>5, BeginStep DEF BeginOpen
<1>6. ASSUME NEW p \in Procs, NEW c \in Categories \cup {NULL}, NEW t \in Tickets,
             NEW u, BeginAssign(p, t, c, u)
      PROVE  IInv'
  BY <1>6, BeginStep DEF BeginAssign
<1>7. ASSUME NEW p \in Procs, NEW u, NEW s, OpenTicket(p, u, s) PROVE IInv'
  <2>1. PICK t \in Tickets : Open(t, u, s, creq[p].c)
    BY <1>7 DEF OpenTicket
  <2>2. /\ category' = category /\ Return(p) /\ References(creq[p].c)
        /\ DOMAIN row' = Tickets
        /\ \A v \in Tickets \ {t} : row'[v] = row[v]
        /\ DOMAIN row'[t] = DOMAIN NoRow /\ row'[t].category = creq[p].c
    BY <1>7, <2>1 DEF OpenTicket, Open, IInv, Typed, NoRow
  <2> QED
    BY <2>2, RowStep DEF IInv, Typed
<1>8. ASSUME NEW p \in Procs, Assign(p) PROVE IInv'
  <2> DEFINE t == creq[p].t
  <2>1. /\ category' = category /\ Return(p) /\ References(creq[p].c)
        /\ row' = [row EXCEPT ![t].category = creq[p].c]
    BY <1>8 DEF Assign, Categorise
  <2>2. /\ DOMAIN row' = Tickets
        /\ \A v \in Tickets :
             /\ DOMAIN row'[v] = DOMAIN NoRow
             /\ row'[v].category = IF v = t THEN creq[p].c ELSE row[v].category
    BY <2>1 DEF IInv, Typed, NoRow
  <2> HIDE DEF t
  <2> QED
    BY <2>1, <2>2, RowStep
<1>9. ASSUME NEW p \in Procs, Fail(p) PROVE IInv'
  BY <1>9, RowStep DEF Fail, IInv, Typed
<1>10. CASE Change
  <2>1. CASE \E t \in Tickets, k \in Moves : Move(t, k) /\ UNCHANGED <<category, creq>>
    BY <2>1, MoveStep, CategoryAssumption
  <2> QED
    BY <1>2, <1>3, <1>4, <1>5, <1>6, <1>7, <1>8, <1>9, <1>10, <2>1, CreateStep,
       UpdateStep, RemoveStep DEF Change, CatalogueNext
<1>11. ASSUME NEW r \in Readers, NEW u \in Users, NEW words, NEW sort, NEW page,
              BeginList(r, u, words, sort, page)
       PROVE  UNCHANGED catalogueVars
  BY <1>11 DEF BeginList
<1>12. ASSUME NEW r \in Readers, Count(r) \/ Page(r) \/ Candidates(r) \/ Fetch(r)
       PROVE  UNCHANGED catalogueVars
  BY <1>12 DEF Count, Page, Candidates, Fetch, Answered
<1>13. ASSUME NEW r \in Readers,
              \/ NameThem(r) \/ Finish(r)
              \/ \E u \in Users : BeginSummary(r, u)
              \/ \E q \in Queries : Query(r, q)
       PROVE  UNCHANGED catalogueVars
  BY <1>13 DEF NameThem, Finish, BeginSummary, Query
<1> QED
  BY <1>1, <1>10, <1>11, <1>12, <1>13 DEF Next, vars

-----------------------------------------------------------------------------

\* A ticket never refers to a category that is gone, however create,
\* assignCategory and the deletion overlap (CategoryService.remove, the foreign
\* key of schema.prisma).
THEOREM NoDanglingReference == Spec => []CategoriesExist
<1>1. IInv => CategoriesExist
  BY DEF IInv
<1> QED
  BY <1>1, InitIInv, Inductive, PTL DEF Spec

\* Two categories share a name only where a look-up and a write overlapped
\* another naming (CategoryService.create, update).
THEOREM OnlyOverlapDuplicates == Spec => []DuplicatesNeedOverlap
<1>1. IInv => DuplicatesNeedOverlap
  BY DEF IInv
<1> QED
  BY <1>1, InitIInv, Inductive, PTL DEF Spec

-----------------------------------------------------------------------------
(* The dashboard's blank names. A category that the count saw had a ticket *)
(* and so a row; from then on it has its row, or was removed, because an   *)
(* id is never used again.                                                 *)

\* Category c has a row, or had one.
Lasts(c) == Live(c) \/ category[c].removed

RemovedIsGone == \A c \in Categories : category[c].removed => ~ Live(c)

\* What a summary has counted lasts, and what it could not name is removed.
SummaryOK(x) ==
  /\ DOMAIN x = DOMAIN NoRead
  /\ x.pc = "summary" =>
       /\ DOMAIN x.answer = Queries
       /\ "byCategory" \notin x.todo =>
            \A c \in Categories : x.answer["byCategory"][c] > 0 => Lasts(c)
  /\ x.pc = "summarised" => \A c \in x.blank : c \in Categories /\ category[c].removed

SummaryInv == IInv /\ RemovedIsGone /\ \A r \in Readers : SummaryOK(read[r])

\* A row or its removal lasts, and a removal is final.
CategoriesLast ==
  \A c \in Categories : /\ Lasts(c) => Lasts(c)'
                        /\ category[c].removed => category'[c].removed

LEMMA CatalogueLasts ==
  ASSUME IInv, RemovedIsGone, CatalogueNext \/ UNCHANGED catalogueVars
  PROVE  CategoriesLast /\ RemovedIsGone'
<1>1. category \in [Categories -> Row]
  BY DEF IInv, Typed
<1>2. ASSUME UNCHANGED category PROVE CategoriesLast /\ RemovedIsGone'
  BY <1>2 DEF CategoriesLast, Lasts, Live, RemovedIsGone
<1>3. ASSUME NEW c \in Categories, NEW x, category' = [category EXCEPT ![c] = x],
             ~ x.removed, category[c] = NoCategory \/ (Live(c) /\ x.name # NULL)
      PROVE  CategoriesLast /\ RemovedIsGone'
  <2>1. ~ category[c].removed
    BY <1>3 DEF RemovedIsGone, NoCategory
  <2>2. \A d \in Categories : category'[d] = IF d = c THEN x ELSE category[d]
    BY <1>1, <1>3
  <2>3. Lasts(c) => x.name # NULL
    BY <1>3, <2>1 DEF Lasts, Live, NoCategory
  <2> QED
    BY <1>3, <2>1, <2>2, <2>3 DEF CategoriesLast, Lasts, Live, RemovedIsGone
<1>4. ASSUME NEW p \in Procs, NEW c \in Categories, Create(p, c)
      PROVE  CategoriesLast /\ RemovedIsGone'
  <2>1. PICK x : x = [name |-> creq[p].name, isActive |-> TRUE, removed |-> FALSE,
                      rivals |-> creq[p].rivals]
    OBVIOUS
  <2>2. /\ category' = [category EXCEPT ![c] = x] /\ ~ x.removed
        /\ category[c] = NoCategory
    BY <1>4, <2>1 DEF Create
  <2> QED
    BY <1>3, <2>2
<1>5. ASSUME NEW p \in Procs, Update(p) PROVE CategoriesLast /\ RemovedIsGone'
  <2>1. PICK r, old : r = creq[p] /\ old = category[r.c]
    OBVIOUS
  <2>2. PICK x : x = [name |-> IF r.name = NULL THEN old.name ELSE r.name,
                      isActive |-> IF r.isActive = NULL THEN old.isActive ELSE r.isActive,
                      removed |-> FALSE,
                      rivals |-> IF r.name = NULL THEN old.rivals ELSE r.rivals]
    OBVIOUS
  <2>3. r.c \in Categories /\ Live(r.c)
    BY <1>5, <2>1 DEF Update, Writes, IInv, Typed
  <2>4. category' = [category EXCEPT ![r.c] = x] /\ ~ x.removed
    BY <1>5, <2>1, <2>2 DEF Update
  <2>5. x.name # NULL
    BY <2>1, <2>2, <2>3 DEF Live
  <2> QED
    BY <1>3, <2>3, <2>4, <2>5
<1>6. ASSUME NEW p \in Procs, Remove(p) PROVE CategoriesLast /\ RemovedIsGone'
  <2>1. PICK c : c = creq[p].c
    OBVIOUS
  <2>2. /\ category' = [category EXCEPT ![c] = Removed]
        /\ Removed.name = NULL /\ Removed.removed
    BY <1>6, <2>1 DEF Remove, Removed, NoCategory
  <2>3. \A d \in Categories : category'[d] = IF d = c THEN Removed ELSE category[d]
    BY <1>1, <2>2
  <2> QED
    BY <2>2, <2>3 DEF CategoriesLast, Lasts, Live, RemovedIsGone
<1>7. ASSUME NEW p \in Procs,
             \/ \E name \in Names : BeginCreate(p, name)
             \/ \E c \in Categories :
                  \/ \E patch \in Patches : BeginUpdate(p, c, patch.name, patch.isActive)
                  \/ BeginRemove(p, c)
             \/ \E c \in Categories \cup {NULL} :
                  BeginOpen(p, c) \/ \E t \in Tickets, u \in Users : BeginAssign(p, t, c, u)
             \/ \E u \in Requesters, s \in Severities : OpenTicket(p, u, s)
             \/ Assign(p) \/ Fail(p)
      PROVE  UNCHANGED category
  BY <1>7 DEF BeginCreate, BeginUpdate, BeginRemove, BeginOpen, BeginAssign, Begin,
     OpenTicket, Assign, Fail
<1> QED
  BY <1>2, <1>4, <1>5, <1>6, <1>7 DEF CatalogueNext, catalogueVars

\* What a summary knows lasts as long as the categories do.
LEMMA SummaryLasts ==
  ASSUME CategoriesLast, NEW x, SummaryOK(x)
  PROVE  SummaryOK(x)'
BY DEF SummaryOK, CategoriesLast

\* The count finds a ticket only in a category with a row.
LEMMA CountedIsLive ==
  ASSUME IInv, NEW c \in Categories, Answer("byCategory")[c] > 0
  PROVE  Live(c)
<1> DEFINE in == {t \in All : row[t]["category"] = c}
<1>1. Answer("byCategory")[c] = Cardinality(in)
  BY DEF Answer, PerValue
<1>2. in # {}
  <2>1. Cardinality(in) # 0
    BY <1>1
  <2> HIDE DEF in
  <2> QED
    BY <2>1, FS_EmptySet
<1>3. PICK t \in Tickets : row[t].category = c
  BY <1>2 DEF All
<1> QED
  BY <1>3, CategoryAssumption DEF IInv, CategoriesExist

\* Reader r goes on with x.
LEMMA ReaderStep ==
  ASSUME SummaryInv, NEW r \in Readers, NEW x, read' = [read EXCEPT ![r] = x],
         UNCHANGED catalogueVars, IInv', SummaryOK(x)
  PROVE  SummaryInv'
<1>1. CategoriesLast /\ RemovedIsGone'
  BY CatalogueLasts DEF SummaryInv
<1>2. \A q \in Readers : read'[q] = x \/ read'[q] = read[q]
  OBVIOUS
<1>3. ASSUME NEW q \in Readers PROVE SummaryOK(read[q])'
  <2>1. PICK y : y = read'[q] /\ SummaryOK(y)
    BY <1>2 DEF SummaryInv
  <2>2. SummaryOK(y)'
    BY <1>1, <2>1, SummaryLasts
  <2> QED
    BY <2>1, <2>2 DEF SummaryOK
<1> QED
  BY <1>1, <1>3 DEF SummaryInv

\* The steps of a list claim nothing of the categories.
LEMMA ListSteps ==
  ASSUME SummaryInv, IInv', NEW r \in Readers,
         \/ \E u \in Users, words \in StatusQueries, sort \in Sorts, page \in 1 .. MaxPage :
              BeginList(r, u, words, sort, page)
         \/ Count(r) \/ Page(r) \/ Candidates(r) \/ Fetch(r) \/ Finish(r)
  PROVE  SummaryInv'
<1>1. PICK o : o = read[r] /\ DOMAIN o = DOMAIN NoRead
  BY DEF SummaryInv, SummaryOK
<1>2. ASSUME NEW x, read' = [read EXCEPT ![r] = x], UNCHANGED catalogueVars,
             DOMAIN x = DOMAIN NoRead, x.pc \in {"idle", "list", "listed"}
      PROVE  SummaryInv'
  BY <1>2, ReaderStep DEF SummaryOK
<1>3. ASSUME NEW u \in Users, NEW words \in StatusQueries, NEW sort \in Sorts,
             NEW page \in 1 .. MaxPage, BeginList(r, u, words, sort, page)
      PROVE  SummaryInv'
  <2>1. PICK status, todo, ts :
          read' = [read EXCEPT ![r] = [NoRead EXCEPT
            !.pc = "list", !.user = u, !.status = status, !.sort = sort, !.page = page,
            !.todo = todo, !.ever = ts, !.always = ts]]
    BY <1>3 DEF BeginList
  <2>2. PICK x : x = [NoRead EXCEPT
            !.pc = "list", !.user = u, !.status = status, !.sort = sort, !.page = page,
            !.todo = todo, !.ever = ts, !.always = ts]
    OBVIOUS
  <2>3. DOMAIN x = DOMAIN NoRead /\ x.pc = "list"
    BY <2>2 DEF NoRead
  <2> QED
    BY <1>2, <1>3, <2>1, <2>2, <2>3 DEF BeginList
<1>4. ASSUME NEW q, o.pc = "list"
      PROVE  /\ DOMAIN Rest(o, q) = DOMAIN NoRead
             /\ Rest(o, q).pc \in {"list", "listed"}
  BY <1>1, <1>4 DEF Rest, NoRead
<1>5. CASE Count(r)
  <2>1. PICK y, v : y = Rest(o, "count") /\ v = Cardinality(Matching(r))
    OBVIOUS
  <2>2. PICK x : x = [y EXCEPT !.total = v]
    OBVIOUS
  <2>3. read' = [read EXCEPT ![r] = x]
    BY <1>1, <1>5, <2>1, <2>2 DEF Count, SummaryInv
  <2>4. o.pc = "list" /\ UNCHANGED catalogueVars
    BY <1>1, <1>5 DEF Count, Answered
  <2>5. DOMAIN y = DOMAIN NoRead /\ y.pc \in {"list", "listed"}
    BY <1>4, <2>1, <2>4
  <2>6. DOMAIN x = DOMAIN NoRead /\ x.pc \in {"idle", "list", "listed"}
    BY <2>2, <2>5 DEF NoRead
  <2> QED
    BY <1>2, <2>3, <2>4, <2>6
<1>6. CASE Page(r)
  <2>1. PICK y, v : y = Rest(o, "page") /\ v = Slice(Matching(r), o.sort, o.page)
    OBVIOUS
  <2>2. PICK x : x = [y EXCEPT !.items = v]
    OBVIOUS
  <2>3. read' = [read EXCEPT ![r] = x]
    BY <1>1, <1>6, <2>1, <2>2 DEF Page, SummaryInv
  <2>4. o.pc = "list" /\ UNCHANGED catalogueVars
    BY <1>1, <1>6 DEF Page, Answered
  <2>5. DOMAIN y = DOMAIN NoRead /\ y.pc \in {"list", "listed"}
    BY <1>4, <2>1, <2>4
  <2>6. DOMAIN x = DOMAIN NoRead /\ x.pc \in {"idle", "list", "listed"}
    BY <2>2, <2>5 DEF NoRead
  <2> QED
    BY <1>2, <2>3, <2>4, <2>6
<1>7. CASE Fetch(r)
  <2>1. PICK y, v : y = Rest(o, "fetch") /\ v = o.ids
    OBVIOUS
  <2>2. PICK x : x = [y EXCEPT !.items = v]
    OBVIOUS
  <2>3. read' = [read EXCEPT ![r] = x]
    BY <1>1, <1>7, <2>1, <2>2 DEF Fetch, SummaryInv
  <2>4. o.pc = "list" /\ UNCHANGED catalogueVars
    BY <1>1, <1>7 DEF Fetch, Answered
  <2>5. DOMAIN y = DOMAIN NoRead /\ y.pc \in {"list", "listed"}
    BY <1>4, <2>1, <2>4
  <2>6. DOMAIN x = DOMAIN NoRead /\ x.pc \in {"idle", "list", "listed"}
    BY <2>2, <2>5 DEF NoRead
  <2> QED
    BY <1>2, <2>3, <2>4, <2>6
<1>8. CASE Candidates(r)
  <2>1. PICK v, w : /\ v = Cardinality(Matching(r))
                    /\ w = Slice(Matching(r), o.sort, o.page)
    OBVIOUS
  <2>2. PICK x : x = [o EXCEPT !.todo = {"fetch"}, !.total = v, !.ids = w]
    OBVIOUS
  <2>3. read' = [read EXCEPT ![r] = x]
    BY <1>1, <1>8, <2>1, <2>2 DEF Candidates
  <2>4. o.pc = "list" /\ UNCHANGED catalogueVars
    BY <1>1, <1>8 DEF Candidates, Answered
  <2>5. DOMAIN x = DOMAIN NoRead /\ x.pc \in {"idle", "list", "listed"}
    BY <1>1, <2>2, <2>4 DEF NoRead
  <2> QED
    BY <1>2, <2>3, <2>4, <2>5
<1>9. CASE Finish(r)
  BY <1>2, <1>9 DEF Finish, NoRead
<1> QED
  BY <1>3, <1>5, <1>6, <1>7, <1>8, <1>9

\* The steps of a summary.
LEMMA SummarySteps ==
  ASSUME SummaryInv, IInv', NEW r \in Readers,
         \/ \E u \in Users : BeginSummary(r, u)
         \/ \E q \in Queries : Query(r, q)
         \/ NameThem(r)
  PROVE  SummaryInv'
<1>1. PICK o : o = read[r] /\ SummaryOK(o)
  BY DEF SummaryInv
<1>2. ASSUME NEW u \in Users, BeginSummary(r, u) PROVE SummaryInv'
  <2>1. PICK x : x = [NoRead EXCEPT !.pc = "summary", !.todo = Queries]
    OBVIOUS
  <2>2. /\ DOMAIN x = DOMAIN NoRead /\ x.pc = "summary" /\ x.todo = Queries
        /\ DOMAIN x.answer = Queries
    BY <2>1 DEF NoRead
  <2>3. SummaryOK(x)
    BY <2>2, ReadAssumption DEF SummaryOK
  <2> QED
    BY <1>2, <2>1, <2>3, ReaderStep DEF BeginSummary
<1>3. ASSUME NEW q \in Queries, Query(r, q) PROVE SummaryInv'
  <2>1. PICK x, a : /\ a = [o.answer EXCEPT ![q] = Answer(q)]
                    /\ x = [o EXCEPT !.todo = @ \ {q}, !.answer = a]
    OBVIOUS
  <2>2. /\ read' = [read EXCEPT ![r] = x] /\ o.pc = "summary"
        /\ UNCHANGED catalogueVars
    BY <1>1, <1>3, <2>1 DEF Query, SummaryInv
  <2>3. /\ DOMAIN x = DOMAIN NoRead /\ x.pc = "summary" /\ x.todo = o.todo \ {q}
        /\ x.answer = a
    BY <1>1, <2>1, <2>2 DEF SummaryOK, NoRead
  <2>4. DOMAIN o.answer = Queries /\ DOMAIN a = Queries
    BY <1>1, <2>1, <2>2 DEF SummaryOK
  <2>5. ASSUME "byCategory" \notin x.todo, NEW c \in Categories, a["byCategory"][c] > 0
        PROVE  Lasts(c)
    <3>1. CASE q = "byCategory"
      <4>1. a["byCategory"] = Answer("byCategory")
        BY <2>1, <2>4, <3>1
      <4> QED
        BY <2>5, <4>1, CountedIsLive DEF Lasts, SummaryInv
    <3>2. CASE q # "byCategory"
      <4>1. a["byCategory"] = o.answer["byCategory"] /\ "byCategory" \notin o.todo
        BY <2>1, <2>3, <2>4, <2>5, <3>2, ReadAssumption
      <4> QED
        BY <1>1, <2>2, <2>5, <4>1 DEF SummaryOK
    <3> QED
      BY <3>1, <3>2
  <2>6. SummaryOK(x)
    BY <2>3, <2>4, <2>5 DEF SummaryOK
  <2> QED
    BY <2>2, <2>6, ReaderStep
<1>4. CASE NameThem(r)
  <2>1. PICK x, blank : /\ blank = {c \in Counted(r) : ~ Live(c)}
                        /\ x = [o EXCEPT !.pc = "summarised", !.blank = blank]
    OBVIOUS
  <2>2. /\ read' = [read EXCEPT ![r] = x] /\ o.pc = "summary" /\ o.todo = {}
        /\ UNCHANGED catalogueVars
    BY <1>1, <1>4, <2>1 DEF NameThem
  <2>3. DOMAIN x = DOMAIN NoRead /\ x.pc = "summarised" /\ x.blank = blank
    BY <1>1, <2>1 DEF SummaryOK, NoRead
  <2>4. \A c \in blank : c \in Categories /\ category[c].removed
    BY <1>1, <2>1, <2>2 DEF SummaryOK, Counted, Lasts
  <2>5. SummaryOK(x)
    BY <2>3, <2>4 DEF SummaryOK
  <2> QED
    BY <2>2, <2>5, ReaderStep
<1> QED
  BY <1>2, <1>3, <1>4

\* The table and the categories change under the reads.
LEMMA ChangeStep ==
  ASSUME SummaryInv, IInv', Change
  PROVE  SummaryInv'
<1>1. CategoriesLast /\ RemovedIsGone'
  BY CatalogueLasts DEF SummaryInv, Change
<1>2. ASSUME NEW r \in Readers PROVE SummaryOK(read[r])'
  <2>1. PICK o, x : o = read[r] /\ x = read'[r] /\ SummaryOK(o)
    BY DEF SummaryInv
  <2>2. CASE o.pc # "list"
    <3>1. x = o
      BY <2>1, <2>2 DEF Change
    <3>2. SummaryOK(x)'
      BY <1>1, <2>1, <3>1, SummaryLasts
    <3> QED
      BY <2>1, <3>2 DEF SummaryOK
  <2>3. CASE o.pc = "list"
    <3>1. \E u, v : x = [o EXCEPT !.ever = u, !.always = v]
      BY <2>1, <2>3 DEF Change
    <3>2. DOMAIN x = DOMAIN NoRead /\ x.pc = "list"
      BY <2>1, <2>3, <3>1 DEF SummaryOK, NoRead
    <3> QED
      BY <2>1, <3>2 DEF SummaryOK
  <2> QED
    BY <2>2, <2>3
<1> QED
  BY <1>1, <1>2 DEF SummaryInv

LEMMA SummaryInit == Init => SummaryInv
<1> SUFFICES ASSUME Init PROVE SummaryInv
  OBVIOUS
<1>1. RemovedIsGone
  BY DEF Init, CatalogueInit, RemovedIsGone, NoCategory
<1>2. SummaryOK(NoRead)
  BY DEF SummaryOK, NoRead
<1>3. \A r \in Readers : read[r] = NoRead
  BY DEF Init
<1> QED
  BY <1>1, <1>2, <1>3, InitIInv DEF SummaryInv

LEMMA SummaryInductive == SummaryInv /\ [Next]_vars => SummaryInv'
<1> SUFFICES ASSUME SummaryInv, [Next]_vars PROVE SummaryInv'
  OBVIOUS
<1>1. IInv'
  BY Inductive DEF SummaryInv
<1>2. CASE UNCHANGED vars
  <2>1. UNCHANGED <<category, read>> /\ UNCHANGED catalogueVars
    BY <1>2 DEF vars, catalogueVars
  <2>2. CategoriesLast /\ RemovedIsGone'
    BY <2>1, CatalogueLasts DEF SummaryInv
  <2>3. ASSUME NEW r \in Readers PROVE SummaryOK(read[r])'
    <3>1. PICK x : x = read[r] /\ SummaryOK(x)
      BY DEF SummaryInv
    <3>2. SummaryOK(x)' /\ read'[r] = x
      BY <2>1, <2>2, <3>1, SummaryLasts
    <3> QED
      BY <3>2 DEF SummaryOK
  <2> QED
    BY <1>1, <2>2, <2>3 DEF SummaryInv
<1> QED
  BY <1>1, <1>2, ListSteps, SummarySteps, ChangeStep DEF Next

\* A category without a name on the dashboard was deleted between the count and
\* the look-up of the names (AnalyticsService.summary): the count itself only
\* sees categories that have a row, which the foreign key ensures.
THEOREM BlankNamesAreDeletions == Spec => []BlankMeansRemoved
<1>1. SummaryInv => BlankMeansRemoved
  BY DEF SummaryInv, SummaryOK, BlankMeansRemoved
<1> QED
  BY <1>1, SummaryInit, SummaryInductive, PTL DEF Spec
-----------------------------------------------------------------------------
(* The list. Whatever its queries find lies between the tickets that       *)
(* qualified at all times and those that did at some time since the list   *)
(* began; these bounds only move apart, so an answer once within them      *)
(* stays within them. The rest is counting: the places of the page are     *)
(* PageSize many, and no two tickets of one answer have the same place.    *)

\* Tickets with a status have a severity.
SeveritiesKnown ==
  \A t \in Tickets : row[t].status \in Status => row[t].severity \in Severities

\* The place of t among ts.
Place(ts, sort, t) == Cardinality({s \in ts : Before(sort, s, t)})

\* Ahead and Places, of the record of a list.
Lead(x, t) ==
  LET before(ts) == Cardinality({s \in ts \ {t} :
                      BySeverity(x.sort) \/ Before(x.sort, s, t)})
  IN  IF BySeverity(x.sort) THEN 0 .. before(x.ever)
      ELSE before(x.always) .. before(x.ever)
First(page) == (page - 1) * PageSize
Places1(page) == First(page) .. First(page) + PageSize - 1

\* ts is a page that list x may show.
Shows(x, ts) ==
  /\ ts \subseteq x.ever
  /\ Cardinality(ts) <= PageSize
  /\ \A t \in x.always : Lead(x, t) \subseteq Places1(x.page) => t \in ts

Counts(x, total) == Cardinality(x.always) <= total /\ total <= Cardinality(x.ever)

ListShape(x) ==
  /\ x.user \in Users /\ x.status \subseteq Status /\ x.sort \in Sorts
  /\ x.page \in Nat \ {0}
  /\ x.todo \subseteq {"count", "page"} \/ x.todo = {"candidates"} \/ x.todo = {"fetch"}
  /\ x.pc = "listed" => x.todo = {}
  /\ x.always \subseteq x.ever /\ x.ever \subseteq Tickets

\* What each answered query of a list has left.
ListOK(x) ==
  x.pc \in {"list", "listed"} =>
    /\ ListShape(x)
    /\ x.pc = "list" => /\ x.always \subseteq Openable(row, x.user, x.status)
                        /\ Openable(row, x.user, x.status) \subseteq x.ever
    /\ x.todo \cap {"count", "candidates"} = {} => Counts(x, x.total) /\ x.total \in Nat
    /\ x.todo = {"fetch"} => Shows(x, x.ids)
    /\ x.todo \cap {"page", "candidates", "fetch"} = {} => Shows(x, x.items)

ListInv == SummaryInv /\ SeveritiesKnown /\ \A r \in Readers : ListOK(read[r])

\* The list and the detail view state the same scope.
LEMMA ScopesAgree ==
  ASSUME NEW u \in Users, NEW x
  PROVE  InScope(u, x) <=> CanView(u, x)
<1>1. Role[u] \in Roles
  BY DirectoryAssumption
<1> QED
  BY <1>1 DEF InScope, CanView, OwnDept, Roles

-----------------------------------------------------------------------------
(* Counting.                                                               *)

LEMMA Ranks == \A v \in Severities : SEVERITY_RANK[v] \in Nat
<1>1. SEVERITY_RANK["Critical"] = 0 /\ SEVERITY_RANK["High"] = 1
  BY DEF SEVERITY_RANK
<1>2. SEVERITY_RANK["Medium"] = 2 /\ SEVERITY_RANK["Low"] = 3
  BY DEF SEVERITY_RANK
<1> QED
  BY <1>1, <1>2, ReadAssumption

\* Tickets with a severity are in a strict and total order.
LEMMA OrderIsStrict ==
  ASSUME SeveritiesKnown, NEW sort \in Sorts, NEW s \in Tickets, NEW t \in Tickets,
         NEW u \in Tickets, row[s].status \in Status, row[t].status \in Status,
         row[u].status \in Status
  PROVE  /\ ~ Before(sort, t, t)
         /\ s # t => Before(sort, s, t) \/ Before(sort, t, s)
         /\ Before(sort, s, t) /\ Before(sort, t, u) => Before(sort, s, u)
<1>1. s \in Nat /\ t \in Nat /\ u \in Nat
  BY CategoryAssumption
<1>2. PICK a \in Nat, b \in Nat, c \in Nat :
        /\ a = SEVERITY_RANK[row[s].severity] /\ b = SEVERITY_RANK[row[t].severity]
        /\ c = SEVERITY_RANK[row[u].severity]
  BY Ranks DEF SeveritiesKnown
<1>3. sort \in {"-createdAt", "createdAt", "-severity", "severity"}
  BY ReadAssumption
<1>4. CASE sort = "-createdAt"
  BY <1>1, <1>4 DEF Before
<1>5. CASE sort = "createdAt"
  BY <1>1, <1>5 DEF Before
<1>6. CASE sort = "-severity"
  BY <1>1, <1>2, <1>6 DEF Before
<1>7. CASE sort = "severity"
  BY <1>1, <1>2, <1>7 DEF Before
<1> QED
  BY <1>3, <1>4, <1>5, <1>6, <1>7

LEMMA TicketsAreFinite ==
  ASSUME NEW S, S \subseteq Tickets
  PROVE  IsFiniteSet(S) /\ Cardinality(S) \in Nat
BY ReadAssumption, FS_Subset, FS_CardinalityType

LEMMA Fewer ==
  ASSUME NEW S, NEW T, S \subseteq T, T \subseteq Tickets
  PROVE  /\ Cardinality(S) <= Cardinality(T)
         /\ Cardinality(S) = Cardinality(T) => S = T
BY TicketsAreFinite, FS_Subset

\* No two tickets have the same place.
LEMMA PlacesDiffer ==
  ASSUME SeveritiesKnown, NEW sort \in Sorts, NEW M \in SUBSET Tickets,
         \A t \in M : row[t].status \in Status,
         NEW s \in M, NEW t \in M, s # t
  PROVE  Place(M, sort, s) # Place(M, sort, t)
<1>1. ASSUME NEW v \in M, NEW w \in M, Before(sort, v, w)
      PROVE  Place(M, sort, v) # Place(M, sort, w)
  <2> DEFINE under(z) == {y \in M : Before(sort, y, z)}
  <2>1. under(v) \subseteq under(w)
    BY <1>1, OrderIsStrict
  <2>2. v \in under(w) /\ v \notin under(v)
    BY <1>1, OrderIsStrict
  <2>3. Place(M, sort, v) = Cardinality(under(v)) /\ Place(M, sort, w) = Cardinality(under(w))
    BY DEF Place
  <2>4. under(w) \subseteq Tickets
    OBVIOUS
  <2> HIDE DEF under
  <2> QED
    BY <2>1, <2>2, <2>3, <2>4, Fewer
<1>2. Before(sort, s, t) \/ Before(sort, t, s)
  BY OrderIsStrict
<1> QED
  BY <1>1, <1>2

LEMMA SliceIs ==
  ASSUME NEW M \in SUBSET Tickets, NEW sort, NEW page \in Nat \ {0}
  PROVE  /\ Slice(M, sort, page) \subseteq M
         /\ \A t \in M : t \in Slice(M, sort, page) <=> Place(M, sort, t) \in Places1(page)
         /\ First(page) \in Nat
<1>1. PageSize \in Nat /\ page * PageSize = First(page) + PageSize /\ First(page) \in Nat
  BY ReadAssumption DEF First
<1>2. ASSUME NEW t \in M PROVE Place(M, sort, t) \in Nat
  <2>1. {s \in M : Before(sort, s, t)} \subseteq Tickets
    OBVIOUS
  <2> QED
    BY <2>1, TicketsAreFinite DEF Place
<1>3. Slice(M, sort, page) = {t \in M : First(page) <= Place(M, sort, t)
                                       /\ Place(M, sort, t) < page * PageSize}
  BY DEF Slice, First, Place
<1> QED
  BY <1>1, <1>2, <1>3 DEF Places1

\* A page has at most PageSize tickets.
LEMMA PageIsSmall ==
  ASSUME SeveritiesKnown, NEW sort \in Sorts, NEW M \in SUBSET Tickets,
         \A t \in M : row[t].status \in Status, NEW page \in Nat \ {0}
  PROVE  Cardinality(Slice(M, sort, page)) <= PageSize
<1> DEFINE S == Slice(M, sort, page)
           T == Places1(page)
           f == [t \in S |-> Place(M, sort, t)]
<1>1. S \subseteq M /\ \A t \in S : Place(M, sort, t) \in T
  BY SliceIs
<1>2. \A s, t \in S : s # t => Place(M, sort, s) # Place(M, sort, t)
  BY <1>1, PlacesDiffer
<1>3. First(page) \in Nat /\ PageSize \in Nat /\ PageSize > 0
  BY SliceIs, ReadAssumption
<1>4. IsFiniteSet(T) /\ Cardinality(T) = PageSize
  <2>1. PICK a, b \in Int : a = First(page) /\ b = First(page) + PageSize - 1
    BY <1>3
  <2>2. T = a .. b /\ a <= b /\ b - a + 1 = PageSize
    BY <1>3, <2>1 DEF Places1
  <2>3. IsFiniteSet(a .. b) /\ Cardinality(a .. b) = b - a + 1
    BY <2>1, <2>2, FS_Interval
  <2> HIDE DEF T
  <2> QED
    BY <2>2, <2>3
<1>5. f \in [S -> T]
  BY <1>1
<1>6. \A s, t \in S : f[s] = f[t] => s = t
  BY <1>2
<1> HIDE DEF S, T, f
<1>7. f \in Injection(S, T)
  BY <1>5, <1>6 DEF Injection, IsInjective
<1> QED
  BY <1>4, <1>7, FS_Injection DEF S

\* A ticket that qualified at all times has one of its possible places.
LEMMA PlaceIsLed ==
  ASSUME SeveritiesKnown, NEW x, x.sort \in Sorts, NEW M, x.always \subseteq M,
         M \subseteq x.ever, x.ever \subseteq Tickets,
         \A t \in M : row[t].status \in Status, NEW t \in x.always
  PROVE  Place(M, x.sort, t) \in Lead(x, t)
<1> DEFINE under == {s \in M : Before(x.sort, s, t)}
           before(ts) == {s \in ts \ {t} : BySeverity(x.sort) \/ Before(x.sort, s, t)}
<1>1. Place(M, x.sort, t) = Cardinality(under)
  BY DEF Place
<1>2. Lead(x, t) = IF BySeverity(x.sort) THEN 0 .. Cardinality(before(x.ever))
                   ELSE Cardinality(before(x.always)) .. Cardinality(before(x.ever))
  BY DEF Lead
<1>3. ~ Before(x.sort, t, t)
  BY OrderIsStrict
<1>4. under \subseteq before(x.ever) /\ before(x.ever) \subseteq Tickets
  BY <1>3
<1>5. ~ BySeverity(x.sort) => before(x.always) \subseteq under
  OBVIOUS
<1>6. under \subseteq Tickets /\ before(x.always) \subseteq Tickets
  OBVIOUS
<1> HIDE DEF under, before
<1>7. /\ Cardinality(under) \in Nat /\ Cardinality(before(x.ever)) \in Nat
      /\ Cardinality(before(x.always)) \in Nat
  BY <1>4, <1>6, TicketsAreFinite
<1>8. Cardinality(under) <= Cardinality(before(x.ever))
  BY <1>4, Fewer
<1>9. ~ BySeverity(x.sort) => Cardinality(before(x.always)) <= Cardinality(under)
  BY <1>5, <1>6, Fewer
<1> QED
  BY <1>1, <1>2, <1>7, <1>8, <1>9

\* What one query finds is within the bounds.
LEMMA AnswerIsWithin ==
  ASSUME SeveritiesKnown, NEW x, x.sort \in Sorts, x.page \in Nat \ {0}, NEW M,
         x.always \subseteq M, M \subseteq x.ever, x.ever \subseteq Tickets,
         \A t \in M : row[t].status \in Status
  PROVE  /\ Shows(x, Slice(M, x.sort, x.page))
         /\ Counts(x, Cardinality(M)) /\ Cardinality(M) \in Nat
<1>1. M \in SUBSET Tickets
  OBVIOUS
<1>2. Slice(M, x.sort, x.page) \subseteq x.ever
  BY <1>1, SliceIs
<1>3. Cardinality(Slice(M, x.sort, x.page)) <= PageSize
  BY <1>1, PageIsSmall
<1>4. ASSUME NEW t \in x.always, Lead(x, t) \subseteq Places1(x.page)
      PROVE  t \in Slice(M, x.sort, x.page)
  <2>1. Place(M, x.sort, t) \in Places1(x.page)
    BY <1>4, PlaceIsLed
  <2> QED
    BY <1>1, <2>1, SliceIs
<1>5. Counts(x, Cardinality(M)) /\ Cardinality(M) \in Nat
  BY <1>1, Fewer, TicketsAreFinite DEF Counts
<1> QED
  BY <1>2, <1>3, <1>4, <1>5 DEF Shows

\* The bounds move apart, and an answer within them stays there.
LEMMA BoundsMoveApart ==
  ASSUME NEW x, NEW y, y.sort = x.sort, y.page = x.page, x.always \subseteq Tickets,
         x.ever \subseteq y.ever, y.always \subseteq x.always, y.ever \subseteq Tickets
  PROVE  /\ \A ts : Shows(x, ts) => Shows(y, ts)
         /\ \A n \in Nat : Counts(x, n) => Counts(y, n)
<1>1. ASSUME NEW t PROVE Lead(x, t) \subseteq Lead(y, t)
  <2> DEFINE before(ts) == {s \in ts \ {t} : BySeverity(x.sort) \/ Before(x.sort, s, t)}
  <2>1. Lead(x, t) = IF BySeverity(x.sort) THEN 0 .. Cardinality(before(x.ever))
                     ELSE Cardinality(before(x.always)) .. Cardinality(before(x.ever))
    BY DEF Lead
  <2>2. Lead(y, t) = IF BySeverity(x.sort) THEN 0 .. Cardinality(before(y.ever))
                     ELSE Cardinality(before(y.always)) .. Cardinality(before(y.ever))
    BY DEF Lead
  <2>3. /\ before(x.ever) \subseteq before(y.ever) /\ before(y.ever) \subseteq Tickets
        /\ before(y.always) \subseteq before(x.always)
        /\ before(x.always) \subseteq Tickets
    OBVIOUS
  <2> HIDE DEF before
  <2>4. /\ Cardinality(before(x.ever)) <= Cardinality(before(y.ever))
        /\ Cardinality(before(y.always)) <= Cardinality(before(x.always))
    BY <2>3, Fewer
  <2>5. /\ Cardinality(before(x.ever)) \in Nat /\ Cardinality(before(y.ever)) \in Nat
        /\ Cardinality(before(x.always)) \in Nat /\ Cardinality(before(y.always)) \in Nat
    BY <2>3, TicketsAreFinite
  <2> QED
    BY <2>1, <2>2, <2>4, <2>5
<1>2. ASSUME NEW ts, Shows(x, ts) PROVE Shows(y, ts)
  BY <1>1, <1>2 DEF Shows
<1>3. ASSUME NEW n \in Nat, Counts(x, n) PROVE Counts(y, n)
  <2>1. /\ Cardinality(y.always) <= Cardinality(x.always)
        /\ Cardinality(x.ever) <= Cardinality(y.ever)
    BY Fewer
  <2>2. /\ Cardinality(x.always) \in Nat /\ Cardinality(y.always) \in Nat
        /\ Cardinality(x.ever) \in Nat /\ Cardinality(y.ever) \in Nat
    BY TicketsAreFinite
  <2> QED
    BY <1>3, <2>1, <2>2 DEF Counts
<1> QED
  BY <1>2, <1>3

\* The places do not depend on the rows of the moment, and so neither does what
\* a list may show.
LEMMA ShowsLasts ==
  ASSUME NEW x, x.sort \in Sorts, NEW ts, Shows(x, ts)
  PROVE  Shows(x, ts)'
<1>1. ASSUME NEW t PROVE Lead(x, t)' = Lead(x, t)
  <2>1. CASE BySeverity(x.sort)
    BY <2>1 DEF Lead, BySeverity
  <2>2. CASE ~ BySeverity(x.sort)
    <3>1. x.sort \in {"-createdAt", "createdAt"}
      BY <2>2, ReadAssumption DEF BySeverity
    <3> QED
      BY <3>1 DEF Lead, Before, BySeverity
  <2> QED
    BY <2>1, <2>2
<1> QED
  BY <1>1 DEF Shows, Places1, First

-----------------------------------------------------------------------------
(* The steps.                                                              *)

\* The table never has a ticket without a severity.
LEMMA SeveritiesLast ==
  ASSUME IInv, SeveritiesKnown, CatalogueNext \/ UNCHANGED catalogueVars
  PROVE  SeveritiesKnown'
<1>1. /\ DOMAIN row = Tickets
      /\ \A t \in Tickets : DOMAIN row[t] = DOMAIN NoRow
  BY DEF IInv, Typed
<1>2. ASSUME \A t \in Tickets : /\ row'[t].status = row[t].status
                                /\ row'[t].severity = row[t].severity
      PROVE  SeveritiesKnown'
  BY <1>2 DEF SeveritiesKnown
<1>3. ASSUME NEW t \in Tickets, NEW k \in Moves, Move(t, k)
      PROVE  SeveritiesKnown'
  <2>1. row[t].status \in Status
    <3>1. TRANSITIONS[k].allowedFrom \subseteq Status
      BY CategoryAssumption DEF TransitionKey, TRANSITIONS, Rule, Status, OpenStatus
    <3> QED
      BY <1>3, <3>1 DEF Move
  <2>2. row[t].severity \in Severities
    BY <2>1 DEF SeveritiesKnown
  <2>3. PICK s \in Leaves(k, row[t].status), x \in Sets(k).to :
          row' = [row EXCEPT ![t] = [c \in DOMAIN NoRow |->
                    IF c = "status" THEN s ELSE IF c = Sets(k).column THEN x ELSE @[c]]]
    BY <1>3 DEF Move
  <2>4. Sets(k).column = "severity" => Sets(k).to = Severities
    BY DEF Sets
  <2>5. "severity" \in DOMAIN NoRow
    BY DEF NoRow
  <2>6. row'[t].severity = IF "severity" = Sets(k).column THEN x ELSE row[t].severity
    BY <1>1, <2>3, <2>5
  <2>7. row'[t].severity \in Severities
    BY <2>2, <2>3, <2>4, <2>6
  <2>8. \A u \in Tickets : u # t => row'[u] = row[u]
    BY <1>1, <2>3
  <2> QED
    BY <2>7, <2>8 DEF SeveritiesKnown
<1>4. ASSUME NEW p \in Procs, NEW u \in Requesters, NEW s \in Severities, OpenTicket(p, u, s)
      PROVE  SeveritiesKnown'
  <2>1. PICK t \in Tickets : Open(t, u, s, creq[p].c)
    BY <1>4 DEF OpenTicket
  <2>2. PICK x : x = [status |-> "Pending", requester |-> u, assignee |-> NULL,
                      dept |-> NULL, severity |-> s, category |-> creq[p].c]
    OBVIOUS
  <2>3. row' = [row EXCEPT ![t] = x] /\ x.severity = s
    BY <2>1, <2>2 DEF Open
  <2> QED
    BY <1>1, <2>3 DEF SeveritiesKnown
<1>5. ASSUME NEW p \in Procs, Assign(p) PROVE SeveritiesKnown'
  <2>1. PICK t, c : row' = [row EXCEPT ![t].category = c]
    BY <1>5 DEF Assign, Categorise
  <2> QED
    BY <1>1, <1>2, <2>1 DEF NoRow
<1>6. ASSUME NEW p \in Procs, Remove(p) PROVE SeveritiesKnown'
  BY <1>1, <1>2, <1>6 DEF Remove, NoRow
<1>7. ASSUME NEW p \in Procs,
             \/ \E name \in Names : BeginCreate(p, name)
             \/ \E c \in Categories :
                  \/ \E patch \in Patches : BeginUpdate(p, c, patch.name, patch.isActive)
                  \/ BeginRemove(p, c) \/ Create(p, c)
             \/ \E c \in Categories \cup {NULL} :
                  BeginOpen(p, c) \/ \E t \in Tickets, u \in Users : BeginAssign(p, t, c, u)
             \/ Update(p) \/ Fail(p)
      PROVE  row' = row
  BY <1>7 DEF BeginCreate, BeginUpdate, BeginRemove, BeginOpen, BeginAssign, Begin,
     Create, Update, Fail
<1>8. row' = row => SeveritiesKnown'
  BY <1>2
<1> QED
  BY <1>3, <1>4, <1>5, <1>6, <1>7, <1>8 DEF CatalogueNext, catalogueVars

\* What holds of a list holds as long as the rows do.
LEMMA ListLasts ==
  ASSUME UNCHANGED row, NEW x, ListOK(x)
  PROVE  ListOK(x)'
<1>1. Openable(row, x.user, x.status)' = Openable(row, x.user, x.status)
  BY DEF Openable
<1>2. ListShape(x) => x.sort \in Sorts
  BY DEF ListShape
<1>3. ASSUME x.sort \in Sorts, NEW ts, Shows(x, ts) PROVE Shows(x, ts)'
  BY <1>3, ShowsLasts
<1> QED
  BY <1>1, <1>2, <1>3 DEF ListOK, ListShape, Counts

\* Reader r goes on with x.
LEMMA ListReaderStep ==
  ASSUME ListInv, NEW r \in Readers, NEW x, read' = [read EXCEPT ![r] = x],
         UNCHANGED catalogueVars, SummaryInv', ListOK(x)
  PROVE  ListInv'
<1>1. UNCHANGED row
  BY DEF catalogueVars
<1>2. \A q \in Readers : read'[q] = x \/ read'[q] = read[q]
  OBVIOUS
<1>3. ASSUME NEW q \in Readers PROVE ListOK(read[q])'
  <2>1. PICK y : y = read'[q] /\ ListOK(y)
    BY <1>2 DEF ListInv
  <2>2. ListOK(y)'
    BY <1>1, <2>1, ListLasts
  <2> QED
    BY <2>1, <2>2 DEF ListOK
<1>4. SeveritiesKnown'
  BY <1>1 DEF ListInv, SeveritiesKnown
<1> QED
  BY <1>3, <1>4 DEF ListInv

\* What the queries of list o match at the moment.
LEMMA MatchesAreWithin ==
  ASSUME ListInv, NEW r \in Readers, NEW o, o = read[r], o.pc = "list"
  PROVE  /\ ListShape(o)
         /\ Shows(o, Slice(Matching(r), o.sort, o.page))
         /\ Counts(o, Cardinality(Matching(r))) /\ Cardinality(Matching(r)) \in Nat
<1>1. ListOK(o)
  BY DEF ListInv
<1>2. /\ ListShape(o) /\ o.always \subseteq Openable(row, o.user, o.status)
      /\ Openable(row, o.user, o.status) \subseteq o.ever
  BY <1>1 DEF ListOK
<1>3. Matching(r) = Openable(row, o.user, o.status)
  BY <1>2, ScopesAgree DEF Matching, Openable, ListShape
<1>4. \A t \in Matching(r) : row[t].status \in Status
  BY <1>2 DEF Matching, ListShape
<1>5. o.sort \in Sorts /\ o.page \in Nat \ {0} /\ o.ever \subseteq Tickets
  BY <1>2 DEF ListShape
<1>6. PICK M : M = Matching(r)
  OBVIOUS
<1>7. SeveritiesKnown
  BY DEF ListInv
<1>8. /\ Shows(o, Slice(M, o.sort, o.page))
      /\ Counts(o, Cardinality(M)) /\ Cardinality(M) \in Nat
  BY <1>2, <1>3, <1>4, <1>5, <1>6, <1>7, AnswerIsWithin
<1> QED
  BY <1>2, <1>6, <1>8

\* A list begins.
LEMMA BeginListStep ==
  ASSUME ListInv, SummaryInv', NEW r \in Readers, NEW u \in Users,
         NEW words \in StatusQueries, NEW sort \in Sorts, NEW page \in 1 .. MaxPage,
         BeginList(r, u, words, sort, page)
  PROVE  ListInv'
<1>1. PICK status, ts : status = StatusFilter(words) /\ ts = Openable(row, u, status)
  OBVIOUS
<1>2. PICK todo : todo = IF BySeverity(sort) THEN {"candidates"} ELSE {"count", "page"}
  OBVIOUS
<1>3. PICK x : x = [NoRead EXCEPT
        !.pc = "list", !.user = u, !.status = status, !.sort = sort, !.page = page,
        !.todo = todo, !.ever = ts, !.always = ts]
  OBVIOUS
<1>4. read' = [read EXCEPT ![r] = x] /\ UNCHANGED catalogueVars
  BY <1>1, <1>2, <1>3 DEF BeginList
<1>5. /\ x.pc = "list" /\ x.user = u /\ x.status = status /\ x.sort = sort
      /\ x.page = page /\ x.todo = todo /\ x.ever = ts /\ x.always = ts
  BY <1>3 DEF NoRead
<1>6. status \subseteq Status /\ ts \subseteq Tickets
  BY <1>1 DEF StatusFilter, Openable
<1>7. page \in Nat \ {0}
  BY ReadAssumption
<1>8. ListOK(x)
  BY <1>1, <1>2, <1>5, <1>6, <1>7 DEF ListOK, ListShape
<1> QED
  BY <1>4, <1>8, ListReaderStep

\* A query is answered.
LEMMA AnswerSteps ==
  ASSUME ListInv, SummaryInv', NEW r \in Readers,
         Count(r) \/ Page(r) \/ Candidates(r) \/ Fetch(r)
  PROVE  ListInv'
<1>1. PICK o : o = read[r] /\ DOMAIN o = DOMAIN NoRead
  BY DEF ListInv, SummaryInv, SummaryOK
<1>2. PICK n, ts : n = Cardinality(Matching(r)) /\ ts = Slice(Matching(r), o.sort, o.page)
  OBVIOUS
<1>3. o.pc = "list" /\ UNCHANGED catalogueVars
  BY <1>1 DEF Count, Page, Candidates, Fetch, Answered
<1>4. ListShape(o) /\ Shows(o, ts) /\ Counts(o, n) /\ n \in Nat
  BY <1>1, <1>2, <1>3, MatchesAreWithin
<1>5. ListOK(o)
  BY <1>1 DEF ListInv
<1>6. ASSUME NEW x, read' = [read EXCEPT ![r] = x],
             x.user = o.user, x.status = o.status, x.sort = o.sort, x.page = o.page,
             x.always = o.always, x.ever = o.ever,
             \/ x.pc = "list"
             \/ x.pc = "listed" /\ x.todo = {},
             \/ x.todo \subseteq {"count", "page"}
             \/ x.todo = {"fetch"} /\ Shows(o, x.ids),
             x.todo \cap {"count", "candidates"} = {} => Counts(o, x.total) /\ x.total \in Nat,
             x.todo \cap {"page", "candidates", "fetch"} = {} => Shows(o, x.items)
      PROVE  ListInv'
  <2>1. o.always \subseteq Tickets /\ o.ever \subseteq Tickets
    BY <1>4 DEF ListShape
  <2>2. \A s : Shows(o, s) => Shows(x, s)
    BY <1>6, <2>1, BoundsMoveApart
  <2>3. \A m : Counts(o, m) => Counts(x, m)
    BY <1>6 DEF Counts
  <2>4. ListShape(x)
    BY <1>4, <1>6 DEF ListShape
  <2>5. /\ x.always \subseteq Openable(row, x.user, x.status)
        /\ Openable(row, x.user, x.status) \subseteq x.ever
    BY <1>3, <1>5, <1>6 DEF ListOK
  <2>6. ListOK(x)
    BY <1>6, <2>2, <2>3, <2>4, <2>5 DEF ListOK
  <2> QED
    BY <1>3, <1>6, <2>6, ListReaderStep
<1>7. ASSUME NEW q, NEW y, y = Rest(o, q)
      PROVE  /\ DOMAIN y = DOMAIN NoRead /\ y.todo = o.todo \ {q}
             /\ y.pc = IF o.todo = {q} THEN "listed" ELSE "list"
             /\ y.user = o.user /\ y.status = o.status /\ y.sort = o.sort
             /\ y.page = o.page /\ y.always = o.always /\ y.ever = o.ever
             /\ y.ids = o.ids /\ y.items = o.items /\ y.total = o.total
  BY <1>1, <1>3, <1>7 DEF Rest, NoRead
<1>8. CASE Count(r)
  <2>1. PICK y : y = Rest(o, "count")
    OBVIOUS
  <2>2. PICK x : x = [y EXCEPT !.total = n]
    OBVIOUS
  <2>3. read' = [read EXCEPT ![r] = x]
    BY <1>1, <1>2, <1>8, <2>1, <2>2 DEF Count, ListInv, SummaryInv
  <2>4. "count" \in o.todo
    BY <1>1, <1>8 DEF Count, Answered
  <2>5. /\ x.todo = o.todo \ {"count"} /\ x.pc = (IF o.todo = {"count"} THEN "listed" ELSE "list")
        /\ x.user = o.user /\ x.status = o.status /\ x.sort = o.sort
        /\ x.page = o.page /\ x.always = o.always /\ x.ever = o.ever
        /\ x.items = o.items /\ x.total = n
    BY <1>7, <2>1, <2>2 DEF NoRead
  <2>6. o.todo \subseteq {"count", "page"}
    BY <1>4, <2>4 DEF ListShape
  <2>7. "page" \notin o.todo => Shows(o, o.items)
    BY <1>3, <1>5, <2>6 DEF ListOK
  <2>8. x.todo \cap {"page", "candidates", "fetch"} = {} => Shows(o, x.items)
    BY <2>5, <2>7
  <2>9. (x.pc = "list") \/ (x.pc = "listed" /\ x.todo = {})
    BY <2>5
  <2>10. x.todo \subseteq {"count", "page"} /\ Counts(o, x.total) /\ x.total \in Nat
    BY <1>4, <2>5, <2>6
  <2> QED
    BY <1>6, <2>3, <2>5, <2>8, <2>9, <2>10
<1>9. CASE Page(r)
  <2>1. PICK y : y = Rest(o, "page")
    OBVIOUS
  <2>2. PICK x : x = [y EXCEPT !.items = ts]
    OBVIOUS
  <2>3. read' = [read EXCEPT ![r] = x]
    BY <1>1, <1>2, <1>9, <2>1, <2>2 DEF Page, ListInv, SummaryInv
  <2>4. "page" \in o.todo
    BY <1>1, <1>9 DEF Page, Answered
  <2>5. /\ x.todo = o.todo \ {"page"} /\ x.pc = (IF o.todo = {"page"} THEN "listed" ELSE "list")
        /\ x.user = o.user /\ x.status = o.status /\ x.sort = o.sort
        /\ x.page = o.page /\ x.always = o.always /\ x.ever = o.ever
        /\ x.items = ts /\ x.total = o.total
    BY <1>7, <2>1, <2>2 DEF NoRead
  <2>6. o.todo \subseteq {"count", "page"}
    BY <1>4, <2>4 DEF ListShape
  <2>7. "count" \notin o.todo => Counts(o, o.total) /\ o.total \in Nat
    BY <1>3, <1>5, <2>6 DEF ListOK
  <2>8. x.todo \cap {"count", "candidates"} = {} => Counts(o, x.total) /\ x.total \in Nat
    BY <2>5, <2>7
  <2>9. (x.pc = "list") \/ (x.pc = "listed" /\ x.todo = {})
    BY <2>5
  <2>10. x.todo \subseteq {"count", "page"} /\ Shows(o, x.items)
    BY <1>4, <2>5, <2>6
  <2> QED
    BY <1>6, <2>3, <2>5, <2>8, <2>9, <2>10
<1>10. CASE Candidates(r)
  <2>1. PICK x : x = [o EXCEPT !.todo = {"fetch"}, !.total = n, !.ids = ts]
    OBVIOUS
  <2>2. read' = [read EXCEPT ![r] = x]
    BY <1>1, <1>2, <1>10, <2>1 DEF Candidates
  <2>3. /\ x.todo = {"fetch"} /\ x.pc = "list"
        /\ x.user = o.user /\ x.status = o.status /\ x.sort = o.sort
        /\ x.page = o.page /\ x.always = o.always /\ x.ever = o.ever
        /\ x.ids = ts /\ x.total = n
    BY <1>1, <1>3, <2>1 DEF NoRead
  <2>4. Shows(o, x.ids) /\ Counts(o, x.total) /\ x.total \in Nat
    BY <1>4, <2>3
  <2> QED
    BY <1>6, <2>2, <2>3, <2>4
<1>11. CASE Fetch(r)
  <2>1. PICK y : y = Rest(o, "fetch")
    OBVIOUS
  <2>2. PICK v : v = o.ids
    OBVIOUS
  <2>3. PICK x : x = [y EXCEPT !.items = v]
    OBVIOUS
  <2>4. read' = [read EXCEPT ![r] = x]
    BY <1>1, <1>11, <2>1, <2>2, <2>3 DEF Fetch, ListInv, SummaryInv
  <2>5. o.todo = {"fetch"}
    BY <1>1, <1>4, <1>11 DEF Fetch, Answered, ListShape
  <2>6. /\ x.todo = {} /\ x.pc = "listed"
        /\ x.user = o.user /\ x.status = o.status /\ x.sort = o.sort
        /\ x.page = o.page /\ x.always = o.always /\ x.ever = o.ever
        /\ x.items = o.ids /\ x.total = o.total
    BY <1>7, <2>1, <2>2, <2>3, <2>5 DEF NoRead
  <2>7. Shows(o, o.ids) /\ Counts(o, o.total) /\ o.total \in Nat
    BY <1>3, <1>5, <2>5 DEF ListOK
  <2> QED
    BY <1>6, <2>4, <2>6, <2>7
<1> QED
  BY <1>8, <1>9, <1>10, <1>11

\* A read that is not a list claims nothing of the list.
LEMMA OtherReads ==
  ASSUME ListInv, SummaryInv', NEW r \in Readers,
         \/ \E u \in Users : BeginSummary(r, u)
         \/ \E q \in Queries : Query(r, q)
         \/ NameThem(r) \/ Finish(r)
  PROVE  ListInv'
<1>1. PICK o : o = read[r] /\ DOMAIN o = DOMAIN NoRead
  BY DEF ListInv, SummaryInv, SummaryOK
<1>2. ASSUME NEW x, read' = [read EXCEPT ![r] = x], UNCHANGED catalogueVars,
             x.pc \notin {"list", "listed"}
      PROVE  ListInv'
  BY <1>2, ListReaderStep DEF ListOK
<1>3. ASSUME NEW u \in Users, BeginSummary(r, u) PROVE ListInv'
  <2>1. PICK x : x = [NoRead EXCEPT !.pc = "summary", !.todo = Queries]
    OBVIOUS
  <2>2. x.pc = "summary"
    BY <2>1 DEF NoRead
  <2> QED
    BY <1>2, <1>3, <2>1, <2>2 DEF BeginSummary
<1>4. ASSUME NEW q \in Queries, Query(r, q) PROVE ListInv'
  <2>1. PICK x, a : /\ a = [o.answer EXCEPT ![q] = Answer(q)]
                    /\ x = [o EXCEPT !.todo = @ \ {q}, !.answer = a]
    OBVIOUS
  <2>2. /\ read' = [read EXCEPT ![r] = x] /\ o.pc = "summary"
        /\ UNCHANGED catalogueVars
    BY <1>1, <1>4, <2>1 DEF Query, ListInv, SummaryInv
  <2>3. x.pc = "summary"
    BY <1>1, <2>1, <2>2 DEF NoRead
  <2> QED
    BY <1>2, <2>2, <2>3
<1>5. CASE NameThem(r)
  <2>1. PICK x, blank : /\ blank = {c \in Counted(r) : ~ Live(c)}
                        /\ x = [o EXCEPT !.pc = "summarised", !.blank = blank]
    OBVIOUS
  <2>2. read' = [read EXCEPT ![r] = x] /\ UNCHANGED catalogueVars
    BY <1>1, <1>5, <2>1 DEF NameThem
  <2>3. x.pc = "summarised"
    BY <1>1, <2>1 DEF NoRead
  <2> QED
    BY <1>2, <2>2, <2>3
<1>6. CASE Finish(r)
  BY <1>2, <1>6 DEF Finish, NoRead
<1> QED
  BY <1>3, <1>4, <1>5, <1>6

\* The table changes under the lists.
LEMMA ChangeLists ==
  ASSUME ListInv, SummaryInv', Change
  PROVE  ListInv'
<1>1. SeveritiesKnown'
  BY SeveritiesLast DEF ListInv, SummaryInv, Change
<1>2. ASSUME NEW r \in Readers PROVE ListOK(read[r])'
  <2>1. PICK o, x : o = read[r] /\ x = read'[r] /\ ListOK(o) /\ DOMAIN o = DOMAIN NoRead
    BY DEF ListInv, SummaryInv, SummaryOK
  <2>2. CASE o.pc \notin {"list", "listed"}
    <3>1. x.pc \notin {"list", "listed"}
      BY <2>1, <2>2 DEF Change
    <3> QED
      BY <2>1, <3>1 DEF ListOK
  <2>3. CASE o.pc = "listed"
    <3>1. x = o
      BY <2>1, <2>3 DEF Change
    <3>2. /\ ListShape(o) /\ o.todo = {} /\ Counts(o, o.total) /\ o.total \in Nat
          /\ Shows(o, o.items)
      BY <2>1, <2>3 DEF ListOK, ListShape
    <3>3. Shows(o, o.items)'
      BY <3>2, ShowsLasts DEF ListShape
    <3>4. Counts(o, o.total)' /\ ListShape(o)'
      BY <3>2 DEF Counts, ListShape
    <3>5. ListOK(o)'
      BY <2>3, <3>2, <3>3, <3>4 DEF ListOK
    <3> QED
      BY <2>1, <3>1, <3>5 DEF ListOK
  <2>4. CASE o.pc = "list"
    <3>1. PICK ts : ts = Openable(row', o.user, o.status)
      OBVIOUS
    <3>2. PICK ever, always : ever = o.ever \cup ts /\ always = o.always \cap ts
      OBVIOUS
    <3>3. x = [o EXCEPT !.ever = ever, !.always = always]
      BY <2>1, <2>4, <3>1, <3>2 DEF Change
    <3>4. /\ x.pc = "list" /\ x.user = o.user /\ x.status = o.status /\ x.sort = o.sort
          /\ x.page = o.page /\ x.todo = o.todo /\ x.ids = o.ids /\ x.items = o.items
          /\ x.total = o.total /\ x.ever = ever /\ x.always = always
      BY <2>1, <2>4, <3>3 DEF NoRead
    <3>5. ListShape(o)
      BY <2>1, <2>4 DEF ListOK
    <3>6. /\ o.always \subseteq Tickets /\ o.ever \subseteq ever /\ always \subseteq o.always
          /\ ever \subseteq Tickets
      BY <3>1, <3>2, <3>5 DEF ListShape, Openable
    <3>7. always \subseteq ever
      BY <3>2
    <3>8. ListShape(x)
      BY <3>4, <3>5, <3>6, <3>7 DEF ListShape
    <3>9. /\ \A s : Shows(o, s) => Shows(x, s)
          /\ \A n \in Nat : Counts(o, n) => Counts(x, n)
      BY <3>4, <3>6, BoundsMoveApart
    <3>10. /\ x.todo \cap {"count", "candidates"} = {} => Counts(x, x.total) /\ x.total \in Nat
           /\ x.todo = {"fetch"} => Shows(x, x.ids)
           /\ x.todo \cap {"page", "candidates", "fetch"} = {} => Shows(x, x.items)
      BY <2>1, <2>4, <3>4, <3>9 DEF ListOK
    <3>11. /\ x.todo = {"fetch"} => Shows(x, x.ids)'
           /\ x.todo \cap {"page", "candidates", "fetch"} = {} => Shows(x, x.items)'
      BY <3>8, <3>10, ShowsLasts DEF ListShape
    <3>12. /\ x.always \subseteq Openable(row', x.user, x.status)
           /\ Openable(row', x.user, x.status) \subseteq x.ever
      BY <3>1, <3>2, <3>4
    <3>13. ListOK(x)'
      BY <3>4, <3>8, <3>10, <3>11, <3>12 DEF ListOK, ListShape, Counts
    <3> QED
      BY <2>1, <3>13 DEF ListOK
  <2> QED
    BY <2>2, <2>3, <2>4
<1> QED
  BY <1>1, <1>2 DEF ListInv

LEMMA ListInit == Init => ListInv
<1> SUFFICES ASSUME Init PROVE ListInv
  OBVIOUS
<1>1. SeveritiesKnown
  BY CategoryAssumption DEF Init, CatalogueInit, TableInit, SeveritiesKnown, NoRow
<1>2. ListOK(NoRead)
  BY DEF ListOK, NoRead
<1>3. \A r \in Readers : read[r] = NoRead
  BY DEF Init
<1> QED
  BY <1>1, <1>2, <1>3, SummaryInit DEF ListInv

LEMMA ListInductive == ListInv /\ [Next]_vars => ListInv'
<1> SUFFICES ASSUME ListInv, [Next]_vars PROVE ListInv'
  OBVIOUS
<1>1. SummaryInv'
  BY SummaryInductive DEF ListInv
<1>2. CASE UNCHANGED vars
  <2>1. UNCHANGED <<row, read>> /\ UNCHANGED catalogueVars
    BY <1>2 DEF vars, catalogueVars
  <2>2. SeveritiesKnown'
    BY <2>1 DEF ListInv, SeveritiesKnown
  <2>3. ASSUME NEW r \in Readers PROVE ListOK(read[r])'
    <3>1. PICK x : x = read[r] /\ ListOK(x)
      BY DEF ListInv
    <3>2. ListOK(x)' /\ read'[r] = x
      BY <2>1, <3>1, ListLasts
    <3> QED
      BY <3>2 DEF ListOK
  <2> QED
    BY <1>1, <2>2, <2>3 DEF ListInv
<1> QED
  BY <1>1, <1>2, BeginListStep, AnswerSteps, OtherReads, ChangeLists DEF Next

\* A list shows only tickets that its caller could have opened at some moment of
\* the request, leaves out no ticket of its page that qualified all the time,
\* and its total lies between the two, whatever commits between its queries
\* (TicketService.list with ticketWhereForCaller against assertCanViewTicket).
THEOREM ListsAreBracketed == Spec => []ListIsBracketed
<1>1. ListInv => ListIsBracketed
  <2> SUFFICES ASSUME ListInv, NEW r \in Readers, read[r].pc = "listed"
               PROVE  LET x == read[r] IN
                      /\ x.items \subseteq x.ever
                      /\ Cardinality(x.items) <= PageSize
                      /\ \A t \in x.always : Ahead(r, t) \subseteq Places(r) => t \in x.items
                      /\ Cardinality(x.always) <= x.total /\ x.total <= Cardinality(x.ever)
    BY DEF ListIsBracketed
  <2>1. PICK x : x = read[r]
    OBVIOUS
  <2>2. ListShape(x) /\ Shows(x, x.items) /\ Counts(x, x.total)
    BY <2>1 DEF ListInv, ListOK, ListShape
  <2>3. \A t : Ahead(r, t) = Lead(x, t)
    BY <2>1 DEF Ahead, Lead
  <2>4. Places(r) = Places1(x.page)
    <3>1. PICK page \in Nat \ {0}, size \in Nat : page = x.page /\ size = PageSize
      BY <2>2, ReadAssumption DEF ListShape
    <3>2. page * size - 1 = (page - 1) * size + size - 1
      BY <3>1
    <3> QED
      BY <2>1, <3>1, <3>2 DEF Places, Places1, First
  <2> QED
    BY <2>1, <2>2, <2>3, <2>4 DEF Shows, Counts
<1> QED
  BY <1>1, ListInit, ListInductive, PTL DEF Spec
=============================================================================
