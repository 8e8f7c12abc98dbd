------------------------------ MODULE UserProofs ------------------------------
(***************************************************************************)
(* What holds of the user directory for any number of users, accounts and  *)
(* overlapping requests.                                                   *)
(*                                                                         *)
(* The argument: rows are never removed and grants never withdrawn from    *)
(* the history, so what a request has read of a row stays true in the      *)
(* sense the invariant needs, however long the request takes: the row is   *)
(* there, and its role was granted.                                        *)
(*                                                                         *)
(* The last section is about the checks of the service, which are made in  *)
(* statements of their own: unless another request writes the row in       *)
(* between, what a request has read still is what the row holds when it    *)
(* writes. The history variable outdated tells the two cases apart.        *)
(***************************************************************************)
EXTENDS UserProperties, FiniteSetTheorems, TLAPS

Requests ==
  [pc : {"idle", "lookup", "insert", "write", "sign", "refresh"},
   op : {"serve", "create", "update", "deactivate", "password", "google", NULL},
   session : Session, body : CreateBodies \cup UpdateBodies \cup {NoBody},
   google : GoogleAccounts \cup {NULL}, target : Ids \cup {NULL}]

\* Rows and cookies have their types, and a row's role was granted.
RowsOK ==
  /\ user \in [Ids -> Row]
  /\ cookie \in [Ids -> Session]
  /\ granted \in [Ids -> SUBSET AllRoles]
  /\ \A i \in Ids : user[i].email = NULL <=> user[i].role = NULL
  /\ \A i \in Ids : Exists(i) => user[i].role \in granted[i]
  /\ \A i \in Ids : user[i].google # NULL => Exists(i)

\* The session names a row that is there, and bears a role granted to it.
SessionOK(s) ==
  s.id # NULL => Exists(s.id) /\ s.role # NULL /\ s.role \in granted[s.id]

Aims(r) == r.target \in Ids /\ Exists(r.target)

\* What each operation carries along.
RequestOK(r) ==
  /\ r \in Requests
  /\ SessionOK(r.session)
  /\ r.pc # "idle" =>
       /\ r.op = "serve" => r.session.id # NULL
       /\ r.op = "create" => r.body \in CreateBodies /\ (r.pc = "write" => Aims(r))
       /\ r.op = "update" => /\ r.body \in UpdateBodies
                             /\ r.target \in Ids /\ (r.pc = "write" => Aims(r))
       /\ r.op \in {"deactivate", "password"} => Aims(r)
       /\ r.op = "google" => /\ r.google \in GoogleAccounts
                             /\ r.pc \in {"refresh", "write"} => Aims(r)

IInv == RowsOK /\ DOMAIN req = Procs /\ \A p \in Procs : RequestOK(req[p])

\* Rows stay and grants stay.
Grows ==
  \A i \in Ids : (Exists(i) => Exists(i)') /\ granted[i] \subseteq granted'[i]

LEMMA NoRequestOK == RequestOK(NoRequest) /\ RequestOK(NoRequest)'
<1>1. NoRequest \in Requests
  BY DEF NoRequest, Request, Requests, NoSession, Session
<1>2. NoRequest.pc = "idle" /\ NoRequest.session.id = NULL
  BY DEF NoRequest, Request, NoSession
<1> QED
  BY <1>1, <1>2 DEF RequestOK, SessionOK

LEMMA InitIInv == Init => IInv
<1> SUFFICES ASSUME Init PROVE IInv
  OBVIOUS
<1> USE SeedAssumption, NullAssumption DEF Init
<1>1. user \in [Ids -> Row] /\ \A i \in Ids : user[i].email = NULL <=> user[i].role = NULL
  BY DEF Row
<1>2. cookie \in [Ids -> Session]
  BY <1>1 DEF Claims, NoSession, Session, Row
<1>3. granted \in [Ids -> SUBSET AllRoles]
  BY <1>1 DEF Exists, Row
<1>4. RowsOK
  BY <1>1, <1>2, <1>3 DEF RowsOK, Exists
<1> QED
  BY <1>4, NoRequestOK DEF IInv

-----------------------------------------------------------------------------

\* What a request carries stays true while rows and grants stay.
LEMMA Lasting ==
  ASSUME RowsOK, Grows, NEW r, RequestOK(r)
  PROVE  RequestOK(r)'
<1>1. r \in Requests /\ r.session \in Session
  BY DEF RequestOK, Requests
<1>2. r.session.id # NULL => r.session.id \in Ids
  BY <1>1 DEF Session
<1>3. SessionOK(r.session)'
  BY <1>2 DEF RequestOK, SessionOK, Grows, Exists
<1>4. Aims(r) => Aims(r)'
  BY DEF Aims, Grows
<1> QED
  BY <1>1, <1>3, <1>4 DEF RequestOK

\* Request p goes on with record r.
LEMMA GoStep ==
  ASSUME IInv, NEW p \in Procs, NEW r, Go(p, r), RequestOK(r)', RowsOK', Grows
  PROVE  IInv'
<1>1. DOMAIN req' = Procs /\ \A q \in Procs : req'[q] = IF q = p THEN r ELSE req[q]
  BY DEF IInv, Go
<1>2. \A q \in Procs \ {p} : RequestOK(req[q])
  BY DEF IInv
<1>3. ASSUME NEW q \in Procs PROVE RequestOK(req[q])'
  <2>1. PICK x : x = req'[q]
    OBVIOUS
  <2>2. RequestOK(x)'
    <3>1. CASE q = p
      BY <1>1, <2>1, <3>1
    <3>2. CASE q # p
      <4>1. PICK y : y = req[q]
        OBVIOUS
      <4>2. RequestOK(y) /\ x = y
        BY <1>1, <1>2, <2>1, <3>2, <4>1
      <4> QED
        BY <4>2, Lasting DEF IInv
    <3> QED
      BY <3>1, <3>2
  <2> QED
    BY <2>1, <2>2 DEF RequestOK, SessionOK, Aims
<1> QED
  BY <1>1, <1>3 DEF IInv

\* A request that reads.
LEMMA ReadStep ==
  ASSUME IInv, NEW p \in Procs, NEW r, Go(p, r), RequestOK(r),
         UNCHANGED <<user, cookie, granted>>
  PROVE  IInv'
<1>1. RowsOK' /\ Grows
  BY DEF IInv, RowsOK, Grows, Exists
<1>2. RequestOK(r)'
  BY <1>1, Lasting DEF IInv
<1> QED
  BY <1>1, <1>2, GoStep

\* A request that writes a cookie, and answers.
LEMMA CookieStep ==
  ASSUME IInv, NEW p \in Procs, Answer(p), UNCHANGED <<user, granted>>,
         cookie' \in [Ids -> Session]
  PROVE  IInv'
<1>1. RowsOK' /\ Grows
  BY DEF IInv, RowsOK, Grows, Exists
<1> QED
  BY <1>1, NoRequestOK, GoStep DEF Answer

\* No grant is lost, and user i has one for the role.
Granted(i, role) ==
  /\ granted' \in [Ids -> SUBSET AllRoles]
  /\ role \in granted'[i]
  /\ \A j \in Ids : granted[j] \subseteq granted'[j]

LEMMA Grant ==
  ASSUME RowsOK, NEW i \in Ids, NEW new \in SUBSET AllRoles,
         granted' = [granted EXCEPT ![i] = @ \cup new]
  PROVE  \A role \in granted[i] \cup new : Granted(i, role)
BY DEF RowsOK, Granted

\* A request that writes row i, and answers.
LEMMA RowStep ==
  ASSUME IInv, NEW p \in Procs, Answer(p), NEW i \in Ids, NEW row \in Row,
         user' = [user EXCEPT ![i] = row], Granted(i, row.role),
         row.email # NULL, row.role # NULL, cookie' \in [Ids -> Session]
  PROVE  IInv'
<1>1. \A j \in Ids : user'[j] = IF j = i THEN row ELSE user[j]
  BY DEF IInv, RowsOK
<1>2. user' \in [Ids -> Row] /\ granted' \in [Ids -> SUBSET AllRoles]
  BY DEF IInv, RowsOK, Granted
<1>3. RowsOK'
  BY <1>1, <1>2 DEF IInv, RowsOK, Exists, Granted
<1>4. Grows
  BY <1>1 DEF Grows, Exists, Granted
<1> QED
  BY <1>3, <1>4, NoRequestOK, GoStep DEF Answer

-----------------------------------------------------------------------------
(* One lemma per kind of step.                                             *)

\* A signed-in request begins.
LEMMA BeginStep ==
  ASSUME IInv, NEW p \in Procs, NEW i \in Ids, NEW op, NEW pc, NEW body, NEW target,
         Begin(p, i, op, pc, body, target),
         op \in {"serve", "create", "update", "deactivate"}, pc \in {"lookup", "write"},
         body \in CreateBodies \cup UpdateBodies \cup {NoBody}, target \in Ids \cup {NULL},
         op = "create" => body \in CreateBodies /\ pc = "lookup",
         op = "update" => body \in UpdateBodies /\ pc = "lookup" /\ target \in Ids,
         op = "deactivate" => target \in Ids /\ Exists(target)
  PROVE  IInv'
<1>1. PICK s : s = Claims(i)
  OBVIOUS
<1>2. s \in Session /\ SessionOK(s) /\ s.id # NULL
  <2>1. s = [id |-> i, role |-> user[i].role, dept |-> user[i].dept] /\ Exists(i)
    BY <1>1 DEF Claims, Begin, RequireAuth
  <2>2. user[i] \in Row /\ user[i].role # NULL /\ user[i].role \in granted[i]
    BY <2>1 DEF IInv, RowsOK, Exists
  <2> QED
    BY <2>1, <2>2, NullAssumption DEF Session, Row, SessionOK
<1>3. PICK r : r = Request(pc, op, s, body, NULL, target)
  OBVIOUS
<1>4. r \in Requests
  BY <1>2, <1>3 DEF Request, Requests
<1>5. /\ r.session = s /\ r.op = op /\ r.pc = pc /\ r.body = body /\ r.target = target
  BY <1>3 DEF Request
<1>6. RequestOK(r)
  BY <1>2, <1>4, <1>5 DEF RequestOK, Aims
<1>7. Go(p, r) /\ UNCHANGED <<user, cookie, granted>>
  BY <1>1, <1>3 DEF Begin
<1> QED
  BY <1>6, <1>7, ReadStep

\* A look-up sends the request on to its write or its insert.
LEMMA LookupStep ==
  ASSUME IInv, NEW p \in Procs,
         \/ LookupEmail(p) \/ LookupUser(p) \/ LookupGoogleEmail(p)
  PROVE  IInv'
<1>1. /\ UNCHANGED <<user, cookie, granted>>
      /\ \/ Answer(p)
         \/ Go(p, [req[p] EXCEPT !.pc = "insert"]) /\ req[p].op \in {"create", "google"}
         \/ /\ Go(p, [req[p] EXCEPT !.pc = "write"]) /\ req[p].op = "update"
            /\ Exists(req[p].target)
         \/ /\ req[p].op \in {"create", "google"}
            /\ \E i \in Ids : Exists(i) /\ Go(p, [req[p] EXCEPT !.pc = "write", !.target = i])
      /\ req[p].pc = "lookup"
  <2>1. \A e \in Emails : WithEmail(e) \subseteq {i \in Ids : Exists(i)}
    BY NullAssumption DEF WithEmail, Exists
  <2>2. CASE LookupEmail(p)
    <3>1. req[p].body.email \in Emails
      BY <2>2 DEF LookupEmail, At, IInv, RequestOK, CreateBodies
    <3> QED
      BY <2>1, <2>2, <3>1 DEF LookupEmail, At
  <2>3. CASE LookupUser(p)
    BY <2>3 DEF LookupUser, At
  <2>4. CASE LookupGoogleEmail(p)
    <3>1. GoogleEmail[req[p].google] \in Emails
      BY <2>4, GoogleAssumption DEF LookupGoogleEmail, At, IInv, RequestOK
    <3> QED
      BY <2>1, <2>4, <3>1 DEF LookupGoogleEmail, At
  <2> QED
    BY <2>2, <2>3, <2>4
<1>2. PICK o : o = req[p]
  OBVIOUS
<1>3. RequestOK(o) /\ o.pc = "lookup" /\ o \in Requests
  BY <1>1, <1>2 DEF IInv, RequestOK
<1>4. CASE Answer(p)
  BY <1>1, <1>4, NoRequestOK, ReadStep DEF Answer
<1>5. CASE Go(p, [req[p] EXCEPT !.pc = "insert"]) /\ req[p].op \in {"create", "google"}
  <2>1. PICK r : r = [o EXCEPT !.pc = "insert"]
    OBVIOUS
  <2>2. /\ r \in Requests /\ r.pc = "insert" /\ r.op = o.op /\ r.session = o.session
        /\ r.body = o.body /\ r.google = o.google
    BY <1>3, <2>1 DEF Requests
  <2>3. RequestOK(r)
    BY <1>2, <1>3, <1>5, <2>2 DEF RequestOK
  <2> QED
    BY <1>1, <1>2, <1>5, <2>1, <2>3, ReadStep
<1>6. CASE /\ Go(p, [req[p] EXCEPT !.pc = "write"]) /\ req[p].op = "update"
           /\ Exists(req[p].target)
  <2>1. PICK r : r = [o EXCEPT !.pc = "write"]
    OBVIOUS
  <2>2. /\ r \in Requests /\ r.pc = "write" /\ r.op = o.op /\ r.session = o.session
        /\ r.body = o.body /\ r.target = o.target
    BY <1>3, <2>1 DEF Requests
  <2>3. RequestOK(r)
    BY <1>2, <1>3, <1>6, <2>2 DEF RequestOK, Aims
  <2> QED
    BY <1>1, <1>2, <1>6, <2>1, <2>3, ReadStep
<1>7. ASSUME NEW i \in Ids, Exists(i), Go(p, [req[p] EXCEPT !.pc = "write", !.target = i]),
             req[p].op \in {"create", "google"}
      PROVE  IInv'
  <2>1. PICK r : r = [o EXCEPT !.pc = "write", !.target = i]
    OBVIOUS
  <2>2. /\ r \in Requests /\ r.pc = "write" /\ r.op = o.op /\ r.session = o.session
        /\ r.body = o.body /\ r.google = o.google /\ r.target = i
    BY <1>3, <2>1 DEF Requests
  <2>3. RequestOK(r)
    BY <1>2, <1>3, <1>7, <2>2 DEF RequestOK, Aims
  <2> QED
    BY <1>1, <1>2, <1>7, <2>1, <2>3, ReadStep
<1> QED
  BY <1>1, <1>4, <1>5, <1>6, <1>7

\* A sign-in begins.
LEMMA SignInStep ==
  ASSUME IInv, NEW p \in Procs,
         \/ \E i \in Ids : BeginPassword(p, i)
         \/ \E g \in GoogleAccounts : BeginGoogle(p, g)
  PROVE  IInv'
<1>1. ASSUME NEW i \in Ids, BeginPassword(p, i) PROVE IInv'
  <2>1. PICK s : s = Claims(i)
    OBVIOUS
  <2>2. s \in Session /\ SessionOK(s)
    <3>1. s = [id |-> i, role |-> user[i].role, dept |-> user[i].dept] /\ Exists(i)
      BY <1>1, <2>1 DEF Claims, BeginPassword
    <3>2. user[i] \in Row /\ user[i].role # NULL /\ user[i].role \in granted[i]
      BY <3>1 DEF IInv, RowsOK, Exists
    <3> QED
      BY <3>1, <3>2 DEF Session, Row, SessionOK
  <2>3. PICK r : r = Request("sign", "password", s, NoBody, NULL, i)
    OBVIOUS
  <2>4. r \in Requests /\ r.session = s /\ r.op = "password" /\ r.target = i
    BY <2>2, <2>3 DEF Request, Requests
  <2>5. RequestOK(r)
    BY <1>1, <2>2, <2>4 DEF RequestOK, Aims, BeginPassword
  <2> QED
    BY <1>1, <2>1, <2>3, <2>5, ReadStep DEF BeginPassword
<1>2. ASSUME NEW g \in GoogleAccounts, BeginGoogle(p, g) PROVE IInv'
  <2>1. NoSession \in Session /\ SessionOK(NoSession)
    BY DEF NoSession, Session, SessionOK
  <2>2. ASSUME NEW i \in WithGoogle(g) PROVE i \in Ids /\ Exists(i)
    BY <2>2, NullAssumption DEF WithGoogle, Exists, IInv, RowsOK
  <2>3. ASSUME NEW pc \in {"refresh", "lookup"}, NEW t \in Ids \cup {NULL},
               pc = "refresh" => t \in Ids /\ Exists(t)
        PROVE  RequestOK(Request(pc, "google", NoSession, NoBody, g, t))
    <3>1. PICK r : r = Request(pc, "google", NoSession, NoBody, g, t)
      OBVIOUS
    <3>2. /\ r \in Requests /\ r.session = NoSession /\ r.op = "google" /\ r.pc = pc
          /\ r.google = g /\ r.target = t
      BY <2>1, <3>1 DEF Request, Requests
    <3> QED
      BY <2>1, <2>3, <3>1, <3>2 DEF RequestOK, Aims
  <2> QED
    BY <1>2, <2>2, <2>3, ReadStep DEF BeginGoogle
<1> QED
  BY <1>1, <1>2

\* ensureFromSession writes the session back.
LEMMA EnsureStep ==
  ASSUME IInv, NEW p \in Procs, EnsureFromSession(p)
  PROVE  IInv'
<1> DEFINE s == req[p].session
           dept == IF s.role = "DeptStaff" THEN s.dept ELSE NULL
           row == [user[s.id] EXCEPT !.role = s.role, !.dept = dept]
<1>1. /\ s \in Session /\ s.id \in Ids /\ Exists(s.id) /\ s.role # NULL
      /\ s.role \in granted[s.id]
  BY DEF EnsureFromSession, At, IInv, RequestOK, SessionOK, Requests, Session
<1>2. user[s.id] \in Row /\ user \in [Ids -> Row]
  BY <1>1 DEF IInv, RowsOK
<1>3. dept \in Depts \cup {NULL} /\ s.role \in AllRoles
  BY <1>1 DEF Session
<1>4. row \in Row /\ row.email = user[s.id].email /\ row.role = s.role
  BY <1>2, <1>3 DEF Row
<1>5. user' = [user EXCEPT ![s.id] = row]
  BY DEF EnsureFromSession
<1>6. Granted(s.id, s.role)
  BY <1>1 DEF EnsureFromSession, IInv, RowsOK, Granted
<1>7. cookie' \in [Ids -> Session] /\ Answer(p)
  BY DEF EnsureFromSession, IInv, RowsOK
<1> HIDE DEF row, s
<1> QED
  BY <1>1, <1>4, <1>5, <1>6, <1>7, RowStep DEF Exists

\* POST, PATCH and DELETE /users write a row that is there.
LEMMA AdminStep ==
  ASSUME IInv, NEW p \in Procs, Revive(p) \/ Update(p) \/ Deactivate(p)
  PROVE  IInv'
<1> DEFINE b == req[p].body
           i == req[p].target
           old == user[i]
<1>1. i \in Ids /\ Exists(i)
  BY DEF Revive, Update, Deactivate, At, IInv, RequestOK, Aims
<1>2. old \in Row /\ old.role # NULL /\ old.role \in granted[i] /\ old.email # NULL
  BY <1>1 DEF IInv, RowsOK, Exists
<1>3. cookie' \in [Ids -> Session] /\ Answer(p)
  BY DEF Revive, Update, Deactivate, IInv, RowsOK
<1>4. CASE Revive(p)
  <2>1. b \in CreateBodies
    BY <1>4 DEF Revive, At, IInv, RequestOK
  <2>2. /\ b.role \in AllRoles /\ b.role # NULL /\ b.dept \in Depts \cup {NULL}
        /\ b.password \in BOOLEAN
    BY <2>1, OpsAssumption, NullAssumption DEF CreateBodies
  <2> DEFINE row == [old EXCEPT !.role = b.role, !.dept = b.dept,
                                !.password = b.password, !.active = TRUE]
  <2>3. row \in Row /\ row.email = old.email /\ row.role = b.role
    BY <1>2, <2>2 DEF Row
  <2>4. user' = [user EXCEPT ![i] = row]
    BY <1>4 DEF Revive
  <2>5. Granted(i, b.role)
    <3>1. granted' = [granted EXCEPT ![i] = @ \cup {b.role}] /\ {b.role} \in SUBSET AllRoles
      BY <1>4, <2>2 DEF Revive
    <3>2. RowsOK /\ b.role \in granted[i] \cup {b.role}
      BY DEF IInv
    <3> HIDE DEF i, b
    <3> QED
      BY <1>1, <3>1, <3>2, Grant
  <2> HIDE DEF row
  <2> QED
    BY <1>1, <1>2, <1>3, <2>2, <2>3, <2>4, <2>5, RowStep
<1>5. CASE Update(p)
  <2>1. b \in UpdateBodies
    BY <1>5 DEF Update, At, IInv, RequestOK
  <2>2. /\ b.role \in AllRoles \cup {KEEP} /\ b.dept \in Depts \cup {NULL, KEEP}
        /\ b.password \in BOOLEAN
    BY <2>1, OpsAssumption DEF UpdateBodies
  <2> DEFINE role == Kept(b.role, old.role)
             dept == Kept(b.dept, old.dept)
             password == old.password \/ b.password
             row == [old EXCEPT !.role = role, !.dept = dept, !.password = password]
             new == {b.role} \ {KEEP}
  <2>3. /\ role \in AllRoles /\ role # NULL /\ role \in granted[i] \cup new
        /\ dept \in Depts \cup {NULL} /\ new \in SUBSET AllRoles
    BY <1>2, <2>2, NullAssumption DEF Kept, Row
  <2>4. password \in BOOLEAN
    OBVIOUS
  <2>5. user' = [user EXCEPT ![i] = row] /\ granted' = [granted EXCEPT ![i] = @ \cup new]
    BY <1>5 DEF Update
  <2>7. Granted(i, role)
    <3> HIDE DEF i, role, new
    <3> QED
      BY <1>1, <2>3, <2>5, Grant DEF IInv
  <2> HIDE DEF role, dept, password, new
  <2>6. row \in Row /\ row.email = old.email /\ row.role = role
    BY <1>2, <2>3, <2>4 DEF Row
  <2> HIDE DEF row
  <2> QED
    BY <1>1, <1>2, <1>3, <2>3, <2>5, <2>6, <2>7, RowStep
<1>6. CASE Deactivate(p)
  <2> DEFINE row == [old EXCEPT !.active = FALSE]
  <2>1. row \in Row /\ row.email = old.email /\ row.role = old.role
    BY <1>2 DEF Row
  <2>2. user' = [user EXCEPT ![i] = row] /\ Granted(i, old.role)
    BY <1>1, <1>2, <1>6 DEF Deactivate, IInv, RowsOK, Granted
  <2> HIDE DEF row
  <2> QED
    BY <1>1, <1>2, <1>3, <2>1, <2>2, RowStep
<1> QED
  BY <1>4, <1>5, <1>6

\* A row is inserted.
LEMMA InsertSteps ==
  ASSUME IInv, NEW p \in Procs, Insert(p) \/ GoogleInsert(p)
  PROVE  IInv'
<1>1. CASE Insert(p)
  <2> DEFINE b == req[p].body
             row == [email |-> b.email, role |-> b.role, dept |-> b.dept, active |-> TRUE,
                     google |-> NULL, password |-> b.password]
  <2>1. b \in CreateBodies
    BY <1>1 DEF Insert, At, IInv, RequestOK
  <2>2. /\ b.role \in AllRoles /\ b.role # NULL /\ b.dept \in Depts \cup {NULL}
        /\ b.password \in BOOLEAN /\ b.email \in Emails /\ b.email # NULL
    BY <2>1, OpsAssumption, NullAssumption DEF CreateBodies
  <2>3. row \in Row /\ row.email = b.email /\ row.role = b.role
    BY <2>2 DEF Row
  <2>4. PICK i \in Ids : /\ user' = [user EXCEPT ![i] = row]
                         /\ granted' = [granted EXCEPT ![i] = @ \cup {b.role}]
    BY <1>1 DEF Insert, InsertRow
  <2>5. cookie' \in [Ids -> Session] /\ Answer(p)
    BY <1>1 DEF Insert, IInv, RowsOK
  <2>6. Granted(i, b.role)
    <3>1. {b.role} \in SUBSET AllRoles /\ b.role \in granted[i] \cup {b.role} /\ RowsOK
      BY <2>2 DEF IInv
    <3> HIDE DEF b
    <3> QED
      BY <2>4, <3>1, Grant
  <2> HIDE DEF row
  <2> QED
    BY <2>2, <2>3, <2>4, <2>5, <2>6, RowStep
<1>2. CASE GoogleInsert(p)
  <2> DEFINE g == req[p].google
             e == GoogleEmail[g]
             row == [email |-> e, role |-> "SV", dept |-> NULL, active |-> TRUE,
                     google |-> g, password |-> FALSE]
  <2>1. g \in GoogleAccounts /\ e \in Emails /\ e # NULL
    BY <1>2, GoogleAssumption, NullAssumption DEF GoogleInsert, At, IInv, RequestOK
  <2>2. row \in Row /\ row.email = e /\ row.role = "SV" /\ "SV" \in AllRoles /\ "SV" # NULL
    BY <2>1, NullAssumption DEF Row, AllRoles
  <2>3. PICK i \in Ids : /\ user' = [user EXCEPT ![i] = row]
                         /\ granted' = [granted EXCEPT ![i] = @ \cup {"SV"}]
    BY <1>2 DEF GoogleInsert, InsertRow
  <2>4. cookie' \in [Ids -> Session] /\ Answer(p)
    BY <1>2, <2>2 DEF GoogleInsert, IInv, RowsOK, Session
  <2>5. Granted(i, "SV")
    BY <2>2, <2>3, Grant DEF IInv
  <2> HIDE DEF row
  <2> QED
    BY <2>1, <2>2, <2>3, <2>4, <2>5, RowStep
<1> QED
  BY <1>1, <1>2

\* A sign-in ends with a cookie.
LEMMA CookieSteps ==
  ASSUME IInv, NEW p \in Procs, Sign(p) \/ GoogleRefresh(p) \/ GoogleLink(p)
  PROVE  IInv'
<1> DEFINE i == req[p].target
<1>1. i \in Ids /\ Exists(i) /\ req[p].session \in Session
  BY DEF Sign, GoogleRefresh, GoogleLink, At, IInv, RequestOK, Aims, Requests
<1>2. user[i] \in Row /\ user[i].role # NULL /\ user[i].role \in granted[i]
  BY <1>1 DEF IInv, RowsOK, Exists
<1>3. Claims(i) \in Session
  BY <1>1, <1>2 DEF Claims, Session, Row
<1>4. cookie' \in [Ids -> Session] /\ Answer(p)
  BY <1>1, <1>3 DEF Sign, GoogleRefresh, GoogleLink, IInv, RowsOK
<1>5. CASE Sign(p) \/ GoogleRefresh(p)
  BY <1>4, <1>5, CookieStep DEF Sign, GoogleRefresh
<1>6. CASE GoogleLink(p)
  <2> DEFINE row == [user[i] EXCEPT !.google = req[p].google]
  <2>1. req[p].google \in GoogleAccounts
    BY <1>6 DEF GoogleLink, At, IInv, RequestOK
  <2>2. row \in Row /\ row.email = user[i].email /\ row.role = user[i].role
    BY <1>2, <2>1 DEF Row
  <2>3. user' = [user EXCEPT ![i] = row] /\ Granted(i, user[i].role)
    BY <1>1, <1>2, <1>6 DEF GoogleLink, IInv, RowsOK, Granted
  <2> HIDE DEF row, i
  <2> QED
    BY <1>1, <1>2, <1>4, <2>2, <2>3, RowStep DEF Exists
<1> QED
  BY <1>5, <1>6

\* A request fails, or the holder of a cookie logs out.
LEMMA FailStep ==
  ASSUME IInv, NEW p \in Procs, Fail(p)
  PROVE  IInv'
BY NoRequestOK, ReadStep DEF Fail, Answer

LEMMA LogoutStep ==
  ASSUME IInv, NEW i \in Ids, Logout(i)
  PROVE  IInv'
<1>1. UNCHANGED <<user, req, granted>> /\ cookie' \in [Ids -> Session]
  BY DEF Logout, IInv, RowsOK, NoSession, Session
<1>2. RowsOK' /\ Grows
  BY <1>1 DEF IInv, RowsOK, Grows, Exists
<1>3. ASSUME NEW p \in Procs PROVE RequestOK(req[p])'
  BY <1>1 DEF IInv, RequestOK, SessionOK, Aims, Exists
<1> QED
  BY <1>1, <1>2, <1>3 DEF IInv

LEMMA ArriveStep ==
  ASSUME IInv, NEW p \in Procs, Arrive(p)
  PROVE  IInv'
<1>1. ASSUME NEW i \in Ids, Serve(p, i) PROVE IInv'
  BY <1>1, BeginStep DEF Serve
<1>2. ASSUME NEW i \in Ids, NEW b \in CreateBodies, BeginCreate(p, i, b) PROVE IInv'
  BY <1>2, BeginStep DEF BeginCreate, BeginAdmin
<1>3. ASSUME NEW i \in Ids, NEW t \in Ids, NEW b \in UpdateBodies, BeginUpdate(p, i, t, b)
      PROVE  IInv'
  BY <1>3, BeginStep DEF BeginUpdate, BeginAdmin
<1>4. ASSUME NEW i \in Ids, NEW t \in Ids, BeginDeactivate(p, i, t) PROVE IInv'
  BY <1>4, BeginStep DEF BeginDeactivate, BeginAdmin
<1> QED
  BY <1>1, <1>2, <1>3, <1>4, SignInStep DEF Arrive

LEMMA Inductive == IInv /\ [Next]_vars => IInv'
<1> SUFFICES ASSUME IInv, [Next]_vars PROVE IInv'
  OBVIOUS
<1>1. ASSUME NEW p \in Procs, Arrive(p) PROVE IInv'
  BY <1>1, ArriveStep
<1>2. ASSUME NEW p \in Procs, Continue(p) PROVE IInv'
  BY <1>2, EnsureStep, LookupStep, InsertSteps, AdminStep, CookieSteps DEF Continue
<1>3. ASSUME NEW p \in Procs, Fail(p) PROVE IInv'
  BY <1>3, FailStep
<1>4. ASSUME NEW i \in Ids, Logout(i) PROVE IInv'
  BY <1>4, LogoutStep
<1>5. CASE UNCHANGED vars
  BY <1>5 DEF vars, IInv, RowsOK, RequestOK, SessionOK, Aims, Exists
<1> QED
  BY <1>1, <1>2, <1>3, <1>4, <1>5 DEF Next

LEMMA Invariance == Spec => []IInv
BY InitIInv, Inductive, PTL DEF Spec

-----------------------------------------------------------------------------

\* Rows, cookies and the sessions of requests have their types, and a row has an
\* address exactly when it has a role, whatever AuthService and UserService do.
THEOREM TypeCorrect == Spec => []TypeOK
<1>1. IInv => TypeOK
  BY DEF IInv, RowsOK, RequestOK, Requests, TypeOK
<1> QED
  BY <1>1, Invariance, PTL

\* No row and no request ever has a role that neither the seed, nor an
\* administrator, nor the first Google sign-in gave: what ensureFromSession
\* writes back may be out of date, but never made up.
THEOREM RolesAreGranted == Spec => []OnlyGrantedRoles
<1>1. IInv => OnlyGrantedRoles
  BY DEF IInv, RowsOK, RequestOK, SessionOK, OnlyGrantedRoles
<1> QED
  BY <1>1, Invariance, PTL

\* Deleting a user sticks: for every number of overlapping requests, only POST
\* /users for the same address makes a deactivated row active again.
THEOREM DeletionSticks == Spec => OnlyCreateRevives
<1>1. ASSUME IInv, [Next]_vars, NEW i \in Ids, Exists(i), ~user[i].active, user'[i].active
      PROVE  \E p \in Procs : At(p, "create", "write") /\ req[p].target = i
  <2>1. user \in [Ids -> Row] /\ user' # user
    BY <1>1 DEF IInv, RowsOK
  <2>2. ASSUME NEW p \in Procs, Insert(p) \/ GoogleInsert(p) PROVE FALSE
    BY <1>1, <2>1, <2>2 DEF Insert, GoogleInsert, InsertRow
  <2>3. ASSUME NEW p \in Procs,
               EnsureFromSession(p) \/ Update(p) \/ Deactivate(p) \/ GoogleLink(p)
        PROVE  user'[i].active => user[i].active
    <3>1. user[i] \in Row
      BY <2>1
    <3>2. CASE EnsureFromSession(p)
      BY <2>1, <3>1, <3>2 DEF EnsureFromSession, Row
    <3>3. CASE Update(p)
      <4>1. \E role, dept, password, j :
              user' = [user EXCEPT ![j] = [user[j] EXCEPT
                         !.role = role, !.dept = dept, !.password = password]]
        BY <3>3 DEF Update
      <4> QED
        BY <2>1, <3>1, <4>1 DEF Row
    <3>4. CASE Deactivate(p)
      BY <2>1, <3>1, <3>4 DEF Deactivate, Row
    <3>5. CASE GoogleLink(p)
      BY <2>1, <3>1, <3>5 DEF GoogleLink, Row
    <3> QED
      BY <2>3, <3>2, <3>3, <3>4, <3>5
  <2>4. ASSUME NEW p \in Procs, Arrive(p) PROVE UNCHANGED user
    BY <2>4 DEF Arrive, Serve, BeginPassword, BeginCreate, BeginUpdate, BeginDeactivate,
       BeginAdmin, Begin, BeginGoogle
  <2>5. ASSUME NEW p \in Procs,
               \/ LookupEmail(p) \/ LookupUser(p) \/ Sign(p) \/ LookupGoogleEmail(p)
               \/ GoogleRefresh(p) \/ Fail(p)
        PROVE  UNCHANGED user
    BY <2>5 DEF LookupEmail, LookupUser, Sign, LookupGoogleEmail, GoogleRefresh, Fail
  <2>6. ASSUME NEW j \in Ids, Logout(j) PROVE UNCHANGED user
    BY <2>6 DEF Logout
  <2>7. PICK p \in Procs : Revive(p)
    BY <1>1, <2>1, <2>2, <2>3, <2>4, <2>5, <2>6 DEF Next, Continue, vars
  <2>8. user'[i] # user[i] => req[p].target = i
    BY <2>1, <2>7 DEF Revive
  <2> QED
    BY <1>1, <2>7, <2>8 DEF Revive
<1>2. IInv /\ [Next]_vars =>
        \A i \in Ids : Exists(i) /\ ~user[i].active /\ user'[i].active =>
          \E p \in Procs : At(p, "create", "write") /\ req[p].target = i
  BY <1>1
<1> QED
  BY <1>2, Invariance, PTL DEF Spec, OnlyCreateRevives

-----------------------------------------------------------------------------
(* One row per person. An address never changes once a row has one, so the *)
(* row that a sign-in found by its address is still the right one to link  *)
(* when the UPDATE comes; the two unique indexes do the rest.              *)

\* No two rows share an address or an account, and an account is linked to the
\* row with its address.
Identities ==
  \A i, j \in Ids :
    /\ user[i].email = user[j].email => i = j \/ user[i].email = NULL
    /\ user[i].google = user[j].google => i = j \/ user[i].google = NULL
    /\ user[i].google # NULL => GoogleEmail[user[i].google] = user[i].email

\* The row to link has the address of the account.
Linking(r) ==
  r.op = "google" /\ r.pc = "write" => user[r.target].email = GoogleEmail[r.google]

OneIInv == IInv /\ Identities /\ \A p \in Procs : Linking(req[p])

\* No row changes its address or its account.
SameIdentities ==
  \A i \in Ids : user'[i].email = user[i].email /\ user'[i].google = user[i].google

\* A row is inserted, linked to the account of its address or to none.
NewIdentity(i, row) ==
  /\ ~Exists(i) /\ WithEmail(row.email) = {}
  /\ row.google # NULL => /\ WithGoogle(row.google) = {}
                          /\ GoogleEmail[row.google] = row.email
  /\ user' = [user EXCEPT ![i] = row]

LEMMA IdentitySteps ==
  ASSUME IInv, [Next]_vars
  PROVE  \/ SameIdentities
         \/ \E p \in Procs : GoogleLink(p)
         \/ \E i \in Ids, row \in Row : NewIdentity(i, row)
<1>1. \A i \in Ids : user[i] \in Row
  BY DEF IInv, RowsOK
<1>2. UNCHANGED user => SameIdentities
  BY DEF SameIdentities
<1>3. ASSUME NEW p \in Procs, Arrive(p) PROVE UNCHANGED user
  BY <1>3 DEF Arrive, Serve, BeginPassword, BeginCreate, BeginUpdate, BeginDeactivate,
     BeginAdmin, Begin, BeginGoogle
<1>4. ASSUME NEW p \in Procs,
             \/ LookupEmail(p) \/ LookupUser(p) \/ Sign(p) \/ LookupGoogleEmail(p)
             \/ GoogleRefresh(p) \/ Fail(p)
      PROVE  UNCHANGED user
  BY <1>4 DEF LookupEmail, LookupUser, Sign, LookupGoogleEmail, GoogleRefresh, Fail
<1>5. ASSUME NEW i \in Ids, Logout(i) PROVE UNCHANGED user
  BY <1>5 DEF Logout
<1>6. ASSUME NEW p \in Procs,
             EnsureFromSession(p) \/ Revive(p) \/ Update(p) \/ Deactivate(p)
      PROVE  SameIdentities
  <2>1. user \in [Ids -> Row]
    BY DEF IInv, RowsOK
  <2>2. CASE EnsureFromSession(p)
    BY <1>1, <2>1, <2>2 DEF EnsureFromSession, SameIdentities, Row
  <2>3. CASE Revive(p)
    BY <1>1, <2>1, <2>3 DEF Revive, SameIdentities, Row
  <2>4. CASE Update(p)
    <3>1. \E role, dept, password, j :
            user' = [user EXCEPT ![j] = [user[j] EXCEPT
                       !.role = role, !.dept = dept, !.password = password]]
      BY <2>4 DEF Update
    <3> QED
      BY <1>1, <2>1, <3>1 DEF SameIdentities, Row
  <2>5. CASE Deactivate(p)
    BY <1>1, <2>1, <2>5 DEF Deactivate, SameIdentities, Row
  <2> QED
    BY <1>6, <2>2, <2>3, <2>4, <2>5
<1>7. ASSUME NEW p \in Procs, Insert(p) PROVE \E i \in Ids, row \in Row : NewIdentity(i, row)
  <2>1. req[p].body \in CreateBodies
    BY <1>7 DEF Insert, At, IInv, RequestOK
  <2>2. PICK b : b = req[p].body
    OBVIOUS
  <2>3. PICK row : row = [email |-> b.email, role |-> b.role, dept |-> b.dept,
                          active |-> TRUE, google |-> NULL, password |-> b.password]
    OBVIOUS
  <2>4. row \in Row /\ row.email = b.email /\ row.google = NULL
    BY <2>1, <2>2, <2>3, OpsAssumption DEF CreateBodies, Row
  <2> QED
    BY <1>7, <2>2, <2>3, <2>4 DEF Insert, InsertRow, NewIdentity
<1>8. ASSUME NEW p \in Procs, GoogleInsert(p)
      PROVE  \E i \in Ids, row \in Row : NewIdentity(i, row)
  <2>1. PICK g : g = req[p].google
    OBVIOUS
  <2>2. g \in GoogleAccounts /\ GoogleEmail[g] \in Emails
    BY <1>8, <2>1, GoogleAssumption DEF GoogleInsert, At, IInv, RequestOK
  <2>3. PICK row : row = [email |-> GoogleEmail[g], role |-> "SV", dept |-> NULL,
                          active |-> TRUE, google |-> g, password |-> FALSE]
    OBVIOUS
  <2>4. row \in Row /\ row.email = GoogleEmail[g] /\ row.google = g
    BY <2>2, <2>3 DEF Row, AllRoles
  <2> QED
    BY <1>8, <2>1, <2>3, <2>4 DEF GoogleInsert, InsertRow, NewIdentity
<1>9. UNCHANGED vars => UNCHANGED user
  BY DEF vars
<1> QED
  BY <1>2, <1>3, <1>4, <1>5, <1>6, <1>7, <1>8, <1>9 DEF Next, Continue

\* An address, once there, stays.
LEMMA AddressesStay ==
  ASSUME IInv, [Next]_vars, NEW i \in Ids, Exists(i)
  PROVE  user'[i].email = user[i].email
<1>1. user[i] \in Row /\ user \in [Ids -> Row]
  BY DEF IInv, RowsOK
<1>2. ASSUME NEW p \in Procs, GoogleLink(p) PROVE user'[i].email = user[i].email
  BY <1>1, <1>2 DEF GoogleLink, Row
<1> QED
  BY <1>1, <1>2, IdentitySteps DEF SameIdentities, NewIdentity

LEMMA IdentitiesNext ==
  ASSUME OneIInv, [Next]_vars
  PROVE  Identities'
<1>1. IInv /\ user \in [Ids -> Row]
  BY DEF OneIInv, IInv, RowsOK
<1>2. CASE SameIdentities
  BY <1>2 DEF OneIInv, Identities, SameIdentities
<1>3. ASSUME NEW p \in Procs, GoogleLink(p) PROVE Identities'
  <2>1. PICK i, g : i = req[p].target /\ g = req[p].google
    OBVIOUS
  <2>2. /\ i \in Ids /\ g \in GoogleAccounts /\ user[i].email = GoogleEmail[g]
        /\ user' = [user EXCEPT ![i].google = g] /\ WithGoogle(g) \subseteq {i}
    BY <1>1, <1>3, <2>1 DEF GoogleLink, At, OneIInv, IInv, RequestOK, Aims, Linking
  <2>3. \A j \in Ids : /\ user'[j].email = user[j].email
                       /\ user'[j].google = IF j = i THEN g ELSE user[j].google
    BY <1>1, <2>2 DEF Row
  <2>4. \A j \in Ids : user[j].google = g => j = i
    BY <2>2 DEF WithGoogle
  <2> QED
    BY <2>2, <2>3, <2>4 DEF OneIInv, Identities
<1>4. ASSUME NEW i \in Ids, NEW row \in Row, NewIdentity(i, row) PROVE Identities'
  <2>1. \A j \in Ids : user'[j] = IF j = i THEN row ELSE user[j]
    BY <1>1, <1>4 DEF NewIdentity
  <2>2. \A j \in Ids : user[j].email # row.email
    BY <1>4 DEF NewIdentity, WithEmail
  <2>3. row.google # NULL => \A j \in Ids : user[j].google # row.google
    BY <1>4 DEF NewIdentity, WithGoogle
  <2>4. row.google # NULL => GoogleEmail[row.google] = row.email
    BY <1>4 DEF NewIdentity
  <2>5. \A j, k \in Ids :
          /\ user[j].email = user[k].email => j = k \/ user[j].email = NULL
          /\ user[j].google = user[k].google => j = k \/ user[j].google = NULL
          /\ user[j].google # NULL => GoogleEmail[user[j].google] = user[j].email
    BY DEF OneIInv, Identities
  <2>6. ASSUME NEW j \in Ids, NEW k \in Ids
        PROVE  /\ user'[j].email = user'[k].email => j = k \/ user'[j].email = NULL
               /\ user'[j].google = user'[k].google => j = k \/ user'[j].google = NULL
               /\ user'[j].google # NULL => GoogleEmail[user'[j].google] = user'[j].email
    <3>1. CASE j # i /\ k # i
      BY <2>1, <2>5, <3>1
    <3>2. CASE j = i
      <4>1. user'[j] = row /\ (k # j => user'[k] = user[k])
        BY <2>1, <3>2
      <4>2. /\ user[k].email # row.email
            /\ row.google # NULL => user[k].google # row.google
        BY <2>2, <2>3
      <4> QED
        BY <2>4, <4>1, <4>2
    <3>3. CASE j # i /\ k = i
      <4>1. user'[j] = user[j] /\ user'[k] = row
        BY <2>1, <3>3
      <4>2. /\ user[j].email # row.email
            /\ row.google # NULL => user[j].google # row.google
        BY <2>2, <2>3
      <4>3. user[j].google # NULL => GoogleEmail[user[j].google] = user[j].email
        BY <2>5
      <4> QED
        BY <4>1, <4>2, <4>3
    <3> QED
      BY <3>1, <3>2, <3>3
  <2> QED
    BY <2>6 DEF Identities
<1> QED
  BY <1>1, <1>2, <1>3, <1>4, IdentitySteps

\* Only the look-up by address sends a sign-in to its link.
LEMMA LinkingNext ==
  ASSUME OneIInv, [Next]_vars, NEW p \in Procs
  PROVE  Linking(req[p])'
<1>1. IInv /\ RequestOK(req[p]) /\ Linking(req[p]) /\ DOMAIN req = Procs
  BY DEF OneIInv, IInv
<1>2. ASSUME req'[p] = req[p] PROVE Linking(req[p])'
  <2>1. PICK r : r = req[p]
    OBVIOUS
  <2>2. Linking(r) /\ (r.op = "google" /\ r.pc = "write" => r.target \in Ids /\ Exists(r.target))
    BY <1>1, <2>1 DEF RequestOK, Aims
  <2> QED
    BY <1>1, <1>2, <2>1, <2>2, AddressesStay DEF Linking
<1>3. ASSUME req'[p].op # "google" \/ req'[p].pc # "write" PROVE Linking(req[p])'
  BY <1>3 DEF Linking
<1>4. ASSUME LookupGoogleEmail(p) PROVE Linking(req[p])'
  <2>1. PICK o : o = req[p]
    OBVIOUS
  <2>2. o \in Requests
    BY <1>1, <2>1 DEF RequestOK
  <2>3. NoRequest.pc # "write" /\ [o EXCEPT !.pc = "insert"].pc # "write"
    BY <2>2 DEF NoRequest, Request, Requests
  <2>4. ASSUME NEW i \in WithEmail(GoogleEmail[o.google]),
               req' = [req EXCEPT ![p] = [o EXCEPT !.pc = "write", !.target = i]]
        PROVE  Linking(req[p])'
    <3>1. req'[p].google = o.google /\ req'[p].target = i
      BY <1>1, <2>2, <2>4 DEF Requests
    <3>2. user' = user /\ user[i].email = GoogleEmail[o.google]
      BY <1>4, <2>4 DEF LookupGoogleEmail, WithEmail
    <3> QED
      BY <3>1, <3>2 DEF Linking
  <2> QED
    BY <1>1, <1>3, <1>4, <2>1, <2>3, <2>4 DEF LookupGoogleEmail, Go, Answer
<1>5. ASSUME NEW q \in Procs, \E r : Go(q, r) /\ (r.op # "google" \/ r.pc # "write")
      PROVE  Linking(req[p])'
  BY <1>1, <1>2, <1>3, <1>5 DEF Go
<1>6. NoRequest.pc # "write"
  BY DEF NoRequest, Request
<1>7. ASSUME NEW q \in Procs, Arrive(q) PROVE Linking(req[p])'
  <2>1. \E r : Go(q, r) /\ (r.op # "google" \/ r.pc # "write")
    <3>1. ASSUME NEW i \in Ids, NEW op \in {"serve", "create", "update", "deactivate"},
                 NEW pc, NEW body, NEW target, Begin(q, i, op, pc, body, target)
          PROVE  \E r : Go(q, r) /\ (r.op # "google" \/ r.pc # "write")
      BY <3>1 DEF Begin, Request
    <3>2. ASSUME NEW i \in Ids, BeginPassword(q, i)
          PROVE  \E r : Go(q, r) /\ (r.op # "google" \/ r.pc # "write")
      BY <3>2 DEF BeginPassword, Request
    <3>3. ASSUME NEW g \in GoogleAccounts, BeginGoogle(q, g)
          PROVE  \E r : Go(q, r) /\ (r.op # "google" \/ r.pc # "write")
      <4>1. \E pc \in {"refresh", "lookup"}, t \in Ids \cup {NULL} :
              Go(q, Request(pc, "google", NoSession, NoBody, g, t))
        BY <3>3 DEF BeginGoogle, WithGoogle
      <4> QED
        BY <4>1 DEF Request
    <3> QED
      BY <1>7, <3>1, <3>2, <3>3 DEF Arrive, Serve, BeginCreate, BeginUpdate,
         BeginDeactivate, BeginAdmin
  <2> QED
    BY <1>5, <2>1
<1>8. ASSUME NEW q \in Procs, Continue(q) \/ Fail(q), ~LookupGoogleEmail(q)
      PROVE  Linking(req[p])'
  <2>1. CASE LookupEmail(q) \/ LookupUser(q)
    <3>1. \E r : Go(q, r) /\ (r.op # "google" \/ r.pc # "write")
      <4>1. PICK o : o = req[q] /\ o \in Requests
        BY DEF OneIInv, IInv, RequestOK
      <4>2. \A pc, t : /\ [o EXCEPT !.pc = pc].op = o.op
                       /\ [o EXCEPT !.pc = pc, !.target = t].op = o.op
        BY <4>1 DEF Requests
      <4>3. o.op # "google"
        BY <2>1, <4>1 DEF LookupEmail, LookupUser, At
      <4>4. \/ Answer(q)
            \/ \E pc : Go(q, [o EXCEPT !.pc = pc])
            \/ \E pc, t : Go(q, [o EXCEPT !.pc = pc, !.target = t])
        BY <2>1, <4>1 DEF LookupEmail, LookupUser
      <4> QED
        BY <4>2, <4>3, <4>4, <1>6 DEF Answer
    <3> QED
      BY <1>5, <3>1
  <2>2. CASE Answer(q)
    BY <1>5, <1>6, <2>2 DEF Answer
  <2> QED
    BY <1>8, <2>1, <2>2 DEF Continue, Fail, EnsureFromSession, Insert, Revive, Update,
       Deactivate, Sign, GoogleRefresh, GoogleLink, GoogleInsert
<1>9. ASSUME NEW q \in Procs, LookupGoogleEmail(q), q # p PROVE Linking(req[p])'
  <2>1. req'[p] = req[p]
    BY <1>1, <1>9 DEF LookupGoogleEmail, Go, Answer
  <2> QED
    BY <1>2, <2>1
<1>10. CASE UNCHANGED req
  BY <1>2, <1>10
<1> QED
  BY <1>4, <1>7, <1>8, <1>9, <1>10 DEF Next, Continue, Logout, vars

LEMMA OneIInvHolds == Spec => []OneIInv
<1>1. Init => OneIInv
  <2> SUFFICES ASSUME Init PROVE OneIInv
    OBVIOUS
  <2>1. Identities
    BY SeedRowsAssumption DEF Init, Identities
  <2>2. \A p \in Procs : Linking(req[p])
    BY DEF Init, Linking, NoRequest, Request
  <2> QED
    BY <2>1, <2>2, InitIInv DEF OneIInv
<1>2. OneIInv /\ [Next]_vars => OneIInv'
  BY Inductive, IdentitiesNext, LinkingNext DEF OneIInv
<1> QED
  BY <1>1, <1>2, PTL DEF Spec

\* A set without two different members has at most one.
LEMMA AtMostOne ==
  ASSUME NEW S, \A x, y \in S : x = y
  PROVE  Cardinality(S) <= 1
<1>1. CASE S = {}
  BY <1>1, FS_EmptySet
<1>2. ASSUME NEW x \in S PROVE Cardinality(S) <= 1
  <2>1. S = {x}
    BY <1>2
  <2> QED
    BY <2>1, FS_Singleton
<1> QED
  BY <1>1, <1>2

\* A person has one row, however many sign-ins and POST /users overlap: no two
\* rows share an address or a Google account, and upsertGoogleUser only ever
\* links the account to the row with its own address.
THEOREM PeopleAreNotDuplicated == Spec => []OneRowPerPerson
<1>1. ASSUME OneIInv PROVE OneRowPerPerson
  <2>1. ASSUME NEW e \in Emails PROVE Cardinality(WithEmail(e)) <= 1
    <3>1. \A i, j \in WithEmail(e) : i = j
      BY <1>1, NullAssumption DEF OneIInv, Identities, WithEmail
    <3> QED
      BY <3>1, AtMostOne
  <2>2. ASSUME NEW g \in GoogleAccounts PROVE Cardinality(WithGoogle(g)) <= 1
    <3>1. \A i, j \in WithGoogle(g) : i = j
      BY <1>1, NullAssumption DEF OneIInv, Identities, WithGoogle
    <3> QED
      BY <3>1, AtMostOne
  <2> QED
    BY <1>1, <2>1, <2>2 DEF OneRowPerPerson, OneIInv, Identities
<1> QED
  BY <1>1, OneIInvHolds, PTL
-----------------------------------------------------------------------------
(* Requests that overlap. A request answers in the step that writes a row, *)
(* so what it has read of its target is what the row still holds when it   *)
(* writes, unless another request has changed that row in between.         *)

\* What a request still relies on of its target's row is what the row holds.
UpToDate(r) ==
  /\ r.op = "serve" /\ r.pc = "write" =>
       /\ user[r.target].role = r.session.role
       /\ user[r.target].dept = r.session.dept
  /\ r.op = "create" /\ r.pc = "write" => ~user[r.target].active
  /\ r.op = "update" /\ r.pc = "write" =>
       ~(/\ Kept(r.body.role, user[r.target].role) = "DeptStaff"
         /\ Kept(r.body.dept, user[r.target].dept) = NULL)
  /\ \/ r.op = "password" /\ r.pc = "sign"
     \/ r.op = "google" /\ r.pc \in {"refresh", "write"}
     => user[r.target].active

\* What a request relies on for good: the row it serves is its holder's, and a
\* new member of a department's staff is given the department.
Settled(r) ==
  r.pc # "idle" =>
    /\ r.op = "serve" => r.pc = "write" /\ r.session.id = r.target
    /\ r.op = "create" => (r.body.role = "DeptStaff" => r.body.dept # NULL)

\* As a request that has just read is.
Sound(r) == UpToDate(r) /\ Settled(r)

WatchIInv ==
  /\ IInv
  /\ \A p \in Procs : Settled(req[p]) /\ (outdated[p] \/ UpToDate(req[p]))

\* The history watches a behaviour of the directory.
LEMMA HistoryWatches == HSpec => Spec
<1>1. HInit => Init
  BY DEF HInit
<1>2. [HNext]_hvars => [Next]_vars
  BY DEF HNext, hvars
<1> QED
  BY <1>1, <1>2, PTL DEF HSpec, Spec

\* The steps that write rows.
Writes(p) ==
  \/ EnsureFromSession(p)
  \/ Insert(p) \/ Revive(p) \/ Update(p) \/ Deactivate(p)
  \/ GoogleLink(p) \/ GoogleInsert(p)

LEMMA Writers ==
  ASSUME [Next]_vars
  PROVE  UNCHANGED user \/ \E p \in Procs : Writes(p)
<1>1. ASSUME NEW p \in Procs, Arrive(p) PROVE UNCHANGED user
  BY <1>1 DEF Arrive, Serve, BeginPassword, BeginCreate, BeginUpdate, BeginDeactivate,
     BeginAdmin, Begin, BeginGoogle
<1>2. ASSUME NEW p \in Procs,
             \/ LookupEmail(p) \/ LookupUser(p) \/ Sign(p) \/ LookupGoogleEmail(p)
             \/ GoogleRefresh(p) \/ Fail(p)
      PROVE  UNCHANGED user
  BY <1>2 DEF LookupEmail, LookupUser, Sign, LookupGoogleEmail, GoogleRefresh, Fail
<1>3. ASSUME NEW i \in Ids, Logout(i) PROVE UNCHANGED user
  BY <1>3 DEF Logout
<1> QED
  BY <1>1, <1>2, <1>3 DEF Next, Continue, vars, Writes

\* A request that reads goes on with what it has read.
LEMMA ReadsAreSound ==
  ASSUME WatchIInv, NEW p \in Procs, NEW r, Go(p, r), UNCHANGED user, Sound(r)
  PROVE  Sound(req[p])'
<1>1. req'[p] = r
  BY DEF Go, WatchIInv, IInv
<1> QED
  BY <1>1 DEF Sound, UpToDate, Settled

LEMMA ArrivesSound ==
  ASSUME WatchIInv, NEW p \in Procs, Arrive(p)
  PROVE  Sound(req[p])'
<1>1. ASSUME NEW i \in Ids, NEW op, NEW pc, NEW body, NEW target,
             Begin(p, i, op, pc, body, target),
             op \in {"serve", "create", "update", "deactivate"},
             op = "serve" => pc = "write" /\ target = i,
             op = "create" => /\ pc = "lookup"
                              /\ body.role = "DeptStaff" => body.dept # NULL,
             op = "update" => pc = "lookup"
      PROVE  Sound(req[p])'
  <2>1. PICK r : r = Request(pc, op, Claims(i), body, NULL, target)
    OBVIOUS
  <2>2. /\ r.pc = pc /\ r.op = op /\ r.body = body /\ r.target = target /\ r.session.id = i
        /\ r.session.role = user[i].role /\ r.session.dept = user[i].dept
    BY <2>1 DEF Request, Claims
  <2>3. Sound(r)
    BY <1>1, <2>2 DEF Sound, UpToDate, Settled
  <2> QED
    BY <1>1, <2>1, <2>3, ReadsAreSound DEF Begin
<1>2. ASSUME NEW i \in Ids, Serve(p, i) PROVE Sound(req[p])'
  BY <1>1, <1>2 DEF Serve
<1>3. ASSUME NEW i \in Ids, NEW b \in CreateBodies, BeginCreate(p, i, b)
      PROVE  Sound(req[p])'
  BY <1>1, <1>3 DEF BeginCreate, BeginAdmin
<1>4. ASSUME NEW i \in Ids, NEW t \in Ids, NEW b \in UpdateBodies, BeginUpdate(p, i, t, b)
      PROVE  Sound(req[p])'
  BY <1>1, <1>4 DEF BeginUpdate, BeginAdmin
<1>5. ASSUME NEW i \in Ids, NEW t \in Ids, BeginDeactivate(p, i, t)
      PROVE  Sound(req[p])'
  BY <1>1, <1>5 DEF BeginDeactivate, BeginAdmin
<1>6. ASSUME NEW i \in Ids, BeginPassword(p, i) PROVE Sound(req[p])'
  <2>1. PICK r : r = Request("sign", "password", Claims(i), NoBody, NULL, i)
    OBVIOUS
  <2>2. Sound(r)
    BY <1>6, <2>1 DEF Sound, UpToDate, Settled, Request, BeginPassword
  <2> QED
    BY <1>6, <2>1, <2>2, ReadsAreSound DEF BeginPassword
<1>7. ASSUME NEW g \in GoogleAccounts, BeginGoogle(p, g) PROVE Sound(req[p])'
  <2>1. PICK pc, t : /\ Go(p, Request(pc, "google", NoSession, NoBody, g, t))
                     /\ pc \notin {"refresh", "write"} \/ user[t].active
    BY <1>7 DEF BeginGoogle
  <2>2. PICK r : r = Request(pc, "google", NoSession, NoBody, g, t)
    OBVIOUS
  <2>3. Sound(r)
    BY <2>1, <2>2 DEF Sound, UpToDate, Settled, Request
  <2> QED
    BY <1>7, <2>1, <2>2, <2>3, ReadsAreSound DEF BeginGoogle
<1> QED
  BY <1>2, <1>3, <1>4, <1>5, <1>6, <1>7 DEF Arrive

LEMMA LookupsAreSound ==
  ASSUME WatchIInv, NEW p \in Procs,
         LookupEmail(p) \/ LookupUser(p) \/ LookupGoogleEmail(p), ~Answer(p)
  PROVE  Sound(req[p])'
<1>1. PICK o : o = req[p] /\ o \in Requests /\ Settled(o)
  BY DEF WatchIInv, IInv, RequestOK
<1>2. CASE LookupEmail(p)
  <2>1. /\ UNCHANGED user /\ o.op = "create" /\ o.pc = "lookup"
        /\ \/ Go(p, [o EXCEPT !.pc = "insert"])
           \/ \E i \in Ids : ~user[i].active /\ Go(p, [o EXCEPT !.pc = "write", !.target = i])
    BY <1>1, <1>2 DEF LookupEmail, WithEmail, At
  <2>2. PICK r : /\ Go(p, r)
                 /\ \/ r = [o EXCEPT !.pc = "insert"]
                    \/ \E i \in Ids : ~user[i].active /\ r = [o EXCEPT !.pc = "write", !.target = i]
    BY <2>1
  <2>3. /\ r.op = o.op /\ r.body = o.body
        /\ r.pc = "insert" \/ (r.pc = "write" /\ ~user[r.target].active)
    <3>1. CASE r = [o EXCEPT !.pc = "insert"]
      BY <1>1, <3>1 DEF Requests
    <3>2. ASSUME NEW i \in Ids, ~user[i].active, r = [o EXCEPT !.pc = "write", !.target = i]
          PROVE  /\ r.op = o.op /\ r.body = o.body
                 /\ r.pc = "write" /\ ~user[r.target].active
      BY <1>1, <3>2 DEF Requests
    <3> QED
      BY <2>2, <3>1, <3>2
  <2>4. Sound(r)
    BY <1>1, <2>1, <2>3 DEF Sound, UpToDate, Settled
  <2> QED
    BY <2>1, <2>2, <2>4, ReadsAreSound
<1>3. CASE LookupUser(p)
  <2>1. PICK r : r = [o EXCEPT !.pc = "write"]
    OBVIOUS
  <2>2. r.op = "update" /\ r.body = o.body /\ r.target = o.target
    BY <1>1, <1>3, <2>1 DEF LookupUser, At, Requests
  <2>3. /\ Go(p, r)
        /\ ~(/\ Kept(o.body.role, user[o.target].role) = "DeptStaff"
             /\ Kept(o.body.dept, user[o.target].dept) = NULL)
    BY <1>1, <1>3, <2>1 DEF LookupUser
  <2>4. Sound(r)
    BY <2>2, <2>3 DEF Sound, UpToDate, Settled
  <2> QED
    BY <1>3, <2>3, <2>4, ReadsAreSound DEF LookupUser
<1>4. CASE LookupGoogleEmail(p)
  <2>1. /\ UNCHANGED user /\ o.op = "google"
        /\ \/ Go(p, [o EXCEPT !.pc = "insert"])
           \/ \E i \in Ids : user[i].active /\ Go(p, [o EXCEPT !.pc = "write", !.target = i])
    BY <1>1, <1>4 DEF LookupGoogleEmail, WithEmail, At
  <2>2. PICK r : /\ Go(p, r)
                 /\ \/ r = [o EXCEPT !.pc = "insert"]
                    \/ \E i \in Ids : user[i].active /\ r = [o EXCEPT !.pc = "write", !.target = i]
    BY <2>1
  <2>3. /\ r.op = o.op /\ r.body = o.body
        /\ r.pc = "insert" \/ (r.pc = "write" /\ user[r.target].active)
    <3>1. CASE r = [o EXCEPT !.pc = "insert"]
      BY <1>1, <3>1 DEF Requests
    <3>2. ASSUME NEW i \in Ids, user[i].active, r = [o EXCEPT !.pc = "write", !.target = i]
          PROVE  /\ r.op = o.op /\ r.body = o.body
                 /\ r.pc = "write" /\ user[r.target].active
      BY <1>1, <3>2 DEF Requests
    <3> QED
      BY <2>2, <3>1, <3>2
  <2>4. Sound(r)
    BY <1>1, <2>1, <2>3 DEF Sound, UpToDate, Settled
  <2> QED
    BY <2>1, <2>2, <2>4, ReadsAreSound
<1> QED
  BY <1>2, <1>3, <1>4

\* Every step of a request moves on its pc, except that of another request.
LEMMA OwnSteps ==
  ASSUME WatchIInv, [Next]_vars, NEW p \in Procs
  PROVE  \/ req'[p] = req[p]
         \/ Arrive(p) /\ req[p].pc = "idle"
         \/ (LookupEmail(p) \/ LookupUser(p) \/ LookupGoogleEmail(p)) /\ req[p].pc = "lookup"
         \/ Answer(p) /\ req[p].pc # "idle"
<1>1. \A q \in Procs : \A r : Go(q, r) => q = p \/ req'[p] = req[p]
  BY DEF Go, WatchIInv, IInv
<1>2. ASSUME NEW q \in Procs, Arrive(q)
      PROVE  req[q].pc = "idle" /\ \E r : Go(q, r)
  BY <1>2 DEF Arrive, Serve, BeginPassword, BeginCreate, BeginUpdate, BeginDeactivate,
     BeginAdmin, Begin, BeginGoogle
<1>3. ASSUME NEW q \in Procs, LookupEmail(q) \/ LookupUser(q) \/ LookupGoogleEmail(q)
      PROVE  req[q].pc = "lookup" /\ \E r : Go(q, r)
  BY <1>3 DEF LookupEmail, LookupUser, LookupGoogleEmail, At, Answer
<1>4. ASSUME NEW q \in Procs,
             Writes(q) \/ Sign(q) \/ GoogleRefresh(q) \/ Fail(q)
      PROVE  Answer(q) /\ req[q].pc # "idle"
  BY <1>4 DEF Writes, EnsureFromSession, Insert, Revive, Update, Deactivate, Sign,
     GoogleRefresh, GoogleLink, GoogleInsert, Fail, At
<1> QED
  BY <1>1, <1>2, <1>3, <1>4 DEF Next, Continue, Writes, Logout, vars, Answer

\* A request whose read is not outdated after a step relied on it before, and
\* its target's row has not changed.
LEMMA StillFresh ==
  ASSUME Observe, NEW p \in Procs, Relies(p), ~outdated'[p]
  PROVE  ~outdated[p] /\ \A i \in Ids : i = req[p].target => user'[i] = user[i]
BY DEF Observe

LEMMA WatchNext ==
  ASSUME WatchIInv, [HNext]_hvars, NEW p \in Procs
  PROVE  Settled(req[p])' /\ (outdated'[p] \/ UpToDate(req[p])')
<1>1. [Next]_vars
  BY DEF HNext, hvars
<1>2. ASSUME Sound(req[p])' PROVE Settled(req[p])' /\ (outdated'[p] \/ UpToDate(req[p])')
  BY <1>2 DEF Sound
<1>3. CASE Arrive(p)
  BY <1>2, <1>3, ArrivesSound
<1>4. CASE Answer(p)
  <2>1. req'[p].pc = "idle"
    BY <1>4 DEF Answer, Go, NoRequest, Request, WatchIInv, IInv
  <2> QED
    BY <2>1 DEF Settled, UpToDate
<1>5. CASE (LookupEmail(p) \/ LookupUser(p) \/ LookupGoogleEmail(p)) /\ ~Answer(p)
  BY <1>2, <1>5, LookupsAreSound
<1>6. CASE req'[p] = req[p]
  <2>1. Settled(req[p])'
    BY <1>6 DEF WatchIInv, Settled
  <2>2. CASE req[p].pc \in {"idle", "lookup"}
    BY <1>6, <2>1, <2>2 DEF UpToDate
  <2>3. CASE Relies(p) /\ HNext /\ ~outdated'[p]
    <3>1. UpToDate(req[p]) /\ (req[p].target \in Ids => user'[req[p].target] = user[req[p].target])
      BY <2>3, StillFresh DEF HNext, WatchIInv
    <3>2. req[p].pc = "idle" \/ req[p].op = "deactivate" \/ req[p].target \in Ids
          \/ ~(\/ req[p].op = "serve" /\ req[p].pc = "write"
               \/ req[p].op = "create" /\ req[p].pc = "write"
               \/ req[p].op = "update" /\ req[p].pc = "write"
               \/ req[p].op = "password" /\ req[p].pc = "sign"
               \/ req[p].op = "google" /\ req[p].pc \in {"refresh", "write"})
      BY DEF WatchIInv, IInv, RequestOK, Aims, Settled, SessionOK, Requests, Session
    <3> QED
      BY <1>6, <2>1, <2>2, <3>1, <3>2 DEF UpToDate
  <2>4. CASE UNCHANGED hvars
    BY <1>6, <2>1, <2>4 DEF hvars, vars, WatchIInv, UpToDate
  <2> QED
    BY <1>6, <2>1, <2>2, <2>3, <2>4 DEF Relies
<1> QED
  BY <1>1, <1>3, <1>4, <1>5, <1>6, OwnSteps

LEMMA WatchInvariance == HSpec => []WatchIInv
<1>1. HInit => WatchIInv
  <2> SUFFICES ASSUME HInit PROVE WatchIInv
    OBVIOUS
  <2>1. IInv
    BY InitIInv DEF HInit
  <2>2. \A p \in Procs : Settled(req[p]) /\ UpToDate(req[p])
    BY DEF HInit, Init, Settled, UpToDate, NoRequest, Request
  <2> QED
    BY <2>1, <2>2 DEF WatchIInv
<1>2. WatchIInv /\ [HNext]_hvars => WatchIInv'
  <2> SUFFICES ASSUME WatchIInv, [HNext]_hvars PROVE WatchIInv'
    OBVIOUS
  <2>1. IInv'
    BY Inductive DEF WatchIInv, HNext, hvars
  <2> QED
    BY <2>1, WatchNext DEF WatchIInv
<1> QED
  BY <1>1, <1>2, PTL DEF HSpec

\* A write of row i for request p, which then answers.
LEMMA WritesTarget ==
  ASSUME WatchIInv, NEW p \in Procs, Writes(p)
  PROVE  /\ req'[p].pc = "idle"
         /\ Insert(p) \/ GoogleInsert(p) \/
              /\ req[p].target \in Ids /\ user[req[p].target] \in Row
              /\ \A i \in Ids : user'[i] # user[i] => i = req[p].target
<1>1. Answer(p)
  BY DEF Writes, EnsureFromSession, Insert, Revive, Update, Deactivate, GoogleLink,
     GoogleInsert
<1>2. req'[p].pc = "idle"
  BY <1>1 DEF Answer, Go, NoRequest, Request, WatchIInv, IInv
<1>3. CASE ~Insert(p) /\ ~GoogleInsert(p)
  <2>1. req[p].target \in Ids
    <3>1. CASE EnsureFromSession(p)
      BY <3>1 DEF EnsureFromSession, At, WatchIInv, Settled, IInv, RequestOK, SessionOK,
         Requests, Session
    <3>2. CASE Revive(p) \/ Update(p) \/ Deactivate(p) \/ GoogleLink(p)
      BY <3>2 DEF Revive, Update, Deactivate, GoogleLink, At, WatchIInv, IInv, RequestOK,
         Aims
    <3> QED
      BY <1>3, <3>1, <3>2 DEF Writes
  <2>2. user \in [Ids -> Row]
    BY DEF WatchIInv, IInv, RowsOK
  <2>3. \A i \in Ids : i # req[p].target => user'[i] = user[i]
    <3>1. CASE EnsureFromSession(p)
      <4>1. req[p].session.id = req[p].target
        BY <3>1 DEF EnsureFromSession, At, WatchIInv, Settled
      <4> QED
        BY <2>2, <3>1, <4>1 DEF EnsureFromSession
    <3>2. CASE Revive(p)
      BY <2>2, <3>2 DEF Revive
    <3>3. CASE Update(p)
      BY <2>2, <3>3 DEF Update
    <3>4. CASE Deactivate(p)
      BY <2>2, <3>4 DEF Deactivate
    <3>5. CASE GoogleLink(p)
      BY <2>2, <3>5 DEF GoogleLink
    <3> QED
      BY <1>3, <3>1, <3>2, <3>3, <3>4, <3>5 DEF Writes
  <2> QED
    BY <1>2, <2>1, <2>2, <2>3
<1> QED
  BY <1>2, <1>3

\* A role changes only by an administrator's POST or PATCH /users, or when
\* ensureFromSession writes back what it read before the row changed, for any
\* number of overlapping requests.
THEOREM RolesAreAdministered == HSpec => RolesChangeKnowingly
<1> DEFINE Knowingly(i) ==
      \E p \in Procs :
         \/ At(p, "create", "write") /\ req[p].target = i
         \/ At(p, "update", "write") /\ req[p].target = i
         \/ At(p, "serve", "write") /\ ActsOutdated(p, i)
<1>1. ASSUME WatchIInv, [HNext]_hvars, NEW i \in Ids, Exists(i),
             user'[i].role # user[i].role
      PROVE  Knowingly(i)
  <2>1. user \in [Ids -> Row] /\ user[i] \in Row /\ user'[i] # user[i]
    BY <1>1 DEF WatchIInv, IInv, RowsOK
  <2>2. PICK p \in Procs : Writes(p)
    BY <1>1, Writers DEF HNext, hvars
  <2>3. ASSUME Insert(p) \/ GoogleInsert(p) PROVE FALSE
    BY <1>1, <2>1, <2>3 DEF Insert, GoogleInsert, InsertRow
  <2>4. i = req[p].target /\ req'[p].pc = "idle"
    BY <1>1, <2>1, <2>2, <2>3, WritesTarget
  <2>5. ASSUME EnsureFromSession(p) PROVE outdated[p]
    <3>1. /\ Settled(req[p]) /\ (outdated[p] \/ UpToDate(req[p]))
          /\ At(p, "serve", "write")
      BY <1>1, <2>5 DEF WatchIInv, EnsureFromSession
    <3>2. req[p].session.id = i
      BY <2>4, <3>1 DEF At, Settled
    <3>3. user'[i].role = req[p].session.role
      BY <2>1, <2>5, <3>2 DEF EnsureFromSession, Row
    <3> QED
      BY <1>1, <2>4, <3>1, <3>3 DEF At, UpToDate
  <2>6. ASSUME Deactivate(p) PROVE FALSE
    BY <1>1, <2>1, <2>6 DEF Deactivate, Row
  <2>7. ASSUME GoogleLink(p) PROVE FALSE
    BY <1>1, <2>1, <2>7 DEF GoogleLink, Row
  <2>8. EnsureFromSession(p) => At(p, "serve", "write")
    BY DEF EnsureFromSession
  <2> QED
    BY <2>2, <2>3, <2>4, <2>5, <2>6, <2>7, <2>8 DEF Writes, Revive, Update, ActsOutdated
<1>2. WatchIInv /\ [HNext]_hvars =>
        \A i \in Ids : Exists(i) /\ user'[i].role # user[i].role =>
          \E p \in Procs :
            \/ At(p, "create", "write") /\ req[p].target = i
            \/ At(p, "update", "write") /\ req[p].target = i
            \/ At(p, "serve", "write") /\ ActsOutdated(p, i)
  BY <1>1
<1> QED
  BY <1>2, WatchInvariance, PTL DEF HSpec, RolesChangeKnowingly

\* POST /users rewrites an active row only if that row has changed since the
\* look-up found it deactivated, however many creations, deletions and logins
\* overlap.
THEOREM CreateSparesTheActive == HSpec => CreateSparesActiveRows
<1>1. ASSUME WatchIInv, [HNext]_hvars, NEW p \in Procs, At(p, "create", "write"),
             req'[p].pc = "idle", NEW i \in Ids, user[i].active, user'[i] # user[i]
      PROVE  ActsOutdated(p, i)
  <2>1. [Next]_vars
    BY <1>1 DEF HNext, hvars
  <2>2. PICK q \in Procs : Writes(q)
    BY <1>1, <2>1, Writers
  <2>3. q = p
    <3>1. Answer(q)
      BY <2>2 DEF Writes, EnsureFromSession, Insert, Revive, Update, Deactivate,
         GoogleLink, GoogleInsert
    <3> QED
      BY <1>1, <3>1 DEF Answer, Go, At, WatchIInv, IInv
  <2>4. req[p].target = i
    BY <1>1, <2>2, <2>3, WritesTarget DEF Insert, GoogleInsert, At
  <2> QED
    BY <1>1, <2>4 DEF ActsOutdated, WatchIInv, At, UpToDate
<1>2. WatchIInv /\ [HNext]_hvars =>
        \A p \in Procs : At(p, "create", "write") /\ req'[p].pc = "idle" =>
          \A i \in Ids : user[i].active /\ user'[i] # user[i] => ActsOutdated(p, i)
  BY <1>1
<1> QED
  BY <1>2, WatchInvariance, PTL DEF HSpec, CreateSparesActiveRows

\* The rows that requests write belong to the roles, unless outdated.
LEMMA WrittenRowsComply ==
  ASSUME WatchIInv, NEW p \in Procs, Writes(p), NEW i \in Ids,
         Complies(user[i]), ~Complies(user'[i])
  PROVE  req[p].target = i /\ outdated[p]
<1>1. /\ user \in [Ids -> Row] /\ user[i] \in Row /\ user'[i] # user[i]
      /\ RequestOK(req[p]) /\ Settled(req[p]) /\ (outdated[p] \/ UpToDate(req[p]))
  BY DEF WatchIInv, IInv, RowsOK
<1>2. ASSUME NEW j \in Ids, NEW row, user' = [user EXCEPT ![j] = row], Complies(row)
      PROVE  FALSE
  BY <1>1, <1>2
<1>3. ASSUME Insert(p) PROVE FALSE
  <2>1. PICK b : b = req[p].body
    OBVIOUS
  <2>2. PICK row : row = [email |-> b.email, role |-> b.role, dept |-> b.dept,
                          active |-> TRUE, google |-> NULL, password |-> b.password]
    OBVIOUS
  <2>3. Complies(row)
    BY <1>1, <1>3, <2>1, <2>2 DEF Insert, At, Settled, Complies
  <2> QED
    BY <1>2, <1>3, <2>1, <2>2, <2>3 DEF Insert, InsertRow
<1>4. ASSUME GoogleInsert(p) PROVE FALSE
  <2>1. PICK e, row : /\ e = GoogleEmail[req[p].google]
                      /\ row = [email |-> e, role |-> "SV", dept |-> NULL, active |-> TRUE,
                                google |-> req[p].google, password |-> FALSE]
    OBVIOUS
  <2>2. Complies(row)
    BY <2>1 DEF Complies
  <2> QED
    BY <1>2, <1>4, <2>1, <2>2 DEF GoogleInsert, InsertRow
<1>5. req[p].target = i
  BY <1>1, <1>3, <1>4, WritesTarget
<1>6. ASSUME EnsureFromSession(p), UpToDate(req[p]) PROVE FALSE
  <2>1. PICK r : r = req[p] /\ r.session.id = i
    BY <1>1, <1>5, <1>6 DEF EnsureFromSession, At, Settled
  <2>2. PICK d : d = IF r.session.role = "DeptStaff" THEN r.session.dept ELSE NULL
    OBVIOUS
  <2>3. r.session.role = user[i].role /\ r.session.dept = user[i].dept
    BY <1>5, <1>6, <2>1 DEF EnsureFromSession, At, UpToDate
  <2>4. user'[i].role = r.session.role /\ user'[i].dept = d
    BY <1>1, <1>6, <2>1, <2>2 DEF EnsureFromSession, Row
  <2> QED
    BY <2>2, <2>3, <2>4 DEF Complies
<1>7. ASSUME Revive(p) PROVE FALSE
  <2>1. PICK b : b = req[p].body
    OBVIOUS
  <2>2. PICK row : row = [user[i] EXCEPT !.role = b.role, !.dept = b.dept,
                                         !.password = b.password, !.active = TRUE]
    OBVIOUS
  <2>3. row.role = b.role /\ row.dept = b.dept
    BY <1>1, <2>2 DEF Row
  <2>4. Complies(row)
    BY <1>1, <1>7, <2>1, <2>3 DEF Revive, At, Settled, Complies
  <2> QED
    BY <1>2, <1>5, <1>7, <2>1, <2>2, <2>4 DEF Revive
<1>8. ASSUME Update(p), UpToDate(req[p]) PROVE FALSE
  <2>1. PICK b : b = req[p].body
    OBVIOUS
  <2>2. PICK role, dept, password : /\ role = Kept(b.role, user[i].role)
                                    /\ dept = Kept(b.dept, user[i].dept)
                                    /\ password = (user[i].password \/ b.password)
    OBVIOUS
  <2>3. role = "DeptStaff" => dept # NULL
    BY <1>5, <1>8, <2>1, <2>2 DEF Update, At, UpToDate
  <2>4. PICK row : row = [user[i] EXCEPT !.role = role, !.dept = dept, !.password = password]
    OBVIOUS
  <2>5. row.role = role /\ row.dept = dept
    BY <1>1, <2>4 DEF Row
  <2>6. user' = [user EXCEPT ![i] = row]
    BY <1>5, <1>8, <2>1, <2>2, <2>4, Zenon DEF Update
  <2> QED
    BY <1>2, <2>3, <2>5, <2>6 DEF Complies
<1>9. ASSUME Deactivate(p) PROVE FALSE
  BY <1>1, <1>9 DEF Deactivate, Row, Complies
<1>10. ASSUME GoogleLink(p) PROVE FALSE
  BY <1>1, <1>10 DEF GoogleLink, Row, Complies
<1> QED
  BY <1>1, <1>3, <1>4, <1>5, <1>6, <1>7, <1>8, <1>9, <1>10 DEF Writes

\* A row of department staff loses its department only when a request writes it
\* on an outdated read: the check of UserService.create and update on the
\* resolved role and department is enough without an overlap on that row, and
\* neither a login nor ensureFromSession undoes it.
THEOREM StaffHaveDepartments == HSpec => StaffNeedDepartments
<1>1. ASSUME WatchIInv, [HNext]_hvars, NEW i \in Ids, Complies(user[i]), ~Complies(user'[i])
      PROVE  \E p \in Procs : ActsOutdated(p, i)
  <2>1. PICK p \in Procs : Writes(p)
    BY <1>1, Writers DEF HNext, hvars
  <2> QED
    BY <1>1, <2>1, WrittenRowsComply, WritesTarget DEF ActsOutdated
<1>2. WatchIInv /\ [HNext]_hvars =>
        \A i \in Ids : Complies(user[i]) /\ ~Complies(user'[i]) =>
          \E p \in Procs : ActsOutdated(p, i)
  BY <1>1
<1> QED
  BY <1>2, WatchInvariance, PTL DEF HSpec, StaffNeedDepartments

\* A login hands a cookie to a deactivated user only if the row has changed
\* during that login: the look at isActive in verifyCredentials and
\* upsertGoogleUser is enough unless a deletion comes between it and the cookie.
THEOREM LoginsAreForTheActive == HSpec => CookiesAreForTheActive
<1>1. ASSUME WatchIInv, [HNext]_hvars, NEW i \in Ids, cookie'[i] # cookie[i],
             cookie'[i] # NoSession, ~user'[i].active
      PROVE  \E p \in Procs : ActsOutdated(p, i)
  <2>1. /\ user \in [Ids -> Row] /\ user[i] \in Row /\ cookie \in [Ids -> Session]
        /\ \A p \in Procs : outdated[p] \/ UpToDate(req[p])
    BY <1>1 DEF WatchIInv, IInv, RowsOK
  <2>2. PICK p \in Procs : Sign(p) \/ GoogleRefresh(p) \/ GoogleLink(p) \/ GoogleInsert(p)
    <3>1. ASSUME NEW p \in Procs, Arrive(p) PROVE UNCHANGED cookie
      BY <3>1 DEF Arrive, Serve, BeginPassword, BeginCreate, BeginUpdate,
         BeginDeactivate, BeginAdmin, Begin, BeginGoogle
    <3>2. ASSUME NEW p \in Procs,
                 \/ EnsureFromSession(p) \/ LookupEmail(p) \/ Insert(p) \/ Revive(p)
                 \/ LookupUser(p) \/ Update(p) \/ Deactivate(p) \/ LookupGoogleEmail(p)
                 \/ Fail(p)
          PROVE  UNCHANGED cookie
      BY <3>2 DEF EnsureFromSession, LookupEmail, Insert, Revive, LookupUser, Update,
         Deactivate, LookupGoogleEmail, Fail
    <3>3. ASSUME NEW j \in Ids, Logout(j) PROVE FALSE
      BY <1>1, <2>1, <3>3 DEF Logout
    <3> QED
      BY <1>1, <3>1, <3>2, <3>3 DEF HNext, hvars, Next, Continue, vars
  <2>3. req'[p].pc = "idle"
    BY <1>1, <2>2 DEF Sign, GoogleRefresh, GoogleLink, GoogleInsert, Answer, Go,
       NoRequest, Request, WatchIInv, IInv
  <2>4. CASE Sign(p) \/ GoogleRefresh(p)
    <3>1. req[p].target = i /\ UNCHANGED user
      BY <1>1, <2>1, <2>4 DEF Sign, GoogleRefresh
    <3>2. UpToDate(req[p]) => user[i].active
      BY <2>4, <3>1 DEF Sign, GoogleRefresh, At, UpToDate
    <3> QED
      BY <1>1, <2>1, <2>3, <3>1, <3>2 DEF ActsOutdated
  <2>5. CASE GoogleLink(p)
    <3>1. req[p].target = i
      BY <1>1, <2>1, <2>5 DEF GoogleLink
    <3>2. user'[i].active = user[i].active
      BY <2>1, <2>5 DEF GoogleLink, Row
    <3>3. UpToDate(req[p]) => user[i].active
      BY <2>5, <3>1 DEF GoogleLink, At, UpToDate
    <3> QED
      BY <1>1, <2>1, <2>3, <3>1, <3>2, <3>3 DEF ActsOutdated
  <2>6. CASE GoogleInsert(p)
    <3>1. user'[i] # user[i]
      BY <1>1, <2>6 DEF GoogleInsert
    <3>2. PICK e, row : /\ e = GoogleEmail[req[p].google]
                        /\ row = [email |-> e, role |-> "SV", dept |-> NULL, active |-> TRUE,
                                  google |-> req[p].google, password |-> FALSE]
      OBVIOUS
    <3>3. \E j \in Ids : user' = [user EXCEPT ![j] = row]
      BY <2>6, <3>2 DEF GoogleInsert, InsertRow
    <3> QED
      BY <1>1, <2>1, <3>1, <3>2, <3>3
  <2> QED
    BY <2>2, <2>4, <2>5, <2>6
<1>2. WatchIInv /\ [HNext]_hvars =>
        \A i \in Ids : cookie'[i] # cookie[i] /\ cookie'[i] # NoSession =>
          user'[i].active \/ \E p \in Procs : ActsOutdated(p, i)
  BY <1>1
<1> QED
  BY <1>2, WatchInvariance, PTL DEF HSpec, CookiesAreForTheActive
=============================================================================
