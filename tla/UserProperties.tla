----------------------------- MODULE UserProperties -----------------------------
(***************************************************************************)
(* What must hold of module UserDirectory, for any number of requests at a *)
(* time. Some comments of the source promise more than the code keeps when *)
(* requests overlap; the second part says what an overlap can break, and   *)
(* that nothing else can.                                                  *)
(***************************************************************************)
EXTENDS UserHistory, Naturals, FiniteSets

Row ==
  [email : Emails \cup {NULL}, role : AllRoles \cup {NULL},
   dept : Depts \cup {NULL}, active : BOOLEAN,
   google : GoogleAccounts \cup {NULL}, password : BOOLEAN]
Session ==
  [id : Ids \cup {NULL}, role : AllRoles \cup {NULL}, dept : Depts \cup {NULL}]

\* Rows and cookies have the types of the Prisma schema and of JwtClaims; a
\* row exists with a role or not at all.
TypeOK ==
  /\ user \in [Ids -> Row]
  /\ cookie \in [Ids -> Session]
  /\ \A i \in Ids : user[i].email = NULL <=> user[i].role = NULL
  /\ \A p \in Procs : req[p].session \in Session

\* A person has one row: no two rows share an address or a Google account, and
\* a row is only ever linked to the Google account of its own address, however
\* sign-ins and POST /users interleave.
OneRowPerPerson ==
  /\ \A e \in Emails : Cardinality(WithEmail(e)) <= 1
  /\ \A g \in GoogleAccounts : Cardinality(WithGoogle(g)) <= 1
  /\ \A i \in Ids : user[i].google # NULL =>
       GoogleEmail[user[i].google] = user[i].email

\* No row or open session ever has a role that nobody gave to that user: what
\* ensureFromSession writes back may be out of date, but never made up.
OnlyGrantedRoles ==
  /\ \A i \in Ids : Exists(i) => user[i].role \in granted[i]
  /\ \A p \in Procs : LET s == req[p].session IN
       s.id # NULL => s.role \in granted[s.id]

\* Deleting a user sticks: only POST /users for the same address reactivates
\* the row, never a login or a request that was in flight.
OnlyCreateRevives ==
  [][\A i \in Ids : Exists(i) /\ ~user[i].active /\ user'[i].active =>
       \E p \in Procs : At(p, "create", "write") /\ req[p].target = i]_vars

-----------------------------------------------------------------------------
(* What the reads and checks before a write are good for. They are made in *)
(* statements of their own: another request can write the row in between,  *)
(* which outdates them, and nothing else breaks what they establish.       *)

\* Request p writes, in this step, what it decided on an outdated read of row i.
ActsOutdated(p, i) == req[p].target = i /\ outdated[p] /\ req'[p].pc = "idle"

\* A role changes only by an administrator's POST or PATCH, except that
\* ensureFromSession may write an old role back when the row has changed since
\* requireAuth read it: never from the cookie, nor into another user's row.
RolesChangeKnowingly ==
  [][\A i \in Ids : Exists(i) /\ user'[i].role # user[i].role =>
       \E p \in Procs :
         \/ At(p, "create", "write") /\ req[p].target = i
         \/ At(p, "update", "write") /\ req[p].target = i
         \/ At(p, "serve", "write") /\ ActsOutdated(p, i)]_vars

\* "role=DeptStaff requires a departmentId" (UserService.create and update): a
\* row stops complying only when a request writes it on an outdated read.
Complies(row) == row.role = "DeptStaff" => row.dept # NULL
StaffNeedDepartments ==
  [][\A i \in Ids : Complies(user[i]) /\ ~Complies(user'[i]) =>
       \E p \in Procs : ActsOutdated(p, i)]_vars

\* "An ACTIVE row owns the email -> real conflict" (UserService.create): POST
\* /users rewrites an active row only if the row has changed since the look-up
\* that found it deactivated.
CreateSparesActiveRows ==
  [][\A p \in Procs : At(p, "create", "write") /\ req'[p].pc = "idle" =>
       \A i \in Ids : user[i].active /\ user'[i] # user[i] => ActsOutdated(p, i)]_vars

\* "A deactivated (soft-deleted) account must not be able to sign back in"
\* (upsertGoogleUser, verifyCredentials): a login hands a cookie to a user whose
\* row is not active only if the row has changed during that very login.
CookiesAreForTheActive ==
  [][\A i \in Ids : cookie'[i] # cookie[i] /\ cookie'[i] # NoSession =>
       user'[i].active \/ \E p \in Procs : ActsOutdated(p, i)]_vars

-----------------------------------------------------------------------------
(* Promised by comments without a proviso, and broken by an overlap.       *)

\* "this service enforces the data invariants: role=DeptStaff requires a
\* departmentId" (UserService.create).
DeptStaffHasDept == \A i \in Ids : Complies(user[i])

\* "an admin's role/dept change takes effect at once" (requireAuth): a role
\* changes only by an administrator's request.
OnlyAdminsChangeRoles ==
  [][\A i \in Ids : Exists(i) /\ user'[i].role # user[i].role =>
       \E p \in Procs : \/ At(p, "create", "write")
                        \/ At(p, "update", "write")]_vars

\* "An ACTIVE row owns the email -> real conflict" (UserService.create): POST
\* /users never rewrites an active row.
ActiveOwnerIsAConflict ==
  [][\A p \in Procs : At(p, "create", "write") /\ req'[p].pc = "idle" =>
       \A i \in Ids : user[i].active => user'[i] = user[i]]_vars
=============================================================================
