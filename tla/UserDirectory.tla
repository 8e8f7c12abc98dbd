----------------------------- MODULE UserDirectory -----------------------------
(***************************************************************************)
(* The user rows of the helpdesk and the session cookies that name them:   *)
(* src/src/services/UserService.ts, AuthService.ts and middleware/auth.ts. *)
(*                                                                         *)
(* A cookie only proves an id: requireAuth reads the row again on every    *)
(* request, and the request then goes on with the role and department of   *)
(* that read. ensureFromSession later writes them back into the row, and   *)
(* the administrators' operations look a row up, check it, and write in a  *)
(* statement of their own; none of them runs in a transaction.             *)
(*                                                                         *)
(* Left out: names and avatars, the expiry of a cookie (a request may      *)
(* always come too late), and the X-Mock-* sessions of the test suite, the *)
(* only ones whose row ensureFromSession may have to insert. Departments   *)
(* are never deleted.                                                      *)
(***************************************************************************)
CONSTANTS
  Ids,             \* user ids
  Emails,          \* addresses, which never change once a row has one
  GoogleAccounts,  \* Google account ids ("sub")
  GoogleEmail,     \* GoogleEmail[g]: the address Google verified for g
  Depts, NULL,
  Roles,           \* the roles an administrator hands out (bound)
  SetsPassword,    \* whether POST and PATCH bodies bear a password (bound)
  Seed,            \* Seed[i]: the row of user i to begin with
  Procs,           \* requests in flight: each process serves one at a time
  Ops              \* the operations that clients call (bound)

AllRoles == {"SV", "GV", "NV", "HelpdeskLead", "HelpdeskAgent", "DeptStaff", "Admin"}

ASSUME NullAssumption ==
  /\ NULL \notin Ids \cup Emails \cup GoogleAccounts \cup Depts
  /\ NULL \notin AllRoles \cup {"keep"}
ASSUME SeedAssumption ==
  /\ Seed \in [Ids -> [email : Emails \cup {NULL}, role : AllRoles \cup {NULL},
                      dept : Depts \cup {NULL}, active : BOOLEAN,
                      google : GoogleAccounts \cup {NULL}, password : BOOLEAN]]
  /\ \A i \in Ids : IF Seed[i].email = NULL
                    THEN Seed[i].role = NULL /\ Seed[i].google = NULL
                    ELSE Seed[i].role # NULL
\* email and googleId are unique in the schema, an account has been linked to
\* the row with its address, and staff of a department have one (PERSONAS).
ASSUME SeedRowsAssumption ==
  \A i, j \in Ids :
    /\ Seed[i].email = Seed[j].email => i = j \/ Seed[i].email = NULL
    /\ Seed[i].google = Seed[j].google => i = j \/ Seed[i].google = NULL
    /\ Seed[i].google # NULL => GoogleEmail[Seed[i].google] = Seed[i].email
    /\ Seed[i].role = "DeptStaff" => Seed[i].dept # NULL
ASSUME GoogleAssumption == GoogleEmail \in [GoogleAccounts -> Emails]
ASSUME OpsAssumption ==
  /\ Ops \subseteq {"serve", "create", "update", "deactivate", "password", "google",
                    "logout"}
  /\ Roles \subseteq AllRoles /\ SetsPassword \subseteq BOOLEAN

VARIABLES
  user,      \* user[i]: the row of user i, NoUser when there is none
  cookie,    \* cookie[i]: the claims of the session cookie that i holds
  req,       \* req[p]: the request that process p serves
  granted    \* granted[i]: every role an administrator, the seed or the first
             \* Google sign-in gave to i (history)

vars == <<user, cookie, req, granted>>

NoUser == [email |-> NULL, role |-> NULL, dept |-> NULL, active |-> FALSE,
           google |-> NULL, password |-> FALSE]
NoSession == [id |-> NULL, role |-> NULL, dept |-> NULL]
KEEP == "keep"   \* a PATCH body without that key
NoBody == [email |-> NULL, role |-> NULL, dept |-> NULL, password |-> FALSE]
Request(pc, op, session, body, google, target) ==
  [pc |-> pc, op |-> op, session |-> session, body |-> body, google |-> google,
   target |-> target]
NoRequest == Request("idle", NULL, NoSession, NoBody, NULL, NULL)

Exists(i) == user[i].email # NULL
Claims(i) == [id |-> i, role |-> user[i].role, dept |-> user[i].dept]
WithEmail(e) == {i \in Ids : user[i].email = e}
WithGoogle(g) == {i \in Ids : user[i].google = g}

\* The users of the seed have rows, and may have logged in already.
Init ==
  /\ user = Seed
  /\ cookie = [i \in Ids |-> IF Exists(i) THEN Claims(i) ELSE NoSession]
  /\ req = [p \in Procs |-> NoRequest]
  /\ granted = [i \in Ids |-> IF Exists(i) THEN {user[i].role} ELSE {}]

-----------------------------------------------------------------------------
(* Steps of a request. It answers when it goes back to idle.               *)

At(p, op, pc) == req[p].op = op /\ req[p].pc = pc
Go(p, r) == req' = [req EXCEPT ![p] = r]
Answer(p) == Go(p, NoRequest)

\* requireAuth lets the holder of i's cookie in: the row is there and active.
RequireAuth(i) == cookie[i] # NoSession /\ Exists(i) /\ user[i].active

Begin(p, i, op, pc, body, target) ==
  /\ op \in Ops
  /\ req[p].pc = "idle"
  /\ RequireAuth(i)
  /\ Go(p, Request(pc, op, Claims(i), body, NULL, target))
  /\ UNCHANGED <<user, cookie, granted>>

\* requireRole('Admin') judges the session that requireAuth has just read.
BeginAdmin(p, i, op, pc, body, target) ==
  user[i].role = "Admin" /\ Begin(p, i, op, pc, body, target)

\* A ticket mutation, or any request for notifications, even to list them.
Serve(p, i) == Begin(p, i, "serve", "write", NoBody, i)

\* Mutants of EnsureFromSession: the upsert reactivates the row; it takes the
\* claims of the cookie for the session.
EnsureReactivates(p) ==
  LET s == req[p].session IN
  /\ At(p, "serve", "write")
  /\ user' = [user EXCEPT ![s.id].role = s.role, ![s.id].active = TRUE]
  /\ Answer(p)
  /\ UNCHANGED <<cookie, granted>>

EnsureFromCookie(p) ==
  LET s == cookie[req[p].session.id] IN
  /\ At(p, "serve", "write")
  /\ user' = [user EXCEPT ![req[p].session.id].role = s.role,
                          ![req[p].session.id].dept = s.dept]
  /\ Answer(p)
  /\ UNCHANGED <<cookie, granted>>

\* ensureFromSession: role and department of the session go into the row; only
\* DeptStaff keep a department.
EnsureFromSession(p) ==
  LET s == req[p].session IN
  /\ At(p, "serve", "write")
  /\ user' = [user EXCEPT ![s.id].role = s.role,
                          ![s.id].dept = IF s.role = "DeptStaff" THEN s.dept
                                                                 ELSE NULL]
  /\ Answer(p)
  /\ UNCHANGED <<cookie, granted>>

-----------------------------------------------------------------------------
(* The administrators' operations.                                         *)

BeginCreate(p, i, b) ==
  /\ b.role = "DeptStaff" => b.dept # NULL
  /\ BeginAdmin(p, i, "create", "lookup", b, NULL)

\* Mutant of LookupEmail: an active owner of the address is no conflict.
LookupEmailAnyRow(p) ==
  /\ At(p, "create", "lookup")
  /\ \/ WithEmail(req[p].body.email) = {} /\ Go(p, [req[p] EXCEPT !.pc = "insert"])
     \/ \E i \in WithEmail(req[p].body.email) :
          Go(p, [req[p] EXCEPT !.pc = "write", !.target = i])
  /\ UNCHANGED <<user, cookie, granted>>

\* findUnique by email: 409 if an active row has it, revive a deactivated one.
\* The password is hashed next, so the write comes later.
LookupEmail(p) ==
  /\ At(p, "create", "lookup")
  /\ LET owner == WithEmail(req[p].body.email) IN
       \/ owner = {} /\ Go(p, [req[p] EXCEPT !.pc = "insert"])
       \/ \E i \in owner :
            IF user[i].active THEN Answer(p)
            ELSE Go(p, [req[p] EXCEPT !.pc = "write", !.target = i])
  /\ UNCHANGED <<user, cookie, granted>>

\* email and googleId are unique in the schema: of two inserts one fails (500).
InsertRow(e, row) ==
  \E i \in Ids :
    /\ ~Exists(i) /\ WithEmail(e) = {}
    /\ row.google # NULL => WithGoogle(row.google) = {}
    /\ user' = [user EXCEPT ![i] = row]
    /\ granted' = [granted EXCEPT ![i] = @ \cup {row.role}]

Insert(p) ==
  LET b == req[p].body IN
  /\ At(p, "create", "insert")
  /\ InsertRow(b.email, [email |-> b.email, role |-> b.role, dept |-> b.dept,
                         active |-> TRUE, google |-> NULL, password |-> b.password])
  /\ Answer(p)
  /\ UNCHANGED cookie

Revive(p) ==
  LET b == req[p].body
      i == req[p].target
  IN
  /\ At(p, "create", "write")
  /\ user' = [user EXCEPT ![i] = [@ EXCEPT !.role = b.role, !.dept = b.dept,
                                          !.password = b.password,
                                          !.active = TRUE]]
  /\ granted' = [granted EXCEPT ![i] = @ \cup {b.role}]
  /\ Answer(p)
  /\ UNCHANGED cookie

BeginUpdate(p, i, target, b) ==
  BeginAdmin(p, i, "update", "lookup", b, target)

Kept(new, old) == IF new = KEEP THEN old ELSE new

\* Mutant of LookupUser: the department is checked only if the body has one.
LookupUserUnresolved(p) ==
  LET b == req[p].body IN
  /\ At(p, "update", "lookup")
  /\ IF Exists(req[p].target) /\ ~(b.role = "DeptStaff" /\ b.dept = NULL)
     THEN Go(p, [req[p] EXCEPT !.pc = "write"])
     ELSE Answer(p)
  /\ UNCHANGED <<user, cookie, granted>>

\* findUnique, then 422 if the resolved role is DeptStaff and the resolved
\* department is null.
LookupUser(p) ==
  LET b == req[p].body
      row == user[req[p].target]
  IN
  /\ At(p, "update", "lookup")
  /\ IF /\ Exists(req[p].target)
        /\ ~(Kept(b.role, row.role) = "DeptStaff" /\ Kept(b.dept, row.dept) = NULL)
     THEN Go(p, [req[p] EXCEPT !.pc = "write"])
     ELSE Answer(p)
  /\ UNCHANGED <<user, cookie, granted>>

\* Mutants of Update: a key that the body lacks is written all the same; the
\* administrator's own row is updated.
UpdateUnresolved(p) ==
  LET b == req[p].body IN
  /\ At(p, "update", "write")
  /\ user' = [user EXCEPT ![req[p].target].dept = b.dept]
  /\ Answer(p)
  /\ UNCHANGED <<cookie, granted>>
UpdateCaller(p) ==
  /\ At(p, "update", "write")
  /\ user' = [user EXCEPT ![req[p].session.id].role = Kept(req[p].body.role, @)]
  /\ granted' = [granted EXCEPT ![req[p].target] =
                   @ \cup ({req[p].body.role} \ {KEEP})]
  /\ Answer(p)
  /\ UNCHANGED cookie

\* Only the columns named in the body are written.
Update(p) ==
  LET b == req[p].body
      i == req[p].target
      row == user[i]
  IN
  /\ At(p, "update", "write")
  /\ user' = [user EXCEPT ![i] = [row EXCEPT
       !.role = Kept(b.role, row.role), !.dept = Kept(b.dept, row.dept),
       !.password = row.password \/ b.password]]
  /\ granted' = [granted EXCEPT ![i] = @ \cup ({b.role} \ {KEEP})]
  /\ Answer(p)
  /\ UNCHANGED cookie

\* 409 when administrators name themselves, 404 when there is no row.
BeginDeactivate(p, i, target) ==
  /\ target # i /\ Exists(target)
  /\ BeginAdmin(p, i, "deactivate", "write", NoBody, target)

Deactivate(p) ==
  /\ At(p, "deactivate", "write")
  /\ user' = [user EXCEPT ![req[p].target].active = FALSE]
  /\ Answer(p)
  /\ UNCHANGED <<cookie, granted>>

-----------------------------------------------------------------------------
(* Signing in and out.                                                     *)

\* verifyCredentials finds an active row with a password; bcrypt runs next.
BeginPassword(p, i) ==
  /\ "password" \in Ops /\ req[p].pc = "idle"
  /\ Exists(i) /\ user[i].active /\ user[i].password
  /\ Go(p, Request("sign", "password", Claims(i), NoBody, NULL, i))
  /\ UNCHANGED <<user, cookie, granted>>

\* The password matches: the claims that were read are signed into the cookie.
Sign(p) ==
  /\ At(p, "password", "sign")
  /\ cookie' = [cookie EXCEPT ![req[p].target] = req[p].session]
  /\ Answer(p)
  /\ UNCHANGED <<user, granted>>

\* upsertGoogleUser, first query: a row linked to g, which must be active.
BeginGoogle(p, g) ==
  /\ "google" \in Ops /\ req[p].pc = "idle"
  /\ \A i \in WithGoogle(g) : user[i].active
  /\ \/ \E i \in WithGoogle(g) :
          Go(p, Request("refresh", "google", NoSession, NoBody, g, i))
     \/ /\ WithGoogle(g) = {}
        /\ Go(p, Request("lookup", "google", NoSession, NoBody, g, NULL))
  /\ UNCHANGED <<user, cookie, granted>>

\* Mutant of LookupGoogleEmail: the owner is linked without a look at isActive.
LookupGoogleEmailAnyRow(p) ==
  /\ At(p, "google", "lookup")
  /\ LET owner == WithEmail(GoogleEmail[req[p].google]) IN
       \/ owner = {} /\ Go(p, [req[p] EXCEPT !.pc = "insert"])
       \/ \E i \in owner : Go(p, [req[p] EXCEPT !.pc = "write", !.target = i])
  /\ UNCHANGED <<user, cookie, granted>>

\* Second query: a row with g's address to link, which must be active too.
LookupGoogleEmail(p) ==
  /\ At(p, "google", "lookup")
  /\ LET owner == WithEmail(GoogleEmail[req[p].google]) IN
       \/ owner = {} /\ Go(p, [req[p] EXCEPT !.pc = "insert"])
       \/ \E i \in owner :
            IF user[i].active THEN Go(p, [req[p] EXCEPT !.pc = "write", !.target = i])
            ELSE Answer(p)
  /\ UNCHANGED <<user, cookie, granted>>

\* A returning user: only name and avatar are refreshed, and the row that the
\* UPDATE returns is signed into the cookie.
GoogleRefresh(p) ==
  LET i == req[p].target IN
  /\ At(p, "google", "refresh")
  /\ cookie' = [cookie EXCEPT ![i] = Claims(i)]
  /\ Answer(p)
  /\ UNCHANGED <<user, granted>>

\* Mutant of GoogleLink: the account is linked to whoever has none yet.
GoogleLinksAnyone(p) ==
  /\ At(p, "google", "write")
  /\ \E i \in Ids :
       /\ Exists(i) /\ user[i].google = NULL
       /\ user' = [user EXCEPT ![i].google = req[p].google]
       /\ cookie' = [cookie EXCEPT ![i] = Claims(i)]
  /\ Answer(p)
  /\ UNCHANGED granted

\* The row with the address is linked, whatever account it had (googleId is
\* unique in the schema), and signed into the cookie.
GoogleLink(p) ==
  LET i == req[p].target IN
  /\ At(p, "google", "write")
  /\ WithGoogle(req[p].google) \subseteq {i}
  /\ user' = [user EXCEPT ![i].google = req[p].google]
  /\ cookie' = [cookie EXCEPT ![i] = Claims(i)]
  /\ Answer(p)
  /\ UNCHANGED granted

\* First sign-in of an unknown address: a requester without a department.
GoogleInsert(p) ==
  LET e == GoogleEmail[req[p].google] IN
  /\ At(p, "google", "insert")
  /\ InsertRow(e, [email |-> e, role |-> "SV", dept |-> NULL, active |-> TRUE,
                   google |-> req[p].google, password |-> FALSE])
  /\ cookie' = [i \in Ids |-> IF user'[i] # user[i]
                              THEN [id |-> i, role |-> "SV", dept |-> NULL]
                              ELSE cookie[i]]
  /\ Answer(p)

Logout(i) ==
  /\ "logout" \in Ops
  /\ cookie' = [cookie EXCEPT ![i] = NoSession]
  /\ UNCHANGED <<user, req, granted>>

\* A statement fails, an insert meets the unique index, or the process stops.
Fail(p) ==
  /\ req[p].pc # "idle"
  /\ Answer(p)
  /\ UNCHANGED <<user, cookie, granted>>

-----------------------------------------------------------------------------
CreateBodies ==
  [email : Emails, role : Roles, dept : Depts \cup {NULL}, password : SetsPassword]
UpdateBodies ==
  [email : {NULL}, role : Roles \cup {KEEP}, dept : Depts \cup {NULL, KEEP},
   password : SetsPassword]

Arrive(p) ==
  \/ \E i \in Ids : \/ Serve(p, i)
                    \/ BeginPassword(p, i)
                    \/ \E b \in CreateBodies : BeginCreate(p, i, b)
                    \/ \E t \in Ids, b \in UpdateBodies : BeginUpdate(p, i, t, b)
                    \/ \E t \in Ids : BeginDeactivate(p, i, t)
  \/ \E g \in GoogleAccounts : BeginGoogle(p, g)

Continue(p) ==
  \/ EnsureFromSession(p)
  \/ LookupEmail(p) \/ Insert(p) \/ Revive(p)
  \/ LookupUser(p) \/ Update(p) \/ Deactivate(p)
  \/ Sign(p) \/ LookupGoogleEmail(p) \/ GoogleRefresh(p) \/ GoogleLink(p) \/ GoogleInsert(p)

Next ==
  \/ \E p \in Procs : Arrive(p) \/ Continue(p) \/ Fail(p)
  \/ \E i \in Ids : Logout(i)

Spec == Init /\ [][Next]_vars
=============================================================================
