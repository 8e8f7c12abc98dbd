---------------------------- MODULE MCUserDirectory ----------------------------
(***************************************************************************)
(* Small instances of UserDirectory for TLC: an administrator, a member of *)
(* staff, and an id for a newcomer.                                        *)
(***************************************************************************)
EXTENDS UserProperties, TLC

CONSTANTS a1, u1, u2, e1, e2, e3, g1, d1, p1, p2

Seeded(e, role, dept) ==
  [NoUser EXCEPT !.email = e, !.role = role, !.dept = dept, !.active = TRUE,
                 !.password = TRUE]

\* The seed: administrator a1 and staff member u1.
MCSeed ==
  [i \in Ids |-> CASE i = a1 -> Seeded(e1, "Admin", NULL)
                   [] i = u1 -> Seeded(e2, "DeptStaff", d1)
                   [] OTHER  -> NoUser]

\* The Google account has the staff member's address, or a newcomer's.
MCGoogleKnown == [g \in GoogleAccounts |-> e2]
MCGoogleNew == [g \in GoogleAccounts |-> e3]

AdminOps == {"serve", "create", "update", "deactivate"}
SignInOps == {"serve", "create", "deactivate", "password", "google", "logout"}
StaffOps == {"serve", "update"}

ProcSymmetry == Permutations(Procs)
=============================================================================
