---------------------------- MODULE MCTicketReads ----------------------------
(***************************************************************************)
(* A small instance of TicketReads for TLC.                                *)
(***************************************************************************)
EXTENDS ReadProperties, TLC

CONSTANTS lead, agent, clerk, d1, p1, p2, c1, c2

\* clerk belongs to no department.
MCRole == [u \in Users |-> CASE u = lead -> "HelpdeskLead"
                             [] u = agent -> "HelpdeskAgent"
                             [] u = clerk -> "DeptStaff"]
MCDeptOf == [u \in Users |-> NULL]

\* The requester of every ticket is the lead: who asked plays no part here.
MCStatusQueries == {OpenStatus}

MCPatches == {[name |-> n, isActive |-> FALSE] : n \in Names}

Symmetry == Permutations(Procs) \cup Permutations(Categories)
=============================================================================
