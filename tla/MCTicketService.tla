--------------------------- MODULE MCTicketService ---------------------------
(***************************************************************************)
(* Small instances of TicketService for TLC: a directory, the sets of      *)
(* operations that the runs let clients call, and symmetries.              *)
(***************************************************************************)
EXTENDS TicketProperties, TLC

CONSTANTS lead, agent1, agent2, staff1, staff2, student, d1, d2, p1, p2, t1, c1

MCRole ==
  [u \in Users |->
     CASE u = lead                -> "HelpdeskLead"
       [] u \in {agent1, agent2}  -> "HelpdeskAgent"
       [] u \in {staff1, staff2}  -> "DeptStaff"
       [] OTHER                   -> "SV"]

\* staff1 and staff2 serve different departments.
MCDeptOf ==
  [u \in Users |-> CASE u = staff1 -> d1 [] u = staff2 -> d2 [] OTHER -> NULL]

RoutingOps == {"create", "assign", "forward", "redirect", "progress", "close"}
CloseAskOps ==
  {"create", "assign", "forward", "progress", "requestClose", "approveClose",
   "refuseClose"}
RedirectAskOps ==
  {"create", "assign", "forward", "progress", "requestRedirect",
   "approveRedirect", "refuseRedirect"}
AskOps == CloseAskOps \cup RedirectAskOps
TriageOps ==
  {"create", "assign", "close", "overrideSeverity", "addComment", "assignCategory"}

\* The operations of a counterexample, to keep it short.
ReassignOps == {"create", "assign", "close"}
RefusalOps == {"create", "forward", "progress", "requestRedirect", "refuseRedirect"}
CommentOps == {"create", "close", "addComment"}

ProcSymmetry == Permutations(Procs)
=============================================================================
