------------------------------ MODULE UserHistory ------------------------------
(***************************************************************************)
(* UserDirectory with a history of overlaps. The variable outdated takes   *)
(* nothing away from the behaviour and adds nothing to it: it only records *)
(* which requests rely on a row that has changed since they read it, so    *)
(* that a property can say exactly what an overlap excuses.                *)
(***************************************************************************)
EXTENDS UserDirectory

VARIABLE outdated   \* outdated[p]: the target's row has changed since p read it

hvars == <<vars, outdated>>

\* A request relies on what it has read until it answers. It reads in the step
\* that opens it and in its look-up, and both of them move on its pc.
Relies(p) == req[p].pc \notin {"idle", "lookup"} /\ req'[p].pc = req[p].pc

Observe ==
  outdated' = [p \in Procs |->
    /\ Relies(p)
    /\ outdated[p] \/ \E i \in Ids : i = req[p].target /\ user'[i] # user[i]]

HInit == Init /\ outdated = [p \in Procs |-> FALSE]
HNext == Next /\ Observe
HSpec == HInit /\ [][HNext]_hvars
=============================================================================
