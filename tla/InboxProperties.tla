--------------------------- MODULE InboxProperties ---------------------------
(***************************************************************************)
(* What the inbox and the realtime push promise.                           *)
(***************************************************************************)
EXTENDS Inbox

\* Types of the rows and of the requests; a row has an owner (userId is not null).
TypeOK ==
  /\ note \in [Notes -> [state : {"free", "draft", "stored", "rolledBack", "deleted"},
                         owner : Users \cup {"nobody"}, readAt : Nat]]
  /\ \A n \in Notes : note[n].state # "free" => note[n].owner \in Users
  /\ req \in [Procs -> [pc : {"idle", "tx", "respond", "query"},
                        user : Users \cup {"nobody"},
                        op : {"none", "markRead", "readAll", "deleteAll"},
                        n : Notes \cup {0}, sink : SUBSET Notes,
                        status : {200, 409}]]
  /\ seen \in [Users -> SUBSET Notes]

Committed == {n \in Notes : note[n].state \in {"stored", "deleted"}}

\* Nobody hears of a notification before its transaction has committed, or if
\* it never commits, or of another user's: not by the push of
\* realtimeCollectMiddleware, which starts from rows noted before the COMMIT
\* ("the FE never gets an event for a change that didn't persist"), and not by
\* GET /notifications.
NoPhantomNews ==
  \A u \in Users : \A n \in seen[u] : n \in Committed /\ note[n].owner = u

\* A stored notification changes, or goes, only by a request of its owner, and
\* never becomes unread again (markRead compares the owner at its find and then
\* writes by id alone).
OnlyTheOwner ==
  [][\A n \in Notes : Stored(n) /\ note'[n] # note[n] =>
       /\ \E p \in Procs : /\ req[p].pc = "query" /\ req'[p].pc = "idle"
                           /\ req[p].user = note[n].owner
       /\ note[n].readAt # 0 => note'[n].readAt # 0]_inboxVars

\* As long as a user's unread notifications fit on one page, each of them gets
\* on the screen, however many read ones there are and whatever push was lost,
\* unless it is read or deleted first (listForCaller sorts unread first).
UnreadIsShown ==
  \A u \in Users, n \in Notes :
    n \in Unread(u) \ seen[u] /\ Cardinality(Unread(u)) <= PageSize
    ~> n \in seen[u] \/ n \notin Unread(u) \/ Cardinality(Unread(u)) > PageSize
=============================================================================
