---------------------------- MODULE DailyReminder ----------------------------
(***************************************************************************)
(* POST /jobs/daily-reminder (src/src/jobs/daily-reminder.ts, lib/dedupe.ts,*)
(* lib/calendar.ts, routes/jobs.ts) on top of the inbox it writes to.      *)
(*                                                                         *)
(* The cron may call twice, a human may call too, and the service runs as  *)
(* several instances. Each instance keeps the dedupe keys of the day in    *)
(* its memory and loses them when it restarts. The job inserts outside any *)
(* transaction: what it inserted stays when a later insert fails.          *)
(***************************************************************************)
EXTENDS Inbox

CONSTANTS
  Agents,      \* active users with the role HelpdeskAgent
  Instances,   \* server processes
  InstanceOf,  \* InstanceOf[p]: the server process that serves request p
  Holidays,    \* days that isHolidaySkip skips: weekends and MM-DD keys
  MaxDays,     \* the last day (bound)
  MaxRestarts, \* restarts of one instance (bound)
  MaxFailures  \* failed jobs (bound)

ASSUME ReminderAssumption ==
  /\ Agents \subseteq Users
  /\ InstanceOf \in [Procs -> Instances]
  /\ MaxDays \in Nat /\ MaxRestarts \in Nat /\ MaxFailures \in Nat

VARIABLES
  day,       \* today, in the service's time zone
  backlog,   \* the agents with a Pending or Assigned ticket
  keys,      \* keys[i]: MemoryDedupe.seen of instance i, as <<agent, day>>
  life,      \* life[i]: how often instance i has restarted
  job,       \* job[p]: the reminder job that process p runs
  failures,  \* how many jobs have failed
  log        \* what each reminder is for and which life sent it (history)

jobVars == <<day, backlog, keys, life, job, failures, log>>
vars == <<inboxVars, jobVars>>

NoJob == [pc |-> "idle", day |-> 0, todo |-> {}, agent |-> "nobody", sink |-> {}]

Init ==
  /\ InboxInit
  /\ day = 1
  /\ backlog \in SUBSET Agents
  /\ keys = [i \in Instances |-> {}]
  /\ life = [i \in Instances |-> 0]
  /\ job = [p \in Procs |-> NoJob]
  /\ failures = 0
  /\ log = {}

-----------------------------------------------------------------------------
Key(p) == <<job[p].agent, job[p].day>>

\* now is read, a holiday ends the job, the agents are read.
StartJob(p) ==
  /\ req[p].pc = "idle" /\ job[p].pc = "idle"
  /\ day \notin Holidays
  /\ job' = [job EXCEPT ![p] = [pc |-> "scan", day |-> day, todo |-> Agents,
                                agent |-> "nobody", sink |-> {}]]
  /\ UNCHANGED <<inboxVars, day, backlog, keys, life, failures, log>>

\* Mutant of NoBacklog: the key is set before the look at the backlog.
NoBacklogAfterTrySet(p, a) ==
  /\ job[p].pc = "scan" /\ a \in job[p].todo \ backlog
  /\ keys' = [keys EXCEPT ![InstanceOf[p]] = @ \cup {<<a, job[p].day>>}]
  /\ job' = [job EXCEPT ![p].todo = @ \ {a}]
  /\ UNCHANGED <<inboxVars, day, backlog, life, failures, log>>

\* Mutant of NoBacklog: the job returns instead of going on to the next agent.
NoBacklogReturns(p, a) ==
  /\ job[p].pc = "scan" /\ a \in job[p].todo \ backlog
  /\ job' = [job EXCEPT ![p].todo = {}]
  /\ UNCHANGED <<inboxVars, day, backlog, keys, life, failures, log>>

\* if (tickets.length === 0) continue.
NoBacklog(p, a) ==
  /\ job[p].pc = "scan" /\ a \in job[p].todo \ backlog
  /\ job' = [job EXCEPT ![p].todo = @ \ {a}]
  /\ UNCHANGED <<inboxVars, day, backlog, keys, life, failures, log>>

\* trySet answers false: this instance has handled the agent today.
Known(p, a) ==
  /\ job[p].pc = "scan" /\ a \in job[p].todo \cap backlog
  /\ <<a, job[p].day>> \in keys[InstanceOf[p]]
  /\ job' = [job EXCEPT ![p].todo = @ \ {a}]
  /\ UNCHANGED <<inboxVars, day, backlog, keys, life, failures, log>>

\* Mutant of TrySet: the key is looked up but never added.
TrySetLate(p, a) ==
  /\ job[p].pc = "scan" /\ a \in job[p].todo \cap backlog
  /\ <<a, job[p].day>> \notin keys[InstanceOf[p]]
  /\ job' = [job EXCEPT ![p].pc = "insert", ![p].agent = a, ![p].todo = @ \ {a}]
  /\ UNCHANGED <<inboxVars, day, backlog, keys, life, failures, log>>

\* The backlog is read and, awaited next, trySet adds the key (one step: only
\* the payload of the reminder can tell them apart). The insert is still to come.
TrySet(p, a) ==
  /\ job[p].pc = "scan" /\ a \in job[p].todo \cap backlog
  /\ <<a, job[p].day>> \notin keys[InstanceOf[p]]
  /\ keys' = [keys EXCEPT ![InstanceOf[p]] = @ \cup {<<a, job[p].day>>}]
  /\ job' = [job EXCEPT ![p].pc = "insert", ![p].agent = a, ![p].todo = @ \ {a}]
  /\ UNCHANGED <<inboxVars, day, backlog, life, failures, log>>

\* prisma.notification.create outside a transaction: stored at once.
Remind(p, n) ==
  /\ job[p].pc = "insert"
  /\ Create(n, job[p].agent, "stored")
  /\ log' = log \cup {[n |-> n, for |-> Key(p), by |-> InstanceOf[p],
                       life |-> life[InstanceOf[p]]]}
  /\ job' = [job EXCEPT ![p].pc = "scan", ![p].agent = "nobody",
                        ![p].sink = @ \cup {n}]
  /\ UNCHANGED <<req, seen, day, backlog, keys, life, failures>>

\* A query fails: the job ends with 500. Its key stays, its sink is dropped.
JobFails(p) ==
  /\ job[p].pc # "idle"
  /\ failures < MaxFailures /\ failures' = failures + 1
  /\ job' = [job EXCEPT ![p] = NoJob]
  /\ UNCHANGED <<inboxVars, day, backlog, keys, life, log>>

\* 200: the job is a request like any other, its sink is pushed.
EndJob(p, got) ==
  /\ job[p].pc = "scan" /\ job[p].todo = {}
  /\ Push(job[p].sink, got)
  /\ job' = [job EXCEPT ![p] = NoJob]
  /\ UNCHANGED <<note, req, day, backlog, keys, life, failures, log>>

\* An instance stops and starts: its memory and its requests are gone, open
\* transactions roll back.
Restart(i) ==
  LET mine == {p \in Procs : InstanceOf[p] = i}
      drafts == UNION {IF req[p].pc = "tx" THEN req[p].sink ELSE {} : p \in mine}
  IN
  /\ life[i] < MaxRestarts
  /\ life' = [life EXCEPT ![i] = @ + 1]
  /\ keys' = [keys EXCEPT ![i] = {}]
  /\ req' = [p \in Procs |-> IF p \in mine THEN NoRequest ELSE req[p]]
  /\ job' = [p \in Procs |-> IF p \in mine THEN NoJob ELSE job[p]]
  /\ note' = [n \in Notes |-> IF n \in drafts
                              THEN [note[n] EXCEPT !.state = "rolledBack"]
                              ELSE note[n]]
  /\ UNCHANGED <<seen, day, backlog, failures, log>>

\* Midnight; agents get tickets and tickets leave them.
Tomorrow ==
  /\ day < MaxDays
  /\ day' = day + 1
  /\ UNCHANGED <<inboxVars, backlog, keys, life, job, failures, log>>

Shift(a) ==
  /\ backlog' = IF a \in backlog THEN backlog \ {a} ELSE backlog \cup {a}
  /\ UNCHANGED <<inboxVars, day, keys, life, job, failures, log>>

\* What a job that has started owes: to go on.
Proceed(p) ==
  \/ \E a \in Agents : NoBacklog(p, a) \/ Known(p, a) \/ TrySet(p, a)
  \/ \E n \in Notes : Remind(p, n)
  \/ \E got \in SUBSET job[p].sink : EndJob(p, got)

Next ==
  \/ /\ InboxNext /\ UNCHANGED jobVars
     /\ \A p \in Procs : job[p].pc # "idle" => req'[p] = NoRequest
  \/ \E p \in Procs : StartJob(p) \/ Proceed(p) \/ JobFails(p)
  \/ \E i \in Instances : Restart(i)
  \/ \E a \in Agents : Shift(a)
  \/ Tomorrow

\* A job that has started goes on until it ends or fails. Nothing says that a
\* job starts: the cron is outside.
Spec == Init /\ [][Next]_vars /\ \A p \in Procs : WF_vars(Proceed(p))
=============================================================================
