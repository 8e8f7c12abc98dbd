-------------------------- MODULE ReminderProperties --------------------------
(***************************************************************************)
(* What the daily reminder promises.                                       *)
(***************************************************************************)
EXTENDS DailyReminder

\* One life of one instance reminds an agent once a day, also while jobs overlap
\* (lib/dedupe.ts; trySet comes before the insert). Across restarts and
\* instances the in-memory keys promise nothing: see OncePerDay.
OncePerLife ==
  \A r, s \in log :
    r.for = s.for /\ r.by = s.by /\ r.life = s.life => r = s

\* The agent of key k was reminded by the present life of instance i, or a job
\* of it is about to do so.
Answered(i, k) ==
  \/ \E r \in log : r.for = k /\ r.by = i /\ r.life = life[i]
  \/ \E p \in Procs : InstanceOf[p] = i /\ job[p].pc = "insert" /\ Key(p) = k

\* Each key without a reminder is the work of a job that failed between trySet
\* and the insert: keys are never set for agents without a backlog.
KeysAreAnswered ==
  \A i \in Instances :
    Cardinality({k \in keys[i] : ~ Answered(i, k)}) <= failures

\* An agent with a backlog whom a job has still to look at is reminded that day,
\* if the backlog lasts, no job fails and no instance restarts: not by this job,
\* perhaps, but by the one that had set the key. (MaxNotes stops inserts.)
BacklogIsReminded ==
  \A p \in Procs, a \in Agents, d \in 1 .. MaxDays :
    job[p].pc # "idle" /\ a \in job[p].todo /\ job[p].day = d
    ~> \/ \E r \in log : r.for = <<a, d>>
       \/ a \notin backlog \/ failures > 0
       \/ \E i \in Instances : life[i] > 0
       \/ \A n \in Notes : note[n].state # "free"

\* "only one notification per agent per day" (src/docs/test-design.md:116), which
\* the memory of one process keeps only until it restarts.
OncePerDay == \A r, s \in log : r.for = s.for => r = s
=============================================================================
