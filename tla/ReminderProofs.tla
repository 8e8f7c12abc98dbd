---------------------------- MODULE ReminderProofs ----------------------------
(***************************************************************************)
(* One reminder a day from one life of one instance, for any number of     *)
(* agents, instances, overlapping jobs, days, restarts and failures.       *)
(*                                                                         *)
(* The argument: a job that is about to insert has the key of its agent    *)
(* in the memory of its instance, and so no other job of that instance can *)
(* get there for the same key, neither later (trySet answers false) nor    *)
(* already (the key was not there when this job set it). A key that stays  *)
(* without a reminder is paid for by a job that failed.                    *)
(***************************************************************************)
EXTENDS ReminderProperties, FiniteSetTheorems, TLAPS

Job == [pc : {"idle", "scan", "insert"}, day : Nat, todo : SUBSET Agents,
        agent : Agents \cup {"nobody"}, sink : SUBSET Notes]

JobsTyped ==
  /\ life \in [Instances -> Nat]
  /\ keys = [i \in Instances |-> keys[i]]
  /\ day \in Nat
  /\ job \in [Procs -> Job]

\* What the present life of an instance has sent is among its keys.
SentIsKnown ==
  \A r \in log :
    /\ r.by \in Instances /\ r.life \in Nat /\ r.life <= life[r.by]
    /\ r.life = life[r.by] => r.for \in keys[r.by]

\* A job about to insert has set its key, and nobody else has used it.
KeyIsTaken ==
  \A p \in Procs : job[p].pc = "insert" =>
    /\ Key(p) \in keys[InstanceOf[p]]
    /\ \A r \in log : r.by = InstanceOf[p] /\ r.life = life[r.by] => r.for # Key(p)
    /\ \A q \in Procs \ {p} :
         job[q].pc = "insert" /\ InstanceOf[q] = InstanceOf[p] => Key(q) # Key(p)

IInv == JobsTyped /\ SentIsKnown /\ KeyIsTaken /\ OncePerLife

LEMMA InitIInv == Init => IInv
BY DEF Init, IInv, JobsTyped, Job, SentIsKnown, KeyIsTaken, OncePerLife, NoJob

-----------------------------------------------------------------------------
(* One lemma per kind of step.                                             *)

\* Steps that leave the keys, the lives and the log alone and take no job to
\* its insert.
LEMMA QuietStep ==
  ASSUME IInv, UNCHANGED <<keys, life, log>>, day' \in Nat, job' \in [Procs -> Job],
         \A p \in Procs : \/ job'[p] = job[p]
                          \/ job'[p].pc \in {"idle", "scan"}
  PROVE  IInv'
<1> USE DEF IInv
<1>1. JobsTyped'
  BY DEF JobsTyped
<1>2. SentIsKnown' /\ OncePerLife'
  BY DEF SentIsKnown, OncePerLife
<1>3. \A p \in Procs : job'[p].pc = "insert" => job'[p] = job[p] /\ Key(p)' = Key(p)
  BY DEF Key
<1>4. KeyIsTaken'
  BY <1>3 DEF KeyIsTaken
<1> QED
  BY <1>1, <1>2, <1>4

\* A job finds its key free and sets it.
LEMMA TrySetStep ==
  ASSUME IInv, NEW p \in Procs, NEW a \in Agents, TrySet(p, a)
  PROVE  IInv'
<1> USE DEF IInv, TrySet
<1> DEFINE i == InstanceOf[p]
           k == <<a, job[p].day>>
<1>1. i \in Instances /\ k \notin keys[i]
  BY ReminderAssumption
<1>2. keys' = [keys EXCEPT ![i] = @ \cup {k}] /\ life' = life /\ log' = log
  OBVIOUS
<1>3. \A j \in Instances : keys'[j] = IF j = i THEN keys[j] \cup {k} ELSE keys[j]
  BY <1>2 DEF JobsTyped
<1>4. /\ job'[p].pc = "insert" /\ Key(p)' = k
      /\ \A q \in Procs \ {p} : job'[q] = job[q] /\ Key(q)' = Key(q)
      /\ job' \in [Procs -> Job] /\ day' = day
  BY DEF JobsTyped, Job, Key
<1> HIDE DEF k, i, TrySet
<1>5. JobsTyped'
  BY <1>1, <1>2, <1>3, <1>4 DEF JobsTyped
<1>6. SentIsKnown' /\ OncePerLife'
  BY <1>2, <1>3 DEF SentIsKnown, OncePerLife
<1>7. KeyIsTaken'
  <2> SUFFICES ASSUME NEW q \in Procs, job'[q].pc = "insert"
               PROVE  /\ Key(q)' \in keys'[InstanceOf[q]]
                      /\ \A r \in log' : r.by = InstanceOf[q] /\ r.life = life'[r.by]
                                           => r.for # Key(q)'
                      /\ \A s \in Procs \ {q} :
                           job'[s].pc = "insert" /\ InstanceOf[s] = InstanceOf[q]
                             => Key(s)' # Key(q)'
    BY DEF KeyIsTaken
  <2>1. \A s \in Procs \ {p} : job'[s].pc = "insert" /\ InstanceOf[s] = i => Key(s) # k
    BY <1>1, <1>4 DEF KeyIsTaken
  <2>2. CASE q = p
    <3>1. \A r \in log : r.by = i /\ r.life = life[r.by] => r.for # k
      BY <1>1 DEF SentIsKnown
    <3> QED
      BY <1>1, <1>2, <1>3, <1>4, <2>1, <2>2, <3>1 DEF i
  <2>3. CASE q # p
    <3>1. InstanceOf[q] \in Instances
      BY ReminderAssumption
    <3> QED
      BY <1>2, <1>3, <1>4, <2>1, <2>3, <3>1 DEF KeyIsTaken, i
  <2> QED
    BY <2>2, <2>3
<1> QED
  BY <1>5, <1>6, <1>7

\* A job inserts the reminder of its key.
LEMMA RemindStep ==
  ASSUME IInv, NEW p \in Procs, NEW n \in Notes, Remind(p, n)
  PROVE  IInv'
<1> USE DEF IInv
<1> DEFINE i == InstanceOf[p]
           new == [n |-> n, for |-> Key(p), by |-> i, life |-> life[i]]
<1>1. /\ job[p].pc = "insert" /\ log' = log \cup {new}
      /\ keys' = keys /\ life' = life
  BY DEF Remind
<1>2. /\ job'[p].pc = "scan" /\ job' \in [Procs -> Job] /\ day' = day
      /\ \A q \in Procs \ {p} : job'[q] = job[q] /\ Key(q)' = Key(q)
  <2>1. job' = [job EXCEPT ![p] = [job[p] EXCEPT !.pc = "scan", !.agent = "nobody",
                                                !.sink = @ \cup {n}]]
    BY DEF Remind
  <2>2. job[p] \in Job /\ job[p].sink \cup {n} \in SUBSET Notes
    BY DEF JobsTyped, Job
  <2>3. [job[p] EXCEPT !.pc = "scan", !.agent = "nobody", !.sink = @ \cup {n}] \in Job
    BY <2>2 DEF Job
  <2>4. [job[p] EXCEPT !.pc = "scan", !.agent = "nobody", !.sink = @ \cup {n}].pc = "scan"
    BY <2>2 DEF Job
  <2>5. job' \in [Procs -> Job] /\ job'[p].pc = "scan"
    BY <2>1, <2>3, <2>4 DEF JobsTyped
  <2> QED
    BY <2>1, <2>5 DEF Remind, JobsTyped, Key
<1>3. i \in Instances /\ life[i] \in Nat
  BY ReminderAssumption DEF JobsTyped
<1>4. new.for = Key(p) /\ new.by = i /\ new.life = life[i]
  OBVIOUS
<1>5. /\ Key(p) \in keys[i]
      /\ \A r \in log : r.by = i /\ r.life = life[i] => r.for # Key(p)
      /\ \A q \in Procs \ {p} :
           job[q].pc = "insert" /\ InstanceOf[q] = i => Key(q) # Key(p)
  BY <1>1 DEF KeyIsTaken
<1> HIDE DEF new
<1>6. JobsTyped'
  BY <1>1, <1>2 DEF JobsTyped
<1>7. SentIsKnown'
  BY <1>1, <1>3, <1>4, <1>5 DEF SentIsKnown
<1>8. OncePerLife'
  BY <1>1, <1>4, <1>5 DEF OncePerLife
<1>9. KeyIsTaken'
  BY <1>1, <1>2, <1>4, <1>5 DEF KeyIsTaken
<1> QED
  BY <1>6, <1>7, <1>8, <1>9

\* An instance restarts.
LEMMA RestartStep ==
  ASSUME IInv, NEW i \in Instances, Restart(i)
  PROVE  IInv'
<1> USE DEF IInv
<1>1. /\ life' = [life EXCEPT ![i] = @ + 1] /\ keys' = [keys EXCEPT ![i] = {}]
      /\ log' = log
      /\ job' = [p \in Procs |-> IF InstanceOf[p] = i THEN NoJob ELSE job[p]]
  BY DEF Restart
<1>2. \A j \in Instances \ {i} : life'[j] = life[j] /\ keys'[j] = keys[j]
  BY <1>1 DEF JobsTyped
<1>3. life[i] \in Nat /\ life'[i] = life[i] + 1
  BY <1>1 DEF JobsTyped
<1>4. JobsTyped'
  <2>1. life' \in [Instances -> Nat]
    BY <1>1 DEF JobsTyped
  <2>2. keys' = [j \in Instances |-> keys'[j]]
    BY <1>1 DEF JobsTyped
  <2>3. job' \in [Procs -> Job] /\ day' = day
    BY <1>1 DEF JobsTyped, Job, NoJob, Restart
  <2> QED
    BY <2>1, <2>2, <2>3 DEF JobsTyped
<1>5. SentIsKnown'
  BY <1>1, <1>2, <1>3 DEF SentIsKnown
<1>6. OncePerLife'
  BY <1>1 DEF OncePerLife
<1>7. \A p \in Procs : job'[p].pc = "insert" =>
        job'[p] = job[p] /\ Key(p)' = Key(p) /\ InstanceOf[p] \in Instances \ {i}
  BY <1>1, ReminderAssumption DEF NoJob, Key
<1>8. KeyIsTaken'
  BY <1>1, <1>2, <1>7 DEF KeyIsTaken
<1> QED
  BY <1>4, <1>5, <1>6, <1>8

LEMMA Inductive == IInv /\ [Next]_vars => IInv'
<1> SUFFICES ASSUME IInv, [Next]_vars PROVE IInv'
  OBVIOUS
<1> USE DEF Job
<1>0. day \in Nat /\ job \in [Procs -> Job]
  BY DEF IInv, JobsTyped
<1>1. CASE UNCHANGED jobVars
  BY <1>0, <1>1, QuietStep DEF jobVars
<1>2. ASSUME NEW p \in Procs, StartJob(p) PROVE IInv'
  BY <1>0, <1>2, QuietStep DEF StartJob
<1>3. ASSUME NEW p \in Procs, JobFails(p) \/ \E got : EndJob(p, got) PROVE IInv'
  BY <1>0, <1>3, QuietStep DEF JobFails, EndJob, NoJob
<1>4. ASSUME NEW p \in Procs, NEW a \in Agents, NoBacklog(p, a) \/ Known(p, a)
      PROVE  IInv'
  BY <1>0, <1>4, QuietStep DEF NoBacklog, Known
<1>5. ASSUME NEW p \in Procs, Proceed(p) PROVE IInv'
  BY <1>3, <1>4, <1>5, TrySetStep, RemindStep DEF Proceed
<1>6. CASE Tomorrow \/ \E a \in Agents : Shift(a)
  BY <1>0, <1>6, QuietStep DEF Tomorrow, Shift
<1> QED
  BY <1>1, <1>2, <1>3, <1>5, <1>6, RestartStep DEF Next, vars, jobVars

-----------------------------------------------------------------------------

\* One life of one instance reminds an agent once a day, however many jobs of
\* it overlap and however they fail (runDailyReminder, MemoryDedupe.trySet).
THEOREM RemindsOncePerLife == Spec => []OncePerLife
<1>1. IInv => OncePerLife
  BY DEF IInv
<1> QED
  BY <1>1, InitIInv, Inductive, PTL DEF Spec

-----------------------------------------------------------------------------
(* Every key without a reminder costs a failed job. A key is set by a job  *)
(* that is to insert the reminder in its next step, and a reminder is      *)
(* never taken back; so a key can lose its answer only when that job       *)
(* fails, one key a job.                                                   *)

Unanswered(i) == {k \in keys[i] : ~ Answered(i, k)}

AnswersInv ==
  /\ IInv
  /\ failures \in Nat
  /\ \A i \in Instances : IsFiniteSet(keys[i])
  /\ KeysAreAnswered

\* Counting without and with a new member.
LEMMA NoMore ==
  ASSUME NEW S, IsFiniteSet(S), NEW n \in Nat, Cardinality(S) <= n,
         NEW T, T \subseteq S
  PROVE  Cardinality(T) <= n
<1>1. /\ IsFiniteSet(T) /\ Cardinality(T) <= Cardinality(S)
      /\ Cardinality(T) \in Nat /\ Cardinality(S) \in Nat
  BY FS_Subset, FS_CardinalityType
<1> QED
  BY <1>1

LEMMA OneMoreAtMost ==
  ASSUME NEW S, IsFiniteSet(S), NEW n \in Nat, Cardinality(S) <= n, NEW x,
         NEW T, T \subseteq S \cup {x}
  PROVE  Cardinality(T) <= n + 1
<1>1. IsFiniteSet(S \cup {x}) /\ Cardinality(S) \in Nat
  BY FS_AddElement, FS_CardinalityType
<1>2. Cardinality(S \cup {x}) <= n + 1
  BY <1>1, FS_AddElement
<1> QED
  BY <1>1, <1>2, NoMore

LEMMA UnansweredIsFinite ==
  ASSUME AnswersInv, NEW i \in Instances
  PROVE  /\ IsFiniteSet(Unanswered(i))
         /\ Cardinality(Unanswered(i)) <= failures /\ failures \in Nat
<1>1. Unanswered(i) \subseteq keys[i] /\ IsFiniteSet(keys[i])
  BY DEF Unanswered, AnswersInv
<1> QED
  BY <1>1, FS_Subset DEF AnswersInv, KeysAreAnswered, Unanswered

\* Steps that leave no key without its answer.
LEMMA AnsweringStep ==
  ASSUME AnswersInv, failures' = failures, \A i \in Instances : IsFiniteSet(keys'[i]),
         \A i \in Instances : \A k : k \in keys'[i] /\ k \notin keys[i] => Answered(i, k)',
         \A i \in Instances : \A k : k \in keys'[i] /\ Answered(i, k) => Answered(i, k)',
         IInv'
  PROVE  AnswersInv'
<1>1. ASSUME NEW i \in Instances PROVE Cardinality(Unanswered(i)') <= failures'
  <2>1. Unanswered(i)' \subseteq Unanswered(i)
    BY DEF Unanswered
  <2> QED
    BY <2>1, UnansweredIsFinite, NoMore
<1> QED
  BY <1>1 DEF AnswersInv, KeysAreAnswered, Unanswered

\* Steps that leave keys, lives and log alone and touch no job at its insert.
LEMMA AnswersStay ==
  ASSUME AnswersInv, IInv', UNCHANGED <<keys, life, log, failures>>,
         \A p \in Procs : job[p].pc = "insert" => job'[p] = job[p]
  PROVE  AnswersInv'
<1>1. \A i \in Instances : \A k : Answered(i, k) => Answered(i, k)'
  BY DEF Answered, Key
<1> QED
  BY <1>1, AnsweringStep DEF AnswersInv

LEMMA TrySetAnswers ==
  ASSUME AnswersInv, IInv', NEW p \in Procs, NEW a \in Agents, TrySet(p, a)
  PROVE  AnswersInv'
<1>1. PICK j, new : j = InstanceOf[p] /\ new = <<a, job[p].day>>
  OBVIOUS
<1>2. /\ UNCHANGED <<life, log, failures>> /\ job[p].pc = "scan"
      /\ keys' = [keys EXCEPT ![j] = @ \cup {new}] /\ j \in Instances
  BY <1>1, ReminderAssumption DEF TrySet
<1>3. /\ job'[p].pc = "insert" /\ Key(p)' = new
      /\ \A q \in Procs \ {p} : job'[q] = job[q] /\ Key(q)' = Key(q)
  BY <1>1 DEF TrySet, AnswersInv, IInv, JobsTyped, Job, Key
<1>4. \A i \in Instances : keys'[i] = IF i = j THEN keys[i] \cup {new} ELSE keys[i]
  BY <1>2 DEF AnswersInv, IInv, JobsTyped
<1>5. ASSUME NEW i \in Instances PROVE IsFiniteSet(keys'[i])
  <2>1. IsFiniteSet(keys[i]) /\ IsFiniteSet(keys[i] \cup {new})
    BY FS_AddElement DEF AnswersInv
  <2> QED
    BY <1>4, <2>1
<1>6. Answered(j, new)'
  BY <1>1, <1>3 DEF Answered
<1>7. \A i \in Instances : \A k : Answered(i, k) => Answered(i, k)'
  BY <1>2, <1>3 DEF Answered
<1>8. \A i \in Instances : \A k : k \in keys'[i] /\ k \notin keys[i] => Answered(i, k)'
  BY <1>4, <1>6
<1> QED
  BY <1>2, <1>5, <1>7, <1>8, AnsweringStep

LEMMA RemindAnswers ==
  ASSUME AnswersInv, IInv', NEW p \in Procs, NEW n \in Notes, Remind(p, n)
  PROVE  AnswersInv'
<1>1. PICK r : r = [n |-> n, for |-> Key(p), by |-> InstanceOf[p],
                    life |-> life[InstanceOf[p]]]
  OBVIOUS
<1>2. r.for = Key(p) /\ r.by = InstanceOf[p] /\ r.life = life[InstanceOf[p]]
  BY <1>1
<1>3. /\ UNCHANGED <<keys, life, failures>> /\ log' = log \cup {r}
  BY <1>1 DEF Remind
<1>4. \A q \in Procs \ {p} : job'[q] = job[q] /\ Key(q)' = Key(q)
  BY DEF Remind, AnswersInv, IInv, JobsTyped, Key
<1>5. \A i \in Instances : \A k : Answered(i, k) => Answered(i, k)'
  BY <1>2, <1>3, <1>4 DEF Answered
<1> QED
  BY <1>3, <1>5, AnsweringStep DEF AnswersInv

\* The key of a job that fails may be left without an answer.
LEMMA FailLosesOne ==
  ASSUME AnswersInv, IInv', NEW p \in Procs, JobFails(p)
  PROVE  AnswersInv'
<1>1. UNCHANGED <<keys, life, log>> /\ failures' = failures + 1
  BY DEF JobFails
<1>2. \A q \in Procs \ {p} : job'[q] = job[q] /\ Key(q)' = Key(q)
  BY DEF JobFails, AnswersInv, IInv, JobsTyped, Key
<1>3. \A i \in Instances : \A k : Answered(i, k) /\ k # Key(p) => Answered(i, k)'
  BY <1>1, <1>2 DEF Answered
<1>4. ASSUME NEW i \in Instances PROVE Cardinality(Unanswered(i)') <= failures'
  <2>1. Unanswered(i)' \subseteq Unanswered(i) \cup {Key(p)}
    BY <1>1, <1>3 DEF Unanswered
  <2> QED
    BY <1>1, <2>1, UnansweredIsFinite, OneMoreAtMost
<1> QED
  BY <1>1, <1>4 DEF AnswersInv, KeysAreAnswered, Unanswered

LEMMA RestartForgets ==
  ASSUME AnswersInv, IInv', NEW i \in Instances, Restart(i)
  PROVE  AnswersInv'
<1>1. /\ life' = [life EXCEPT ![i] = @ + 1] /\ keys' = [keys EXCEPT ![i] = {}]
      /\ UNCHANGED <<log, failures>>
      /\ job' = [p \in Procs |-> IF InstanceOf[p] = i THEN NoJob ELSE job[p]]
  BY DEF Restart
<1>2. \A j \in Instances : /\ keys'[j] = IF j = i THEN {} ELSE keys[j]
                           /\ j # i => life'[j] = life[j]
  BY <1>1 DEF AnswersInv, IInv, JobsTyped
<1>3. \A j \in Instances : \A k : j # i /\ Answered(j, k) => Answered(j, k)'
  BY <1>1, <1>2 DEF Answered, Key
<1>4. \A j \in Instances : IsFiniteSet(keys'[j])
  BY <1>2, FS_EmptySet DEF AnswersInv
<1> QED
  BY <1>1, <1>2, <1>3, <1>4, AnsweringStep

\* However jobs overlap, fail and are cut off by restarts, the memory of an
\* instance holds at most as many keys without a reminder as jobs have failed:
\* trySet is called only when there is a backlog to remind of, and the insert
\* is the next thing its job does.
THEOREM KeysStandForReminders == Spec => []KeysAreAnswered
<1>1. Init => AnswersInv
  <2> SUFFICES ASSUME Init PROVE AnswersInv
    OBVIOUS
  <2>1. \A i \in Instances : keys[i] = {} /\ Unanswered(i) = {}
    BY DEF Init, Unanswered
  <2>2. failures = 0
    BY DEF Init
  <2> QED
    BY <2>1, <2>2, InitIInv, FS_EmptySet DEF AnswersInv, KeysAreAnswered, Unanswered
<1>2. AnswersInv /\ [Next]_vars => AnswersInv'
  <2> SUFFICES ASSUME AnswersInv, [Next]_vars PROVE AnswersInv'
    OBVIOUS
  <2>1. IInv /\ IInv' /\ job \in [Procs -> Job]
    BY Inductive DEF AnswersInv, IInv, JobsTyped
  <2>2. CASE UNCHANGED jobVars
    BY <2>1, <2>2, AnswersStay DEF jobVars
  <2>3. ASSUME NEW p \in Procs,
               StartJob(p) \/ (job[p].pc = "scan" /\ \E got : EndJob(p, got))
        PROVE  AnswersInv'
    BY <2>1, <2>3, AnswersStay DEF StartJob, EndJob
  <2>4. ASSUME NEW p \in Procs, NEW a \in Agents, NoBacklog(p, a) \/ Known(p, a)
        PROVE  AnswersInv'
    BY <2>1, <2>4, AnswersStay DEF NoBacklog, Known
  <2>5. ASSUME NEW p \in Procs, Proceed(p) PROVE AnswersInv'
    BY <2>1, <2>3, <2>4, <2>5, TrySetAnswers, RemindAnswers DEF Proceed, EndJob
  <2>6. CASE Tomorrow \/ \E a \in Agents : Shift(a)
    BY <2>1, <2>6, AnswersStay DEF Tomorrow, Shift
  <2> QED
    BY <2>1, <2>2, <2>3, <2>5, <2>6, FailLosesOne, RestartForgets DEF Next, vars, jobVars
<1>3. AnswersInv => KeysAreAnswered
  BY DEF AnswersInv
<1> QED
  BY <1>1, <1>2, <1>3, PTL DEF Spec
=============================================================================
