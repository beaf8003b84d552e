---------------------------- MODULE StepAttemptsProofs ----------------------------
(***************************************************************************)
(* Proofs about StepAttempts, for every batch, every number of permits,    *)
(* threads and retries, every choice of synchronous handlers, and every    *)
(* host.                                                                   *)
(***************************************************************************)
EXTENDS StepAttempts, FiniteSetTheorems, SequenceTheorems, TLAPS

-----------------------------------------------------------------------------
(* The inductive invariant *)

Distinct(seq) == \A i, j \in 1..Len(seq) : seq[i] = seq[j] => i = j
Members(seq)  == {seq[i] : i \in 1..Len(seq)}

\* A step that has begun has an attempt, and a live coroutine one that awaits it, or
\* is left alone by one that was cancelled.
AttemptsSound ==
    \A s \in Batch :
        /\ task[s] \in Active => attempt[s] >= 1
        /\ s \in coros => \/ task[s] \in {"calling", "unwinding", "stopping"}
                          \/ ~ host.direct /\ task[s] \in {"leaving", "cancelled"}

\* The task of the step has something to await from the pool.
Awaits(s) ==
    \/ task[s] = "calling" /\ s \in Sync /\ s \notin coros
    \/ task[s] \in Emitting /\ host.listener = "thread"

\* The thread of a synchronous handler that its task awaits, or has let go for good.
MayRun(s) ==
    /\ s \in Sync /\ s \notin coros
    /\ task[s] \in {"calling", "failing", "leaving", "failed", "raised", "cancelled"}

Handler(s) == <<s, attempt[s], "calling">>

QueueSound ==
    /\ Distinct(queue)
    /\ \A job \in Members(queue) : \/ job = Save /\ group = "saving"
                                   \/ \E s \in Batch : job = JobOf(s) /\ Awaits(s)

ThreadsSound ==
    \A job \in threads :
        /\ \/ job = Save /\ group \in {"saving", "raised"}
           \/ job[3] \in Emitting
           \/ \E s \in Batch : job = Handler(s) /\ MayRun(s)
        /\ job \notin Members(queue)

\* run() leaves the batch when every task has ended.
GroupSound == group \in {"saving", "saved", "raised"} => AllEnded

BatchInv == TypeOK /\ AttemptsSound /\ QueueSound /\ ThreadsSound /\ GroupSound

-----------------------------------------------------------------------------
(* Jobs *)

LEMMA JobsDiffer ==
    ASSUME NEW s \in Batch, TypeOK PROVE JobOf(s) # Save /\ Handler(s) # Save /\ Save[3] \notin Emitting
  BY DEF JobOf, Handler, Save, TypeOK, TaskState, Ended, Emitting

\* Only a task that awaits the pool has a job in the queue.
LEMMA QueuedAwaits ==
    ASSUME BatchInv, NEW s \in Batch, JobOf(s) \in Members(queue)
    PROVE  Awaits(s)
<1>1. JobOf(s) # Save
  BY JobsDiffer DEF BatchInv
<1>2. PICK u \in Batch : JobOf(s) = JobOf(u) /\ Awaits(u)
  BY <1>1 DEF BatchInv, QueueSound
<1> QED BY <1>2 DEF JobOf

\* A step has no other handler's thread than that of its present attempt.
LEMMA LiveIsPresent ==
    ASSUME BatchInv, NEW s \in Batch, NEW job \in Live(s) PROVE job = Handler(s) /\ MayRun(s)
<1>1. job \in threads /\ job[1] = s /\ job[3] = "calling" /\ job # Save
  BY DEF Live, Save
<1>2. PICK u \in Batch : job = Handler(u) /\ MayRun(u)
  BY <1>1 DEF BatchInv, ThreadsSound, Emitting
<1> QED BY <1>1, <1>2 DEF Handler

\* Adding a job that is not in the queue, taking the first, and dropping one.

LEMMA AppendDistinct ==
    ASSUME NEW S, NEW seq \in Seq(S), Distinct(seq), NEW x \in S, x \notin Members(seq)
    PROVE  /\ Append(seq, x) \in Seq(S) /\ Distinct(Append(seq, x))
           /\ Members(Append(seq, x)) = Members(seq) \cup {x}
<1>1. /\ Append(seq, x) \in Seq(S) /\ Len(Append(seq, x)) = Len(seq) + 1 /\ Len(seq) \in Nat
      /\ \A i \in 1..Len(seq) : Append(seq, x)[i] = seq[i]
      /\ Append(seq, x)[Len(seq) + 1] = x
  BY AppendProperties, LenProperties
<1>2. \A i \in 1..Len(seq) + 1 : i \in 1..Len(seq) \/ i = Len(seq) + 1
  BY <1>1
<1>3. Distinct(Append(seq, x))
  BY <1>1, <1>2 DEF Distinct, Members
<1>4. Members(Append(seq, x)) = Members(seq) \cup {x}
  BY <1>1, <1>2 DEF Members
<1> QED BY <1>1, <1>3, <1>4

LEMMA TailDistinct ==
    ASSUME NEW S, NEW seq \in Seq(S), Distinct(seq), seq # <<>>
    PROVE  /\ Tail(seq) \in Seq(S) /\ Distinct(Tail(seq)) /\ Head(seq) \in Members(seq)
           /\ Members(Tail(seq)) = Members(seq) \ {Head(seq)}
<1>1. /\ Len(seq) \in Nat \ {0} /\ Head(seq) = seq[1] /\ Tail(seq) \in Seq(S)
      /\ Len(Tail(seq)) = Len(seq) - 1
      /\ \A i \in 1..Len(Tail(seq)) : Tail(seq)[i] = seq[i + 1]
  BY HeadTailProperties, LenProperties, EmptySeq
<1>2. \A i \in 1..Len(Tail(seq)) : i + 1 \in 1..Len(seq) /\ i + 1 # 1
  BY <1>1
<1>3. \A i \in 1..Len(seq) : i = 1 \/ (i - 1 \in 1..Len(Tail(seq)) /\ seq[i] = Tail(seq)[i - 1])
  BY <1>1
<1>4. 1 \in 1..Len(seq)
  BY <1>1
<1>5. Distinct(Tail(seq))
  <2> SUFFICES ASSUME NEW i \in 1..Len(Tail(seq)), NEW j \in 1..Len(Tail(seq)),
                      Tail(seq)[i] = Tail(seq)[j]
               PROVE  i = j
    BY DEF Distinct
  <2>1. i + 1 = j + 1
    BY <1>1, <1>2 DEF Distinct
  <2> QED BY <2>1
<1>6. Members(Tail(seq)) \subseteq Members(seq) \ {Head(seq)}
  <2> SUFFICES ASSUME NEW i \in 1..Len(Tail(seq))
               PROVE  Tail(seq)[i] \in Members(seq) /\ Tail(seq)[i] # seq[1]
    BY <1>1 DEF Members
  <2> QED BY <1>1, <1>2, <1>4 DEF Members, Distinct
<1>7. Members(seq) \ {Head(seq)} \subseteq Members(Tail(seq))
  BY <1>1, <1>3 DEF Members
<1> QED BY <1>1, <1>4, <1>5, <1>6, <1>7 DEF Members

LEMMA RemoveDistinct ==
    ASSUME NEW S, NEW seq \in Seq(S), Distinct(seq), NEW k \in 1..Len(seq)
    PROVE  /\ RemoveAt(seq, k) \in Seq(S) /\ Distinct(RemoveAt(seq, k))
           /\ Members(RemoveAt(seq, k)) \subseteq Members(seq) \ {seq[k]}
<1> DEFINE left == SubSeq(seq, 1, k - 1)
           right == SubSeq(seq, k + 1, Len(seq))
           rest == RemoveAt(seq, k)
<1>1. Len(seq) \in Nat /\ k \in 1..Len(seq)
  BY LenProperties
<1>0. rest = left \o right
  BY DEF RemoveAt
<1>2. /\ left \in Seq(S) /\ Len(left) = k - 1
      /\ \A i \in 1..k - 1 : left[i] = seq[i]
  BY <1>1, SubSeqProperties
<1>3. /\ right \in Seq(S) /\ Len(right) = Len(seq) - k
      /\ \A i \in 1..Len(seq) - k : right[i] = seq[k + i]
  BY <1>1, SubSeqProperties
<1> HIDE DEF left, right, rest
<1>4. /\ rest \in Seq(S) /\ Len(rest) = Len(left) + Len(right)
      /\ \A i \in 1..Len(rest) : rest[i] = IF i <= Len(left) THEN left[i] ELSE right[i - Len(left)]
  <2>1. left \in Seq(S) /\ right \in Seq(S)
    BY <1>2, <1>3
  <2>2. /\ left \o right \in Seq(S) /\ Len(left \o right) = Len(left) + Len(right)
        /\ \A i \in 1..Len(left) + Len(right) :
             (left \o right)[i] = IF i <= Len(left) THEN left[i] ELSE right[i - Len(left)]
    BY <2>1, ConcatProperties
  <2> QED BY <1>0, <2>2
<1>5. Len(rest) = Len(seq) - 1
  BY <1>1, <1>2, <1>3, <1>4
<1>6. \A i \in 1..Len(seq) - 1 : rest[i] = IF i < k THEN seq[i] ELSE seq[i + 1]
  <2> SUFFICES ASSUME NEW i \in 1..Len(seq) - 1
               PROVE  rest[i] = IF i < k THEN seq[i] ELSE seq[i + 1]
    OBVIOUS
  <2>1. CASE i < k
    <3>1. i \in 1..k - 1 /\ i \in 1..Len(rest) /\ i <= Len(left)
      BY <1>1, <1>2, <1>5, <2>1
    <3>2. rest[i] = left[i] /\ left[i] = seq[i]
      BY <1>2, <1>4, <3>1
    <3> QED BY <2>1, <3>2
  <2>2. CASE ~ (i < k)
    <3>1. i - (k - 1) \in 1..Len(seq) - k /\ k + (i - (k - 1)) = i + 1
      BY <1>1, <2>2
    <3>2. rest[i] = right[i - (k - 1)]
      <4>1. i \in 1..Len(rest) /\ ~ (i <= Len(left)) /\ Len(left) = k - 1
        BY <1>1, <1>2, <1>5, <2>2
      <4> QED BY <1>4, <4>1
    <3> QED BY <1>3, <2>2, <3>1, <3>2
  <2> QED BY <2>1, <2>2
<1>7. \A i \in 1..Len(seq) - 1 : /\ i < k => i \in 1..Len(seq) /\ i # k
                                 /\ ~ (i < k) => i + 1 \in 1..Len(seq) /\ i + 1 # k
  BY <1>1
<1>8. Distinct(rest)
  <2> SUFFICES ASSUME NEW i \in 1..Len(seq) - 1, NEW j \in 1..Len(seq) - 1, rest[i] = rest[j]
               PROVE  i = j
    BY <1>5 DEF Distinct
  <2>1. (IF i < k THEN i ELSE i + 1) = (IF j < k THEN j ELSE j + 1)
    BY <1>6, <1>7 DEF Distinct
  <2> QED BY <1>1, <2>1
<1>9. Members(rest) \subseteq Members(seq) \ {seq[k]}
  BY <1>5, <1>6, <1>7 DEF Members, Distinct
<1> QED BY <1>4, <1>8, <1>9 DEF rest

-----------------------------------------------------------------------------
(* One task moves *)

LEMMA NotLeft ==
    ASSUME BatchInv, NEW s \in Batch, task[s] \notin Ended
    PROVE  group \notin {"saving", "saved", "raised"}
  BY DEF BatchInv, GroupSound, AllEnded, In

\* A task that has not ended takes its next step, and nothing of it is left in the
\* queue.
LEMMA TaskMoves ==
    ASSUME BatchInv, NEW s \in Batch, NEW to \in TaskState, NEW n \in Nat,
           task[s] \notin Ended,
           task' = [task EXCEPT ![s] = to], attempt' = [attempt EXCEPT ![s] = n],
           coros' \subseteq coros, threads' \subseteq threads, UNCHANGED <<host, group>>,
           s \in coros' => \/ to \in {"calling", "unwinding", "stopping"}
                           \/ ~ host.direct /\ to \in {"leaving", "cancelled"},
           to \in Active => n >= 1,
           queue' \in Seq(Job \cup {Save}), Distinct(queue'),
           Members(queue') \subseteq Members(queue) \ {JobOf(s)},
           \A job \in Live(s) \cap threads' :
             n = attempt[s] /\ to \in {"calling", "failing", "leaving", "failed", "raised", "cancelled"}
    PROVE  BatchInv'
<1>1. TypeOK'
  BY DEF BatchInv, TypeOK
<1>2. AttemptsSound'
  BY DEF BatchInv, TypeOK, AttemptsSound
<1>3. GroupSound'
  BY NotLeft DEF GroupSound
<1>4. QueueSound'
  <2> SUFFICES ASSUME NEW job \in Members(queue')
               PROVE  \/ job = Save /\ group = "saving"
                      \/ \E u \in Batch : job = JobOf(u)' /\ Awaits(u)'
    BY DEF QueueSound
  <2>1. CASE job = Save /\ group = "saving"
    BY <2>1
  <2>2. ASSUME NEW u \in Batch, job = JobOf(u), Awaits(u)
        PROVE  job = JobOf(u)' /\ Awaits(u)'
    <3>1. u # s
      BY <2>2
    <3> QED BY <2>2, <3>1 DEF JobOf, Awaits, BatchInv, TypeOK
  <2> QED BY <2>1, <2>2 DEF BatchInv, QueueSound
<1>5. ThreadsSound'
  <2> SUFFICES ASSUME NEW job \in threads'
               PROVE  /\ \/ job = Save /\ group \in {"saving", "raised"}
                         \/ job[3] \in Emitting
                         \/ \E u \in Batch : job = Handler(u)' /\ MayRun(u)'
                      /\ job \notin Members(queue')
    BY DEF ThreadsSound
  <2>1. CASE (job = Save /\ group \in {"saving", "raised"}) \/ job[3] \in Emitting
    BY <2>1 DEF BatchInv, ThreadsSound
  <2>2. ASSUME NEW u \in Batch, job = Handler(u), MayRun(u)
        PROVE  job = Handler(u)' /\ MayRun(u)'
    <3>1. CASE u # s
      BY <2>2, <3>1 DEF Handler, MayRun, BatchInv, TypeOK
    <3>2. CASE u = s
      <4>1. job \in Live(s)
        BY <2>2, <3>2 DEF Handler, Live
      <4>2. n = attempt[s] /\ to \in {"calling", "failing", "leaving", "failed", "raised", "cancelled"}
        BY <4>1
      <4> QED BY <2>2, <3>2, <4>2 DEF Handler, MayRun, BatchInv, TypeOK
    <3> QED BY <3>1, <3>2
  <2> QED BY <2>1, <2>2 DEF BatchInv, ThreadsSound
<1> QED BY <1>1, <1>2, <1>3, <1>4, <1>5 DEF BatchInv

\* The same where the queue stays as it is and the attempt too.
LEMMA TaskStays ==
    ASSUME BatchInv, NEW s \in Batch, NEW to \in TaskState,
           task[s] \in Active, to # "queued",
           task' = [task EXCEPT ![s] = to], coros' \subseteq coros, threads' \subseteq threads,
           UNCHANGED <<host, attempt, queue, group>>,
           s \in coros' => \/ to \in {"calling", "unwinding", "stopping"}
                           \/ ~ host.direct /\ to \in {"leaving", "cancelled"},
           JobOf(s) \notin Members(queue),
           \A job \in Live(s) \cap threads' :
             to \in {"calling", "failing", "leaving", "failed", "raised", "cancelled"}
    PROVE  BatchInv'
<1>1. /\ attempt[s] \in Nat /\ attempt[s] >= 1 /\ attempt' = [attempt EXCEPT ![s] = attempt[s]]
      /\ task[s] \notin Ended
  BY DEF BatchInv, TypeOK, AttemptsSound, Active
<1>2. queue \in Seq(Job \cup {Save}) /\ Distinct(queue)
  BY DEF BatchInv, TypeOK, QueueSound
<1>3. Members(queue') \subseteq Members(queue) \ {JobOf(s)}
  OBVIOUS
<1> QED BY <1>1, <1>2, <1>3, TaskMoves

LEMMA OutcomeIs ==
    ASSUME NEW s \in Batch, Outcome(s) \/ TimedOut(s) \/ Succeed(s) \/ Retry(s)
    PROVE  \E to \in {"reporting", "retrying", "failing"} : task' = [task EXCEPT ![s] = to]
  BY DEF Outcome, TimedOut, Succeed, Retry, GiveUp

LEMMA Quiet ==
    ASSUME BatchInv, NEW s \in Batch, s \in coros \/
             task[s] \in {"queued", "starting", "unwinding", "stopping", "reporting", "retrying"}
    PROVE  Live(s) = {}
  BY LiveIsPresent DEF MayRun

\* An event that was heard is no longer in the queue.
LEMMA HeardIsOver ==
    ASSUME BatchInv, NEW s \in Batch, Heard(s)
    PROVE  /\ task[s] \in Emitting /\ task[s] \in Active /\ threads' \subseteq threads
           /\ JobOf(s) \notin Members(queue)
<1>1. task[s] \in Emitting /\ task[s] \in Active /\ task[s] # "calling"
  BY DEF Heard, Emitting, Active, TaskState, Ended
<1>2. CASE host.listener = "thread"
  BY <1>1, <1>2 DEF Heard, BatchInv, ThreadsSound
<1>3. CASE host.listener # "thread"
  BY <1>1, <1>3, QueuedAwaits DEF Awaits, Heard
<1> QED BY <1>1, <1>2, <1>3 DEF Heard

LEMMA AcquireKeeps == ASSUME BatchInv, NEW s \in Batch, Acquire(s) PROVE BatchInv'
<1>1. /\ task[s] = "queued" /\ task' = [task EXCEPT ![s] = "starting"]
      /\ attempt' = [attempt EXCEPT ![s] = 1] /\ UNCHANGED <<host, queue, threads, coros, group>>
  BY DEF Acquire
<1>2. s \notin coros /\ queue \in Seq(Job \cup {Save}) /\ Distinct(queue)
  BY <1>1 DEF BatchInv, TypeOK, AttemptsSound, QueueSound
<1>3. "starting" \in TaskState /\ task[s] \notin Ended
  BY <1>1 DEF TaskState, Emitting, Ended
<1>4. Live(s) = {} /\ JobOf(s) \notin Members(queue)
  BY <1>1, Quiet, QueuedAwaits DEF Awaits, Emitting
<1>5. PICK n \in Nat : n >= 1 /\ attempt' = [attempt EXCEPT ![s] = n]
  <2> WITNESS 1 \in Nat
  <2> QED BY <1>1
<1>6. \A job \in Live(s) \cap threads' : FALSE
  BY <1>4
<1>7. Members(queue') \subseteq Members(queue) \ {JobOf(s)}
  BY <1>1, <1>4
<1> QED BY <1>1, <1>2, <1>3, <1>5, <1>6, <1>7, TaskMoves

LEMMA NextAttemptKeeps == ASSUME BatchInv, NEW s \in Batch, NextAttempt(s) PROVE BatchInv'
<1>1. /\ task[s] = "retrying" /\ task' = [task EXCEPT ![s] = "starting"]
      /\ attempt' = [attempt EXCEPT ![s] = attempt[s] + 1]
      /\ UNCHANGED <<host, queue, coros, group>> /\ threads' \subseteq threads
      /\ JobOf(s) \notin Members(queue)
  BY HeardIsOver DEF NextAttempt
<1>2. s \notin coros /\ queue \in Seq(Job \cup {Save}) /\ Distinct(queue)
  BY <1>1 DEF BatchInv, TypeOK, AttemptsSound, QueueSound
<1>3. attempt[s] + 1 \in Nat /\ attempt[s] + 1 >= 1
  BY DEF BatchInv, TypeOK
<1>4. "starting" \in TaskState /\ task[s] \notin Ended /\ Live(s) = {}
  BY <1>1, Quiet DEF TaskState, Emitting, Ended
<1>5. Members(queue') \subseteq Members(queue) \ {JobOf(s)} /\ \A job \in Live(s) \cap threads' : FALSE
  BY <1>1, <1>4
<1> QED BY <1>1, <1>2, <1>3, <1>4, <1>5, TaskMoves

\* An event is given to the pool.
LEMMA SubmitKeeps == ASSUME BatchInv, NEW s \in Batch, Submit(s) PROVE BatchInv'
<1>1. /\ host.listener = "thread" /\ task[s] \in Emitting /\ queue' = Append(queue, JobOf(s))
      /\ UNCHANGED <<host, task, attempt, threads, coros, group>>
      /\ queue \in Seq(Job \cup {Save}) /\ Distinct(queue)
  BY DEF Submit, BatchInv, TypeOK, QueueSound
<1>2. JobOf(s) \notin Members(queue) /\ JobOf(s) \notin threads /\ JobOf(s) \in Job \cup {Save}
  BY <1>1 DEF Submit, LockIsFree, Submitted, Queued, Members, In, JobOf, Job, BatchInv, TypeOK
<1>3. /\ queue' \in Seq(Job \cup {Save}) /\ Distinct(queue')
      /\ Members(queue') = Members(queue) \cup {JobOf(s)}
  BY <1>1, <1>2, AppendDistinct
<1>4. TypeOK' /\ AttemptsSound' /\ GroupSound'
  BY <1>1, <1>3 DEF BatchInv, TypeOK, AttemptsSound, GroupSound, AllEnded, In
<1>5. QueueSound' /\ ThreadsSound'
  BY <1>1, <1>2, <1>3 DEF BatchInv, QueueSound, ThreadsSound, JobOf, Handler, Awaits, MayRun
<1> QED BY <1>4, <1>5 DEF BatchInv

LEMMA CallKeeps == ASSUME BatchInv, NEW s \in Batch, Call(s) PROVE BatchInv'
<1>1. /\ task[s] = "starting" /\ task' = [task EXCEPT ![s] = "calling"]
      /\ UNCHANGED <<host, attempt, group>> /\ threads' \subseteq threads
      /\ JobOf(s) \notin Members(queue)
  BY HeardIsOver DEF Call
<1>2. /\ attempt[s] >= 1 /\ s \notin coros /\ attempt[s] \in Nat
      /\ queue \in Seq(Job \cup {Save}) /\ Distinct(queue)
  BY <1>1 DEF BatchInv, TypeOK, AttemptsSound, Active, TaskState, Emitting, Ended, QueueSound
<1>3. /\ Handler(s) \notin Members(queue) /\ Handler(s) \in Job /\ Handler(s)' = Handler(s)
      /\ JobOf(s)' = Handler(s)
  <2>1. \A u \in Batch : Handler(s) = JobOf(u) => u = s /\ task[s] = "calling"
    BY DEF Handler, JobOf
  <2>2. Handler(s) \notin Members(queue)
    BY <1>1, <2>1, JobsDiffer DEF BatchInv, QueueSound
  <2> QED BY <1>1, <1>2, <2>2 DEF Handler, JobOf, Job, BatchInv, TypeOK, TaskState
<1>4. Handler(s) \notin threads
  BY <1>1, Quiet DEF Live, Handler
<1>5. /\ queue' \in Seq(Job \cup {Save}) /\ Distinct(queue')
      /\ Members(queue') \subseteq Members(queue) \cup {Handler(s)}
      /\ Handler(s) \in Members(queue') => s \in Sync /\ coros' = coros
      /\ coros' \subseteq coros \cup {s}
  <2>1. CASE s \in Sync
    <3>1. queue' = Append(queue, Handler(s)) /\ coros' = coros /\ Handler(s) \in Job \cup {Save}
      BY <1>3, <2>1 DEF Call, Handler
    <3>2. /\ queue' \in Seq(Job \cup {Save}) /\ Distinct(queue')
          /\ Members(queue') = Members(queue) \cup {Handler(s)}
      BY <1>2, <1>3, <3>1, AppendDistinct
    <3> QED BY <2>1, <3>1, <3>2
  <2>2. CASE s \notin Sync
    BY <1>2, <1>3, <2>2 DEF Call
  <2> QED BY <2>1, <2>2
<1>6. \A u \in Batch : u # s => /\ task'[u] = task[u] /\ JobOf(u)' = JobOf(u)
                                /\ Handler(u)' = Handler(u) /\ (u \in coros' => u \in coros)
  BY <1>1, <1>5 DEF BatchInv, TypeOK, JobOf, Handler
<1>7. task'[s] = "calling"
  BY <1>1 DEF BatchInv, TypeOK
<1>8. TypeOK'
  BY <1>1, <1>5 DEF BatchInv, TypeOK, TaskState
<1>9. AttemptsSound'
  BY <1>1, <1>2, <1>6, <1>7 DEF BatchInv, AttemptsSound
<1>10. GroupSound'
  BY <1>1, NotLeft DEF GroupSound, Ended
<1>11. QueueSound'
  <2> SUFFICES ASSUME NEW job \in Members(queue')
               PROVE  \/ job = Save /\ group = "saving"
                      \/ \E u \in Batch : job = JobOf(u)' /\ Awaits(u)'
    BY <1>1, <1>5 DEF QueueSound
  <2>1. CASE job = Handler(s)
    BY <1>1, <1>2, <1>3, <1>5, <1>7, <2>1 DEF Awaits
  <2>2. ASSUME NEW u \in Batch, job = JobOf(u), Awaits(u), u # s PROVE job = JobOf(u)' /\ Awaits(u)'
    BY <1>1, <1>6, <2>2 DEF Awaits
  <2> QED BY <1>1, <1>5, <2>1, <2>2 DEF BatchInv, QueueSound
<1>12. ThreadsSound'
  <2> SUFFICES ASSUME NEW job \in threads, job \in threads'
               PROVE  /\ \/ job = Save /\ group \in {"saving", "raised"}
                         \/ job[3] \in Emitting
                         \/ \E u \in Batch : job = Handler(u)' /\ MayRun(u)'
                      /\ job \notin Members(queue')
    BY <1>1 DEF ThreadsSound
  <2>1. job \notin Members(queue')
    BY <1>4, <1>5 DEF BatchInv, ThreadsSound
  <2>2. ASSUME NEW u \in Batch, job = Handler(u), MayRun(u) PROVE job = Handler(u)' /\ MayRun(u)'
    <3>1. u # s
      BY <1>1, <2>2 DEF MayRun
    <3> QED BY <1>6, <2>2, <3>1 DEF MayRun
  <2> QED BY <2>1, <2>2 DEF BatchInv, ThreadsSound
<1> QED BY <1>8, <1>9, <1>10, <1>11, <1>12 DEF BatchInv

LEMMA ThreadReturnsKeeps == ASSUME BatchInv, NEW s \in Batch, ThreadReturns(s) PROVE BatchInv'
<1>1. /\ task[s] = "calling" /\ JobOf(s) \in threads /\ threads' = threads \ {JobOf(s)}
      /\ UNCHANGED <<host, attempt, queue, group>>
  BY DEF ThreadReturns
<1>2. /\ JobOf(s) = Handler(s) /\ JobOf(s) \in Live(s) /\ JobOf(s) \notin Members(queue)
      /\ task[s] \in Active
  BY <1>1 DEF JobOf, Handler, Live, BatchInv, ThreadsSound, Active, TaskState, Emitting, Ended
<1>3. Live(s) \cap threads' = {} /\ s \notin coros
  BY <1>1, <1>2, LiveIsPresent DEF MayRun
<1>4. CASE Outcome(s) /\ UNCHANGED coros
  <2>1. PICK to \in {"reporting", "retrying", "failing"} : task' = [task EXCEPT ![s] = to]
    BY <1>4, OutcomeIs
  <2>2. to \in TaskState /\ to # "queued"
    BY DEF TaskState, Emitting
  <2>3. coros' \subseteq coros /\ threads' \subseteq threads /\ s \notin coros'
    BY <1>1, <1>3, <1>4
  <2> QED BY <1>1, <1>2, <1>3, <2>1, <2>2, <2>3, TaskStays
<1>5. CASE coros' = coros \cup {s} /\ UNCHANGED task
  <2>1. TypeOK' /\ AttemptsSound' /\ GroupSound'
    BY <1>1, <1>5 DEF BatchInv, TypeOK, AttemptsSound, GroupSound, AllEnded, In
  <2>2. QueueSound'
    <3>1. ASSUME NEW u \in Batch, JobOf(u) \in Members(queue), Awaits(u)
          PROVE  JobOf(u)' = JobOf(u) /\ Awaits(u)'
      BY <1>1, <1>2, <1>5, <3>1 DEF JobOf, Awaits
    <3> QED BY <1>1, <3>1 DEF BatchInv, QueueSound
  <2>3. ThreadsSound'
    <3>1. ASSUME NEW u \in Batch, Handler(u) \in threads', MayRun(u)
          PROVE  Handler(u)' = Handler(u) /\ MayRun(u)'
      BY <1>1, <1>2, <1>5, <3>1 DEF Handler, MayRun
    <3> QED BY <1>1, <3>1 DEF BatchInv, ThreadsSound
  <2> QED BY <2>1, <2>2, <2>3 DEF BatchInv
<1> QED BY <1>4, <1>5 DEF ThreadReturns

\* The coroutine that a task awaits ends.
LEMMA CoroutineEndsKeeps ==
    ASSUME BatchInv, NEW s \in Batch, CoroutineReturns(s) \/ Unwind(s) \/ Stop(s) PROVE BatchInv'
<1>1. /\ coros' = coros \ {s} /\ UNCHANGED <<host, attempt, queue, threads, group>>
      /\ task[s] \in {"unwinding", "stopping"} \/ (task[s] = "calling" /\ s \in coros)
  BY DEF CoroutineReturns, Unwind, Stop
<1>2. PICK to \in {"reporting", "retrying", "failing", "leaving"} : task' = [task EXCEPT ![s] = to]
  BY OutcomeIs DEF CoroutineReturns, Unwind, Stop
<1>3. JobOf(s) \notin Members(queue)
  BY <1>1, QueuedAwaits DEF Awaits, Emitting
<1>4. Live(s) = {}
  BY <1>1, Quiet
<1>5. task[s] \in Active /\ to \in TaskState /\ to # "queued"
  BY <1>1 DEF Active, TaskState, Emitting, Ended
<1>6. /\ s \notin coros' /\ coros' \subseteq coros /\ threads' \subseteq threads
      /\ \A job \in Live(s) \cap threads' : FALSE
  BY <1>1, <1>4
<1> QED BY <1>1, <1>2, <1>3, <1>5, <1>6, TaskStays

\* Dropping a job that is in the queue, or is not.
LEMMA DropIs ==
    ASSUME BatchInv, NEW job
    PROVE  /\ DropJob(job) \in Seq(Job \cup {Save}) /\ Distinct(DropJob(job))
           /\ Members(DropJob(job)) \subseteq Members(queue) \ {job}
<1>1. queue \in Seq(Job \cup {Save}) /\ Distinct(queue)
  BY DEF BatchInv, TypeOK, QueueSound
<1>2. CASE Queued(job)
  <2>1. \E i \in DOMAIN queue : queue[i] = job
    BY <1>1, <1>2 DEF Queued
  <2> DEFINE k == CHOOSE i \in DOMAIN queue : queue[i] = job
  <2>2. k \in DOMAIN queue /\ queue[k] = job
    BY <2>1
  <2>3. k \in 1..Len(queue) /\ DropJob(job) = RemoveAt(queue, k)
    BY <1>1, <1>2, <2>2 DEF DropJob
  <2> HIDE DEF k
  <2> QED BY <1>1, <2>2, <2>3, RemoveDistinct
<1>3. CASE ~ Queued(job)
  BY <1>1, <1>3 DEF DropJob, Queued, Members
<1> QED BY <1>2, <1>3

LEMMA DeadlineKeeps == ASSUME BatchInv, NEW s \in Batch, Deadline(s) PROVE BatchInv'
<1>1. /\ task[s] = "calling" /\ queue' = DropJob(JobOf(s))
      /\ UNCHANGED <<host, attempt, threads, coros, group>>
  BY DEF Deadline, UnderDeadline
<1>2. /\ attempt[s] >= 1 /\ attempt[s] \in Nat /\ attempt' = [attempt EXCEPT ![s] = attempt[s]]
      /\ task[s] \notin Ended
  BY <1>1 DEF BatchInv, TypeOK, AttemptsSound, Active, TaskState, Ended
<1>3. /\ queue' \in Seq(Job \cup {Save}) /\ Distinct(queue')
      /\ Members(queue') \subseteq Members(queue) \ {JobOf(s)}
  BY <1>1, DropIs
<1>4. CASE s \in coros
  <2>1. task' = [task EXCEPT ![s] = "unwinding"] /\ "unwinding" \in TaskState
    BY <1>4 DEF Deadline, TaskState
  <2>2. \A job \in Live(s) \cap threads' : FALSE
    BY <1>4, Quiet
  <2> QED BY <1>1, <1>2, <1>3, <2>1, <2>2, TaskMoves
<1>5. CASE s \notin coros
  <2>1. TimedOut(s)
    BY <1>5 DEF Deadline
  <2>2. PICK to \in {"reporting", "retrying", "failing"} : task' = [task EXCEPT ![s] = to]
    BY <2>1, OutcomeIs
  <2>5. to \in TaskState /\ "failing" \in TaskState /\ s \notin coros'
    BY <1>1, <1>5 DEF TaskState, Emitting
  <2>3. CASE Live(s) = {}
    BY <1>1, <1>2, <1>3, <2>2, <2>3, <2>5, TaskMoves
  <2>4. CASE s \in Sync
    <3>1. task' = [task EXCEPT ![s] = "failing"]
      BY <2>1, <2>4 DEF TimedOut, GiveUp
    <3> QED BY <1>1, <1>2, <1>3, <2>5, <3>1, TaskMoves
  <2> QED BY <2>3, <2>4, LiveIsPresent DEF MayRun
<1> QED BY <1>4, <1>5

LEMMA ReturnKeeps ==
    ASSUME BatchInv, NEW s \in Batch, Return(s) \/ EventFails(s) PROVE BatchInv'
<1>1. /\ UNCHANGED <<host, attempt, queue, coros, group>> /\ threads' \subseteq threads
      /\ task[s] \in Emitting /\ task[s] \in Active /\ JobOf(s) \notin Members(queue)
  BY HeardIsOver DEF Return, EventFails
<1>2. {"raised", "succeeded", "failed", "cancelled"} \subseteq TaskState \ {"queued"}
  BY DEF TaskState, Ended
<1>3. CASE task[s] # "leaving"
  <2>1. s \notin coros
    BY <1>1, <1>3 DEF BatchInv, AttemptsSound, Emitting
  <2>2. CASE EventFails(s)
    <3>1. task' = [task EXCEPT ![s] = "raised"]
      BY <2>2 DEF EventFails
    <3> QED BY <1>1, <1>2, <2>1, <3>1, TaskStays
  <2>3. CASE task[s] = "reporting" /\ task' = [task EXCEPT ![s] = "succeeded"]
    <3>1. Live(s) = {}
      BY <2>3, Quiet
    <3> QED BY <1>1, <1>2, <2>1, <2>3, <3>1, TaskStays
  <2>4. CASE task[s] = "failing" /\ task' = [task EXCEPT ![s] = "failed"]
    BY <1>1, <1>2, <2>1, <2>4, TaskStays
  <2> QED BY <1>3, <2>2, <2>3, <2>4 DEF Return
<1>4. CASE task[s] = "leaving"
  <2>1. task' = [task EXCEPT ![s] = "cancelled"]
    BY <1>4 DEF Return, EventFails
  <2>2. s \in coros => ~ host.direct
    BY <1>4 DEF BatchInv, AttemptsSound
  <2> QED BY <1>1, <1>2, <2>1, <2>2, TaskStays
<1> QED BY <1>3, <1>4

-----------------------------------------------------------------------------
(* The pool, the cancellations and the gathers *)

\* Nothing but the save is in the queue once every task has ended.
LEMMA OnlySaveWaits ==
    ASSUME BatchInv, AllEnded, NEW job \in Members(queue) PROVE job = Save /\ group = "saving"
  BY DEF BatchInv, QueueSound, Awaits, AllEnded, In, Ended, Emitting

LEMMA ThreadTakesKeeps == ASSUME BatchInv, ThreadTakes PROVE BatchInv'
<1>1. /\ queue # <<>> /\ queue' = Tail(queue) /\ threads' = threads \cup {Head(queue)}
      /\ UNCHANGED <<host, task, attempt, coros, group>>
      /\ queue \in Seq(Job \cup {Save}) /\ Distinct(queue)
  BY DEF ThreadTakes, BatchInv, TypeOK, QueueSound
<1>2. /\ Tail(queue) \in Seq(Job \cup {Save}) /\ Distinct(Tail(queue))
      /\ Head(queue) \in Members(queue) /\ Members(Tail(queue)) = Members(queue) \ {Head(queue)}
  BY <1>1, TailDistinct
<1>3. Head(queue) \in Job \cup {Save}
  BY <1>1, HeadTailProperties
<1>4. TypeOK' /\ AttemptsSound' /\ GroupSound'
  BY <1>1, <1>2, <1>3 DEF BatchInv, TypeOK, AttemptsSound, GroupSound, AllEnded, In
<1>5. QueueSound'
  BY <1>1, <1>2 DEF BatchInv, QueueSound, JobOf, Awaits
<1>6. ThreadsSound'
  <2>1. \/ Head(queue) = Save /\ group \in {"saving", "raised"}
        \/ Head(queue)[3] \in Emitting
        \/ \E s \in Batch : Head(queue) = Handler(s) /\ MayRun(s)
    <3>1. ASSUME NEW s \in Batch, Head(queue) = JobOf(s), Awaits(s)
          PROVE  Head(queue)[3] \in Emitting \/ (Head(queue) = Handler(s) /\ MayRun(s))
      BY <3>1 DEF Awaits, JobOf, Handler, MayRun
    <3> QED BY <1>2, <3>1 DEF BatchInv, QueueSound
  <2> QED BY <1>1, <1>2, <2>1 DEF BatchInv, ThreadsSound, Handler, MayRun
<1> QED BY <1>4, <1>5, <1>6 DEF BatchInv

\* A thread, or a coroutine that was left alone, ends.
LEMMA UnnoticedKeeps ==
    ASSUME BatchInv, (\E job \in threads : AbandonedEnds(job)) \/ (\E s \in Batch : OrphanEnds(s))
    PROVE  BatchInv'
<1>1. /\ threads' \subseteq threads /\ coros' \subseteq coros
      /\ UNCHANGED <<host, task, attempt, queue, group>>
      /\ \A s \in Batch : task[s] \in {"calling"} \cup Emitting /\ s \in coros \ coros' => task[s] = "leaving"
  BY DEF AbandonedEnds, OrphanEnds, Emitting
<1>2. TypeOK' /\ AttemptsSound' /\ GroupSound'
  BY <1>1 DEF BatchInv, TypeOK, AttemptsSound, GroupSound, AllEnded, In
<1>3. \A s \in Batch : /\ JobOf(s)' = JobOf(s) /\ Handler(s)' = Handler(s)
                       /\ Awaits(s) => Awaits(s)'
                       /\ MayRun(s) => MayRun(s)'
  BY <1>1 DEF JobOf, Handler, Awaits, MayRun
<1>4. QueueSound' /\ ThreadsSound'
  BY <1>1, <1>3 DEF BatchInv, QueueSound, ThreadsSound
<1> QED BY <1>2, <1>4 DEF BatchInv

\* What a cancellation makes of each task.
LEMMA CancelledIs ==
    ASSUME BatchInv, CancelAll, NEW s \in Batch
    PROVE  /\ task'[s] \in TaskState /\ (task'[s] \in Active => task[s] \in Active)
           /\ task[s] \in Ended => task'[s] = task[s]
           /\ task'[s] = "queued" => FALSE
           /\ s \in coros => \/ task'[s] = "stopping"
                             \/ ~ host.direct /\ task'[s] \in {"leaving", "cancelled"}
           /\ MayRun(s) => task'[s] \in {"failing", "leaving", "failed", "raised", "cancelled"}
<1>1. PICK going \in SUBSET {u \in Batch : MayGoOn(u)} :
        task' = [u \in Batch |-> IF u \in going THEN task[u] ELSE Cancelled(u)]
  BY DEF CancelAll
<1>2. task[s] \in TaskState /\ task'[s] = IF s \in going THEN task[s] ELSE Cancelled(s)
  BY <1>1 DEF BatchInv, TypeOK
<1>3. s \in coros => \/ task[s] \in {"calling", "unwinding", "stopping"}
                     \/ ~ host.direct /\ task[s] \in {"leaving", "cancelled"}
  BY DEF BatchInv, AttemptsSound
<1>4. CASE s \in going
  <2>1. task[s] \in Emitting /\ task'[s] = task[s]
    BY <1>1, <1>2, <1>4 DEF MayGoOn, Emitting
  <2> QED BY <1>2, <1>3, <2>1 DEF MayRun, Emitting, Ended
<1>5. CASE s \notin going
  <2>1. task'[s] = IF task[s] \in Ended THEN task[s] ELSE Interrupted(s)
    BY <1>2, <1>5 DEF Cancelled
  <2>2. CASE task[s] \in Ended
    BY <1>2, <1>3, <2>1, <2>2 DEF MayRun, Ended, Active
  <2>3. CASE task[s] \notin Ended
    <3>1. Interrupted(s) \in {"stopping", "leaving", "cancelled"}
      BY DEF Interrupted
    <3>2. Interrupted(s) \in {"stopping", "leaving"} => task[s] \in Active
      BY <1>2, <2>3 DEF Interrupted, Active, TaskState, Emitting, Ended
    <3>3. s \in coros => \/ Interrupted(s) = "stopping"
                         \/ ~ host.direct /\ Interrupted(s) \in {"leaving", "cancelled"}
      BY <1>3, <2>3 DEF Interrupted, Ended
    <3>4. MayRun(s) => Interrupted(s) \in {"leaving", "cancelled"}
      BY <1>3, <2>3 DEF MayRun, Interrupted, Ended
    <3> QED BY <2>1, <2>3, <3>1, <3>2, <3>3, <3>4 DEF Active, TaskState, Emitting, Ended
  <2> QED BY <2>2, <2>3
<1> QED BY <1>4, <1>5

LEMMA CancelKeeps == ASSUME BatchInv, Interrupt \/ Cleanup PROVE BatchInv'
<1>1. /\ group \in {"gather", "cancelling", "cleanup"} /\ group' \in {"cancelling", "cleanup"}
      /\ CancelAll
  BY DEF Interrupt, Cleanup
<1>2. /\ queue' = <<>> /\ UNCHANGED <<host, attempt, threads, coros>>
      /\ DOMAIN task' = Batch /\ \E f : task' = [s \in Batch |-> f[s]]
  <2>1. \E going : task' = [s \in Batch |-> IF s \in going THEN task[s] ELSE Cancelled(s)]
    BY <1>1 DEF CancelAll
  <2> QED BY <1>1, <2>1 DEF CancelAll
<1>3. Members(queue') = {} /\ Distinct(queue') /\ queue' \in Seq(Job \cup {Save})
  BY <1>2, EmptySeq DEF Members, Distinct
<1>4. TypeOK'
  <2>1. task' \in [Batch -> TaskState]
    BY <1>1, <1>2, CancelledIs
  <2> QED BY <1>1, <1>2, <1>3, <2>1 DEF BatchInv, TypeOK, Group
<1>5. AttemptsSound'
  <2> SUFFICES ASSUME NEW s \in Batch
               PROVE  /\ task'[s] \in Active => attempt[s] >= 1
                      /\ s \in coros => \/ task'[s] \in {"calling", "unwinding", "stopping"}
                                        \/ ~ host.direct /\ task'[s] \in {"leaving", "cancelled"}
    BY <1>2 DEF AttemptsSound
  <2> QED BY <1>1, CancelledIs DEF BatchInv, AttemptsSound
<1>6. GroupSound' /\ QueueSound'
  BY <1>1, <1>3 DEF GroupSound, QueueSound
<1>7. ThreadsSound'
  <2> SUFFICES ASSUME NEW job \in threads
               PROVE  job[3] \in Emitting \/ \E s \in Batch : job = Handler(s)' /\ MayRun(s)'
    BY <1>2, <1>3 DEF ThreadsSound
  <2>1. CASE job[3] \in Emitting
    BY <2>1
  <2>2. ASSUME NEW s \in Batch, job = Handler(s), MayRun(s) PROVE job = Handler(s)' /\ MayRun(s)'
    <3>1. task'[s] \in {"failing", "leaving", "failed", "raised", "cancelled"}
      BY <1>1, <2>2, CancelledIs
    <3> QED BY <1>2, <2>2, <3>1 DEF Handler, MayRun
  <2> QED BY <1>1, <2>1, <2>2 DEF BatchInv, ThreadsSound
<1> QED BY <1>4, <1>5, <1>6, <1>7 DEF BatchInv

LEMMA GatheredKeeps == ASSUME BatchInv, Gathered PROVE BatchInv'
<1>1. /\ group = "gather" /\ AllEnded /\ group' = "saving" /\ queue' = Append(queue, Save)
      /\ UNCHANGED <<host, task, attempt, threads, coros>>
      /\ queue \in Seq(Job \cup {Save}) /\ Distinct(queue)
  BY DEF Gathered, BatchInv, TypeOK, QueueSound
<1>2. Members(queue) = {}
  BY <1>1, OnlySaveWaits
<1>3. queue' \in Seq(Job \cup {Save}) /\ Distinct(queue') /\ Members(queue') = {Save}
  <2>1. /\ Append(queue, Save) \in Seq(Job \cup {Save}) /\ Distinct(Append(queue, Save))
        /\ Members(Append(queue, Save)) = Members(queue) \cup {Save}
    BY <1>1, <1>2, AppendDistinct
  <2> QED BY <1>1, <1>2, <2>1
<1>4. TypeOK' /\ AttemptsSound' /\ GroupSound' /\ QueueSound'
  BY <1>1, <1>3
     DEF BatchInv, TypeOK, AttemptsSound, GroupSound, AllEnded, In, QueueSound, Group
<1>5. ThreadsSound'
  <2> SUFFICES ASSUME NEW job \in threads
               PROVE  job # Save /\ (job[3] \in Emitting \/ \E s \in Batch : job = Handler(s) /\ MayRun(s))
    BY <1>1, <1>3 DEF ThreadsSound, Handler, MayRun
  <2>1. job[3] \in Emitting \/ \E s \in Batch : job = Handler(s) /\ MayRun(s)
    BY <1>1 DEF BatchInv, ThreadsSound
  <2> QED BY <2>1, JobsDiffer DEF BatchInv, Save, Emitting
<1> QED BY <1>4, <1>5 DEF BatchInv

LEMMA LeavingKeeps == ASSUME BatchInv, SaveReturns \/ CancelSave \/ Raise PROVE BatchInv'
<1>1. /\ AllEnded /\ threads' \subseteq threads /\ UNCHANGED <<host, task, attempt, coros>>
      /\ group' \in {"saved", "raised"} /\ (group' = "saved" => Save \notin threads')
  BY JobsDiffer DEF SaveReturns, CancelSave, Raise, BatchInv, GroupSound, ThreadsSound, Save, Emitting
<1>2. queue' \in Seq(Job \cup {Save}) /\ Distinct(queue') /\ Members(queue') = {}
  <2>1. CASE SaveReturns \/ Raise
    <3>1. queue' = queue /\ \A job \in Members(queue) : job = Save /\ group = "saving"
      BY <1>1, <2>1, OnlySaveWaits DEF SaveReturns, Raise
    <3>2. Save \notin Members(queue)
      BY <2>1, <3>1 DEF SaveReturns, Raise, BatchInv, ThreadsSound
    <3> QED BY <3>1, <3>2 DEF BatchInv, TypeOK, QueueSound
  <2>2. CASE CancelSave
    BY <1>1, <2>2, OnlySaveWaits, DropIs DEF CancelSave
  <2> QED BY <2>1, <2>2
<1>3. TypeOK' /\ AttemptsSound' /\ GroupSound' /\ QueueSound'
  BY <1>1, <1>2 DEF BatchInv, TypeOK, AttemptsSound, GroupSound, AllEnded, In, Group, QueueSound
<1>4. ThreadsSound'
  BY <1>1, <1>2 DEF BatchInv, ThreadsSound, Handler, MayRun
<1> QED BY <1>3, <1>4 DEF BatchInv

LEMMA StutterKeeps == ASSUME BatchInv, UNCHANGED vars PROVE BatchInv'
<1>1. TypeOK' /\ AttemptsSound' /\ GroupSound'
  BY DEF vars, BatchInv, TypeOK, AttemptsSound, GroupSound, AllEnded, In
<1>2. QueueSound' /\ ThreadsSound'
  BY DEF vars, BatchInv, QueueSound, ThreadsSound, JobOf, Handler, Awaits, MayRun
<1> QED BY <1>1, <1>2 DEF BatchInv

LEMMA BatchInvHolds == Spec => []BatchInv
<1>1. Init => BatchInv
  <2> SUFFICES ASSUME Init PROVE BatchInv
    OBVIOUS
  <2>1. Members(queue) = {} /\ Distinct(queue) /\ queue \in Seq(Job \cup {Save})
    BY EmptySeq DEF Init, Members, Distinct
  <2>2. host \in Host
    BY AttemptsAssumption DEF Init
  <2> QED BY <2>1, <2>2 DEF Init, BatchInv, TypeOK, TaskState, Active, Group, AttemptsSound,
                      QueueSound, ThreadsSound, GroupSound
<1>2. BatchInv /\ [Next]_vars => BatchInv'
  <2> SUFFICES ASSUME BatchInv, [Next]_vars PROVE BatchInv'
    OBVIOUS
  <2>1. CASE Runner
    BY <2>1, AcquireKeeps, SubmitKeeps, CallKeeps, DeadlineKeeps, NextAttemptKeeps, ReturnKeeps,
       CancelKeeps, ThreadTakesKeeps, GatheredKeeps, LeavingKeeps DEF Runner, Hears
  <2>2. CASE Environment
    BY <2>2, CallKeeps, NextAttemptKeeps, ReturnKeeps, ThreadReturnsKeeps, CoroutineEndsKeeps,
       UnnoticedKeeps, CancelKeeps, LeavingKeeps DEF Environment, Hears
  <2> QED BY <2>1, <2>2, StutterKeeps DEF Next
<1> QED BY <1>1, <1>2, PTL DEF Spec

\* Only a cancellation stops tasks; it leaves none in front of the semaphore, and
\* nothing is saved after it.
Fenced ==
    /\ group \in {"gather", "saving", "saved"} => In({"stopping", "leaving", "cancelled"}) = {}
    /\ group \in {"cancelling", "cleanup"} => In({"queued"}) = {}

\* A task that moves on: to or within its attempts, or to its end.
LEMMA MoveIsFenced ==
    ASSUME BatchInv, Fenced, NEW s \in Batch,
           NEW to \in TaskState \ {"queued", "stopping", "leaving", "cancelled"},
           task' = [task EXCEPT ![s] = to], UNCHANGED group
    PROVE  Fenced'
BY DEF Fenced, BatchInv, TypeOK, In

\* A task that has been cancelled moves on.
LEMMA CancelledIsFenced ==
    ASSUME BatchInv, Fenced, NEW s \in Batch, NEW to \in TaskState \ {"queued"},
           task[s] \in {"stopping", "leaving"},
           task' = [task EXCEPT ![s] = to], UNCHANGED group
    PROVE  Fenced'
BY DEF Fenced, BatchInv, TypeOK, In

LEMMA FencedHolds == Spec => []Fenced
<1>1. Init => Fenced
  BY DEF Init, Fenced, In
<1>2. BatchInv /\ Fenced /\ [Next]_vars => Fenced'
  <2> SUFFICES ASSUME BatchInv, Fenced, [Next]_vars PROVE Fenced'
    OBVIOUS
  <2>1. ASSUME UNCHANGED <<task, group>> PROVE Fenced'
    BY <2>1 DEF Fenced, In
  <2>2. ASSUME NEW s \in Batch,
               \/ Acquire(s) \/ Call(s) \/ Deadline(s) \/ Unwind(s) \/ NextAttempt(s)
               \/ ThreadReturns(s) \/ CoroutineReturns(s) \/ EventFails(s)
               \/ (Return(s) /\ task[s] # "leaving")
        PROVE  Fenced'
    <3>1. UNCHANGED group
      BY <2>2 DEF Acquire, Call, Deadline, Unwind, NextAttempt, Return, ThreadReturns, CoroutineReturns,
                  EventFails
    <3>2. \/ UNCHANGED task
          \/ \E to \in TaskState \ {"queued", "stopping", "leaving", "cancelled"} :
               task' = [task EXCEPT ![s] = to]
      BY <2>2 DEF Acquire, Call, Deadline, Unwind, NextAttempt, Return, ThreadReturns, CoroutineReturns,
                  EventFails, Outcome, Succeed, TimedOut, Retry, GiveUp, TaskState, Emitting, Ended
    <3> QED BY <2>1, <3>1, <3>2, MoveIsFenced
  <2>3. ASSUME NEW s \in Batch, Stop(s) \/ (Return(s) /\ task[s] = "leaving") PROVE Fenced'
    <3>1. UNCHANGED group /\ task[s] \in {"stopping", "leaving"}
      BY <2>3 DEF Stop, Return
    <3>2. \E to \in TaskState \ {"queued"} : task' = [task EXCEPT ![s] = to]
      BY <2>3, OutcomeIs DEF Stop, Return, TaskState, Emitting, Ended
    <3> QED BY <3>1, <3>2, CancelledIsFenced
  <2>4. CASE Interrupt \/ Cleanup
    <3>1. CancelAll /\ group' \in {"cancelling", "cleanup"}
      BY <2>4 DEF Interrupt, Cleanup
    <3>2. \A s \in Batch : task'[s] # "queued"
      BY <3>1, CancelledIs
    <3> QED BY <3>1, <3>2 DEF Fenced, In
  <2>5. CASE Gathered \/ Raise \/ SaveReturns \/ CancelSave
    BY <2>5 DEF Gathered, Raise, SaveReturns, CancelSave, Fenced, In
  <2>6. CASE ThreadTakes \/ UNCHANGED vars \/ (\E s \in Batch : OrphanEnds(s) \/ Submit(s))
             \/ (\E job \in threads : AbandonedEnds(job))
    BY <2>1, <2>6 DEF ThreadTakes, AbandonedEnds, OrphanEnds, Submit, vars
  <2> QED BY <2>2, <2>3, <2>4, <2>5, <2>6 DEF Next, Runner, Environment, Hears
<1> QED BY <1>1, <1>2, BatchInvHolds, PTL DEF Spec

-----------------------------------------------------------------------------
(* What follows *)

\* Tasks, jobs, threads and coroutines are always where they can be.
THEOREM BatchTypes == Spec => []TypeOK
<1>1. BatchInv => TypeOK
  BY DEF BatchInv
<1> QED BY <1>1, BatchInvHolds, PTL

\* Two attempts of one step never run at the same time: a synchronous handler that
\* was let go is never called again, and a coroutine is awaited first.
THEOREM AttemptsNeverOverlap == Spec => []NoOverlap
<1>1. ASSUME BatchInv PROVE NoOverlap
  <2> SUFFICES ASSUME NEW s \in Batch
               PROVE  Cardinality(Live(s)) + Cardinality({s} \cap coros) <= 1
    BY DEF NoOverlap
  <2>1. Cardinality({}) = 0 /\ \A x : Cardinality({x}) = 1
    BY FS_EmptySet, FS_Singleton
  <2>2. Live(s) = {} \/ Live(s) = {Handler(s)}
    BY <1>1, LiveIsPresent
  <2>3. {s} \cap coros = {} \/ ({s} \cap coros = {s} /\ Live(s) = {})
    BY <1>1, Quiet
  <2>4. Cardinality(Live(s)) \in {0, 1}
    BY <2>1, <2>2
  <2>5. CASE {s} \cap coros = {}
    BY <2>1, <2>4, <2>5
  <2>6. CASE {s} \cap coros = {s} /\ Live(s) = {}
    <3>1. Cardinality({s} \cap coros) = 1 /\ Cardinality(Live(s)) = 0
      BY <2>1, <2>6
    <3> QED BY <3>1
  <2> QED BY <2>3, <2>5, <2>6
<1> QED BY <1>1, BatchInvHolds, PTL

\* A step whose success is reported has no thread and no coroutine any more.
THEOREM SuccessAlwaysQuiet == Spec => []SuccessIsQuiet
<1>1. ASSUME BatchInv PROVE SuccessIsQuiet
  <2> SUFFICES ASSUME NEW s \in Batch, task[s] = "succeeded" PROVE Live(s) = {} /\ s \notin coros
    BY DEF SuccessIsQuiet, In
  <2> QED BY <1>1, LiveIsPresent DEF MayRun, BatchInv, AttemptsSound
<1> QED BY <1>1, BatchInvHolds, PTL

\* run() goes on to its report only when no coroutine handler of the batch is left;
\* when it raises, at most coroutines of tasks that were cancelled twice, and only
\* where wait_for runs them in tasks of their own.
THEOREM AsyncWorkAlwaysOver == Spec => []AsyncWorkIsOver
<1>1. ASSUME BatchInv, Fenced PROVE AsyncWorkIsOver
  <2> SUFFICES ASSUME group \in {"saving", "saved", "raised"}, NEW s \in coros
               PROVE  group = "raised" /\ ~ host.direct /\ s \in In({"cancelled"})
    BY DEF AsyncWorkIsOver
  <2>1. s \in Batch /\ task[s] \in Ended
    BY <1>1 DEF BatchInv, TypeOK, GroupSound, AllEnded, In
  <2>2. ~ host.direct /\ task[s] = "cancelled"
    BY <1>1, <2>1 DEF BatchInv, AttemptsSound, Ended
  <2> QED BY <1>1, <2>1, <2>2 DEF Fenced, In
<1> QED BY <1>1, BatchInvHolds, FencedHolds, PTL

\* Once run() has left the batch no handler of it begins, and no cancelled save.
THEOREM NothingEverStartsLate == Spec => NothingStartsLate
<1> DEFINE Left == group \in {"saving", "saved", "raised"}
           Quiets == /\ threads' \subseteq threads \cup (IF group = "saving" THEN {Save} ELSE {})
                     /\ coros' \subseteq coros
<1>1. ASSUME BatchInv, [Next]_vars, Left PROVE Quiets
  <2>1. AllEnded /\ \A s \in Batch : task[s] \in Ended
    BY <1>1 DEF BatchInv, GroupSound, AllEnded, In
  <2>2. CASE ThreadTakes
    <3>1. Head(queue) \in Members(queue)
      BY <1>1, <2>2, TailDistinct DEF ThreadTakes, BatchInv, TypeOK, QueueSound
    <3>2. Head(queue) = Save /\ group = "saving"
      BY <1>1, <2>1, <3>1, OnlySaveWaits
    <3> QED BY <2>2, <3>2 DEF ThreadTakes
  <2>3. ASSUME NEW s \in Batch, Acquire(s) \/ Submit(s) \/ Deadline(s) \/ Unwind(s) \/ Stop(s)
                                 \/ Hears(s) \/ EventFails(s) \/ ThreadReturns(s)
                                 \/ CoroutineReturns(s) \/ OrphanEnds(s)
        PROVE  Quiets
    BY <2>1, <2>3 DEF Acquire, Submit, Deadline, UnderDeadline, Unwind, Stop, Hears, Call, NextAttempt,
                      Return, EventFails, Heard, ThreadReturns, CoroutineReturns, OrphanEnds, Ended, Emitting
  <2>4. CASE Gathered \/ Raise \/ SaveReturns \/ CancelSave \/ UNCHANGED vars
             \/ (\E job \in threads : AbandonedEnds(job))
    BY <2>4 DEF Gathered, Raise, SaveReturns, CancelSave, AbandonedEnds, vars
  <2>5. CASE Interrupt \/ Cleanup
    BY <2>5 DEF Interrupt, Cleanup, CancelAll
  <2> QED BY <1>1, <2>2, <2>3, <2>4, <2>5 DEF Next, Runner, Environment
<1>2. BatchInv /\ [Next]_vars => [Left => Quiets]_vars
  BY <1>1
<1> QED BY <1>2, BatchInvHolds, PTL DEF Spec, NothingStartsLate

-----------------------------------------------------------------------------
(* The batch that WorkflowRun knows *)

\* Within its attempts a task is one that runs.
LEMMA AttemptsUnseen ==
    ASSUME BatchInv, NEW s \in Batch, task[s] \in Active, NEW to \in Active,
           task' = [task EXCEPT ![s] = to],
           attempt' = attempt \/ attempt' = [attempt EXCEPT ![s] = @ + 1], UNCHANGED group
    PROVE  UNCHANGED Whole!vars
<1>1. /\ \A u \in Batch : Seen(u)' = Seen(u) /\ Came(u)' = Came(u)
      /\ UNCHANGED <<Outside, Place>>
  BY DEF Active, Ended, Seen, Came, Outside, Place, BatchInv, TypeOK, Blank
<1>2. {u \in Batch : attempt'[u] > 0} = {u \in Batch : attempt[u] > 0}
  BY DEF Active, BatchInv, TypeOK, AttemptsSound
<1> QED BY <1>1, <1>2 DEF Whole!vars, Whole!memory, Whole!work, Blank, Unasked

\* A task that ends ends with one result, unless run() no longer looks.
LEMMA EndIsSeen ==
    ASSUME BatchInv, NEW s \in Batch, task[s] \in Active, NEW to \in Ended,
           task' = [task EXCEPT ![s] = to], UNCHANGED <<attempt, group>>
    PROVE  Whole!FinishHandler(s) \/ UNCHANGED Whole!vars
<1>1. group \in {"gather", "cancelling", "cleanup"}
  BY DEF BatchInv, TypeOK, GroupSound, AllEnded, In, Active, Group
<1>2. \A u \in Batch : u # s => Seen(u)' = Seen(u) /\ Came(u)' = Came(u)
  BY DEF Seen, Came, BatchInv, TypeOK, Blank
<1>3. UNCHANGED <<Outside, Place>>
  BY DEF Outside, Place
<1>4. CASE group # "gather"
  BY <1>1, <1>3, <1>4 DEF Outside, Place, Whole!vars, Whole!memory, Whole!work, Blank, Unasked
<1>5. CASE group = "gather"
  <2>1. /\ Place = "batch" /\ ~ Outside /\ Seen(s) = "running" /\ Seen(s)' = "done"
    BY <1>5 DEF Place, Outside, Seen, Active, Ended, BatchInv, TypeOK
  <2>2. Came(s)' \in {Whole!TerminalWithoutRun("failed"), Whole!Success("output")}
    BY DEF Came, BatchInv, TypeOK, Ended, Whole!TerminalWithoutRun, Whole!Success
  <2>3. PICK result \in {Whole!TerminalWithoutRun("failed"), Whole!Success("output")} : Came(s)' = result
    BY <2>2
  <2>4. Whole!FinishTask(s, result)
    BY <1>2, <1>3, <1>5, <2>1, <2>3 DEF Whole!FinishTask, Whole!memory, Unasked, Blank
  <2> QED BY <2>1, <2>4 DEF Whole!FinishHandler
<1> QED BY <1>1, <1>4, <1>5

\* The semaphore lets a step begin as WorkflowRun does.
LEMMA AcquireIsSeen ==
    ASSUME BatchInv, Fenced, NEW s \in Batch, Acquire(s)
    PROVE  Whole!StartHandler(s)
<1>1. group = "gather"
  BY DEF Acquire, BatchInv, TypeOK, GroupSound, AllEnded, In, Ended, Group, Fenced
<1>2. /\ \A u \in Batch : u # s => Seen(u)' = Seen(u) /\ Came(u)' = Came(u)
      /\ Seen(s) = "queued" /\ Seen(s)' = "running" /\ Came(s) = Came(s)'
      /\ UNCHANGED <<Outside, Place>> /\ Place = "batch" /\ ~ Outside
  BY <1>1 DEF Acquire, Seen, Came, Place, Outside, BatchInv, TypeOK, Blank, Ended
<1>3. {u \in Batch : attempt'[u] > 0} = {u \in Batch : attempt[u] > 0} \cup {s}
  BY DEF Acquire, BatchInv, TypeOK
<1>4. Whole!Running = In(Active)
  BY <1>1 DEF Whole!Running, In, Seen, Active, BatchInv, TypeOK
<1>5. Whole!Acquire(s)
  <2>1. Cardinality(Whole!Running) < MaxConcurrency /\ group' = "gather"
    BY <1>1, <1>4 DEF Acquire
  <2>2. [u \in Batch |-> IF group = "gather" THEN Seen(u) ELSE "none"]'
          = [[u \in Batch |-> IF group = "gather" THEN Seen(u) ELSE "none"] EXCEPT ![s] = "running"]
    BY <1>1, <1>2, <2>1
  <2>3. [u \in Batch |-> IF group = "gather" THEN Seen(u) ELSE "none"][s] = "queued"
    BY <1>1, <1>2
  <2>4. Whole!Cardinality(Whole!Running) = Cardinality(Whole!Running)
    BY DEF Whole!Cardinality, Cardinality
  <2> QED BY <2>1, <2>2, <2>3, <2>4 DEF Whole!Acquire
<1> QED BY <1>1, <1>2, <1>3, <1>5 DEF Acquire, Whole!StartHandler, Whole!memory, Unasked, Blank

\* The results are merged, or the batch is abandoned, as WorkflowRun does.
LEMMA GatherIsSeen == ASSUME BatchInv, Gathered PROVE Whole!GatherBatch
<1>1. /\ group = "gather" /\ group' = "saving" /\ UNCHANGED <<task, attempt>>
      /\ \A u \in Batch : task[u] \in Ended
  BY DEF Gathered, AllEnded, In
<1>2. \A u \in Batch : Seen(u) = "done" /\ Came(u)' = Came(u)
  BY <1>1 DEF Seen, Came, Ended
<1>3. Place = "batch" /\ Place' = "batchSave" /\ ~ Outside /\ ~ Outside'
  BY <1>1 DEF Place, Outside
<1> QED BY <1>1, <1>2, <1>3 DEF Whole!GatherBatch, Whole!AllTasksDone, Whole!NoTasks, Unasked, Blank

LEMMA AbortIs ==
    ASSUME UNCHANGED attempt, Place # "idle", Place' = "idle", ~ Outside, Outside',
           group # "gather" \/ group' # "gather"
    PROVE  Whole!Abort
<1>1. group' # "gather"
  BY DEF Outside
<1> QED BY <1>1 DEF Whole!Abort, Whole!EndInvocation, Whole!Raised, Whole!Returned, Whole!NoResults,
     Whole!NotRun, Whole!TerminalWithoutRun, Whole!NoApprovals, Whole!NoApproval, Whole!NoTasks,
     Whole!NoBatch, Unasked, Blank

\* Of what happens once run() is on its way out nothing is seen.
LEMMA OutsideIsUnseen ==
    ASSUME Outside, Outside', UNCHANGED attempt PROVE UNCHANGED Whole!vars
<1>1. Place = "idle" /\ Place' = "idle" /\ group # "gather" /\ group' # "gather"
  BY DEF Outside, Place
<1> QED BY <1>1 DEF Whole!vars, Whole!memory, Whole!work, Blank, Unasked

LEMMA CancelIsSeen ==
    ASSUME BatchInv, Interrupt \/ Cleanup PROVE Whole!Abort \/ UNCHANGED Whole!vars
<1>1. Outside' /\ UNCHANGED attempt /\ group' # "gather"
  BY DEF Outside, Interrupt, Cleanup, CancelAll
<1>2. CASE group = "gather"
  <2>1. Place = "batch" /\ Place' = "idle" /\ ~ Outside
    BY <1>1, <1>2 DEF Place, Outside
  <2> QED BY <1>1, <2>1, AbortIs
<1>3. CASE group # "gather"
  <2>1. Outside
    BY <1>3 DEF Outside, Interrupt, Cleanup
  <2> QED BY <1>1, <2>1, OutsideIsUnseen
<1> QED BY <1>2, <1>3

\* The save is not seen, but that it raises is.
LEMMA SaveIsSeen ==
    ASSUME SaveReturns \/ CancelSave PROVE Whole!Abort \/ UNCHANGED Whole!vars
<1>1. group = "saving" /\ group' \in {"saved", "raised"} /\ UNCHANGED <<task, attempt>>
  BY DEF SaveReturns, CancelSave
<1>2. Place = "batchSave" /\ ~ Outside
  BY <1>1 DEF Place, Outside
<1>3. CASE group' = "raised"
  <2>1. Outside' /\ Place' = "idle"
    BY <1>3 DEF Place, Outside
  <2> QED BY <1>1, <1>2, <2>1, AbortIs
<1>4. CASE group' = "saved"
  <2>1. Place' = Place /\ ~ Outside' /\ group # "gather" /\ group' # "gather"
    BY <1>1, <1>2, <1>4 DEF Place, Outside
  <2> QED BY <1>1, <1>2, <2>1 DEF Whole!vars, Whole!memory, Whole!work, Seen, Came, Blank, Unasked
<1> QED BY <1>1, <1>3, <1>4

\* A batch in full is a batch of WorkflowRun: what is proved about the runner with
\* tasks that only start and end holds with their attempts, deadlines and threads.
THEOREM BatchIsWorkflowRuns == Spec => ImplementsBatch
<1> DEFINE Step == \/ \E s \in Batch : Whole!StartHandler(s) \/ Whole!FinishHandler(s)
                   \/ Whole!GatherBatch \/ Whole!Abort
<1>1. Init => group = "gather" /\ \A s \in Batch : Seen(s) = "queued"
  BY DEF Init, Seen
<1>2. ASSUME BatchInv, Fenced, [Next]_vars PROVE Step \/ UNCHANGED Whole!vars
  <2>1. ASSUME UNCHANGED <<task, attempt, group>> PROVE UNCHANGED Whole!vars
    <3>1. (Outside <=> Outside') /\ Place = Place'
      BY <2>1 DEF Outside, Place
    <3> QED BY <2>1, <3>1 DEF Whole!vars, Whole!memory, Whole!work, Seen, Came, Blank, Unasked
  <2>2. ASSUME NEW s \in Batch,
               \/ Call(s) \/ Deadline(s) \/ Unwind(s) \/ NextAttempt(s) \/ Stop(s)
               \/ ThreadReturns(s) \/ CoroutineReturns(s)
        PROVE  UNCHANGED Whole!vars
    <3>1. task[s] \in Active /\ UNCHANGED group
      BY <2>2 DEF Call, Deadline, UnderDeadline, Unwind, NextAttempt, Stop, ThreadReturns,
                  CoroutineReturns, Active, TaskState, Emitting, Ended
    <3>2. attempt' = attempt \/ attempt' = [attempt EXCEPT ![s] = @ + 1]
      BY <2>2 DEF Call, Deadline, Unwind, NextAttempt, Stop, ThreadReturns, CoroutineReturns
    <3>3. \/ UNCHANGED <<task, attempt>>
          \/ \E to \in Active : task' = [task EXCEPT ![s] = to]
      BY <2>2 DEF Call, Deadline, Unwind, NextAttempt, Stop, ThreadReturns, CoroutineReturns,
                  Outcome, Succeed, TimedOut, Retry, GiveUp, Active, TaskState, Emitting, Ended
    <3> QED BY <1>2, <2>1, <3>1, <3>2, <3>3, AttemptsUnseen
  <2>3. ASSUME NEW s \in Batch, Return(s) \/ EventFails(s) PROVE Step \/ UNCHANGED Whole!vars
    <3>1. task[s] \in Active /\ UNCHANGED <<attempt, group>>
      BY <1>2, <2>3, HeardIsOver DEF Return, EventFails
    <3>2. \E to \in Ended : task' = [task EXCEPT ![s] = to]
      BY <2>3 DEF Return, EventFails, Ended
    <3> QED BY <1>2, <3>1, <3>2, EndIsSeen
  <2>4. CASE Raise
    BY <2>4, OutsideIsUnseen DEF Raise, Outside
  <2>5. CASE ThreadTakes \/ UNCHANGED vars \/ (\E s \in Batch : OrphanEnds(s) \/ Submit(s))
             \/ (\E job \in threads : AbandonedEnds(job))
    BY <2>1, <2>5 DEF ThreadTakes, OrphanEnds, Submit, AbandonedEnds, vars
  <2>6. ASSUME NEW s \in Batch, Acquire(s) PROVE Step
    BY <1>2, <2>6, AcquireIsSeen
  <2>7. CASE Gathered \/ Interrupt \/ Cleanup \/ SaveReturns \/ CancelSave
    BY <1>2, <2>7, GatherIsSeen, CancelIsSeen, SaveIsSeen
  <2> HIDE DEF Step
  <2> QED BY <1>2, <2>2, <2>3, <2>4, <2>5, <2>6, <2>7 DEF Next, Runner, Environment, Hears
<1>3. BatchInv /\ Fenced /\ [Next]_vars => [Step]_(Whole!vars)
  BY <1>2
<1> QED BY <1>1, <1>3, BatchInvHolds, FencedHolds, PTL DEF Spec, ImplementsBatch
=============================================================================
