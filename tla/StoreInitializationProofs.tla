------------------------- MODULE StoreInitializationProofs -------------------------
(***************************************************************************)
(* Proofs about StoreInitialization, for any number of processes.          *)
(***************************************************************************)
EXTENDS StoreInitialization, TLAPS

-----------------------------------------------------------------------------
(* DatabaseIsSound is inductive *)

\* Before the transaction: a process looks at the file, connects and takes the lock.
LEMMA OpeningKeeps ==
    ASSUME DatabaseIsSound, NEW p \in Processes, Look(p) \/ Peek(p) \/ BeginImmediate(p)
    PROVE  DatabaseIsSound'
<1>1. CASE Look(p)
  BY <1>1, InitializationAssumption
     DEF Look, Go, DatabaseIsSound, TypeOK, WrittenTo, Place, Refused
<1>2. CASE Peek(p)
  BY <1>2, InitializationAssumption
     DEF Peek, Go, Opened, DatabaseIsSound, TypeOK, WrittenTo, Place, Refused
<1>3. CASE BeginImmediate(p)
  BY <1>3, InitializationAssumption
     DEF BeginImmediate, Go, Opened, DatabaseIsSound, TypeOK, WrittenTo, Place, Refused
<1> QED BY <1>1, <1>2, <1>3

\* The transaction and what follows it.
LEMMA WritingKeeps ==
    ASSUME DatabaseIsSound, NEW p \in Processes,
           Decide(p) \/ Commit(p) \/ EnableWal(p) \/ Check(p)
    PROVE  DatabaseIsSound'
<1>1. CASE Decide(p)
  BY <1>1, InitializationAssumption
     DEF Decide, Go, IdentityIsOurs, MustRefuse, DatabaseIsSound, TypeOK, WrittenTo, Place, Refused
<1>2. CASE Commit(p)
  BY <1>2, InitializationAssumption
     DEF Commit, Go, DatabaseIsSound, TypeOK, WrittenTo, Place, Refused
<1>3. CASE EnableWal(p)
  BY <1>3, InitializationAssumption
     DEF EnableWal, CanChangeMode, Go, DatabaseIsSound, TypeOK, WrittenTo, Place, Refused
<1>4. CASE Check(p)
  BY <1>4, InitializationAssumption
     DEF Check, Go, DatabaseIsSound, TypeOK, WrittenTo, Place, Refused
<1> QED BY <1>1, <1>2, <1>3, <1>4

\* Failures, crashes and retries.
LEMMA InterruptionKeeps ==
    ASSUME DatabaseIsSound, NEW p \in Processes,
           Busy(p) \/ CommitFails(p) \/ Crash(p) \/ Retry(p)
    PROVE  DatabaseIsSound'
<1>1. CASE Busy(p)
  BY <1>1, InitializationAssumption
     DEF Busy, Go, DatabaseIsSound, TypeOK, WrittenTo, Place, Refused
<1>2. CASE CommitFails(p)
  BY <1>2, InitializationAssumption
     DEF CommitFails, FreeLock, Go, DatabaseIsSound, TypeOK, WrittenTo, Place, Refused
<1>3. CASE Crash(p)
  BY <1>3, InitializationAssumption
     DEF Crash, FreeLock, Go, DatabaseIsSound, TypeOK, WrittenTo, Place, Refused
<1>4. CASE Retry(p)
  BY <1>4, InitializationAssumption
     DEF Retry, Go, DatabaseIsSound, TypeOK, WrittenTo, Place, Refused
<1> QED BY <1>1, <1>2, <1>3, <1>4

LEMMA SoundStep == DatabaseIsSound /\ [Next]_vars => DatabaseIsSound'
<1> SUFFICES ASSUME DatabaseIsSound, [Next]_vars PROVE DatabaseIsSound'
  OBVIOUS
<1>1. ASSUME NEW p \in Processes, Step(p) PROVE DatabaseIsSound'
  BY <1>1, OpeningKeeps, WritingKeeps DEF Step
<1>2. ASSUME NEW p \in Processes, Busy(p) \/ CommitFails(p) \/ Crash(p) \/ Retry(p)
      PROVE  DatabaseIsSound'
  BY <1>2, InterruptionKeeps
<1>3. CASE ForeignWrites
  BY <1>3, InitializationAssumption DEF ForeignWrites, DatabaseIsSound, TypeOK, WrittenTo
<1>4. CASE UNCHANGED vars
  BY <1>4 DEF vars, DatabaseIsSound, TypeOK, WrittenTo
<1> QED BY <1>1, <1>2, <1>3, <1>4 DEF Next, Interruption

\* Whatever the processes, their crashes and the other application do, the lock is
\* with the one that writes, a process that has opened the database has all of it,
\* and nobody takes the file for an old one without a reason.
THEOREM DatabaseAlwaysSound == Spec => []DatabaseIsSound
<1>1. Init => DatabaseIsSound
  BY InitializationAssumption DEF Init, DatabaseIsSound, TypeOK, WrittenTo, Place
<1> QED BY <1>1, SoundStep, PTL DEF Spec

-----------------------------------------------------------------------------
(* Refusal and content *)

LEMMA RefusalStep ==
    DatabaseIsSound /\ RefusalIsJustified /\ [Next]_vars => RefusalIsJustified'
<1> SUFFICES ASSUME DatabaseIsSound, RefusalIsJustified, [Next]_vars,
                    NEW p \in Processes, pc'[p] = "unowned"
             PROVE  db' = "foreign" \/ torn'
  BY DEF RefusalIsJustified
<1>1. /\ pc \in [Processes -> Place] /\ db \in {"none", "ours", "foreign"} /\ torn \in BOOLEAN
      /\ RefusalIsJustified
  BY DEF DatabaseIsSound, TypeOK
\* Neither a foreign database nor an interruption is ever forgotten.
<1>2. (db = "foreign" => db' = "foreign") /\ (torn => torn')
  BY <1>1 DEF Next, Interruption, Step, Look, Peek, BeginImmediate, Decide, Commit, EnableWal,
              Check, Busy, CommitFails, Crash, Retry, ForeignWrites, vars, DatabaseIsSound
<1>3. CASE pc[p] = "unowned"
  BY <1>1, <1>2, <1>3 DEF RefusalIsJustified
\* The process that is refused now holds the lock: nobody is writing.
<1>4. CASE pc[p] # "unowned"
  <2>1. pc[p] = "inside" /\ db # "ours" /\ (~ wasNew[p] \/ db # "none") /\ db' = db /\ torn' = torn
    BY <1>1, <1>4 DEF Next, Interruption, Step, Look, Peek, BeginImmediate, Decide, Commit,
         EnableWal, Check, Busy, CommitFails, Crash, Retry, ForeignWrites, vars, Go,
         IdentityIsOurs, MustRefuse
  <2>2. \A q \in Processes : pc[q] # "writing"
    BY <2>1 DEF DatabaseIsSound
  <2>3. db = "none" => torn
    BY <2>1, <2>2 DEF DatabaseIsSound, WrittenTo
  <2> QED BY <1>1, <2>1, <2>3
<1> QED BY <1>3, <1>4

\* A process is told that a database is another's only if it is, or if somebody's
\* first commit was interrupted.
THEOREM RefusalAlwaysJustified == Spec => []RefusalIsJustified
<1>1. Init => RefusalIsJustified
  BY DEF Init, RefusalIsJustified
<1> QED BY <1>1, DatabaseAlwaysSound, RefusalStep, PTL DEF Spec

\* What a database holds is never replaced, neither ours nor another application's.
THEOREM ContentAlwaysStays == Spec => ContentStays
<1>1. DatabaseIsSound /\ [Next]_vars => [db # "none" => db' = db]_vars
  BY DEF Next, Interruption, Step, Look, Peek, BeginImmediate, Decide, Commit, EnableWal,
         Check, Busy, CommitFails, Crash, Retry, ForeignWrites, vars, DatabaseIsSound
<1> QED BY <1>1, DatabaseAlwaysSound, PTL DEF Spec, ContentStays
=============================================================================
