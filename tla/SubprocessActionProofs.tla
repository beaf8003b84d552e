-------------------------- MODULE SubprocessActionProofs --------------------------
(***************************************************************************)
(* Proofs about SubprocessAction, for every size of input and output, every*)
(* limit and buffer, every child and any number of cancellations.          *)
(***************************************************************************)
EXTENDS SubprocessAction, TLAPS

-----------------------------------------------------------------------------
(* The inductive invariant *)

\* Only termination sends a signal, and it sends one before it awaits anything; it is
\* over when the child is reaped and the readers are stopped.
CallSound ==
    /\ pc = "starting" => child = "none" /\ \A s \in Streams : reader[s] = "none"
    /\ pc \in {"starting", "draining", "closing", "gathering", "returned"} => signal = "none"
    /\ pc \in {"grace", "waiting", "joining", "interrupted"} => child # "running" \/ signal # "none"
    /\ pc \in {"joining", "returned", "raised"} /\ child # "none" =>
         child = "reaped" /\ \A s \in Streams : reader[s] # "reading"

\* A reader that is done has all of its stream, and one that has not failed is
\* within its limit.
ReadersSound ==
    \A s \in Streams :
        /\ reader[s] = "done" => child \in {"exited", "reaped"} /\ held[s] = 0
        /\ reader[s] \in {"none", "reading", "done"} => taken[s] <= Limit

ReturnSound ==
    pc = "returned" => child = "reaped" /\ code = 0 /\ \A s \in Streams : reader[s] = "done"

CallInv == TypeOK /\ CallSound /\ ReadersSound /\ ReturnSound

-----------------------------------------------------------------------------
(* Every action keeps it *)

LEMMA StartKeeps ==
    ASSUME CallInv, Spawn \/ SpawnFails \/ Feed \/ Drained PROVE CallInv'
<1>1. CASE Spawn
  BY <1>1, SubprocessAssumption
     DEF Spawn, input, inside, caller, CallInv, TypeOK, CallSound, ReadersSound, ReturnSound, Place, Over
<1>2. CASE SpawnFails
  BY <1>2 DEF SpawnFails, input, inside, caller, output, CallInv, TypeOK, CallSound, ReadersSound,
              ReturnSound, Place, Over
<1>3. CASE Feed
  BY <1>3, SubprocessAssumption
     DEF Feed, inside, caller, output, CallInv, TypeOK, CallSound, ReadersSound, ReturnSound
<1>4. CASE Drained
  BY <1>4 DEF Drained, input, inside, caller, output, CallInv, TypeOK, CallSound, ReadersSound,
              ReturnSound, Place, Over
<1> QED BY <1>1, <1>2, <1>3, <1>4

\* _terminate_process starts, from any await before it.
LEMMA TerminateKeeps ==
    ASSUME CallInv, pc \in {"closing", "gathering"}, NEW readers,
           readers \in {reader, Stopped}, Terminate(readers),
           UNCHANGED <<failing, input, child, inside, held, taken, direct>>,
           cancels' \in 0..MaxCancels
    PROVE  CallInv'
<1>1. /\ \A s \in Streams : Stopped[s] = IF reader[s] = "reading" THEN "cancelled" ELSE reader[s]
      /\ Stopped \in [Streams -> {"none", "reading", "done", "failed", "cancelled"}]
      /\ \A s \in Streams : Stopped[s] # "reading"
  BY DEF Stopped, CallInv, TypeOK
<1>2. reader' \in {reader, Stopped}
  BY DEF Terminate, Join
<1>3. /\ pc' \in {"joining", "grace", "waiting"} /\ signal' \in {"none", "term"}
      /\ child # "running" \/ signal' = "term"
      /\ pc' = "joining" => child = "reaped" /\ reader' = Stopped
  BY DEF Terminate, Join, CallInv, CallSound
<1>4. UNCHANGED <<failing, unsent, inPipe, child, code, doing, sawEnd, held, taken, direct>>
  BY DEF input, inside
<1>5. TypeOK'
  BY <1>1, <1>2, <1>3, <1>4 DEF CallInv, TypeOK, Place, Over
<1>6. CallSound' /\ ReturnSound'
  BY <1>1, <1>3, <1>4 DEF CallSound, ReturnSound
<1>7. ReadersSound'
  BY <1>1, <1>2, <1>4 DEF CallInv, ReadersSound
<1> QED BY <1>5, <1>6, <1>7 DEF CallInv

LEMMA GatherKeeps ==
    ASSUME CallInv, Closed \/ GatherFails \/ Gathered PROVE CallInv'
<1>0. cancels' \in 0..MaxCancels /\ UNCHANGED direct
  BY DEF Closed, GatherFails, Gathered, CallInv, TypeOK, caller
<1>1. CASE Closed /\ failing
  BY <1>0, <1>1, TerminateKeeps DEF Closed
<1>2. CASE Closed /\ ~ failing
  BY <1>2 DEF Closed, input, inside, caller, CallInv, TypeOK, CallSound, ReadersSound, ReturnSound, Place, Over
<1>3. CASE GatherFails
  BY <1>0, <1>3, TerminateKeeps DEF GatherFails
<1>4. CASE Gathered
  BY <1>4 DEF Gathered, input, inside, caller, output, CallInv, TypeOK, CallSound, ReadersSound,
              ReturnSound, Place, Over
<1> QED BY <1>1, <1>2, <1>3, <1>4

LEMMA ReadersKeep ==
    ASSUME CallInv, NEW s \in Streams, Take(s) \/ AtEnd(s) PROVE CallInv'
<1>1. CASE Take(s)
  <2>1. /\ held[s] > 0 /\ reader[s] = "reading" /\ held[s] \in 0..Buffer /\ taken[s] \in 0..Limit
        /\ held' = [held EXCEPT ![s] = @ - 1] /\ taken' = [taken EXCEPT ![s] = @ + 1]
        /\ reader' = [reader EXCEPT ![s] = IF taken'[s] > Limit THEN "failed" ELSE "reading"]
    BY <1>1, SubprocessAssumption DEF Take, Verdict, CallInv, TypeOK, ReadersSound
  <2>2. UNCHANGED <<pc, failing, unsent, inPipe, child, code, doing, sawEnd, signal, cancels, direct>>
    BY <1>1 DEF Take, input, inside, caller
  <2>3. TypeOK'
    BY <2>1, <2>2, SubprocessAssumption DEF CallInv, TypeOK
  <2>4. CallSound' /\ ReturnSound'
    BY <2>1, <2>2 DEF CallInv, CallSound, ReturnSound, TypeOK
  <2>5. ReadersSound'
    BY <2>1, <2>2, SubprocessAssumption DEF CallInv, ReadersSound, TypeOK
  <2> QED BY <2>3, <2>4, <2>5 DEF CallInv
<1>2. CASE AtEnd(s)
  BY <1>2 DEF AtEnd, input, inside, caller, CallInv, TypeOK, CallSound, ReadersSound, ReturnSound
<1> QED BY <1>1, <1>2

LEMMA CleanupKeeps ==
    ASSUME CallInv, GraceExpires \/ Waited \/ Joined \/ Reap PROVE CallInv'
<1>1. CASE GraceExpires
  BY <1>1 DEF GraceExpires, Kill, input, inside, caller, output, CallInv, TypeOK, CallSound, ReadersSound,
              ReturnSound, Place, Over
<1>2. CASE Waited
  <2>1. /\ \A s \in Streams : Stopped[s] = IF reader[s] = "reading" THEN "cancelled" ELSE reader[s]
        /\ Stopped \in [Streams -> {"none", "reading", "done", "failed", "cancelled"}]
        /\ \A s \in Streams : Stopped[s] # "reading"
    BY DEF Stopped, CallInv, TypeOK
  <2> HIDE DEF Stopped
  <2> QED
    BY <1>2, <2>1 DEF Waited, Join, input, inside, caller, CallInv, TypeOK, CallSound, ReadersSound,
                      ReturnSound, Place, Over
<1>3. CASE Joined
  BY <1>3 DEF Joined, input, inside, caller, output, CallInv, TypeOK, CallSound, ReadersSound,
              ReturnSound, Place, Over
<1>4. CASE Reap
  BY <1>4 DEF Reap, input, inside, caller, output, CallInv, TypeOK, CallSound, ReadersSound, ReturnSound
<1> QED BY <1>1, <1>2, <1>3, <1>4

LEMMA CancelKeeps == CallInv /\ Cancel => CallInv'
<1> SUFFICES ASSUME CallInv, Cancel PROVE CallInv'
  OBVIOUS
<1>1. cancels' \in 0..MaxCancels /\ UNCHANGED <<inPipe, code, doing, sawEnd, held, taken, direct>>
  BY SubprocessAssumption DEF Cancel, Reaching, CallInv, TypeOK, inside
<1>0. CASE CancelSpawn
  BY <1>0, <1>1 DEF CancelSpawn, CallInv, TypeOK, CallSound, ReadersSound, ReturnSound, Place, Over
<1>2. CASE CancelDrain /\ UNCHANGED <<unsent, child>>
  BY <1>1, <1>2 DEF CancelDrain, CallInv, TypeOK, CallSound, ReadersSound, ReturnSound, Place, Over
<1>3. CASE (CancelClose \/ CancelGather) /\ UNCHANGED <<unsent, child>>
  BY <1>1, <1>3, TerminateKeeps DEF CancelClose, CancelGather, input, inside
<1>4. CASE CancelCleanup /\ UNCHANGED <<unsent, child>>
  BY <1>1, <1>4 DEF CancelCleanup, CallInv, TypeOK, CallSound, ReadersSound, ReturnSound, Place, Over
<1> QED BY <1>0, <1>2, <1>3, <1>4 DEF Cancel

LEMMA ChildKeeps ==
    ASSUME CallInv, Child \/ Die PROVE CallInv'
<1>1. CASE Choose
  BY <1>1 DEF Choose, input, output, caller, CallInv, TypeOK, CallSound, ReadersSound, ReturnSound
<1>2. CASE Read
  <2>1. inPipe' \in 0..PipeSize /\ doing' = "busy"
    BY <1>2, SubprocessAssumption DEF Read, CallInv, TypeOK
  <2>3. sawEnd' \in BOOLEAN
    BY <1>2 DEF Read, CallInv, TypeOK
  <2>2. UNCHANGED <<pc, failing, unsent, child, code, signal, held, taken, reader, cancels, direct>>
    BY <1>2 DEF Read, output, caller
  <2> QED
    BY <2>1, <2>2, <2>3 DEF CallInv, TypeOK, CallSound, ReadersSound, ReturnSound
<1>3. CASE Exit
  BY <1>3 DEF Exit, input, output, caller, CallInv, TypeOK, CallSound, ReadersSound, ReturnSound
<1>4. CASE Die
  BY <1>4 DEF Die, input, output, caller, CallInv, TypeOK, CallSound, ReadersSound, ReturnSound
<1>5. ASSUME NEW s \in Streams, Write(s) PROVE CallInv'
  BY <1>5, SubprocessAssumption
     DEF Write, input, caller, CallInv, TypeOK, CallSound, ReadersSound, ReturnSound
<1> QED BY <1>1, <1>2, <1>3, <1>4, <1>5 DEF Child

LEMMA CallAlways == Spec => []CallInv
<1>1. Init => CallInv
  <2> SUFFICES ASSUME Init PROVE CallInv
    OBVIOUS
  <2>1. unsent \in Nat /\ inPipe \in 0..PipeSize /\ cancels \in 0..MaxCancels
    BY SubprocessAssumption DEF Init
  <2>3. /\ held \in [Streams -> 0..Buffer] /\ taken \in [Streams -> 0..Limit + 1]
        /\ reader \in [Streams -> {"none", "reading", "done", "failed", "cancelled"}]
    BY SubprocessAssumption DEF Init
  <2>4. TypeOK
    BY <2>1, <2>3 DEF Init, TypeOK, Place
  <2>2. CallSound /\ ReadersSound /\ ReturnSound
    BY SubprocessAssumption DEF Init, CallSound, ReadersSound, ReturnSound
  <2> QED BY <2>2, <2>4 DEF CallInv
<1>2. CallInv /\ [Next]_vars => CallInv'
  <2> SUFFICES ASSUME CallInv, [Next]_vars PROVE CallInv'
    OBVIOUS
  <2>1. CASE UNCHANGED vars
    BY <2>1 DEF vars, CallInv, TypeOK, CallSound, ReadersSound, ReturnSound
  <2>2. CASE Next
    BY <2>2, StartKeeps, GatherKeeps, ReadersKeep, CleanupKeeps, CancelKeeps, ChildKeeps
       DEF Next, Runner
  <2> QED BY <2>1, <2>2
<1> QED BY <1>1, <1>2, PTL DEF Spec

-----------------------------------------------------------------------------
(* What it gives *)

\* The call, the child and the output are well typed in every state.
THEOREM CallTypes == Spec => []TypeOK
BY CallAlways, PTL DEF CallInv

\* However a call ends, its child is reaped and its readers have stopped, unless its
\* termination was itself cancelled, and then the child has been signalled.
THEOREM ChildAlwaysReaped == Spec => []ChildIsReaped
<1>1. CallInv => ChildIsReaped
  BY DEF CallInv, CallSound, ChildIsReaped
<1> QED BY <1>1, CallAlways, PTL

\* What a call returns is the whole output of a child that ended by itself with code
\* 0, and within the limits.
THEOREM OutputAlwaysWhole == Spec => []OutputIsWhole
<1>1. CallInv => OutputIsWhole
  BY DEF CallInv, CallSound, ReadersSound, ReturnSound, OutputIsWhole
<1> QED BY <1>1, CallAlways, PTL
=============================================================================
