-------------------------- MODULE EventDispatcherProofs --------------------------
(***************************************************************************)
(* Proofs about EventDispatcher, for every number of tasks, handlers and   *)
(* events, and every choice of synchronous handlers.                       *)
(***************************************************************************)
EXTENDS EventDispatcher, FiniteSetTheorems, SequenceTheorems, TLAPS

-----------------------------------------------------------------------------
(* The inductive invariant *)

Active == {"holding", "submitted", "calling", "stopping"}

\* The task that holds the lock, and only it, is with a handler.
LockSound ==
    /\ \A t \in Tasks : state[t] \in Active <=> lock = t
    /\ \A t \in Tasks : state[t] \notin Active => at[t] = 0
    /\ \A t \in Tasks : lock = t => at[t] >= 1 /\ number[t] = sequence
    /\ \A t \in Tasks : state[t] \in Active \ {"holding"} => at[t] <= Handlers

\* A call on the event loop is one that its task awaits.
CorosSound ==
    \A call \in coros : \E t \in Tasks : state[t] \in {"calling", "stopping"} /\ call = Call(t)

\* The handler at position h is still to be given the event of t.
Ahead(t, h) == at[t] < h \/ (at[t] = h /\ state[t] \in {"holding", "submitted"})

\* What handlers were given is not newer than the last event, and older than an
\* event they are still to be given.
SeenSound ==
    \A h \in 1..Handlers : \A i \in 1..Len(seen[h]) :
        /\ seen[h][i] <= sequence
        /\ \A t \in Tasks : lock = t /\ Ahead(t, h) => seen[h][i] < number[t]

\* The handlers before the one a task has reached have accepted its event.
AcceptedSound ==
    \A t \in Tasks : lock = t => \A g \in 1..at[t] - 1 : <<g, number[t]>> \in accepted

EmitInv ==
    /\ TypeOK /\ LockSound /\ CorosSound /\ SeenSound /\ AcceptedSound
    /\ EventsInOrder /\ NoEventIsLost

History == <<seen, accepted, delivered>>

-----------------------------------------------------------------------------
(* Every action keeps it *)

LEMMA EmitKeeps == ASSUME EmitInv, NEW t \in Tasks, Emit(t) PROVE EmitInv'
<1>1. TypeOK'
  <2>1. waiters' \in Seq(Tasks)
    BY DEF Emit, EmitInv, TypeOK
  <2>2. /\ emits' \in [Tasks -> Nat] /\ state' \in [Tasks -> State]
        /\ UNCHANGED <<number, at, last, sequence, lock, threads, coros, seen, accepted, delivered>>
    BY DEF Emit, EmitInv, TypeOK, State
  <2> QED BY <2>1, <2>2 DEF EmitInv, TypeOK
<1>2. /\ state' = [state EXCEPT ![t] = "waiting"] /\ state[t] = "idle"
      /\ UNCHANGED <<number, at, lock, coros, sequence, History>>
  BY DEF Emit, History
<1>3. LockSound' /\ CorosSound' /\ SeenSound'
  BY <1>2 DEF History, EmitInv, TypeOK, LockSound, CorosSound, SeenSound, Active, Ahead, Call
<1> QED
  BY <1>1, <1>2, <1>3 DEF History, EmitInv, AcceptedSound, EventsInOrder, NoEventIsLost

LEMMA AcquireKeeps == ASSUME EmitInv, NEW t \in Tasks, Acquire(t) PROVE EmitInv'
<1>1. /\ state' = [state EXCEPT ![t] = "holding"] /\ state[t] = "waiting"
      /\ lock = Free /\ lock' = t /\ sequence' = sequence + 1
      /\ number' = [number EXCEPT ![t] = sequence + 1] /\ at' = [at EXCEPT ![t] = 1]
      /\ UNCHANGED <<coros, History>>
  BY DEF Acquire, HoldLock, History
<1>2. TypeOK'
  <2>1. waiters' \in Seq(Tasks)
    BY HeadTailProperties DEF Acquire, EmitInv, TypeOK
  <2>2. /\ state' \in [Tasks -> State] /\ number' \in [Tasks -> Nat]
        /\ at' \in [Tasks -> 0..Handlers + 1] /\ lock' \in Tasks /\ sequence' \in Nat
        /\ UNCHANGED <<emits, last, threads, coros, seen, accepted, delivered>>
    BY <1>1, DispatcherAssumption DEF Acquire, EmitInv, TypeOK, State
  <2> QED BY <2>1, <2>2 DEF EmitInv, TypeOK
<1>3. \A u \in Tasks : state[u] \notin Active
  BY <1>1, DispatcherAssumption DEF EmitInv, LockSound
<1>4. LockSound'
  BY <1>1, <1>3, DispatcherAssumption DEF EmitInv, TypeOK, LockSound, Active
<1>5. CorosSound'
  BY <1>1, <1>3 DEF EmitInv, CorosSound, Active
<1>6. SeenSound'
  <2> SUFFICES ASSUME NEW h \in 1..Handlers, NEW i \in 1..Len(seen[h])
               PROVE  /\ seen[h][i] <= sequence'
                      /\ \A u \in Tasks : lock' = u => seen[h][i] < number'[u]
    BY <1>1 DEF History, SeenSound
  <2>1. seen[h] \in Seq(Nat) /\ sequence \in Nat
    BY DEF EmitInv, TypeOK
  <2>2. seen[h][i] \in Nat
    BY <2>1, ElementOfSeq
  <2>3. seen[h][i] <= sequence
    BY DEF EmitInv, SeenSound
  <2> QED BY <1>1, <2>1, <2>2, <2>3 DEF EmitInv, TypeOK
<1>7. AcceptedSound'
  BY <1>1 DEF EmitInv, TypeOK, AcceptedSound
<1> QED BY <1>1, <1>2, <1>4, <1>5, <1>6, <1>7 DEF History, EmitInv, EventsInOrder, NoEventIsLost

\* The event of t is handed to the handler it has reached.
LEMMA GivenKeeps ==
    ASSUME EmitInv, NEW t \in Tasks, state[t] \in {"holding", "submitted"}, at[t] <= Handlers,
           state' = [state EXCEPT ![t] = "calling"], Given(t),
           UNCHANGED <<number, at, emits, last, lock, waiters, sequence, accepted, delivered>>,
           threads' \subseteq threads \cup {Call(t)}, coros' \subseteq coros \cup {Call(t)}
    PROVE  EmitInv'
<1>1. /\ lock = t /\ at[t] \in 1..Handlers /\ number[t] \in Nat /\ number[t] = sequence
      /\ \A u \in Tasks : u # t => state[u] \notin Active
  BY DispatcherAssumption DEF EmitInv, TypeOK, LockSound, Active
<1>2. /\ seen' \in [1..Handlers -> Seq(Nat)]
      /\ \A h \in 1..Handlers : h # at[t] => seen'[h] = seen[h]
      /\ Len(seen'[at[t]]) = Len(seen[at[t]]) + 1
      /\ seen'[at[t]][Len(seen[at[t]]) + 1] = number[t]
      /\ \A i \in 1..Len(seen[at[t]]) : seen'[at[t]][i] = seen[at[t]][i]
  BY <1>1, AppendProperties DEF Given, EmitInv, TypeOK
<1>3. \A h \in 1..Handlers : \A i \in 1..Len(seen'[h]) :
        \/ i \in 1..Len(seen[h]) /\ seen'[h][i] = seen[h][i]
        \/ h = at[t] /\ i = Len(seen[h]) + 1 /\ seen'[h][i] = number[t]
  <2>1. ASSUME NEW h \in 1..Handlers, h # at[t], NEW i \in 1..Len(seen'[h])
        PROVE  i \in 1..Len(seen[h]) /\ seen'[h][i] = seen[h][i]
    BY <1>2, <2>1
  <2>2. Len(seen[at[t]]) \in Nat
    BY <1>1, LenProperties DEF EmitInv, TypeOK
  <2>3. ASSUME NEW i \in 1..Len(seen'[at[t]])
        PROVE  i \in 1..Len(seen[at[t]]) \/ i = Len(seen[at[t]]) + 1
    BY <1>2, <2>2
  <2> QED BY <1>2, <2>1, <2>3
<1>4. \A i \in 1..Len(seen[at[t]]) : seen[at[t]][i] < number[t]
  BY <1>1 DEF EmitInv, SeenSound, Ahead
<1>5. TypeOK'
  BY <1>1, <1>2 DEF EmitInv, TypeOK, State, Call
<1>6. LockSound'
  BY <1>1 DEF EmitInv, TypeOK, LockSound, Active
<1>7. CorosSound'
  BY <1>1 DEF EmitInv, TypeOK, CorosSound, Call, Active
<1>8. SeenSound'
  <2> SUFFICES ASSUME NEW h \in 1..Handlers, NEW i \in 1..Len(seen'[h])
               PROVE  /\ seen'[h][i] <= sequence
                      /\ at[t] < h => seen'[h][i] < number[t]
    BY <1>1 DEF SeenSound, Ahead, EmitInv, TypeOK
  <2>1. CASE i \in 1..Len(seen[h]) /\ seen'[h][i] = seen[h][i]
    BY <1>1, <2>1 DEF EmitInv, SeenSound, Ahead
  <2>2. CASE h = at[t] /\ seen'[h][i] = number[t]
    BY <1>1, <2>2
  <2> QED BY <1>3, <2>1, <2>2
<1>9. EventsInOrder'
  <2> SUFFICES ASSUME NEW h \in 1..Handlers, NEW i \in 1..Len(seen'[h]),
                      NEW j \in 1..Len(seen'[h]), i < j
               PROVE  seen'[h][i] < seen'[h][j]
    BY DEF EventsInOrder
  <2>1. Len(seen[h]) \in Nat
    BY DEF EmitInv, TypeOK
  <2>2. CASE j \in 1..Len(seen[h])
    <3>1. i \in 1..Len(seen[h])
      BY <2>1, <2>2
    <3>2. seen'[h][i] = seen[h][i] /\ seen'[h][j] = seen[h][j]
      BY <1>2, <2>2, <3>1
    <3> QED BY <2>2, <3>1, <3>2 DEF EmitInv, EventsInOrder
  <2>3. CASE h = at[t] /\ j = Len(seen[h]) + 1 /\ seen'[h][j] = number[t]
    <3>1. i \in 1..Len(seen[h])
      BY <2>1, <2>3
    <3> QED BY <1>2, <1>4, <2>3, <3>1
  <2> QED BY <1>3, <2>2, <2>3
<1>10. NoEventIsLost'
  <2>1. ASSUME NEW h \in 1..Handlers, NEW i \in 1..Len(seen'[h]), NEW g \in 1..h - 1
        PROVE  <<g, seen'[h][i]>> \in accepted
    <3>1. CASE i \in 1..Len(seen[h]) /\ seen'[h][i] = seen[h][i]
      BY <3>1 DEF EmitInv, NoEventIsLost
    <3>2. CASE h = at[t] /\ seen'[h][i] = number[t]
      BY <1>1, <3>2 DEF EmitInv, AcceptedSound
    <3> QED BY <1>3, <3>1, <3>2
  <2> QED BY <2>1 DEF EmitInv, NoEventIsLost
<1> QED BY <1>5, <1>6, <1>7, <1>8, <1>9, <1>10 DEF EmitInv, AcceptedSound

LEMMA InvokeKeeps == ASSUME EmitInv, NEW t \in Tasks, Invoke(t) PROVE EmitInv'
<1>1. CASE at[t] \in SyncOnes
  <2>1. /\ state' = [state EXCEPT ![t] = "submitted"] /\ state[t] = "holding" /\ at[t] <= Handlers
        /\ UNCHANGED <<number, at, emits, last, lock, waiters, sequence, threads, coros, History>>
    BY <1>1 DEF Invoke, History
  <2>2. TypeOK'
    BY <2>1 DEF EmitInv, TypeOK, State, History
  <2>3. LockSound' /\ CorosSound' /\ SeenSound' /\ AcceptedSound'
    BY <2>1 DEF EmitInv, TypeOK, LockSound, CorosSound, SeenSound, AcceptedSound, Active, Ahead,
                Call, History
  <2> QED BY <2>1, <2>2, <2>3 DEF EmitInv, History, EventsInOrder, NoEventIsLost
<1>2. CASE at[t] \notin SyncOnes
  BY <1>2, GivenKeeps DEF Invoke
<1> QED BY <1>1, <1>2

LEMMA ThreadStartsKeeps == ASSUME EmitInv, NEW t \in Tasks, ThreadStarts(t) PROVE EmitInv'
<1>1. at[t] <= Handlers
  BY DEF ThreadStarts, EmitInv, LockSound, Active
<1> QED BY <1>1, GivenKeeps DEF ThreadStarts

LEMMA NextHandlerKeeps ==
    ASSUME EmitInv, NEW t \in Tasks, state[t] \in {"calling", "stopping"}, Over(t), NextHandler(t),
           UNCHANGED <<emits, waiters, sequence, seen, delivered>>
    PROVE  EmitInv'
<1>1. /\ state' = [state EXCEPT ![t] = "holding"] /\ at' = [at EXCEPT ![t] = @ + 1]
      /\ accepted' = accepted \cup {<<at[t], number[t]>>}
      /\ coros' = coros \ {Call(t)} /\ threads' = threads \ {Call(t)}
      /\ UNCHANGED <<number, last, lock>>
  BY DEF NextHandler, Over, Call
<1>2. /\ lock = t /\ at[t] \in 1..Handlers /\ number[t] \in Nat
      /\ \A u \in Tasks : u # t => state[u] \notin Active
  BY DispatcherAssumption DEF EmitInv, TypeOK, LockSound, Active
<1>3. TypeOK'
  <2>1. state' \in [Tasks -> State] /\ at' \in [Tasks -> 0..Handlers + 1]
    BY <1>1, <1>2, DispatcherAssumption DEF EmitInv, TypeOK, State
  <2>2. accepted' \subseteq (1..Handlers) \X Nat
    BY <1>1, <1>2 DEF EmitInv, TypeOK
  <2>3. threads' \subseteq (1..Handlers) \X Nat /\ coros' \subseteq (1..Handlers) \X Nat
    BY <1>1 DEF EmitInv, TypeOK
  <2> QED BY <1>1, <2>1, <2>2, <2>3 DEF EmitInv, TypeOK
<1>4. LockSound'
  BY <1>1, <1>2, DispatcherAssumption DEF EmitInv, TypeOK, LockSound, Active
<1>5. coros' = {}
  BY <1>1, <1>2 DEF EmitInv, CorosSound, Active
<1>6. SeenSound'
  BY <1>1, <1>2 DEF EmitInv, TypeOK, SeenSound, Ahead
<1>7. AcceptedSound'
  <2> SUFFICES ASSUME NEW g \in 1..at'[t] - 1 PROVE <<g, number[t]>> \in accepted'
    BY <1>1, <1>2 DEF AcceptedSound
  <2>1. g \in 1..at[t] - 1 \/ g = at[t]
    BY <1>1, <1>2 DEF EmitInv, TypeOK
  <2> QED BY <1>1, <1>2, <2>1 DEF EmitInv, AcceptedSound
<1>8. EventsInOrder' /\ NoEventIsLost'
  BY <1>1 DEF EmitInv, EventsInOrder, NoEventIsLost
<1> QED BY <1>3, <1>4, <1>5, <1>6, <1>7, <1>8 DEF EmitInv, CorosSound

\* A task leaves emit, by whatever way.
LEMMA LeaveKeeps ==
    ASSUME EmitInv, NEW t \in Tasks, NEW to \in {"idle", "ended"},
           state' = [state EXCEPT ![t] = to], Release(t), Forget(t),
           coros' \subseteq coros \ {Call(t)}, threads' \subseteq threads,
           waiters' \in Seq(Tasks), last' \subseteq Tasks,
           UNCHANGED <<emits, sequence, seen, accepted>>,
           delivered' \in {delivered, delivered \cup {number[t]}},
           delivered' # delivered => lock = t /\ at[t] > Handlers
    PROVE  EmitInv'
<1>1. /\ number' = [number EXCEPT ![t] = 0] /\ at' = [at EXCEPT ![t] = 0]
      /\ lock' = IF lock = t THEN Free ELSE lock
  BY DEF Release, Forget
<1>2. TypeOK'
  <2>1. /\ state' \in [Tasks -> State] /\ lock' \in Tasks \cup {Free}
        /\ number' \in [Tasks -> Nat] /\ number[t] \in Nat
    BY <1>1 DEF EmitInv, TypeOK, State
  <2>2. at' \in [Tasks -> 0..Handlers + 1]
    BY <1>1, DispatcherAssumption DEF EmitInv, TypeOK
  <2>3. delivered' \subseteq Nat
    BY <2>1 DEF EmitInv, TypeOK
  <2> QED BY <2>1, <2>2, <2>3 DEF EmitInv, TypeOK
<1>3. LockSound'
  BY <1>1, DispatcherAssumption DEF EmitInv, TypeOK, LockSound, Active
<1>4. CorosSound'
  <2> SUFFICES ASSUME NEW call \in coros'
               PROVE  \E u \in Tasks : state'[u] \in {"calling", "stopping"} /\ call = Call(u)'
    BY DEF CorosSound
  <2>1. PICK u \in Tasks : state[u] \in {"calling", "stopping"} /\ call = Call(u)
    BY DEF EmitInv, CorosSound
  <2>2. u # t
    BY <2>1
  <2> QED BY <1>1, <2>1, <2>2 DEF Call, EmitInv, TypeOK
<1>5. SeenSound' /\ AcceptedSound'
  BY <1>1, DispatcherAssumption DEF EmitInv, TypeOK, SeenSound, AcceptedSound, Ahead
<1>6. NoEventIsLost'
  <2>1. ASSUME delivered' # delivered, NEW h \in 1..Handlers
        PROVE  <<h, number[t]>> \in accepted
    <3>1. lock = t /\ at[t] \in Nat /\ h \in 1..at[t] - 1
      BY <2>1, DispatcherAssumption DEF EmitInv, TypeOK
    <3> QED BY <3>1 DEF EmitInv, AcceptedSound
  <2> QED BY <2>1 DEF EmitInv, NoEventIsLost
<1> QED BY <1>2, <1>3, <1>4, <1>5, <1>6 DEF EmitInv, EventsInOrder

LEMMA UndeliveredKeeps ==
    ASSUME EmitInv, NEW t \in Tasks, Over(t), Undelivered(t),
           UNCHANGED <<emits, waiters, sequence, seen, delivered>>
    PROVE  EmitInv'
<1>1. waiters' \in Seq(Tasks) /\ last' \subseteq Tasks
  BY DEF Undelivered, EmitInv, TypeOK
<1> QED BY <1>1, LeaveKeeps DEF Over, Undelivered

LEMMA ReturnKeeps == ASSUME EmitInv, NEW t \in Tasks, Return(t) PROVE EmitInv'
<1>1. /\ waiters' \in Seq(Tasks) /\ last' \subseteq Tasks /\ lock = t
      /\ \A u \in Tasks : u # t => state[u] \notin Active
  BY DispatcherAssumption DEF Return, EmitInv, TypeOK, LockSound, Active
<1>2. coros = {}
  BY <1>1 DEF Return, EmitInv, CorosSound, Active
<1>3. \E to \in {"idle", "ended"} : state' = [state EXCEPT ![t] = to]
  BY DEF Return
<1> QED BY <1>1, <1>2, <1>3, LeaveKeeps DEF Return

LEMMA QueueLeft ==
    ASSUME EmitInv, NEW t \in Tasks, LeaveQueue(t) PROVE waiters' \in Seq(Tasks)
<1>1. waiters \in Seq(Tasks)
  BY DEF EmitInv, TypeOK
<1>2. ASSUME NEW i \in DOMAIN waiters PROVE RemoveAt(waiters, i) \in Seq(Tasks)
  <2>1. i \in 1..Len(waiters) /\ Len(waiters) \in Nat
    BY <1>1
  <2>2. /\ SubSeq(waiters, 1, i - 1) \in Seq(Tasks)
        /\ SubSeq(waiters, i + 1, Len(waiters)) \in Seq(Tasks)
    BY <1>1, <2>1, SubSeqProperties
  <2> QED BY <2>2, ConcatProperties DEF RemoveAt
<1> QED BY <1>1, <1>2 DEF LeaveQueue

LEMMA UnwoundKeeps ==
    ASSUME EmitInv, NEW t \in Tasks, Unwound(t), coros' \subseteq coros \ {Call(t)},
           threads' \subseteq threads, waiters' \in Seq(Tasks),
           UNCHANGED <<emits, sequence, seen, accepted, delivered>>
    PROVE  EmitInv'
<1>1. last' \subseteq Tasks
  BY DEF Unwound, EmitInv, TypeOK
<1>2. \E to \in {"idle", "ended"} : state' = [state EXCEPT ![t] = to]
  BY DEF Unwound
<1> QED BY <1>1, <1>2, LeaveKeeps DEF Unwound

LEMMA CancelKeeps == ASSUME EmitInv, NEW t \in Tasks, Cancel(t) PROVE EmitInv'
<1>1. waiters' \in Seq(Tasks)
  BY QueueLeft DEF Cancel
<1>2. CASE Stops(t)
  <2>1. /\ state' = [state EXCEPT ![t] = "stopping"]
        /\ UNCHANGED <<number, at, emits, last, lock, sequence, threads, coros, History>>
    BY <1>2 DEF Cancel, History
  <2>2. at[t] \in 1..Handlers
    BY <1>2 DEF Stops, Call, EmitInv, TypeOK
  <2>3. state[t] \in Active
    BY <2>2, DispatcherAssumption DEF EmitInv, LockSound
  <2>4. TypeOK'
    BY <1>1, <2>1 DEF EmitInv, TypeOK, State, History
  <2>5. LockSound' /\ CorosSound' /\ SeenSound' /\ AcceptedSound'
    BY <2>1, <2>2, <2>3 DEF EmitInv, TypeOK, LockSound, CorosSound, SeenSound, AcceptedSound,
                            Active, Ahead, Call, History
  <2> QED BY <2>1, <2>4, <2>5 DEF EmitInv, History, EventsInOrder, NoEventIsLost
<1>3. CASE ~ Stops(t)
  BY <1>1, <1>3, UnwoundKeeps DEF Cancel, Stops
<1> QED BY <1>2, <1>3

LEMMA StopKeeps == ASSUME EmitInv, NEW t \in Tasks, Stop(t) PROVE EmitInv'
<1>1. waiters' \in Seq(Tasks) /\ coros' \subseteq coros \ {Call(t)} /\ threads' \subseteq threads
  BY DEF Stop, Over, EmitInv, TypeOK
<1>2. CASE Unwound(t) /\ UNCHANGED accepted
  BY <1>1, <1>2, UnwoundKeeps DEF Stop
<1>3. CASE Undelivered(t)
  BY <1>3, UndeliveredKeeps DEF Stop
<1>4. CASE NextHandler(t)
  BY <1>4, NextHandlerKeeps DEF Stop
<1> QED BY <1>2, <1>3, <1>4 DEF Stop

LEMMA AwaitableKeeps ==
    ASSUME EmitInv, NEW t \in Tasks, ThreadReturnsAwaitable(t) PROVE EmitInv'
<1>1. /\ state[t] = "calling" /\ Call(t) \in threads /\ threads' \subseteq threads
      /\ coros' = coros \cup {Call(t)}
      /\ UNCHANGED <<state, number, at, emits, last, lock, waiters, sequence, History>>
  BY DEF ThreadReturnsAwaitable, History
<1>2. TypeOK'
  BY <1>1 DEF EmitInv, TypeOK, History
<1>3. LockSound' /\ CorosSound' /\ SeenSound' /\ AcceptedSound'
  BY <1>1 DEF EmitInv, LockSound, CorosSound, SeenSound, AcceptedSound, Ahead, Call, History
<1> QED BY <1>1, <1>2, <1>3 DEF EmitInv, History, EventsInOrder, NoEventIsLost

LEMMA AbandonedKeeps == ASSUME EmitInv, AbandonedEnds PROVE EmitInv'
<1>1. /\ threads' \subseteq threads
      /\ UNCHANGED <<state, number, at, emits, last, lock, waiters, sequence, coros, History>>
  BY DEF AbandonedEnds, History
<1>2. TypeOK'
  BY <1>1 DEF EmitInv, TypeOK, History
<1>3. LockSound' /\ CorosSound' /\ SeenSound' /\ AcceptedSound'
  BY <1>1 DEF EmitInv, LockSound, CorosSound, SeenSound, AcceptedSound, Ahead, Call, History
<1> QED BY <1>1, <1>2, <1>3 DEF EmitInv, History, EventsInOrder, NoEventIsLost

LEMMA StutterKeeps == ASSUME EmitInv, UNCHANGED vars PROVE EmitInv'
<1>1. TypeOK' /\ EventsInOrder' /\ NoEventIsLost'
  BY DEF vars, EmitInv, TypeOK, EventsInOrder, NoEventIsLost
<1> QED
  BY <1>1 DEF vars, EmitInv, LockSound, CorosSound, SeenSound, AcceptedSound, Ahead, Call

LEMMA EmitInvHolds == Spec => []EmitInv
<1>1. Init => EmitInv
  BY DispatcherAssumption
     DEF Init, EmitInv, TypeOK, State, LockSound, CorosSound, SeenSound, AcceptedSound,
         EventsInOrder, NoEventIsLost, Active
<1>2. EmitInv /\ [Next]_vars => EmitInv'
  <2> SUFFICES ASSUME EmitInv, [Next]_vars PROVE EmitInv'
    OBVIOUS
  <2>1. ASSUME NEW t \in Tasks, Dispatch(t) PROVE EmitInv'
    BY <2>1, AcquireKeeps, InvokeKeeps, ThreadStartsKeeps, ReturnKeeps, StopKeeps,
       NextHandlerKeeps, UndeliveredKeeps DEF Dispatch, HandlerReturns, HandlerFails
  <2>2. ASSUME NEW t \in Tasks, Emit(t) \/ Cancel(t) \/ ThreadReturnsAwaitable(t) PROVE EmitInv'
    BY <2>2, EmitKeeps, CancelKeeps, AwaitableKeeps
  <2> QED BY <2>1, <2>2, AbandonedKeeps, StutterKeeps DEF Next
<1> QED BY <1>1, <1>2, PTL DEF Spec

-----------------------------------------------------------------------------
(* The lock's queue *)

Distinct(seq) == \A i, j \in 1..Len(seq) : seq[i] = seq[j] => i = j
Members(seq)  == {seq[i] : i \in 1..Len(seq)}

\* Entering a queue, being first in it, and leaving it.
LEMMA AppendDistinct ==
    ASSUME NEW S, NEW seq \in Seq(S), Distinct(seq), NEW x \in S, x \notin Members(seq)
    PROVE  /\ Append(seq, x) \in Seq(S) /\ Distinct(Append(seq, x))
           /\ Members(Append(seq, x)) = Members(seq) \cup {x}
<1>1. /\ Append(seq, x) \in Seq(S) /\ Len(Append(seq, x)) = Len(seq) + 1 /\ Len(seq) \in Nat
      /\ \A i \in 1..Len(seq) : Append(seq, x)[i] = seq[i]
      /\ Append(seq, x)[Len(seq) + 1] = x
  BY AppendProperties, LenProperties
<1>2. \A i \in 1..Len(seq) + 1 : i \in 1..Len(seq) \/ i = Len(seq) + 1
  BY <1>1
<1>3. Distinct(Append(seq, x))
  BY <1>1, <1>2 DEF Distinct, Members
<1>4. Members(Append(seq, x)) = Members(seq) \cup {x}
  BY <1>1, <1>2 DEF Members
<1> QED BY <1>1, <1>3, <1>4

LEMMA TailDistinct ==
    ASSUME NEW S, NEW seq \in Seq(S), Distinct(seq), seq # <<>>
    PROVE  /\ Tail(seq) \in Seq(S) /\ Distinct(Tail(seq)) /\ Head(seq) \in Members(seq)
           /\ Members(Tail(seq)) = Members(seq) \ {Head(seq)}
<1>1. /\ Len(seq) \in Nat \ {0} /\ Head(seq) = seq[1] /\ Tail(seq) \in Seq(S)
      /\ Len(Tail(seq)) = Len(seq) - 1
      /\ \A i \in 1..Len(Tail(seq)) : Tail(seq)[i] = seq[i + 1]
  BY HeadTailProperties, LenProperties, EmptySeq
<1>2. \A i \in 1..Len(Tail(seq)) : i + 1 \in 1..Len(seq) /\ i + 1 # 1
  BY <1>1
<1>3. \A i \in 1..Len(seq) : i = 1 \/ (i - 1 \in 1..Len(Tail(seq)) /\ seq[i] = Tail(seq)[i - 1])
  BY <1>1
<1>4. 1 \in 1..Len(seq)
  BY <1>1
<1>5. Distinct(Tail(seq))
  <2> SUFFICES ASSUME NEW i \in 1..Len(Tail(seq)), NEW j \in 1..Len(Tail(seq)),
                      Tail(seq)[i] = Tail(seq)[j]
               PROVE  i = j
    BY DEF Distinct
  <2>1. i + 1 = j + 1
    BY <1>1, <1>2 DEF Distinct
  <2> QED BY <2>1
<1>6. Members(Tail(seq)) \subseteq Members(seq) \ {Head(seq)}
  <2> SUFFICES ASSUME NEW i \in 1..Len(Tail(seq))
               PROVE  Tail(seq)[i] \in Members(seq) /\ Tail(seq)[i] # seq[1]
    BY <1>1 DEF Members
  <2> QED BY <1>1, <1>2, <1>4 DEF Members, Distinct
<1>7. Members(seq) \ {Head(seq)} \subseteq Members(Tail(seq))
  BY <1>1, <1>3 DEF Members
<1> QED BY <1>1, <1>4, <1>5, <1>6, <1>7 DEF Members

LEMMA RemoveDistinct ==
    ASSUME NEW S, NEW seq \in Seq(S), Distinct(seq), NEW k \in 1..Len(seq)
    PROVE  /\ RemoveAt(seq, k) \in Seq(S) /\ Distinct(RemoveAt(seq, k))
           /\ Members(RemoveAt(seq, k)) = Members(seq) \ {seq[k]}
<1> DEFINE left == SubSeq(seq, 1, k - 1)
           right == SubSeq(seq, k + 1, Len(seq))
           rest == RemoveAt(seq, k)
<1>1. Len(seq) \in Nat /\ k \in 1..Len(seq)
  BY LenProperties
<1>0. rest = left \o right
  BY DEF RemoveAt
<1>2. /\ left \in Seq(S) /\ Len(left) = k - 1
      /\ \A i \in 1..k - 1 : left[i] = seq[i]
  BY <1>1, SubSeqProperties
<1>3. /\ right \in Seq(S) /\ Len(right) = Len(seq) - k
      /\ \A i \in 1..Len(seq) - k : right[i] = seq[k + i]
  BY <1>1, SubSeqProperties
<1> HIDE DEF left, right, rest
<1>4. /\ rest \in Seq(S) /\ Len(rest) = Len(left) + Len(right)
      /\ \A i \in 1..Len(rest) : rest[i] = IF i <= Len(left) THEN left[i] ELSE right[i - Len(left)]
  <2>1. left \in Seq(S) /\ right \in Seq(S)
    BY <1>2, <1>3
  <2>2. /\ left \o right \in Seq(S) /\ Len(left \o right) = Len(left) + Len(right)
        /\ \A i \in 1..Len(left) + Len(right) :
             (left \o right)[i] = IF i <= Len(left) THEN left[i] ELSE right[i - Len(left)]
    BY <2>1, ConcatProperties
  <2> QED BY <1>0, <2>2
<1>5. Len(rest) = Len(seq) - 1
  BY <1>1, <1>2, <1>3, <1>4
<1>6. \A i \in 1..Len(seq) - 1 : rest[i] = IF i < k THEN seq[i] ELSE seq[i + 1]
  <2> SUFFICES ASSUME NEW i \in 1..Len(seq) - 1
               PROVE  rest[i] = IF i < k THEN seq[i] ELSE seq[i + 1]
    OBVIOUS
  <2>1. CASE i < k
    <3>1. i \in 1..k - 1 /\ i \in 1..Len(rest) /\ i <= Len(left)
      BY <1>1, <1>2, <1>5, <2>1
    <3>2. rest[i] = left[i] /\ left[i] = seq[i]
      BY <1>2, <1>4, <3>1
    <3> QED BY <2>1, <3>2
  <2>2. CASE ~ (i < k)
    <3>1. i - (k - 1) \in 1..Len(seq) - k /\ k + (i - (k - 1)) = i + 1
      BY <1>1, <2>2
    <3>2. rest[i] = right[i - (k - 1)]
      <4>1. i \in 1..Len(rest) /\ ~ (i <= Len(left)) /\ Len(left) = k - 1
        BY <1>1, <1>2, <1>5, <2>2
      <4> QED BY <1>4, <4>1
    <3> QED BY <1>3, <2>2, <3>1, <3>2
  <2> QED BY <2>1, <2>2
<1>7. \A i \in 1..Len(seq) - 1 : /\ i < k => i \in 1..Len(seq) /\ i # k
                                 /\ ~ (i < k) => i + 1 \in 1..Len(seq) /\ i + 1 # k
  BY <1>1
<1>8. Distinct(rest)
  <2> SUFFICES ASSUME NEW i \in 1..Len(seq) - 1, NEW j \in 1..Len(seq) - 1, rest[i] = rest[j]
               PROVE  i = j
    BY <1>5 DEF Distinct
  <2>1. (IF i < k THEN i ELSE i + 1) = (IF j < k THEN j ELSE j + 1)
    BY <1>6, <1>7 DEF Distinct
  <2> QED BY <1>1, <2>1
<1>9. Members(rest) \subseteq Members(seq) \ {seq[k]}
  BY <1>5, <1>6, <1>7 DEF Members, Distinct
<1>10. Members(seq) \ {seq[k]} \subseteq Members(rest)
  <2> SUFFICES ASSUME NEW i \in 1..Len(seq), i # k PROVE \E j \in 1..Len(rest) : rest[j] = seq[i]
    BY DEF Members
  <2>1. CASE i < k
    BY <1>1, <1>5, <1>6, <2>1
  <2>2. CASE i > k
    <3>1. i - 1 \in 1..Len(seq) - 1 /\ ~ (i - 1 < k) /\ i - 1 + 1 = i
      BY <1>1, <2>2
    <3> QED BY <1>5, <1>6, <3>1
  <2> QED BY <1>1, <2>1, <2>2
<1> QED BY <1>4, <1>8, <1>9, <1>10 DEF rest

\* Who waits is in the queue, once, and an awaited call of a handler is still on.
Waiting    == {t \in Tasks : state[t] = "waiting"}
QueueSound == Distinct(waiters) /\ Members(waiters) = Waiting
CallsSound == \A t \in Tasks : state[t] = "calling" => Call(t) \in threads \cup coros

\* Entering emit,
LEMMA EmitQueues == ASSUME EmitInv, QueueSound, CallsSound, NEW t \in Tasks, Emit(t)
                    PROVE  QueueSound' /\ CallsSound'
<1>1. /\ state[t] = "idle" /\ state' = [state EXCEPT ![t] = "waiting"] /\ waiters' = Append(waiters, t)
      /\ UNCHANGED <<number, at, threads, coros>> /\ state \in [Tasks -> State] /\ waiters \in Seq(Tasks)
  BY DEF Emit, EmitInv, TypeOK
<1>2. Distinct(waiters') /\ Members(waiters') = Members(waiters) \cup {t}
  BY <1>1, AppendDistinct DEF QueueSound, Waiting
<1>3. Waiting' = Waiting \cup {t}
  BY <1>1 DEF Waiting
<1> QED BY <1>1, <1>2, <1>3 DEF QueueSound, CallsSound, Call

\* getting the lock,
LEMMA AcquireQueues == ASSUME EmitInv, QueueSound, CallsSound, NEW t \in Tasks, Acquire(t)
                       PROVE  QueueSound' /\ CallsSound'
<1>1. /\ state' = [state EXCEPT ![t] = "holding"] /\ waiters' = Tail(waiters) /\ waiters # <<>>
      /\ Head(waiters) = t /\ number' = [number EXCEPT ![t] = sequence + 1]
      /\ at' = [at EXCEPT ![t] = 1] /\ UNCHANGED <<threads, coros>>
      /\ state \in [Tasks -> State] /\ waiters \in Seq(Tasks)
  BY DEF Acquire, EmitInv, TypeOK
<1>2. Distinct(waiters') /\ Members(waiters') = Members(waiters) \ {t}
  BY <1>1, TailDistinct DEF QueueSound
<1>3. Waiting' = Waiting \ {t}
  BY <1>1 DEF Waiting
<1>4. ASSUME NEW u \in Tasks, state'[u] = "calling" PROVE Call(u)' = Call(u) /\ state[u] = "calling"
  BY <1>1, <1>4 DEF Call, EmitInv, TypeOK
<1> QED BY <1>1, <1>2, <1>3, <1>4 DEF QueueSound, CallsSound

\* what the holder of the lock does, with its own handlers,
LEMMA HolderQueues ==
    ASSUME EmitInv, QueueSound, CallsSound, NEW t \in Tasks, state[t] \in Active, NEW to \in State \ {"waiting"},
           state' = [state EXCEPT ![t] = to], UNCHANGED waiters,
           \A u \in Tasks : u # t => Call(u)' = Call(u),
           to = "calling" => Call(t)' \in (threads \cup coros)'
    PROVE  QueueSound' /\ CallsSound'
<1>1. Waiting' = Waiting
  BY DEF Waiting, EmitInv, TypeOK, Active
<1>2. ASSUME NEW u \in Tasks, u # t PROVE state'[u] # "calling"
  BY <1>2, DispatcherAssumption DEF EmitInv, TypeOK, LockSound, Active
<1> QED BY <1>1, <1>2 DEF QueueSound, CallsSound, EmitInv, TypeOK

\* a cancellation,
LEMMA CancelQueues == ASSUME EmitInv, QueueSound, CallsSound, NEW t \in Tasks, Cancel(t)
                      PROVE  QueueSound' /\ CallsSound'
<1>1. /\ UNCHANGED <<threads, coros>> /\ LeaveQueue(t)
      /\ \E to \in {"idle", "ended", "stopping"} : state' = [state EXCEPT ![t] = to]
      /\ \A u \in Tasks : u # t => Call(u)' = Call(u)
      /\ state \in [Tasks -> State] /\ waiters \in Seq(Tasks)
  BY DEF Cancel, Unwound, Forget, Call, EmitInv, TypeOK
<1>2. CallsSound'
  BY <1>1 DEF CallsSound
<1>3. Waiting' = Waiting \ {t}
  BY <1>1 DEF Waiting
<1>4. CASE state[t] = "waiting"
  <2>1. PICK i \in 1..Len(waiters) : waiters[i] = t /\ waiters' = RemoveAt(waiters, i)
    BY <1>1, <1>4 DEF LeaveQueue
  <2>2. Distinct(waiters') /\ Members(waiters') = Members(waiters) \ {t}
    BY <1>1, <2>1, RemoveDistinct DEF QueueSound
  <2> QED BY <1>2, <1>3, <2>2 DEF QueueSound
<1>5. CASE state[t] # "waiting"
  BY <1>1, <1>2, <1>3, <1>5 DEF LeaveQueue, QueueSound, Waiting
<1> QED BY <1>4, <1>5

\* and threads that end.
LEMMA ThreadsQueue ==
    ASSUME EmitInv, QueueSound, CallsSound,
           (\E t \in Tasks : ThreadReturnsAwaitable(t)) \/ AbandonedEnds \/ UNCHANGED vars
    PROVE  QueueSound' /\ CallsSound'
<1>1. /\ UNCHANGED <<state, number, at, waiters>>
      /\ \A u \in Tasks : state[u] = "calling" /\ Call(u) \in threads \cup coros
                            => Call(u) \in (threads \cup coros)'
  BY DEF ThreadReturnsAwaitable, AbandonedEnds, Awaited, vars
<1> QED BY <1>1 DEF QueueSound, CallsSound, Waiting, Call

LEMMA QueuesHold == Spec => [](QueueSound /\ CallsSound)
<1>1. Init => QueueSound /\ CallsSound
  BY EmptySeq DEF Init, QueueSound, CallsSound, Distinct, Members, Waiting
<1>2. EmitInv /\ QueueSound /\ CallsSound /\ [Next]_vars => (QueueSound /\ CallsSound)'
  <2> SUFFICES ASSUME EmitInv, QueueSound, CallsSound, [Next]_vars PROVE QueueSound' /\ CallsSound'
    OBVIOUS
  <2>1. ASSUME NEW t \in Tasks,
               Invoke(t) \/ ThreadStarts(t) \/ Return(t) \/ Stop(t) \/ HandlerReturns(t) \/ HandlerFails(t)
        PROVE  QueueSound' /\ CallsSound'
    <3>1. state[t] \in Active
      BY <2>1 DEF Invoke, ThreadStarts, Return, Stop, HandlerReturns, HandlerFails, Active
    <3>2. \E to \in State \ {"waiting"} :
            state' = [state EXCEPT ![t] = to] /\ (to = "calling" => Call(t)' \in (threads \cup coros)')
      BY <2>1 DEF Invoke, ThreadStarts, Return, Stop, HandlerReturns, HandlerFails, Unwound, Undelivered,
                  NextHandler, Call, State
    <3>3. UNCHANGED waiters /\ \A u \in Tasks : u # t => Call(u)' = Call(u)
      BY <2>1 DEF Invoke, ThreadStarts, Return, Stop, HandlerReturns, HandlerFails, Unwound, Undelivered,
                  NextHandler, Forget, Call, EmitInv, TypeOK
    <3> QED BY <3>1, <3>2, <3>3, HolderQueues
  <2>2. ASSUME NEW t \in Tasks, Dispatch(t) PROVE QueueSound' /\ CallsSound'
    BY <2>1, <2>2, AcquireQueues DEF Dispatch
  <2> QED BY <2>2, EmitQueues, CancelQueues, ThreadsQueue DEF Next
<1> QED BY <1>1, <1>2, EmitInvHolds, PTL DEF Spec

-----------------------------------------------------------------------------
(* What follows *)

\* The emitting tasks, the lock and the handlers' calls are always well typed.
THEOREM EmitTypes == Spec => []TypeOK
<1>1. EmitInv => TypeOK
  BY DEF EmitInv
<1> QED BY <1>1, EmitInvHolds, PTL

\* Every handler is given the events in the order of their numbers, whichever tasks
\* are cancelled or fail.
THEOREM OrderAlwaysKept == Spec => []EventsInOrder
<1>1. EmitInv => EventsInOrder
  BY DEF EmitInv
<1> QED BY <1>1, EmitInvHolds, PTL

\* No handler is given an event that an earlier one did not accept, and no emit
\* returns normally unless all have.
THEOREM FailureNeverPassedOver == Spec => []NoEventIsLost
<1>1. EmitInv => NoEventIsLost
  BY DEF EmitInv
<1> QED BY <1>1, EmitInvHolds, PTL

\* At most one handler runs on the event loop: the lock is passed on only when the
\* coroutine of the task that held it has ended.
THEOREM CoroutinesTakeTurns == Spec => []CoroutinesOneAtATime
<1>1. ASSUME EmitInv PROVE CoroutinesOneAtATime
  <2>1. ASSUME NEW call \in coros PROVE coros = {call}
    <3>1. \A t, u \in Tasks : state[t] \in Active /\ state[u] \in Active => t = u
      BY <1>1 DEF EmitInv, LockSound
    <3> QED BY <1>1, <2>1, <3>1 DEF EmitInv, CorosSound, Active
  <2>2. CASE coros = {}
    BY <2>2, FS_EmptySet DEF CoroutinesOneAtATime
  <2>3. CASE coros # {}
    <3>1. PICK call \in coros : coros = {call}
      BY <2>1, <2>3
    <3> QED BY <3>1, FS_Singleton DEF CoroutinesOneAtATime
  <2> QED BY <2>2, <2>3
<1> QED BY <1>1, EmitInvHolds, PTL

\* No waiting emit is passed over: the queue is that of those who wait, and the lock
\* is free or its holder awaits a handler that is still on.
THEOREM NobodyIsEverStranded == Spec => []NobodyIsStranded
<1>1. ASSUME EmitInv, QueueSound, CallsSound PROVE NobodyIsStranded
  <2>1. \A t \in Tasks : state[t] = "waiting" <=> \E i \in 1..Len(waiters) : waiters[i] = t
    BY <1>1 DEF QueueSound, Members, Waiting
  <2>2. ASSUME lock # Free
        PROVE  \/ state[lock] \in {"holding", "submitted", "stopping"}
               \/ state[lock] = "calling" /\ Call(lock) \in threads \cup coros
    BY <1>1, <2>2 DEF EmitInv, TypeOK, LockSound, Active, CallsSound
  <2> QED BY <1>1, <2>1, <2>2 DEF QueueSound, Distinct, NobodyIsStranded
<1> QED BY <1>1, EmitInvHolds, QueuesHold, PTL
=============================================================================
