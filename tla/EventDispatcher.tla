----------------------------- MODULE EventDispatcher -----------------------------
(***************************************************************************)
(* _EventDispatcher.emit, called by the concurrent tasks of one run: the   *)
(* lock, the sequence number, and the handlers invoked one after another.  *)
(*                                                                         *)
(* A task can be cancelled at any await in it.  A coroutine handler is then*)
(* cancelled too and has to end; a synchronous one runs in a thread that   *)
(* nobody can stop, and is let go.  A cancelled task may emit one more     *)
(* event, its cancellation.  What an event says is left out: events are    *)
(* their numbers.                                                          *)
(***************************************************************************)
EXTENDS Naturals, FiniteSets, SequencesExt

CONSTANTS
    Tasks,      \* the tasks of the run that emit events
    Handlers,   \* how many event handlers the runner has
    SyncOnes,   \* the positions of those that are not coroutine functions
    MaxEmits,   \* bound: events a task emits before it is cancelled
    Free        \* the lock's value when nobody holds it

ASSUME DispatcherAssumption ==
    /\ IsFiniteSet(Tasks) /\ Handlers \in Nat \ {0} /\ SyncOnes \subseteq 1..Handlers
    /\ MaxEmits \in Nat \ {0} /\ Free \notin Tasks

VARIABLES
    state,      \* what each task does
    number,     \* the event it emits
    at,         \* the position of the handler it has reached
    emits,      \* how many events it has emitted
    last,       \* cancelled tasks: the next event they emit is their last
    lock,       \* the task that holds _lock, or Free
    waiters,    \* the tasks that wait for it, first come first
    sequence,   \* _sequence
    threads,    \* handler calls <<position, event>> that run in a thread
    coros,      \* handler calls that run on the event loop
    seen,       \* history: the events each handler was given, in order
    accepted,   \* history: the handler calls that returned normally
    delivered   \* history: the events whose emit returned normally

vars == <<state, number, at, emits, last, lock, waiters, sequence, threads, coros,
          seen, accepted, delivered>>

State == {"idle", "waiting", "holding", "submitted", "calling", "stopping", "ended"}
Call(t) == <<at[t], number[t]>>

Init ==
    /\ state = [t \in Tasks |-> "idle"]
    /\ number = [t \in Tasks |-> 0] /\ at = [t \in Tasks |-> 0] /\ emits = [t \in Tasks |-> 0]
    /\ last = {} /\ lock = Free /\ waiters = <<>> /\ sequence = 0
    /\ threads = {} /\ coros = {}
    /\ seen = [h \in 1..Handlers |-> <<>>] /\ accepted = {} /\ delivered = {}

-----------------------------------------------------------------------------
(* One emit *)

\* emit() is called.
Emit(t) ==
    /\ state[t] = "idle" /\ (emits[t] < MaxEmits \/ t \in last)
    /\ emits' = [emits EXCEPT ![t] = @ + 1]
    /\ state' = [state EXCEPT ![t] = "waiting"]
    /\ waiters' = Append(waiters, t)
    /\ UNCHANGED <<number, at, last, sequence, lock, threads, coros, seen, accepted, delivered>>

\* Mutant: the lock covers the number only, and not the handlers' calls.
HoldNoLock(t) == UNCHANGED lock

HoldLock(t) == lock' = t

\* async with self._lock, and self._sequence += 1.
Acquire(t) ==
    /\ state[t] = "waiting" /\ lock = Free /\ waiters # <<>> /\ Head(waiters) = t
    /\ HoldLock(t) /\ waiters' = Tail(waiters)
    /\ sequence' = sequence + 1 /\ number' = [number EXCEPT ![t] = sequence + 1]
    /\ at' = [at EXCEPT ![t] = 1]
    /\ state' = [state EXCEPT ![t] = "holding"]
    /\ UNCHANGED <<emits, last, threads, coros, seen, accepted, delivered>>

Given(t) == seen' = [seen EXCEPT ![at[t]] = Append(@, number[t])]

\* await self._invoke(handler, event): a job for a thread, or a coroutine.
Invoke(t) ==
    /\ state[t] = "holding" /\ at[t] <= Handlers
    /\ IF at[t] \in SyncOnes
       THEN state' = [state EXCEPT ![t] = "submitted"] /\ UNCHANGED <<coros, seen>>
       ELSE state' = [state EXCEPT ![t] = "calling"] /\ coros' = coros \cup {Call(t)} /\ Given(t)
    /\ UNCHANGED <<number, at, emits, last, lock, waiters, sequence, threads, accepted, delivered>>

ThreadStarts(t) ==
    /\ state[t] = "submitted"
    /\ state' = [state EXCEPT ![t] = "calling"]
    /\ threads' = threads \cup {Call(t)} /\ Given(t)
    /\ UNCHANGED <<number, at, emits, last, lock, waiters, sequence, coros, accepted, delivered>>

Over(t) == threads' = threads \ {Call(t)} /\ coros' = coros \ {Call(t)}

\* The handler returns and it is the next one's turn.
NextHandler(t) ==
    /\ state' = [state EXCEPT ![t] = "holding"] /\ at' = [at EXCEPT ![t] = @ + 1]
    /\ accepted' = accepted \cup {Call(t)}
    /\ UNCHANGED <<number, last, lock>>

Release(t) == lock' = IF lock = t THEN Free ELSE lock
Forget(t) == number' = [number EXCEPT ![t] = 0] /\ at' = [at EXCEPT ![t] = 0]

HandlerReturns(t) ==
    /\ state[t] = "calling" /\ Call(t) \in threads \cup coros
    /\ Over(t) /\ NextHandler(t)
    /\ UNCHANGED <<emits, waiters, sequence, seen, delivered>>

\* What a synchronous handler returned is awaitable, and awaited.
ThreadReturnsAwaitable(t) ==
    /\ state[t] = "calling" /\ Call(t) \in threads
    /\ threads' = threads \ {Call(t)} /\ coros' = coros \cup {Call(t)}
    /\ UNCHANGED <<state, number, at, emits, last, lock, waiters, sequence,
                   seen, accepted, delivered>>

\* Mutant: a failure keeps the lock.
DieHolding(t) ==
    /\ state' = [state EXCEPT ![t] = "ended"]
    /\ Forget(t) /\ UNCHANGED <<lock, last, accepted>>

\* Mutant: a failure is logged and the next handler is called.
SkipHandler(t) ==
    /\ state' = [state EXCEPT ![t] = "holding"] /\ at' = [at EXCEPT ![t] = @ + 1]
    /\ UNCHANGED <<number, last, lock, accepted>>

\* EventDeliveryError: the task ends, and run() cancels the others.
Undelivered(t) ==
    /\ state' = [state EXCEPT ![t] = "ended"]
    /\ Release(t) /\ Forget(t) /\ UNCHANGED <<last, accepted>>

HandlerFails(t) ==
    /\ state[t] = "calling" /\ Call(t) \in threads \cup coros
    /\ Over(t) /\ Undelivered(t)
    /\ UNCHANGED <<emits, waiters, sequence, seen, delivered>>

\* Every handler has returned: the lock is released and so is the task.
Return(t) ==
    /\ state[t] = "holding" /\ at[t] > Handlers
    /\ delivered' = delivered \cup {number[t]}
    /\ state' = [state EXCEPT ![t] = IF t \in last THEN "ended" ELSE "idle"]
    /\ Release(t) /\ Forget(t)
    /\ UNCHANGED <<emits, last, waiters, sequence, threads, coros, seen, accepted>>

-----------------------------------------------------------------------------
(* Cancellation *)

\* CancelledError leaves emit: the task may emit its cancellation, or if that is
\* what it was emitting, ends.
Unwound(t) ==
    /\ state' = [state EXCEPT ![t] = IF t \in last THEN "ended" ELSE "idle"]
    /\ last' = last \cup {t}
    /\ Release(t) /\ Forget(t)

\* Mutant: a coroutine handler is cancelled but nobody waits for its end.
NeverStops(t) == FALSE

\* The task awaits a coroutine, which is cancelled in its place.
Stops(t) == Call(t) \in coros

\* A task that waits for the lock is taken out of its queue.
LeaveQueue(t) ==
    IF state[t] = "waiting"
      THEN \E i \in DOMAIN waiters : waiters[i] = t /\ waiters' = RemoveAt(waiters, i)
      ELSE UNCHANGED waiters

\* There is no await, and so no cancellation, while the task is "holding", nor
\* before a cancelled task begins to emit its last event.
Cancel(t) ==
    /\ state[t] \in {"waiting", "submitted", "calling"} \/ (state[t] = "idle" /\ t \notin last)
    /\ LeaveQueue(t)
    /\ IF Stops(t) THEN state' = [state EXCEPT ![t] = "stopping"]
                        /\ UNCHANGED <<number, at, last, lock>>
                   ELSE Unwound(t)
    /\ UNCHANGED <<emits, sequence, threads, coros, seen, accepted, delivered>>

\* The cancelled coroutine ends: cancelled, with another exception, or normally,
\* and then the cancellation is lost.
Stop(t) ==
    /\ state[t] = "stopping"
    /\ Over(t)
    /\ (Unwound(t) /\ UNCHANGED accepted) \/ Undelivered(t) \/ NextHandler(t)
    /\ UNCHANGED <<emits, waiters, sequence, seen, delivered>>

\* A thread whose emit was cancelled ends at last, unnoticed.
Awaited == {Call(t) : t \in {u \in Tasks : state[u] = "calling"}}

AbandonedEnds ==
    \E call \in threads \ Awaited :
        /\ threads' = threads \ {call}
        /\ UNCHANGED <<state, number, at, emits, last, lock, waiters, sequence, coros,
                       seen, accepted, delivered>>

-----------------------------------------------------------------------------
\* What the event loop does, and handlers that return.
Dispatch(t) ==
    \/ Acquire(t) \/ Invoke(t) \/ ThreadStarts(t) \/ Return(t) \/ Stop(t)
    \/ HandlerReturns(t) \/ HandlerFails(t)

Next ==
    \/ \E t \in Tasks : Dispatch(t) \/ Emit(t) \/ Cancel(t) \/ ThreadReturnsAwaitable(t)
    \/ AbandonedEnds

\* A handler that an emit awaits returns at last: nothing in the code bounds it.
Spec == Init /\ [][Next]_vars /\ \A t \in Tasks : WF_vars(Dispatch(t))

-----------------------------------------------------------------------------
\* What the emitting tasks, the lock and the handlers' calls can be, by type.
TypeOK ==
    /\ state \in [Tasks -> State] /\ number \in [Tasks -> Nat] /\ emits \in [Tasks -> Nat]
    /\ at \in [Tasks -> 0..Handlers + 1]
    /\ last \subseteq Tasks /\ lock \in Tasks \cup {Free} /\ waiters \in Seq(Tasks)
    /\ sequence \in Nat
    /\ threads \subseteq (1..Handlers) \X Nat /\ coros \subseteq (1..Handlers) \X Nat
    /\ seen \in [1..Handlers -> Seq(Nat)]
    /\ accepted \subseteq (1..Handlers) \X Nat /\ delivered \subseteq Nat

\* Every handler is given the events in the order of their numbers, whatever the
\* tasks that emit them and whichever of these are cancelled or fail.
EventsInOrder ==
    \A h \in 1..Handlers : \A i, j \in 1..Len(seen[h]) : i < j => seen[h][i] < seen[h][j]

\* An event that a handler was given was accepted by the handlers before it, and
\* one whose emit returned was accepted by all: a failure is never passed over.
NoEventIsLost ==
    /\ \A h \in 1..Handlers : \A i \in 1..Len(seen[h]) :
           \A g \in 1..h - 1 : <<g, seen[h][i]>> \in accepted
    /\ \A event \in delivered : \A h \in 1..Handlers : <<h, event>> \in accepted

\* Handlers on the event loop run one at a time: a cancelled one is awaited before
\* the lock is passed on.
CoroutinesOneAtATime == Cardinality(coros) <= 1

\* Every emit that waits has one place in the queue, a cancelled one has none, and
\* whoever holds the lock is still in its emit, with a handler that can return:
\* no waiting emit is passed over or left behind.
NobodyIsStranded ==
    /\ \A i, j \in 1..Len(waiters) : waiters[i] = waiters[j] => i = j
    /\ \A t \in Tasks : state[t] = "waiting" <=> \E i \in 1..Len(waiters) : waiters[i] = t
    /\ lock # Free => \/ state[lock] \in {"holding", "submitted", "stopping"}
                      \/ state[lock] = "calling" /\ Call(lock) \in threads \cup coros

\* No emit waits for ever, whoever is cancelled or fails while it waits.
EmitsEnd == \A t \in Tasks : (state[t] # "idle") ~> (state[t] \in {"idle", "ended"})
=============================================================================
