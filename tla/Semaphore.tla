------------------------------ MODULE Semaphore ------------------------------
(***************************************************************************)
(* jsonrpc/src/common/semaphore.ts: the Semaphore every reader and writer  *)
(* of the JSON-RPC layer serialises its work with (the client carries an   *)
(* identical copy in client/src/common/utils/async.ts).                    *)
(*                                                                         *)
(* lock() queues a thunk and schedules doRunNext with setImmediate; the    *)
(* callback starts at most one thunk, and every completion schedules the   *)
(* next one.  The JavaScript event loop runs one callback at a time, so    *)
(* every action below is one callback, run to its end.                     *)
(***************************************************************************)
EXTENDS Naturals, Sequences, FiniteSets

CONSTANTS Thunks,    \* the thunks that may be locked; each is locked once
          Capacity   \* the constructor's capacity

ASSUME CapacityAssumption == Capacity \in Nat \ {0}

VARIABLES waiting,     \* _waiting: the queued thunks
          active,      \* _active: the number of started, unsettled thunks
          immediates,  \* the doRunNext callbacks handed to setImmediate
          status       \* what became of each thunk

semaphoreVars == <<waiting, active, immediates, status>>

Status == {"unlocked", "waiting", "running", "resolved", "rejected"}
Settled == {"resolved", "rejected"}

SemaphoreTypeOK ==
  /\ waiting \in Seq(Thunks)
  /\ active \in Nat
  /\ immediates \in Nat
  /\ status \in [Thunks -> Status]

SemaphoreInit ==
  /\ waiting = <<>>
  /\ active = 0
  /\ immediates = 0
  /\ status = [t \in Thunks |-> "unlocked"]
-----------------------------------------------------------------------------
\* Mutant of Scheduled: runNext holds back while one more slot is free.
ScheduledLate(w, a, pendingCallbacks) ==
  IF w = <<>> \/ a + 1 >= Capacity THEN pendingCallbacks
                                   ELSE pendingCallbacks + 1

\* runNext with the queue w and the counter a: the callbacks pending after it.
Scheduled(w, a, pendingCallbacks) ==
  IF w = <<>> \/ a = Capacity THEN pendingCallbacks ELSE pendingCallbacks + 1

\* lock(thunk): push, then runNext.
Lock(t) ==
  /\ status[t] = "unlocked"
  /\ status' = [status EXCEPT ![t] = "waiting"]
  /\ waiting' = Append(waiting, t)
  /\ immediates' = Scheduled(waiting', active, immediates)
  /\ UNCHANGED active

\* The early return of doRunNext: nothing waits, or no capacity is left.
DoRunNextIdle ==
  /\ immediates > 0
  /\ waiting = <<>> \/ active = Capacity
  /\ immediates' = immediates - 1
  /\ UNCHANGED <<waiting, active, status>>

\* Mutant of DoRunNextAsync: pop() for shift(), the newest thunk first.
DoRunNextAsyncNewest ==
  LET last == Len(waiting)
  IN  /\ immediates > 0
      /\ waiting # <<>> /\ active # Capacity
      /\ waiting' = SubSeq(waiting, 1, last - 1)
      /\ active' = active + 1
      /\ immediates' = immediates - 1
      /\ status' = [status EXCEPT ![waiting[last]] = "running"]

\* doRunNext with a thunk that returns a promise: it keeps the capacity.
DoRunNextAsync ==
  /\ immediates > 0
  /\ waiting # <<>> /\ active # Capacity
  /\ waiting' = Tail(waiting)
  /\ active' = active + 1
  /\ immediates' = immediates - 1
  /\ status' = [status EXCEPT ![Head(waiting)] = "running"]

\* doRunNext with a thunk that returns a value or throws: the capacity is
\* taken and given back, and runNext called, in the same callback.
DoRunNextSync(outcome) ==
  /\ immediates > 0
  /\ waiting # <<>> /\ active # Capacity
  /\ waiting' = Tail(waiting)
  /\ immediates' = Scheduled(waiting', active, immediates - 1)
  /\ status' = [status EXCEPT ![Head(waiting)] = outcome]
  /\ UNCHANGED active

\* Mutant of SettleThunk: a rejected thunk does not call runNext.
SettleRejectedSilently(t, outcome) ==
  /\ status[t] = "running"
  /\ active' = active - 1
  /\ status' = [status EXCEPT ![t] = outcome]
  /\ immediates' = IF outcome = "rejected"
                     THEN immediates
                     ELSE Scheduled(waiting, active', immediates)
  /\ UNCHANGED waiting

\* The promise of a running thunk settles: release, settle, runNext.
SettleThunk(t, outcome) ==
  /\ status[t] = "running"
  /\ active' = active - 1
  /\ status' = [status EXCEPT ![t] = outcome]
  /\ immediates' = Scheduled(waiting, active', immediates)
  /\ UNCHANGED waiting

SemaphoreNext ==
  \/ \E t \in Thunks : Lock(t)
  \/ DoRunNextIdle
  \/ DoRunNextAsync
  \/ \E outcome \in Settled : DoRunNextSync(outcome)
  \/ \E t \in Thunks, outcome \in Settled : SettleThunk(t, outcome)

DoRunNext ==
  \/ DoRunNextIdle
  \/ DoRunNextAsync
  \/ \E outcome \in Settled : DoRunNextSync(outcome)

SemaphoreSpec == SemaphoreInit /\ [][SemaphoreNext]_semaphoreVars

\* Node runs every immediate it accepted.
ImmediateFairness == WF_semaphoreVars(DoRunNext)

\* The thunks of this code base await a write, a decode or a conversion.
ThunkFairness == \A t \in Thunks :
                   WF_semaphoreVars(\E outcome \in Settled : SettleThunk(t, outcome))

SemaphoreFairSpec == SemaphoreSpec /\ ImmediateFairness /\ ThunkFairness
-----------------------------------------------------------------------------
Running == {t \in Thunks : status[t] = "running"}
InQueue == {waiting[i] : i \in 1..Len(waiting)}

\* Mutual exclusion: the counter is the number of thunks between their start
\* and their settlement, and it never exceeds the capacity.  This is what
\* "Too many thunks active" would report (semaphore.ts:57).
MutualExclusion == active = Cardinality(Running) /\ active <= Capacity

\* No lost wakeup: when a thunk waits and capacity is free, a doRunNext
\* callback is on its way.  Nothing else would ever start that thunk.
NoForgottenThunk == waiting # <<>> /\ active < Capacity => immediates > 0

\* A thunk waits in the queue exactly once, and only while it is waiting.
QueueMatchesStatus ==
  /\ InQueue = {t \in Thunks : status[t] = "waiting"}
  /\ \A i, j \in 1..Len(waiting) : waiting[i] = waiting[j] => i = j

\* The callbacks suffice for all the capacity the queue could use.
EnoughImmediates ==
  \/ immediates >= Len(waiting)
  \/ immediates + active >= Capacity

\* The inductive invariant behind NoForgottenThunk and MutualExclusion.
IInv == SemaphoreTypeOK /\ MutualExclusion /\ QueueMatchesStatus /\ EnoughImmediates

\* Once locked, a thunk is settled in the end: neither a lost wakeup nor a
\* rejected predecessor can leave it in the queue for ever.
EveryThunkSettles ==
  \A t \in Thunks : status[t] = "waiting" ~> status[t] \in Settled
-----------------------------------------------------------------------------
\* The semaphore implements a FIFO executor.
FE == INSTANCE FifoExecutor
        WITH Tasks <- Thunks, pending <- waiting, running <- Running,
             finished <- {t \in Thunks : status[t] \in Settled}

\* Start order, capacity and eventual start, as one refinement.
ImplementsFifoExecutor == FE!Spec
=============================================================================
