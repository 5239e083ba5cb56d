--------------------------- MODULE JsonrpcProofs ---------------------------
(***************************************************************************)
(* Proofs about the message connection, the semaphore its writer takes     *)
(* turns with, and the streams of messages below it (jsonrpc).             *)
(*                                                                         *)
(* The semaphore, for every set of thunks (finite or not) and every        *)
(* positive capacity.  NoForgottenThunk is not inductive: DoRunNextIdle    *)
(* uses up a callback, and a SettleThunk frees capacity while only one     *)
(* callback is scheduled.  What is inductive is EnoughImmediates: there    *)
(* are at least as many callbacks as thunks that could start now,          *)
(* min(Len(waiting), Capacity - active).                                   *)
(*                                                                         *)
(* The connection, for every set of requests, notifications and outgoing   *)
(* requests, every limit and every choice of failing writes: first the     *)
(* types, inFlight, the timer and the promises, then cancellations and     *)
(* replies.                                                                *)
(*                                                                         *)
(* The streams, for any number of messages of any size, cut anywhere:      *)
(* StreamInv is about all that was written and is not taken yet, wherever  *)
(* the stream was cut, so that of the reader only the loop of onData can   *)
(* disturb it.                                                             *)
(***************************************************************************)
EXTENDS Semaphore, MessageConnection, Transport, SequenceLemmas, FiniteSetTheorems, TLAPS

-----------------------------------------------------------------------------
(* The semaphore.                                                          *)

USE CapacityAssumption

\* MutualExclusion counts a set, so the set has to stay finite.
SemaphoreInv == IInv /\ IsFiniteSet(Running)

\* runNext keeps the callback count a natural number and never lowers it.
LEMMA ScheduledNat ==
  ASSUME NEW w, NEW a, NEW n \in Nat
  PROVE  Scheduled(w, a, n) \in Nat /\ Scheduled(w, a, n) >= n
  BY DEF Scheduled

\* The initial state: nothing waits and nothing runs.
LEMMA SemaphoreInitInv == SemaphoreInit => SemaphoreInv
  <1> SUFFICES ASSUME SemaphoreInit PROVE SemaphoreInv
    OBVIOUS
  <1>1. Running = {}
    BY DEF SemaphoreInit, Running
  <1>2. Cardinality(Running) = 0 /\ IsFiniteSet(Running)
    BY <1>1, FS_EmptySet
  <1>3. SemaphoreTypeOK
    BY DEF SemaphoreInit, SemaphoreTypeOK, Status
  <1>4. MutualExclusion
    BY <1>2 DEF SemaphoreInit, MutualExclusion
  <1>5. QueueMatchesStatus
    BY DEF SemaphoreInit, QueueMatchesStatus, InQueue
  <1>6. EnoughImmediates
    BY DEF SemaphoreInit, EnoughImmediates
  <1> QED
    BY <1>2, <1>3, <1>4, <1>5, <1>6 DEF SemaphoreInv, IInv

\* lock(): the new thunk joins the queue, the running ones stay.
LEMMA LockIndInv ==
  ASSUME SemaphoreInv, NEW t \in Thunks, Lock(t)
  PROVE  SemaphoreInv'
  <1>0. SemaphoreTypeOK /\ MutualExclusion /\ QueueMatchesStatus /\ EnoughImmediates
        /\ IsFiniteSet(Running)
    BY DEF SemaphoreInv, IInv
  <1>1. /\ Len(waiting') = Len(waiting) + 1
        /\ waiting' \in Seq(Thunks)
        /\ waiting' # <<>>
        /\ \A i \in 1..Len(waiting) : waiting'[i] = waiting[i]
        /\ waiting'[Len(waiting) + 1] = t
    BY <1>0, AppendElements DEF Lock, SemaphoreTypeOK
  <1>2. immediates' \in Nat /\ immediates' >= immediates
    BY <1>0, ScheduledNat DEF Lock, SemaphoreTypeOK
  <1>3. SemaphoreTypeOK'
    BY <1>0, <1>1, <1>2 DEF Lock, SemaphoreTypeOK, Status
  <1>4. Running' = Running
    BY <1>0 DEF Lock, Running, SemaphoreTypeOK
  <1>5. MutualExclusion' /\ IsFiniteSet(Running)'
    BY <1>0, <1>4 DEF Lock, MutualExclusion
  <1>6. QueueMatchesStatus'
    <2>1. Len(waiting) \in Nat
      BY <1>0 DEF SemaphoreTypeOK
    <2>2. InQueue' = InQueue \cup {t}
      BY <1>1, <2>1 DEF InQueue
    <2>3. {u \in Thunks : status'[u] = "waiting"}
            = {u \in Thunks : status[u] = "waiting"} \cup {t}
      BY <1>0 DEF Lock, SemaphoreTypeOK
    <2>4. t \notin InQueue
      BY <1>0 DEF Lock, QueueMatchesStatus
    <2>5. \A i \in 1..Len(waiting) : waiting[i] # t
      BY <2>4 DEF InQueue
    <2>6. \A i, j \in 1..Len(waiting') : waiting'[i] = waiting'[j] => i = j
      BY <1>0, <1>1, <2>1, <2>5 DEF QueueMatchesStatus
    <2> QED
      BY <1>0, <2>2, <2>3, <2>6 DEF QueueMatchesStatus
  <1>7. EnoughImmediates'
    BY <1>0, <1>1, <1>2
       DEF Lock, EnoughImmediates, Scheduled, SemaphoreTypeOK, MutualExclusion
  <1> QED
    BY <1>3, <1>5, <1>6, <1>7 DEF SemaphoreInv, IInv

\* The early return of doRunNext uses up a callback nothing needed.
LEMMA IdleIndInv ==
  ASSUME SemaphoreInv, DoRunNextIdle
  PROVE  SemaphoreInv'
  <1>0. SemaphoreTypeOK /\ MutualExclusion /\ QueueMatchesStatus /\ EnoughImmediates
        /\ IsFiniteSet(Running)
    BY DEF SemaphoreInv, IInv
  <1>1. SemaphoreTypeOK'
    BY <1>0 DEF DoRunNextIdle, SemaphoreTypeOK
  <1>2. Running' = Running
    BY DEF DoRunNextIdle, Running
  <1>3. InQueue' = InQueue
    BY DEF DoRunNextIdle, InQueue
  <1>4. QueueMatchesStatus'
    BY <1>0, <1>3 DEF DoRunNextIdle, QueueMatchesStatus
  <1>5. MutualExclusion' /\ IsFiniteSet(Running)'
    BY <1>0, <1>2 DEF DoRunNextIdle, MutualExclusion
  <1>6. EnoughImmediates'
    BY <1>0 DEF DoRunNextIdle, EnoughImmediates, SemaphoreTypeOK, MutualExclusion
  <1> QED
    BY <1>1, <1>4, <1>5, <1>6 DEF SemaphoreInv, IInv

\* Taking the head off the queue keeps the queue and the status in step,
\* whatever the taken thunk becomes.
LEMMA TakeHeadQueue ==
  ASSUME SemaphoreTypeOK, QueueMatchesStatus, waiting # <<>>,
         NEW st \in Status \ {"waiting"},
         waiting' = Tail(waiting),
         status' = [status EXCEPT ![Head(waiting)] = st]
  PROVE  QueueMatchesStatus'
  <1>1. /\ Len(waiting) \in Nat \ {0}
        /\ Len(waiting') = Len(waiting) - 1
        /\ Head(waiting) = waiting[1]
        /\ waiting[1] \in Thunks
        /\ \A i \in 1..Len(waiting') : waiting'[i] = waiting[i + 1]
    BY TailElements DEF SemaphoreTypeOK
  <1>2. \A i, j \in 1..Len(waiting') : waiting'[i] = waiting'[j] => i = j
    BY <1>1 DEF QueueMatchesStatus
  <1>3. InQueue' = InQueue \ {waiting[1]}
    <2>1. ASSUME NEW x \in InQueue' PROVE x \in InQueue \ {waiting[1]}
      <3>1. PICK i \in 1..Len(waiting') : x = waiting'[i]
        BY <2>1 DEF InQueue
      <3>2. x = waiting[i + 1] /\ i + 1 \in 1..Len(waiting) /\ i + 1 # 1
        BY <1>1, <3>1
      <3>3. 1 \in 1..Len(waiting)
        BY <1>1
      <3>4. x # waiting[1]
        BY <3>2, <3>3 DEF QueueMatchesStatus
      <3> QED
        BY <3>2, <3>4 DEF InQueue
    <2>2. ASSUME NEW x \in InQueue \ {waiting[1]} PROVE x \in InQueue'
      <3>1. PICK i \in 1..Len(waiting) : x = waiting[i]
        BY <2>2 DEF InQueue
      <3>2. i # 1
        BY <3>1, <2>2
      <3>3. i - 1 \in 1..Len(waiting') /\ waiting'[i - 1] = x
        BY <1>1, <3>1, <3>2
      <3> QED
        BY <3>3 DEF InQueue
    <2> QED
      BY <2>1, <2>2
  <1>4. {u \in Thunks : status'[u] = "waiting"}
          = {u \in Thunks : status[u] = "waiting"} \ {waiting[1]}
    BY <1>1 DEF SemaphoreTypeOK
  <1> QED
    BY <1>2, <1>3, <1>4 DEF QueueMatchesStatus

\* A thunk at the head of the queue is waiting, hence not running.
LEMMA HeadIsWaiting ==
  ASSUME SemaphoreTypeOK, QueueMatchesStatus, waiting # <<>>
  PROVE  Head(waiting) \in Thunks /\ status[Head(waiting)] = "waiting"
  <1>1. Head(waiting) = waiting[1] /\ Len(waiting) \in Nat \ {0}
    BY TailElements DEF SemaphoreTypeOK
  <1>2. Head(waiting) \in InQueue
    BY <1>1 DEF InQueue
  <1> QED
    BY <1>2 DEF QueueMatchesStatus

\* doRunNext with a thunk that suspends.
LEMMA AsyncIndInv ==
  ASSUME SemaphoreInv, DoRunNextAsync
  PROVE  SemaphoreInv'
  <1>0. SemaphoreTypeOK /\ MutualExclusion /\ QueueMatchesStatus /\ EnoughImmediates
        /\ IsFiniteSet(Running)
    BY DEF SemaphoreInv, IInv
  <1> DEFINE h == Head(waiting)
  <1>1. waiting # <<>> /\ active # Capacity /\ immediates > 0
    BY DEF DoRunNextAsync
  <1>2. h \in Thunks /\ status[h] = "waiting"
    BY <1>0, <1>1, HeadIsWaiting
  <1>3. waiting' \in Seq(Thunks) /\ Len(waiting') = Len(waiting) - 1
        /\ Len(waiting) \in Nat
    BY <1>0, <1>1, TailElements DEF DoRunNextAsync, SemaphoreTypeOK
  <1>4. SemaphoreTypeOK'
    BY <1>0, <1>2, <1>3 DEF DoRunNextAsync, SemaphoreTypeOK, Status
  <1>5. QueueMatchesStatus'
    BY <1>0, <1>1, TakeHeadQueue DEF DoRunNextAsync, Status
  <1>6. Running' = Running \cup {h} /\ h \notin Running
    BY <1>0, <1>2 DEF DoRunNextAsync, Running, SemaphoreTypeOK
  <1>7. IsFiniteSet(Running)' /\ Cardinality(Running)' = Cardinality(Running) + 1
    BY <1>0, <1>6, FS_AddElement
  <1>8. MutualExclusion'
    BY <1>0, <1>1, <1>7 DEF DoRunNextAsync, MutualExclusion, SemaphoreTypeOK
  <1>9. EnoughImmediates'
    BY <1>0, <1>1, <1>3 DEF DoRunNextAsync, EnoughImmediates, SemaphoreTypeOK
  <1> QED
    BY <1>4, <1>5, <1>7, <1>8, <1>9 DEF SemaphoreInv, IInv

\* doRunNext with a thunk that settles in the same callback.
LEMMA SyncIndInv ==
  ASSUME SemaphoreInv, NEW outcome \in Settled, DoRunNextSync(outcome)
  PROVE  SemaphoreInv'
  <1>0. SemaphoreTypeOK /\ MutualExclusion /\ QueueMatchesStatus /\ EnoughImmediates
        /\ IsFiniteSet(Running)
    BY DEF SemaphoreInv, IInv
  <1> DEFINE h == Head(waiting)
  <1>1. waiting # <<>> /\ active # Capacity /\ immediates > 0
    BY DEF DoRunNextSync
  <1>2. h \in Thunks /\ status[h] = "waiting"
    BY <1>0, <1>1, HeadIsWaiting
  <1>3. waiting' \in Seq(Thunks) /\ Len(waiting') = Len(waiting) - 1
        /\ Len(waiting) \in Nat
    BY <1>0, <1>1, TailElements DEF DoRunNextSync, SemaphoreTypeOK
  <1>4. immediates - 1 \in Nat
    BY <1>0, <1>1 DEF SemaphoreTypeOK
  <1>5. immediates' \in Nat /\ immediates' >= immediates - 1
    BY <1>4, ScheduledNat DEF DoRunNextSync
  <1>6. outcome \in Status \ {"waiting", "running"}
    BY DEF Settled, Status
  <1>7. SemaphoreTypeOK'
    BY <1>0, <1>2, <1>3, <1>5, <1>6 DEF DoRunNextSync, SemaphoreTypeOK
  <1>8. QueueMatchesStatus'
    BY <1>0, <1>1, <1>6, TakeHeadQueue DEF DoRunNextSync
  <1>9. Running' = Running
    BY <1>0, <1>2, <1>6 DEF DoRunNextSync, Running, SemaphoreTypeOK
  <1>10. MutualExclusion' /\ IsFiniteSet(Running)'
    BY <1>0, <1>9 DEF DoRunNextSync, MutualExclusion
  <1>11. EnoughImmediates'
    <2>1. CASE waiting' = <<>>
      <3>1. Len(waiting') = 0
        BY <2>1
      <3> QED
        BY <3>1, <1>4, <1>5 DEF EnoughImmediates
    <2>2. CASE waiting' # <<>>
      BY <2>2, <1>0, <1>1, <1>3, <1>4
         DEF DoRunNextSync, EnoughImmediates, Scheduled, SemaphoreTypeOK
    <2> QED
      BY <2>1, <2>2
  <1> QED
    BY <1>7, <1>8, <1>10, <1>11 DEF SemaphoreInv, IInv

\* The settlement of a running thunk gives its capacity back.
LEMMA SettleIndInv ==
  ASSUME SemaphoreInv, NEW t \in Thunks, NEW outcome \in Settled, SettleThunk(t, outcome)
  PROVE  SemaphoreInv'
  <1>0. SemaphoreTypeOK /\ MutualExclusion /\ QueueMatchesStatus /\ EnoughImmediates
        /\ IsFiniteSet(Running)
    BY DEF SemaphoreInv, IInv
  <1>1. outcome \in Status \ {"waiting", "running"}
    BY DEF Settled, Status
  <1>2. t \in Running /\ Running' = Running \ {t}
    BY <1>0, <1>1 DEF SettleThunk, Running, SemaphoreTypeOK
  <1>3. /\ IsFiniteSet(Running)'
        /\ Cardinality(Running)' = Cardinality(Running) - 1
        /\ Cardinality(Running) \in Nat
        /\ Cardinality(Running)' \in Nat
    BY <1>0, <1>2, FS_RemoveElement, FS_CardinalityType
  <1>4. active' \in Nat /\ active' = active - 1 /\ active' <= Capacity
        /\ active' # Capacity
    BY <1>0, <1>3 DEF SettleThunk, SemaphoreTypeOK, MutualExclusion
  <1>5. immediates' \in Nat /\ immediates' >= immediates
    BY <1>0, ScheduledNat DEF SettleThunk, SemaphoreTypeOK
  <1>6. SemaphoreTypeOK'
    BY <1>0, <1>1, <1>4, <1>5 DEF SettleThunk, SemaphoreTypeOK
  <1>7. MutualExclusion'
    BY <1>0, <1>3, <1>4 DEF MutualExclusion
  <1>8. QueueMatchesStatus'
    <2>1. InQueue' = InQueue
      BY DEF SettleThunk, InQueue
    <2>2. {u \in Thunks : status'[u] = "waiting"}
            = {u \in Thunks : status[u] = "waiting"}
      BY <1>0, <1>1 DEF SettleThunk, SemaphoreTypeOK
    <2> QED
      BY <1>0, <2>1, <2>2 DEF SettleThunk, QueueMatchesStatus
  <1>9. EnoughImmediates'
    <2>1. CASE waiting = <<>>
      BY <2>1, <1>5 DEF SettleThunk, EnoughImmediates
    <2>2. CASE waiting # <<>>
      BY <2>2, <1>0, <1>4 DEF SettleThunk, EnoughImmediates, Scheduled, SemaphoreTypeOK
    <2> QED
      BY <2>1, <2>2
  <1> QED
    BY <1>3, <1>6, <1>7, <1>8, <1>9 DEF SemaphoreInv, IInv

\* Every callback preserves the inductive invariant.
LEMMA SemaphoreNextInv == SemaphoreInv /\ [SemaphoreNext]_semaphoreVars => SemaphoreInv'
  <1> SUFFICES ASSUME SemaphoreInv, [SemaphoreNext]_semaphoreVars PROVE SemaphoreInv'
    OBVIOUS
  <1>1. CASE UNCHANGED semaphoreVars
    <2>1. Running' = Running /\ InQueue' = InQueue
      BY <1>1 DEF semaphoreVars, Running, InQueue
    <2> QED
      BY <1>1, <2>1 DEF semaphoreVars, SemaphoreInv, IInv, SemaphoreTypeOK, MutualExclusion,
                        QueueMatchesStatus, EnoughImmediates
  <1>2. ASSUME NEW t \in Thunks, Lock(t) PROVE SemaphoreInv'
    BY <1>2, LockIndInv
  <1>3. CASE DoRunNextIdle
    BY <1>3, IdleIndInv
  <1>4. CASE DoRunNextAsync
    BY <1>4, AsyncIndInv
  <1>5. ASSUME NEW outcome \in Settled, DoRunNextSync(outcome) PROVE SemaphoreInv'
    BY <1>5, SyncIndInv
  <1>6. ASSUME NEW t \in Thunks, NEW outcome \in Settled, SettleThunk(t, outcome)
        PROVE SemaphoreInv'
    BY <1>6, SettleIndInv
  <1> QED
    BY <1>1, <1>2, <1>3, <1>4, <1>5, <1>6 DEF SemaphoreNext

\* The inductive invariant holds in every reachable state of the semaphore
\* (semaphore.ts lock/runNext/doRunNext).
THEOREM IInvInvariant == SemaphoreSpec => []IInv
  <1>1. SemaphoreInv => IInv
    BY DEF SemaphoreInv
  <1> QED
    BY SemaphoreInitInv, SemaphoreNextInv, <1>1, PTL DEF SemaphoreSpec

\* The variables of the semaphore keep their types: active and immediates
\* never go below zero, the queue only ever holds thunks.
THEOREM SemaphoreTypeCorrect == SemaphoreSpec => []SemaphoreTypeOK
  <1>1. IInv => SemaphoreTypeOK
    BY DEF IInv
  <1> QED
    BY IInvInvariant, <1>1, PTL

\* _active counts the started, unsettled thunks exactly and never exceeds
\* _capacity: the "Too many thunks active" error cannot be thrown.
THEOREM MutualExclusionHolds == SemaphoreSpec => []MutualExclusion
  <1>1. IInv => MutualExclusion
    BY DEF IInv
  <1> QED
    BY IInvInvariant, <1>1, PTL

\* A thunk that waits while capacity is free has a doRunNext callback coming.
THEOREM NoForgottenThunkHolds == SemaphoreSpec => []NoForgottenThunk
  <1>1. IInv => NoForgottenThunk
    <2>1. waiting \in Seq(Thunks) /\ waiting # <<>> => Len(waiting) > 0
      OBVIOUS
    <2> QED
      BY <2>1 DEF IInv, SemaphoreTypeOK, EnoughImmediates, NoForgottenThunk
  <1> QED
    BY IInvInvariant, <1>1, PTL
-----------------------------------------------------------------------------
(* The steps of the semaphore are steps of the FIFO executor.              *)

\* A thunk is known to the executor unless nobody has locked it yet.
LEMMA UnknownIsUnlocked ==
  ASSUME IInv, NEW t \in Thunks
  PROVE  t \in FE!Known <=> status[t] # "unlocked"
  <1>1. FE!Known = InQueue \cup Running \cup {u \in Thunks : status[u] \in Settled}
    BY DEF FE!Known, InQueue
  <1>2. InQueue = {u \in Thunks : status[u] = "waiting"}
    BY DEF IInv, QueueMatchesStatus
  <1>3. status[t] \in Status
    BY DEF IInv, SemaphoreTypeOK
  <1> QED
    BY <1>1, <1>2, <1>3 DEF Running, Settled, Status

\* What starting the head of the queue needs.
LEMMA HeadMayStart ==
  ASSUME IInv, waiting # <<>>, active # Capacity
  PROVE  /\ Cardinality(Running) < Capacity
         /\ Head(waiting) \in Thunks
         /\ status[Head(waiting)] = "waiting"
         /\ status \in [Thunks -> Status]
  BY HeadIsWaiting DEF IInv, MutualExclusion, SemaphoreTypeOK

\* The executor counts like the semaphore.
LEMMA SameCardinality == FE!Cardinality(Running) = Cardinality(Running)
  BY Zenon DEF FE!Cardinality, Cardinality

\* Each callback of the semaphore is one step of the executor, or none.
LEMMA FifoStep == IInv /\ [SemaphoreNext]_semaphoreVars => [FE!Next]_(FE!vars)
  <1> SUFFICES ASSUME IInv, [SemaphoreNext]_semaphoreVars PROVE [FE!Next]_(FE!vars)
    OBVIOUS
  <1> DEFINE done == {t \in Thunks : status[t] \in Settled}
  <1>0. status \in [Thunks -> Status]
    BY DEF IInv, SemaphoreTypeOK
  <1>1. CASE UNCHANGED semaphoreVars \/ DoRunNextIdle
    <2>1. UNCHANGED <<waiting, status>>
      BY <1>1 DEF semaphoreVars, DoRunNextIdle
    <2>2. UNCHANGED <<waiting, Running, done>>
      BY <2>1 DEF Running
    <2> QED
      BY <2>2 DEF FE!vars
  <1>2. ASSUME NEW t \in Thunks, Lock(t) PROVE FE!Next
    <2>1. t \notin FE!Known
      BY <1>2, UnknownIsUnlocked DEF Lock
    <2>2. Running' = Running /\ done' = done
      BY <1>0, <1>2 DEF Lock, Running, Settled
    <2> QED
      BY <1>2, <2>1, <2>2 DEF Lock, FE!Next, FE!Submit
  <1>3. CASE DoRunNextAsync
    <2>1. waiting # <<>> /\ active # Capacity /\ waiting' = Tail(waiting)
          /\ status' = [status EXCEPT ![Head(waiting)] = "running"]
      BY <1>3 DEF DoRunNextAsync
    <2>2. Running' = Running \cup {Head(waiting)} /\ done' = done
      BY <2>1, HeadMayStart DEF Running, Settled
    <2> QED
      BY <2>1, <2>2, HeadMayStart, SameCardinality DEF FE!Next, FE!Start
  <1>4. ASSUME NEW outcome \in Settled, DoRunNextSync(outcome) PROVE FE!Next
    <2>1. waiting # <<>> /\ active # Capacity /\ waiting' = Tail(waiting)
          /\ status' = [status EXCEPT ![Head(waiting)] = outcome]
      BY <1>4 DEF DoRunNextSync
    <2>2. Running' = Running /\ done' = done \cup {Head(waiting)}
      BY <2>1, HeadMayStart DEF Running, Settled
    <2> QED
      BY <2>1, <2>2, HeadMayStart, SameCardinality DEF FE!Next, FE!StartAndFinish
  <1>5. ASSUME NEW t \in Thunks, NEW outcome \in Settled, SettleThunk(t, outcome)
        PROVE  FE!Next
    <2>1. t \in Running
      BY <1>5 DEF SettleThunk, Running
    <2>2. Running' = Running \ {t} /\ done' = done \cup {t}
      BY <1>0, <1>5 DEF SettleThunk, Running, Settled
    <2> QED
      BY <1>5, <2>1, <2>2 DEF SettleThunk, FE!Next, FE!Finish
  <1> QED
    BY <1>1, <1>2, <1>3, <1>4, <1>5 DEF SemaphoreNext

\* The safety of ImplementsFifoExecutor: thunks start one by one in the order
\* of lock(), each at most once, and never more than the capacity.
THEOREM ImplementsFifoSteps == SemaphoreSpec => FE!SafeSpec
  <1>1. SemaphoreInit => FE!Init
    BY DEF SemaphoreInit, FE!Init, Running, Settled
  <1> QED
    BY <1>1, FifoStep, IInvInvariant, PTL DEF SemaphoreSpec, FE!SafeSpec

HIDE CapacityAssumption

-----------------------------------------------------------------------------
(* The message connection.                                                 *)

USE ParallelismAssumption, DisjointAssumption DEF Unlimited

TaskKinds == {"request", "notification"}
ReplyKinds == {"result", "error"}

\* A queued request or notification has the status "queued", and is queued
\* only once.
QueueInv ==
  /\ \A i \in 1..Len(messageQueue) :
       messageQueue[i].kind \in TaskKinds => task[messageQueue[i].id] = "queued"
  /\ \A i, j \in 1..Len(messageQueue) :
       /\ messageQueue[i].kind \in TaskKinds
       /\ messageQueue[j].kind \in TaskKinds
       /\ messageQueue[i].id = messageQueue[j].id
       => i = j

\* The reply being written for a request is its status, and there is only one.
OutboxInv ==
  /\ \A i \in 1..Len(outbox) :
       outbox[i].kind \in ReplyKinds => task[outbox[i].id] = outbox[i].kind
  /\ \A i, j \in 1..Len(outbox) :
       /\ outbox[i].kind \in ReplyKinds
       /\ outbox[j].kind \in ReplyKinds
       /\ outbox[i].id = outbox[j].id
       => i = j

IndInv == /\ TypeOK
          /\ QueueInv
          /\ OutboxInv
          /\ InFlightExact
          /\ IsFiniteSet(Flying)
-----------------------------------------------------------------------------
(* How the parts of the invariant survive the changes actions make.        *)

\* The messages of the queue have well-typed ids.
LEMMA MessageIds ==
  ASSUME NEW m \in InMessages
  PROVE  /\ m.kind \in {"request", "cancel"} => m.id \in InRequests
         /\ m.kind = "notification" => m.id \in Notes
         /\ m.kind \in {"response", "invalid"} => m.id \in OutRequests
         /\ m.kind \in TaskKinds => m.id \in Tasks
         /\ m.kind \in {"request", "cancel", "notification", "response", "invalid"}
  BY DEF InMessages, TaskKinds, Tasks

\* A queue that does not change, while nothing leaves the status "queued".
LEMMA QueueSame ==
  ASSUME TypeOK, QueueInv, UNCHANGED messageQueue,
         \A t \in Tasks : task[t] = "queued" => task'[t] = "queued"
  PROVE  QueueInv'
  <1>1. \A i \in 1..Len(messageQueue) : messageQueue[i] \in InMessages
    BY DEF TypeOK
  <1>2. \A i \in 1..Len(messageQueue) :
          messageQueue[i].kind \in TaskKinds => messageQueue[i].id \in Tasks
    BY <1>1, MessageIds
  <1> QED
    BY <1>2 DEF QueueInv

\* A message that joins the queue.
LEMMA QueueAppend ==
  ASSUME TypeOK, QueueInv, NEW m \in InMessages,
         messageQueue' = Append(messageQueue, m),
         \A t \in Tasks : task[t] = "queued" => task'[t] = "queued",
         m.kind \in TaskKinds => /\ task[m.id] # "queued"
                                 /\ task'[m.id] = "queued"
  PROVE  QueueInv'
  <1>1. \A i \in 1..Len(messageQueue) : messageQueue[i] \in InMessages
    BY DEF TypeOK
  <1>2. \A i \in 1..Len(messageQueue) :
          messageQueue[i].kind \in TaskKinds => messageQueue[i].id \in Tasks
    BY <1>1, MessageIds
  <1>3. /\ Len(messageQueue) \in Nat
        /\ Len(messageQueue') = Len(messageQueue) + 1
        /\ \A i \in 1..Len(messageQueue) : messageQueue'[i] = messageQueue[i]
        /\ messageQueue'[Len(messageQueue) + 1] = m
    BY AppendElements DEF TypeOK
  <1>4. \A i \in 1..Len(messageQueue) :
          messageQueue[i].kind \in TaskKinds /\ m.kind \in TaskKinds
            => messageQueue[i].id # m.id
    BY DEF QueueInv
  <1> QED
    BY <1>2, <1>3, <1>4 DEF QueueInv

\* The message at the head of the queue is dispatched.
LEMMA QueueTail ==
  ASSUME TypeOK, QueueInv, messageQueue # <<>>,
         messageQueue' = Tail(messageQueue),
         NEW m, m = Head(messageQueue),
         \A t \in Tasks : /\ task[t] = "queued"
                          /\ ~(m.kind \in TaskKinds /\ m.id = t)
                          => task'[t] = "queued"
  PROVE  QueueInv'
  <1>1. \A i \in 1..Len(messageQueue) : messageQueue[i] \in InMessages
    BY DEF TypeOK
  <1>2. \A i \in 1..Len(messageQueue) :
          messageQueue[i].kind \in TaskKinds => messageQueue[i].id \in Tasks
    BY <1>1, MessageIds
  <1>3. /\ Len(messageQueue) \in Nat \ {0}
        /\ Len(messageQueue') = Len(messageQueue) - 1
        /\ m = messageQueue[1]
        /\ \A i \in 1..Len(messageQueue') :
             messageQueue'[i] = messageQueue[i + 1] /\ i + 1 \in 1..Len(messageQueue)
    BY TailElements DEF TypeOK
  <1>4. \A i \in 1..Len(messageQueue') :
          messageQueue'[i].kind \in TaskKinds /\ m.kind \in TaskKinds
            => messageQueue'[i].id # m.id
    BY <1>3 DEF QueueInv
  <1> QED
    BY <1>2, <1>3, <1>4 DEF QueueInv

\* A request is taken out of the queue, wherever it is.
LEMMA QueueRemove ==
  ASSUME TypeOK, QueueInv, NEW r \in InRequests, NEW k \in 1..Len(messageQueue),
         messageQueue[k] = Message("request", r),
         messageQueue' = RemoveAt(messageQueue, k),
         \A t \in Tasks : task[t] = "queued" /\ t # r => task'[t] = "queued"
  PROVE  QueueInv'
  <1>1. \A i \in 1..Len(messageQueue) : messageQueue[i] \in InMessages
    BY DEF TypeOK
  <1>2. \A i \in 1..Len(messageQueue) :
          messageQueue[i].kind \in TaskKinds => messageQueue[i].id \in Tasks
    BY <1>1, MessageIds
  <1> DEFINE old(i) == IF i < k THEN i ELSE i + 1
  <1>3. /\ Len(messageQueue) \in Nat
        /\ Len(messageQueue') = Len(messageQueue) - 1
        /\ \A i \in 1..Len(messageQueue') : messageQueue'[i] = messageQueue[old(i)]
    <2>1. messageQueue \in Seq(InMessages)
      BY DEF TypeOK
    <2>2. /\ Len(messageQueue) \in Nat
          /\ Len(messageQueue') = Len(messageQueue) - 1
          /\ \A i \in 1..(Len(messageQueue) - 1) :
               messageQueue'[i] = IF i < k THEN messageQueue[i]
                                  ELSE messageQueue[i + 1]
      BY <2>1, RemoveAtElements
    <2> QED
      BY <2>2
  <1>4. \A i \in 1..Len(messageQueue') :
          old(i) \in 1..Len(messageQueue) /\ old(i) # k
    BY <1>3
  <1>5. \A i, j \in 1..Len(messageQueue') : old(i) = old(j) => i = j
    BY <1>3
  <1> HIDE DEF old
  <1>6. messageQueue[k].kind \in TaskKinds /\ messageQueue[k].id = r
    BY DEF Message, TaskKinds
  <1>7. \A i \in 1..Len(messageQueue') :
          messageQueue'[i].kind \in TaskKinds => messageQueue'[i].id # r
    BY <1>3, <1>4, <1>6 DEF QueueInv
  <1>8. \A i \in 1..Len(messageQueue') :
          messageQueue'[i].kind \in TaskKinds
            => task'[messageQueue'[i].id] = "queued"
    BY <1>2, <1>3, <1>4, <1>7 DEF QueueInv
  <1>9. \A i, j \in 1..Len(messageQueue') :
          /\ messageQueue'[i].kind \in TaskKinds
          /\ messageQueue'[j].kind \in TaskKinds
          /\ messageQueue'[i].id = messageQueue'[j].id
          => i = j
    BY <1>3, <1>4, <1>5 DEF QueueInv
  <1> QED
    BY <1>8, <1>9 DEF QueueInv

\* An outbox that does not change, while no reply is under way for a request
\* whose status changes.
LEMMA OutboxSame ==
  ASSUME TypeOK, OutboxInv, UNCHANGED outbox,
         \A t \in Tasks : task[t] \in ReplyKinds => task'[t] = task[t]
  PROVE  OutboxInv'
  <1>1. \A i \in 1..Len(outbox) :
          outbox[i] \in OutMessages
    BY DEF TypeOK
  <1>2. \A i \in 1..Len(outbox) :
          outbox[i].kind \in ReplyKinds => outbox[i].id \in Tasks
    BY <1>1 DEF OutMessages, ReplyKinds, Tasks
  <1> QED
    BY <1>2 DEF OutboxInv

\* A message that is not a reply is handed to the writer.
LEMMA OutboxAppendOther ==
  ASSUME TypeOK, OutboxInv, NEW m \in OutMessages, m.kind \notin ReplyKinds,
         outbox' = Append(outbox, m),
         \A t \in Tasks : task[t] \in ReplyKinds => task'[t] = task[t]
  PROVE  OutboxInv'
  <1>1. \A i \in 1..Len(outbox) : outbox[i] \in OutMessages
    BY DEF TypeOK
  <1>2. \A i \in 1..Len(outbox) :
          outbox[i].kind \in ReplyKinds => outbox[i].id \in Tasks
    BY <1>1 DEF OutMessages, ReplyKinds, Tasks
  <1>3. /\ Len(outbox) \in Nat
        /\ Len(outbox') = Len(outbox) + 1
        /\ \A i \in 1..Len(outbox) : outbox'[i] = outbox[i]
        /\ outbox'[Len(outbox) + 1] = m
    BY AppendElements DEF TypeOK
  <1> QED
    BY <1>2, <1>3 DEF OutboxInv

\* The reply of a request that had none yet is handed to the writer.
LEMMA OutboxAppendReply ==
  ASSUME TypeOK, OutboxInv, NEW r \in InRequests, NEW kind \in ReplyKinds,
         task[r] \notin ReplyKinds,
         outbox' = Append(outbox, Message(kind, r)),
         task' = [task EXCEPT ![r] = kind]
  PROVE  OutboxInv'
  <1>1. \A i \in 1..Len(outbox) : outbox[i] \in OutMessages
    BY DEF TypeOK
  <1>2. \A i \in 1..Len(outbox) :
          outbox[i].kind \in ReplyKinds => outbox[i].id \in Tasks
    BY <1>1 DEF OutMessages, ReplyKinds, Tasks
  <1>3. Message(kind, r) \in OutMessages
    BY DEF Message, OutMessages, ReplyKinds
  <1>4. /\ Len(outbox) \in Nat
        /\ Len(outbox') = Len(outbox) + 1
        /\ \A i \in 1..Len(outbox) : outbox'[i] = outbox[i]
        /\ outbox'[Len(outbox) + 1] = Message(kind, r)
    BY <1>3, AppendElements DEF TypeOK
  <1>5. \A i \in 1..Len(outbox) : outbox[i].kind \in ReplyKinds => outbox[i].id # r
    BY DEF OutboxInv
  <1>6. Message(kind, r).kind = kind /\ Message(kind, r).id = r
    BY DEF Message
  <1>7. r \in Tasks /\ task'[r] = kind /\ \A t \in Tasks : t # r => task'[t] = task[t]
    BY DEF Tasks, TypeOK
  <1> QED
    BY <1>2, <1>4, <1>5, <1>6, <1>7 DEF OutboxInv

\* The write at the head of the outbox settles.
LEMMA OutboxTail ==
  ASSUME TypeOK, OutboxInv, outbox # <<>>, outbox' = Tail(outbox),
         NEW m, m = Head(outbox),
         \A t \in Tasks : /\ task[t] \in ReplyKinds
                          /\ ~(m.kind \in ReplyKinds /\ m.id = t)
                          => task'[t] = task[t]
  PROVE  OutboxInv'
  <1>1. \A i \in 1..Len(outbox) : outbox[i] \in OutMessages
    BY DEF TypeOK
  <1>2. \A i \in 1..Len(outbox) :
          outbox[i].kind \in ReplyKinds => outbox[i].id \in Tasks
    BY <1>1 DEF OutMessages, ReplyKinds, Tasks
  <1>3. /\ Len(outbox) \in Nat \ {0}
        /\ Len(outbox') = Len(outbox) - 1
        /\ m = outbox[1]
        /\ \A i \in 1..Len(outbox') :
             outbox'[i] = outbox[i + 1] /\ i + 1 \in 1..Len(outbox)
    BY TailElements DEF TypeOK
  <1>4. \A i \in 1..Len(outbox') :
          outbox'[i].kind \in ReplyKinds /\ m.kind \in ReplyKinds
            => outbox'[i].id # m.id
    BY <1>3 DEF OutboxInv
  <1> QED
    BY <1>2, <1>3, <1>4 DEF OutboxInv

\* Nothing starts or lands.
LEMMA FlyingSame ==
  ASSUME InFlightExact, IsFiniteSet(Flying),
         UNCHANGED <<Flying, inFlight>>
  PROVE  InFlightExact' /\ IsFiniteSet(Flying)'
  BY DEF InFlightExact

\* A message is dispatched and stays in flight.
LEMMA FlyingAdd ==
  ASSUME InFlightExact, IsFiniteSet(Flying), inFlight \in Nat,
         NEW t, t \notin Flying, Flying' = Flying \cup {t},
         Admits(inFlight), inFlight' = inFlight + 1
  PROVE  InFlightExact' /\ IsFiniteSet(Flying)'
  <1>1. IsFiniteSet(Flying)' /\ Cardinality(Flying)' = Cardinality(Flying) + 1
    BY FS_AddElement
  <1> QED
    BY <1>1 DEF InFlightExact, Admits

\* A message in flight lands.
LEMMA FlyingRemove ==
  ASSUME InFlightExact, IsFiniteSet(Flying), inFlight \in Nat,
         NEW t, t \in Flying, Flying' = Flying \ {t},
         inFlight' = inFlight - 1
  PROVE  InFlightExact' /\ IsFiniteSet(Flying)' /\ inFlight' \in Nat
  <1>1. /\ IsFiniteSet(Flying)'
        /\ Cardinality(Flying)' = Cardinality(Flying) - 1
        /\ Cardinality(Flying)' \in Nat
    BY FS_RemoveElement, FS_CardinalityType
  <1> QED
    BY <1>1 DEF InFlightExact

\* Steps that leave the queue, the tasks, the outbox and inFlight alone.
LEMMA QuietInd ==
  ASSUME IndInv, TypeOK', UNCHANGED <<messageQueue, inFlight, task, outbox>>
  PROVE  IndInv'
  <1>1. QueueInv'
    BY QueueSame DEF IndInv
  <1>2. OutboxInv'
    BY OutboxSame DEF IndInv
  <1>3. Flying' = Flying
    BY DEF Flying
  <1> QED
    BY <1>1, <1>2, <1>3, FlyingSame DEF IndInv
-----------------------------------------------------------------------------
(* The actions.                                                            *)

LEMMA InitInd == Init => IndInv
  <1> SUFFICES ASSUME Init PROVE IndInv
    OBVIOUS
  <1>1. TypeOK
    <2>1. messageQueue \in Seq(InMessages) /\ outbox \in Seq(OutMessages)
      BY DEF Init
    <2>2. /\ task \in [Tasks -> TaskStatus]
          /\ replies \in [InRequests -> Nat]
          /\ promise \in [OutRequests ->
                            {"unsent", "pending", "resolved", "rejected"}]
          /\ outToken \in [OutRequests -> {"live", "precancelled", "cancelled"}]
      BY DEF Init, TaskStatus
    <2> QED
      BY <2>1, <2>2 DEF Init, TypeOK, ConnectionState
  <1>2. QueueInv /\ OutboxInv
    BY DEF Init, QueueInv, OutboxInv
  <1>3. Flying = {}
    BY DEF Init, Flying
  <1>4. IsFiniteSet(Flying) /\ Cardinality(Flying) = 0
    BY <1>3, FS_EmptySet
  <1>5. InFlightExact
    BY <1>4 DEF Init, InFlightExact
  <1> QED
    BY <1>1, <1>2, <1>4, <1>5 DEF IndInv

LEMMA ReceiveTaskInd ==
  ASSUME IndInv, NEW t \in Tasks, ReceiveTask(t)
  PROVE  IndInv'
  <1> DEFINE m == Message(IF t \in InRequests THEN "request" ELSE "notification", t)
  <1>0. TypeOK /\ QueueInv /\ OutboxInv /\ InFlightExact /\ IsFiniteSet(Flying)
    BY DEF IndInv
  <1>1. m \in InMessages /\ m.kind \in TaskKinds /\ m.id = t
    BY DEF Message, InMessages, TaskKinds, Tasks
  <1>2. messageQueue' = Append(messageQueue, m) /\ messageQueue' \in Seq(InMessages)
    BY <1>0, <1>1, AppendElements DEF ReceiveTask, Enqueue, TypeOK
  <1>3. timer' \in BOOLEAN
    BY <1>0 DEF ReceiveTask, Enqueue, Triggered, TypeOK
  <1>4. TypeOK'
    BY <1>0, <1>2, <1>3 DEF ReceiveTask, TypeOK, TaskStatus, outbound
  <1>5. \A u \in Tasks : u # t => task'[u] = task[u]
    BY <1>0 DEF ReceiveTask, TypeOK
  <1>6. task[t] = "absent" /\ task'[t] = "queued"
    BY <1>0 DEF ReceiveTask, TypeOK
  <1> HIDE DEF m
  <1>7. QueueInv'
    BY <1>0, <1>1, <1>2, <1>5, <1>6, QueueAppend
  <1>8. OutboxInv'
    BY <1>0, <1>5, <1>6, OutboxSame DEF ReceiveTask, ReplyKinds
  <1>9. Flying' = Flying
    BY <1>5, <1>6 DEF Flying
  <1> QED
    BY <1>0, <1>4, <1>7, <1>8, <1>9, FlyingSame DEF IndInv, ReceiveTask

\* A message that is neither a request nor a notification joins the queue.
LEMMA EnqueueOtherInd ==
  ASSUME IndInv, TypeOK', NEW m \in InMessages, m.kind \notin TaskKinds,
         messageQueue' = Append(messageQueue, m),
         UNCHANGED <<inFlight, task, outbox>>
  PROVE  IndInv'
  <1>1. QueueInv'
    BY QueueAppend DEF IndInv
  <1>2. OutboxInv'
    BY OutboxSame DEF IndInv
  <1>3. Flying' = Flying
    BY DEF Flying
  <1> QED
    BY <1>1, <1>2, <1>3, FlyingSame DEF IndInv

LEMMA ReceiveCancelUndispatchedInd ==
  ASSUME IndInv, NEW r \in InRequests, ReceiveCancelUndispatched(r)
  PROVE  IndInv'
  <1>0. TypeOK /\ QueueInv /\ OutboxInv /\ InFlightExact /\ IsFiniteSet(Flying)
    BY DEF IndInv
  <1>1. PICK k \in 1..Len(messageQueue) :
          /\ messageQueue[k] = Message("request", r)
          /\ messageQueue' = RemoveAt(messageQueue, k)
    BY <1>0 DEF ReceiveCancelUndispatched, TypeOK
  <1>2. messageQueue' \in Seq(InMessages)
    <2>1. messageQueue \in Seq(InMessages)
      BY <1>0 DEF TypeOK
    <2> QED
      BY <1>1, <2>1, RemoveAtElements
  <1>3. Message("undispatched", r) \in OutMessages
    BY DEF Message, OutMessages
  <1>4. outbox' = Append(outbox, Message("undispatched", r))
        /\ outbox' \in Seq(OutMessages)
    BY <1>0, <1>3, AppendElements DEF ReceiveCancelUndispatched, Write, TypeOK
  <1>5. timer' \in BOOLEAN
    BY <1>0 DEF ReceiveCancelUndispatched, Triggered, TypeOK
  <1>6. TypeOK'
    BY <1>0, <1>2, <1>4, <1>5
       DEF ReceiveCancelUndispatched, PeerCancels, TypeOK, TaskStatus, outbound
  <1>7. /\ \A u \in Tasks : u # r => task'[u] = task[u]
        /\ task'[r] = "unqueued" /\ r \in Tasks
    BY <1>0 DEF ReceiveCancelUndispatched, TypeOK, Tasks
  <1>8. task[r] = "queued"
    <2>1. messageQueue[k].kind \in TaskKinds /\ messageQueue[k].id = r
      BY <1>1 DEF Message, TaskKinds
    <2> QED
      BY <1>0, <2>1 DEF QueueInv
  <1>9. QueueInv'
    BY <1>0, <1>1, <1>7, QueueRemove
  <1>10. OutboxInv'
    <2>1. Message("undispatched", r).kind \notin ReplyKinds
      BY DEF Message, ReplyKinds
    <2> QED
      BY <1>0, <1>3, <1>4, <1>7, <1>8, <2>1, OutboxAppendOther DEF ReplyKinds
  <1>11. Flying' = Flying
    BY <1>7, <1>8 DEF Flying
  <1> QED
    BY <1>0, <1>6, <1>9, <1>10, <1>11, FlyingSame
       DEF IndInv, ReceiveCancelUndispatched

LEMMA ReceiveCancelRunningInd ==
  ASSUME IndInv, NEW r \in InRequests, ReceiveCancelRunning(r)
  PROVE  IndInv'
  <1>1. TypeOK'
    BY DEF IndInv, ReceiveCancelRunning, PeerCancels, Triggered, TypeOK, outbound
  <1> QED
    BY <1>1, QuietInd DEF ReceiveCancelRunning

LEMMA ReceiveCancelEarlyInd ==
  ASSUME IndInv, NEW r \in InRequests, ReceiveCancelEarly(r)
  PROVE  IndInv'
  <1>1. Message("cancel", r) \in InMessages
        /\ Message("cancel", r).kind \notin TaskKinds
    BY DEF Message, InMessages, TaskKinds
  <1>2. messageQueue' = Append(messageQueue, Message("cancel", r))
        /\ messageQueue' \in Seq(InMessages)
    BY <1>1, AppendElements DEF IndInv, ReceiveCancelEarly, Enqueue, TypeOK
  <1>3. TypeOK'
    BY <1>2 DEF IndInv, ReceiveCancelEarly, PeerCancels, Enqueue, Triggered,
                TypeOK, outbound
  <1> QED
    BY <1>1, <1>2, <1>3, EnqueueOtherInd DEF ReceiveCancelEarly

LEMMA ReceiveQueuedInd ==
  ASSUME IndInv, NEW o \in OutRequests, NEW kind \in {"response", "invalid"},
         ReceiveQueued(kind, o)
  PROVE  IndInv'
  <1>1. Message(kind, o) \in InMessages /\ Message(kind, o).kind \notin TaskKinds
    BY DEF Message, InMessages, TaskKinds
  <1>2. messageQueue' = Append(messageQueue, Message(kind, o))
        /\ messageQueue' \in Seq(InMessages)
    BY <1>1, AppendElements DEF IndInv, ReceiveQueued, Enqueue, TypeOK
  <1>3. TypeOK'
    BY <1>2 DEF IndInv, ReceiveQueued, Enqueue, Triggered, TypeOK
  <1> QED
    BY <1>1, <1>2, <1>3, EnqueueOtherInd DEF ReceiveQueued

\* handleResponse and handleInvalidMessage keep the types of what they touch.
LEMMA ResponseTypes ==
  ASSUME TypeOK, NEW o \in OutRequests, HandleResponse(o) \/ HandleInvalid(o)
  PROVE  /\ promise' \in [OutRequests ->
                            {"unsent", "pending", "resolved", "rejected"}]
         /\ responsePromises' \subseteq OutRequests
  BY DEF TypeOK, HandleResponse, HandleInvalid, Settle

LEMMA ReceiveResponseDirectlyInd ==
  ASSUME IndInv, NEW o \in OutRequests, ReceiveResponseDirectly(o)
  PROVE  IndInv'
  <1>1. TypeOK'
    BY ResponseTypes DEF IndInv, ReceiveResponseDirectly, Triggered, TypeOK
  <1> QED
    BY <1>1, QuietInd DEF ReceiveResponseDirectly

LEMMA TimerIdleInd ==
  ASSUME IndInv, TimerIdle
  PROVE  IndInv'
  <1>1. TypeOK'
    BY DEF IndInv, TimerIdle, TypeOK, outbound
  <1> QED
    BY <1>1, QuietInd DEF TimerIdle

\* What every dispatch does to the queue.
LEMMA TakeEffect ==
  ASSUME IndInv, NEW kind, NEW id, Take(kind, id)
  PROVE  /\ messageQueue # <<>>
         /\ messageQueue' = Tail(messageQueue)
         /\ messageQueue' \in Seq(InMessages)
         /\ Head(messageQueue) = Message(kind, id)
         /\ Head(messageQueue).kind = kind /\ Head(messageQueue).id = id
         /\ Message(kind, id) \in InMessages
         /\ kind \in TaskKinds => task[id] = "queued"
         /\ Admits(inFlight)
  <1>1. messageQueue # <<>> /\ messageQueue' = Tail(messageQueue)
        /\ Head(messageQueue) = Message(kind, id) /\ Admits(inFlight)
    BY DEF Take
  <1>2. /\ messageQueue' \in Seq(InMessages)
        /\ Head(messageQueue) = messageQueue[1]
        /\ messageQueue[1] \in InMessages
        /\ 1 \in 1..Len(messageQueue)
    BY <1>1, TailElements DEF IndInv, TypeOK
  <1>3. Head(messageQueue).kind = kind /\ Head(messageQueue).id = id
    BY <1>1 DEF Message
  <1> QED
    BY <1>1, <1>2, <1>3 DEF IndInv, QueueInv

\* A queued message starts and stays in flight.
LEMMA StartInd ==
  ASSUME IndInv, NEW kind \in TaskKinds, NEW t \in Tasks, Take(kind, t),
         TypeOK', task' = [task EXCEPT ![t] = "running"],
         EndTurn(inFlight + 1), UNCHANGED outbox
  PROVE  IndInv'
  <1>0. TypeOK /\ QueueInv /\ OutboxInv /\ InFlightExact /\ IsFiniteSet(Flying)
    BY DEF IndInv
  <1>1. /\ \A u \in Tasks : u # t => task'[u] = task[u]
        /\ task'[t] = "running" /\ task[t] = "queued"
    BY <1>0, TakeEffect DEF TypeOK
  <1>2. QueueInv'
    BY <1>0, <1>1, TakeEffect, QueueTail
  <1>3. OutboxInv'
    BY <1>0, <1>1, OutboxSame DEF ReplyKinds
  <1>4. Flying' = Flying \cup {t} /\ t \notin Flying
    BY <1>1 DEF Flying
  <1>5. Admits(inFlight) /\ inFlight' = inFlight + 1 /\ inFlight \in Nat
    BY <1>0, TakeEffect DEF EndTurn, TypeOK
  <1> QED
    BY <1>0, <1>2, <1>3, <1>4, <1>5, FlyingAdd DEF IndInv

\* The timer and inFlight after a turn of the dispatcher.
LEMMA EndTurnTypes ==
  ASSUME NEW n \in Nat, EndTurn(n)
  PROVE  timer' \in BOOLEAN /\ inFlight' \in Nat /\ inFlight' = n
  BY DEF EndTurn, Triggered

LEMMA DispatchRequestInd ==
  ASSUME IndInv, NEW r \in InRequests, DispatchRequest(r)
  PROVE  IndInv'
  <1>0. TypeOK /\ inFlight + 1 \in Nat /\ r \in Tasks
    BY DEF IndInv, TypeOK, Tasks
  <1>1. timer' \in BOOLEAN /\ inFlight' \in Nat
    BY <1>0, EndTurnTypes DEF DispatchRequest
  <1>2. messageQueue' \in Seq(InMessages)
    BY TakeEffect DEF DispatchRequest
  <1>3. TypeOK'
    BY <1>0, <1>1, <1>2 DEF DispatchRequest, Take, TypeOK, TaskStatus, outbound
  <1> QED
    BY <1>0, <1>3, StartInd DEF DispatchRequest, TaskKinds

LEMMA DispatchNotificationInd ==
  ASSUME IndInv, NEW n \in Notes, DispatchNotification(n)
  PROVE  IndInv'
  <1>0. TypeOK /\ inFlight + 1 \in Nat /\ n \in Tasks
    BY DEF IndInv, TypeOK, Tasks
  <1>1. timer' \in BOOLEAN /\ inFlight' \in Nat
    BY <1>0, EndTurnTypes DEF DispatchNotification
  <1>2. messageQueue' \in Seq(InMessages)
    BY TakeEffect DEF DispatchNotification
  <1>3. TypeOK'
    BY <1>0, <1>1, <1>2
       DEF DispatchNotification, Take, TypeOK, TaskStatus, outbound
  <1> QED
    BY <1>0, <1>3, StartInd DEF DispatchNotification, TaskKinds

\* A reply handed to the writer is a legal message.
LEMMA ReplyMessage ==
  ASSUME NEW r \in InRequests, NEW kind \in ReplyKinds
  PROVE  /\ Message(kind, r) \in OutMessages
         /\ Message(kind, r).kind = kind /\ Message(kind, r).id = r
  BY DEF Message, OutMessages, ReplyKinds

LEMMA DispatchRefusedInd ==
  ASSUME IndInv, NEW r \in InRequests, DispatchRefused(r)
  PROVE  IndInv'
  <1>0. /\ TypeOK /\ QueueInv /\ OutboxInv /\ InFlightExact /\ IsFiniteSet(Flying)
        /\ inFlight + 1 \in Nat /\ r \in Tasks /\ "error" \in ReplyKinds
    BY DEF IndInv, TypeOK, Tasks, ReplyKinds
  <1>1. timer' \in BOOLEAN /\ inFlight' \in Nat /\ inFlight' = inFlight + 1
    BY <1>0, EndTurnTypes DEF DispatchRefused
  <1>2. Take("request", r)
    BY DEF DispatchRefused
  <1>3. messageQueue' \in Seq(InMessages)
    BY <1>2, TakeEffect
  <1>4. outbox' = Append(outbox, Message("error", r))
        /\ outbox' \in Seq(OutMessages)
    BY <1>0, ReplyMessage, AppendElements DEF DispatchRefused, Write, TypeOK
  <1>5. TypeOK'
    BY <1>0, <1>1, <1>3, <1>4
       DEF DispatchRefused, Take, TypeOK, TaskStatus, outbound
  <1>6. /\ \A u \in Tasks : u # r => task'[u] = task[u]
        /\ task'[r] = "error" /\ task[r] = "queued"
    BY <1>0, <1>2, TakeEffect DEF TypeOK, DispatchRefused, TaskKinds
  <1>7. QueueInv'
    BY <1>0, <1>2, <1>6, TakeEffect, QueueTail DEF TaskKinds
  <1>8. OutboxInv'
    BY <1>0, <1>4, <1>6, OutboxAppendReply DEF DispatchRefused, ReplyKinds
  <1>9. Flying' = Flying \cup {r} /\ r \notin Flying
    BY <1>0, <1>6 DEF Flying
  <1>10. Admits(inFlight) /\ inFlight \in Nat
    BY <1>0, <1>2, TakeEffect DEF TypeOK
  <1> QED
    BY <1>0, <1>1, <1>5, <1>7, <1>8, <1>9, <1>10, FlyingAdd DEF IndInv

\* A message is taken off the queue and done with in the same turn.
LEMMA PassInd ==
  ASSUME IndInv, NEW kind, NEW id, Take(kind, id), TypeOK',
         EndTurn(inFlight), UNCHANGED outbox,
         \A u \in Tasks :
           task'[u] = task[u] \/ (u = id /\ kind \in TaskKinds /\ task'[u] = "dropped")
  PROVE  IndInv'
  <1>0. TypeOK /\ QueueInv /\ OutboxInv /\ InFlightExact /\ IsFiniteSet(Flying)
    BY DEF IndInv
  <1>1. \A u \in Tasks : task'[u] # task[u] =>
          u = id /\ kind \in TaskKinds /\ task[u] = "queued" /\ task'[u] = "dropped"
    BY TakeEffect
  <1>2. QueueInv'
    BY <1>0, <1>1, TakeEffect, QueueTail
  <1>3. OutboxInv'
    BY <1>0, <1>1, OutboxSame DEF ReplyKinds
  <1>4. Flying' = Flying
    BY <1>1 DEF Flying
  <1>5. inFlight' = inFlight
    BY DEF EndTurn
  <1> QED
    BY <1>0, <1>2, <1>3, <1>4, <1>5, FlyingSame DEF IndInv

LEMMA DispatchDroppedInd ==
  ASSUME IndInv, NEW kind \in TaskKinds, NEW t \in Tasks, DispatchDropped(kind, t)
  PROVE  IndInv'
  <1>0. TypeOK /\ inFlight \in Nat
    BY DEF IndInv, TypeOK
  <1>1. timer' \in BOOLEAN /\ inFlight' \in Nat
    BY <1>0, EndTurnTypes DEF DispatchDropped
  <1>2. messageQueue' \in Seq(InMessages)
    BY TakeEffect DEF DispatchDropped
  <1>3. TypeOK'
    BY <1>0, <1>1, <1>2 DEF DispatchDropped, Take, TypeOK, TaskStatus, outbound
  <1>4. \A u \in Tasks : task'[u] = task[u] \/ (u = t /\ task'[u] = "dropped")
    BY <1>0 DEF DispatchDropped, TypeOK
  <1> QED
    BY <1>3, <1>4, PassInd DEF DispatchDropped

LEMMA DispatchCancelInd ==
  ASSUME IndInv, NEW r \in InRequests, DispatchCancel(r)
  PROVE  IndInv'
  <1>0. TypeOK /\ inFlight \in Nat
    BY DEF IndInv, TypeOK
  <1>1. timer' \in BOOLEAN /\ inFlight' \in Nat
    BY <1>0, EndTurnTypes DEF DispatchCancel
  <1>2. messageQueue' \in Seq(InMessages)
    BY TakeEffect DEF DispatchCancel
  <1>3. TypeOK'
    BY <1>0, <1>1, <1>2 DEF DispatchCancel, Take, TypeOK, outbound
  <1> QED
    BY <1>3, PassInd DEF DispatchCancel

LEMMA DispatchResponseInd ==
  ASSUME IndInv, NEW o \in OutRequests, NEW kind \in {"response", "invalid"},
         DispatchResponse(kind, o)
  PROVE  IndInv'
  <1>0. TypeOK /\ inFlight \in Nat
    BY DEF IndInv, TypeOK
  <1>1. timer' \in BOOLEAN /\ inFlight' \in Nat
    BY <1>0, EndTurnTypes DEF DispatchResponse
  <1>2. messageQueue' \in Seq(InMessages)
    BY TakeEffect DEF DispatchResponse
  <1>3. HandleResponse(o) \/ HandleInvalid(o)
    BY DEF DispatchResponse
  <1>4. TypeOK'
    BY <1>0, <1>1, <1>2, <1>3, ResponseTypes DEF DispatchResponse, Take, TypeOK
  <1> QED
    BY <1>4, PassInd DEF DispatchResponse

LEMMA RequestHandledInd ==
  ASSUME IndInv, NEW r \in InRequests, NEW kind \in ReplyKinds,
         RequestHandled(r, kind)
  PROVE  IndInv'
  <1>0. /\ TypeOK /\ QueueInv /\ OutboxInv /\ InFlightExact /\ IsFiniteSet(Flying)
        /\ r \in Tasks
    BY DEF IndInv, Tasks
  <1>1. outbox' = Append(outbox, Message(kind, r)) /\ outbox' \in Seq(OutMessages)
    BY <1>0, ReplyMessage, AppendElements DEF RequestHandled, Write, TypeOK
  <1>2. TypeOK'
    BY <1>0, <1>1 DEF RequestHandled, TypeOK, TaskStatus, outbound, ReplyKinds
  <1>3. /\ \A u \in Tasks : u # r => task'[u] = task[u]
        /\ task'[r] = kind /\ task[r] = "running"
    BY <1>0 DEF TypeOK, RequestHandled
  <1>4. QueueInv'
    BY <1>0, <1>3, QueueSame DEF RequestHandled
  <1>5. OutboxInv'
    BY <1>0, <1>1, <1>3, OutboxAppendReply DEF RequestHandled, ReplyKinds
  <1>6. Flying' = Flying
    BY <1>0, <1>3 DEF Flying, ReplyKinds
  <1> QED
    BY <1>0, <1>2, <1>4, <1>5, <1>6, FlyingSame DEF IndInv, RequestHandled

LEMMA NotificationHandledInd ==
  ASSUME IndInv, NEW n \in Notes, NotificationHandled(n)
  PROVE  IndInv'
  <1>0. /\ TypeOK /\ QueueInv /\ OutboxInv /\ InFlightExact /\ IsFiniteSet(Flying)
        /\ n \in Tasks /\ inFlight \in Nat
    BY DEF IndInv, Tasks, TypeOK
  <1>1. /\ \A u \in Tasks : u # n => task'[u] = task[u]
        /\ task'[n] = "done" /\ task[n] = "running"
    BY <1>0 DEF TypeOK, NotificationHandled
  <1>2. Flying' = Flying \ {n} /\ n \in Flying
    BY <1>0, <1>1 DEF Flying
  <1>3. inFlight' = inFlight - 1
    BY DEF NotificationHandled, Land
  <1>4. InFlightExact' /\ IsFiniteSet(Flying)' /\ inFlight' \in Nat
    BY <1>0, <1>2, <1>3, FlyingRemove
  <1>5. TypeOK'
    BY <1>0, <1>4
       DEF NotificationHandled, Land, Triggered, TypeOK, TaskStatus, outbound
  <1>6. QueueInv'
    BY <1>0, <1>1, QueueSame DEF NotificationHandled
  <1>7. OutboxInv'
    BY <1>0, <1>1, OutboxSame DEF NotificationHandled, ReplyKinds
  <1> QED
    BY <1>4, <1>5, <1>6, <1>7 DEF IndInv

\* What the settlement of a write does to the outbox.
LEMMA SettleEffect ==
  ASSUME IndInv, NEW kind, NEW id, WriteSettles(kind, id)
  PROVE  /\ outbox # <<>>
         /\ Tail(outbox) \in Seq(OutMessages)
         /\ Head(outbox).kind = kind /\ Head(outbox).id = id
         /\ kind \in ReplyKinds => task[id] = kind
  <1>1. outbox # <<>> /\ Head(outbox) = Message(kind, id)
    BY DEF WriteSettles
  <1>2. /\ Tail(outbox) \in Seq(OutMessages)
        /\ Head(outbox) = outbox[1]
        /\ 1 \in 1..Len(outbox)
    BY <1>1, TailElements DEF IndInv, TypeOK
  <1>3. Head(outbox).kind = kind /\ Head(outbox).id = id
    BY <1>1 DEF Message
  <1> QED
    BY <1>1, <1>2, <1>3 DEF IndInv, OutboxInv

LEMMA ReplyWrittenInd ==
  ASSUME IndInv, NEW r \in InRequests, NEW kind \in ReplyKinds,
         ReplyWritten(r, kind)
  PROVE  IndInv'
  <1>0. /\ TypeOK /\ QueueInv /\ OutboxInv /\ InFlightExact /\ IsFiniteSet(Flying)
        /\ r \in Tasks /\ inFlight \in Nat
    BY DEF IndInv, Tasks, TypeOK
  <1>1. WriteSettles(kind, r) /\ outbox' = Tail(outbox)
    BY DEF ReplyWritten
  <1>2. /\ \A u \in Tasks : u # r => task'[u] = task[u]
        /\ task'[r] = "done" /\ task[r] = kind
    BY <1>0, <1>1, SettleEffect DEF TypeOK, ReplyWritten
  <1>3. Flying' = Flying \ {r} /\ r \in Flying
    BY <1>0, <1>2 DEF Flying, ReplyKinds
  <1>4. inFlight' = inFlight - 1
    BY DEF ReplyWritten, Land
  <1>5. InFlightExact' /\ IsFiniteSet(Flying)' /\ inFlight' \in Nat
    BY <1>0, <1>3, <1>4, FlyingRemove
  <1>6. replies' \in [InRequests -> Nat]
    BY <1>0 DEF ReplyWritten, Delivered, TypeOK
  <1>7. TypeOK'
    BY <1>0, <1>1, <1>5, <1>6, SettleEffect
       DEF ReplyWritten, Land, Triggered, TypeOK, TaskStatus, outbound
  <1>8. QueueInv'
    BY <1>0, <1>2, QueueSame DEF ReplyWritten, ReplyKinds
  <1>9. OutboxInv'
    BY <1>0, <1>1, <1>2, SettleEffect, OutboxTail
  <1> QED
    BY <1>5, <1>7, <1>8, <1>9 DEF IndInv

LEMMA ErrorNotWrittenInd ==
  ASSUME IndInv, NEW r \in InRequests, ErrorNotWritten(r)
  PROVE  IndInv'
  <1>0. /\ TypeOK /\ QueueInv /\ OutboxInv /\ InFlightExact /\ IsFiniteSet(Flying)
        /\ r \in Tasks /\ "error" \in ReplyKinds
    BY DEF IndInv, Tasks, ReplyKinds
  <1>1. WriteSettles("error", r) /\ outbox' = Tail(outbox)
    BY DEF ErrorNotWritten
  <1>2. /\ \A u \in Tasks : u # r => task'[u] = task[u]
        /\ task'[r] = "lost" /\ task[r] = "error"
    BY <1>0, <1>1, SettleEffect DEF TypeOK, ErrorNotWritten
  <1>3. Flying' = Flying
    BY <1>0, <1>2 DEF Flying
  <1>4. TypeOK'
    BY <1>0, <1>1, SettleEffect DEF ErrorNotWritten, TypeOK, TaskStatus, outbound
  <1>5. QueueInv'
    BY <1>0, <1>2, QueueSame DEF ErrorNotWritten
  <1>6. OutboxInv'
    BY <1>0, <1>1, <1>2, SettleEffect, OutboxTail
  <1> QED
    BY <1>0, <1>3, <1>4, <1>5, <1>6, FlyingSame DEF IndInv, ErrorNotWritten

\* The failed result leaves the outbox and the InternalError joins it.
LEMMA ResultNotWrittenInd ==
  ASSUME IndInv, NEW r \in InRequests, ResultNotWritten(r)
  PROVE  IndInv'
  <1>0. /\ TypeOK /\ QueueInv /\ OutboxInv /\ InFlightExact /\ IsFiniteSet(Flying)
        /\ r \in Tasks /\ "error" \in ReplyKinds /\ "result" \in ReplyKinds
    BY DEF IndInv, Tasks, ReplyKinds
  <1> DEFINE rest == Tail(outbox)
             n == Len(rest)
  <1>1. WriteSettles("result", r) /\ outbox' = Append(rest, Message("error", r))
    BY DEF ResultNotWritten
  <1>2. /\ \A u \in Tasks : u # r => task'[u] = task[u]
        /\ task'[r] = "error" /\ task[r] = "result"
    BY <1>0, <1>1, SettleEffect DEF TypeOK, ResultNotWritten
  <1>3. Flying' = Flying
    BY <1>0, <1>2 DEF Flying
  <1>4. /\ rest \in Seq(OutMessages)
        /\ n \in Nat /\ Len(outbox) \in Nat \ {0} /\ n = Len(outbox) - 1
        /\ \A i \in 1..n : rest[i] = outbox[i + 1] /\ i + 1 \in 1..Len(outbox)
        /\ outbox[1].kind = "result" /\ outbox[1].id = r
    BY <1>0, <1>1, SettleEffect, TailElements DEF TypeOK
  <1> HIDE DEF rest
  <1>5. /\ Message("error", r) \in OutMessages
        /\ Message("error", r).kind = "error" /\ Message("error", r).id = r
    BY <1>0, ReplyMessage
  <1>6. /\ outbox' \in Seq(OutMessages)
        /\ Len(outbox') = n + 1
        /\ \A i \in 1..n : outbox'[i] = rest[i]
        /\ outbox'[n + 1] = Message("error", r)
    BY <1>1, <1>4, <1>5, AppendElements
  <1>7. TypeOK'
    BY <1>0, <1>6 DEF ResultNotWritten, TypeOK, TaskStatus, outbound
  <1>8. QueueInv'
    BY <1>0, <1>2, QueueSame DEF ResultNotWritten
  <1>9. \A i \in 1..n : /\ outbox[i + 1] \in OutMessages
                        /\ outbox[i + 1].kind \in ReplyKinds =>
                             outbox[i + 1].id \in Tasks \ {r}
    <2>1. \A i \in 1..n : outbox[i + 1] \in OutMessages
      BY <1>0, <1>4 DEF TypeOK
    <2>2. \A i \in 1..n : outbox[i + 1].kind \in ReplyKinds
                            => outbox[i + 1].id \in Tasks
      BY <2>1 DEF OutMessages, ReplyKinds, Tasks
    <2>3. \A i \in 1..n : outbox[i + 1].kind \in ReplyKinds
                            => outbox[i + 1].id # r
      BY <1>0, <1>4 DEF OutboxInv
    <2> QED
      BY <2>1, <2>2, <2>3
  <1>10. OutboxInv'
    <2>1. \A i \in 1..Len(outbox') :
            outbox'[i].kind \in ReplyKinds => task'[outbox'[i].id] = outbox'[i].kind
      <3>1. ASSUME NEW i \in 1..Len(outbox'), outbox'[i].kind \in ReplyKinds
            PROVE  task'[outbox'[i].id] = outbox'[i].kind
        <4>1. CASE i = n + 1
          BY <1>2, <1>5, <1>6, <4>1
        <4>2. CASE i # n + 1
          <5>1. i \in 1..n
            BY <1>4, <1>6, <4>2
          <5>2. outbox'[i] = outbox[i + 1] /\ i + 1 \in 1..Len(outbox)
            BY <1>4, <1>6, <5>1
          <5>3. outbox[i + 1].id \in Tasks \ {r}
            BY <1>9, <3>1, <5>1, <5>2
          <5> QED
            BY <1>0, <1>2, <3>1, <5>2, <5>3 DEF OutboxInv
        <4> QED
          BY <4>1, <4>2
      <3> QED
        BY <3>1
    <2>2. \A i, j \in 1..Len(outbox') :
            /\ outbox'[i].kind \in ReplyKinds
            /\ outbox'[j].kind \in ReplyKinds
            /\ outbox'[i].id = outbox'[j].id
            => i = j
      BY <1>0, <1>4, <1>5, <1>6, <1>9 DEF OutboxInv
    <2> QED
      BY <2>1, <2>2 DEF OutboxInv
  <1> QED
    BY <1>0, <1>3, <1>7, <1>8, <1>10, FlyingSame DEF IndInv, ResultNotWritten

\* A write that is not a reply settles, and nothing else is written.
LEMMA OtherSettles ==
  ASSUME IndInv, TypeOK', NEW kind, NEW id, kind \notin ReplyKinds,
         WriteSettles(kind, id), outbox' = Tail(outbox),
         UNCHANGED <<messageQueue, inFlight, task>>
  PROVE  IndInv'
  <1>0. TypeOK /\ QueueInv /\ OutboxInv /\ InFlightExact /\ IsFiniteSet(Flying)
    BY DEF IndInv
  <1>1. QueueInv'
    BY <1>0, QueueSame
  <1>2. OutboxInv'
    BY <1>0, SettleEffect, OutboxTail
  <1>3. Flying' = Flying
    BY DEF Flying
  <1> QED
    BY <1>0, <1>1, <1>2, <1>3, FlyingSame DEF IndInv

\* A message that is not a reply is written, and nothing else changes.
LEMMA OtherWritten ==
  ASSUME IndInv, TypeOK', NEW m \in OutMessages, m.kind \notin ReplyKinds,
         outbox' = Append(outbox, m), UNCHANGED <<messageQueue, inFlight, task>>
  PROVE  IndInv'
  <1>0. TypeOK /\ QueueInv /\ OutboxInv /\ InFlightExact /\ IsFiniteSet(Flying)
    BY DEF IndInv
  <1>1. QueueInv'
    BY <1>0, QueueSame
  <1>2. OutboxInv'
    BY <1>0, OutboxAppendOther
  <1>3. Flying' = Flying
    BY DEF Flying
  <1> QED
    BY <1>0, <1>1, <1>2, <1>3, FlyingSame DEF IndInv

LEMMA UndispatchedWrittenInd ==
  ASSUME IndInv, NEW r \in InRequests, UndispatchedWritten(r)
  PROVE  IndInv'
  <1>1. replies' \in [InRequests -> Nat]
    BY DEF IndInv, TypeOK, UndispatchedWritten, Delivered
  <1>2. TypeOK'
    BY <1>1, SettleEffect DEF IndInv, UndispatchedWritten, TypeOK, outbound
  <1> QED
    BY <1>2, OtherSettles DEF UndispatchedWritten, ReplyKinds

LEMMA CancelWrittenInd ==
  ASSUME IndInv, NEW o \in OutRequests, CancelWritten(o)
  PROVE  IndInv'
  <1>1. TypeOK'
    BY SettleEffect DEF IndInv, CancelWritten, TypeOK, inbound, outbound
  <1> QED
    BY <1>1, OtherSettles DEF CancelWritten, ReplyKinds, inbound

LEMMA RequestNotWrittenInd ==
  ASSUME IndInv, NEW o \in OutRequests, RequestNotWritten(o)
  PROVE  IndInv'
  <1>1. promise' \in [OutRequests ->
                        {"unsent", "pending", "resolved", "rejected"}]
    BY DEF IndInv, TypeOK, RequestNotWritten, Settle
  <1>2. TypeOK'
    BY <1>1, SettleEffect DEF IndInv, RequestNotWritten, TypeOK, inbound
  <1> QED
    BY <1>2, OtherSettles DEF RequestNotWritten, ReplyKinds, inbound

\* The written request leaves the outbox; a $/cancelRequest may join it.
LEMMA RequestWrittenInd ==
  ASSUME IndInv, NEW o \in OutRequests, RequestWritten(o)
  PROVE  IndInv'
  <1>0. /\ TypeOK /\ QueueInv /\ OutboxInv /\ InFlightExact /\ IsFiniteSet(Flying)
        /\ WriteSettles("request", o)
    BY DEF IndInv, RequestWritten
  <1> DEFINE rest == Tail(outbox)
             n == Len(rest)
             m == Message("cancel", o)
  <1>1. m \in OutMessages /\ m.kind \notin ReplyKinds
    BY DEF Message, OutMessages, ReplyKinds
  <1>2. rest \in Seq(OutMessages)
    BY <1>0, SettleEffect
  <1>3. outbox' = rest \/ outbox' = Append(rest, m)
    BY DEF RequestWritten
  <1>4. outbox' \in Seq(OutMessages)
    BY <1>1, <1>2, <1>3, AppendElements
  <1>5. promise' \in [OutRequests ->
                        {"unsent", "pending", "resolved", "rejected"}]
    BY <1>0 DEF TypeOK, RequestWritten, Settle
  <1>6. TypeOK'
    BY <1>0, <1>4, <1>5 DEF RequestWritten, TypeOK, inbound
  <1>7. UNCHANGED <<messageQueue, inFlight, task>>
    BY DEF RequestWritten, inbound
  <1>8. CASE outbox' = rest
    BY <1>0, <1>6, <1>7, <1>8, OtherSettles DEF ReplyKinds
  <1>9. CASE outbox' = Append(rest, m)
    <2>1. /\ n \in Nat /\ Len(outbox) \in Nat \ {0} /\ n = Len(outbox) - 1
          /\ \A i \in 1..n : rest[i] = outbox[i + 1] /\ i + 1 \in 1..Len(outbox)
      BY <1>0, SettleEffect, TailElements DEF TypeOK
    <2> HIDE DEF rest, m
    <2>2. /\ Len(outbox') = n + 1
          /\ \A i \in 1..n : outbox'[i] = rest[i]
          /\ outbox'[n + 1] = m
      BY <1>1, <1>2, <1>9, AppendElements
    <2>3. OutboxInv'
      <3>1. \A i \in 1..n : outbox'[i] = outbox[i + 1] /\ i + 1 \in 1..Len(outbox)
        BY <2>1, <2>2
      <3>2. \A i \in 1..Len(outbox') : outbox'[i].kind \in ReplyKinds => i \in 1..n
        BY <1>1, <2>1, <2>2
      <3>3. \A i \in 1..Len(outbox') :
              outbox'[i].kind \in ReplyKinds
                => task'[outbox'[i].id] = outbox'[i].kind
        BY <1>0, <1>7, <3>1, <3>2 DEF OutboxInv
      <3>4. \A i, j \in 1..Len(outbox') :
              /\ outbox'[i].kind \in ReplyKinds
              /\ outbox'[j].kind \in ReplyKinds
              /\ outbox'[i].id = outbox'[j].id
              => i = j
        <4> SUFFICES ASSUME NEW i \in 1..Len(outbox'), NEW j \in 1..Len(outbox'),
                            outbox'[i].kind \in ReplyKinds,
                            outbox'[j].kind \in ReplyKinds,
                            outbox'[i].id = outbox'[j].id
                     PROVE  i = j
          OBVIOUS
        <4>1. i \in 1..n /\ j \in 1..n
          BY <3>2
        <4>2. i + 1 = j + 1
          BY <1>0, <3>1, <4>1 DEF OutboxInv
        <4> QED
          BY <2>1, <4>1, <4>2
      <3> QED
        BY <3>3, <3>4 DEF OutboxInv
    <2>4. QueueInv'
      BY <1>0, <1>7, QueueSame
    <2>5. Flying' = Flying
      BY <1>7 DEF Flying
    <2> QED
      BY <1>0, <1>6, <1>7, <2>3, <2>4, <2>5, FlyingSame DEF IndInv
  <1> QED
    BY <1>3, <1>8, <1>9

LEMMA SendRequestInd ==
  ASSUME IndInv, NEW o \in OutRequests, SendRequest(o)
  PROVE  IndInv'
  <1>1. /\ Message("request", o) \in OutMessages
        /\ Message("request", o).kind \notin ReplyKinds
    BY DEF Message, OutMessages, ReplyKinds
  <1>2. outbox' = Append(outbox, Message("request", o))
        /\ outbox' \in Seq(OutMessages)
    BY <1>1, AppendElements DEF IndInv, TypeOK, SendRequest, Write
  <1>3. promise' \in [OutRequests ->
                        {"unsent", "pending", "resolved", "rejected"}]
    BY DEF IndInv, TypeOK, SendRequest
  <1>4. TypeOK'
    BY <1>2, <1>3 DEF IndInv, SendRequest, TypeOK, inbound
  <1> QED
    BY <1>1, <1>2, <1>4, OtherWritten DEF SendRequest, inbound

LEMMA CancelPendingInd ==
  ASSUME IndInv, NEW o \in OutRequests, CancelPending(o)
  PROVE  IndInv'
  <1>1. /\ Message("cancel", o) \in OutMessages
        /\ Message("cancel", o).kind \notin ReplyKinds
    BY DEF Message, OutMessages, ReplyKinds
  <1>2. outToken' \in [OutRequests -> {"live", "precancelled", "cancelled"}]
    BY DEF IndInv, TypeOK, CancelPending
  <1>3. CASE CanSend
    <2>0. outbox' = Append(outbox, Message("cancel", o))
      BY <1>3 DEF CancelPending, Write
    <2>1. outbox' \in Seq(OutMessages)
      BY <1>1, <2>0, AppendElements DEF IndInv, TypeOK
    <2>2. TypeOK'
      BY <1>2, <2>1 DEF IndInv, CancelPending, TypeOK, inbound
    <2> QED
      BY <1>1, <2>0, <2>2, OtherWritten DEF CancelPending, inbound
  <1>4. CASE ~CanSend
    <2>1. TypeOK'
      BY <1>2, <1>4 DEF IndInv, CancelPending, TypeOK, inbound
    <2> QED
      BY <1>4, <2>1, QuietInd DEF CancelPending, inbound
  <1> QED
    BY <1>3, <1>4

LEMMA ListenInd ==
  ASSUME IndInv, Listen
  PROVE  IndInv'
  <1>1. TypeOK'
    BY DEF IndInv, Listen, TypeOK, ConnectionState, inbound, outbound
  <1> QED
    BY <1>1, QuietInd DEF Listen, inbound

LEMMA CloseInd ==
  ASSUME IndInv, Close
  PROVE  IndInv'
  <1>1. TypeOK'
    BY DEF IndInv, Close, TypeOK, ConnectionState, inbound, outbound
  <1> QED
    BY <1>1, QuietInd DEF Close, inbound

LEMMA CancelBeforeInd ==
  ASSUME IndInv, NEW o \in OutRequests, CancelBefore(o)
  PROVE  IndInv'
  <1>1. outToken' \in [OutRequests -> {"live", "precancelled", "cancelled"}]
    BY DEF IndInv, TypeOK, CancelBefore
  <1>2. TypeOK'
    BY <1>1 DEF IndInv, CancelBefore, TypeOK, inbound
  <1> QED
    BY <1>2, QuietInd DEF CancelBefore, inbound

\* dispose empties the queue; the handlers in flight stay in flight.
LEMMA DisposeInd ==
  ASSUME IndInv, Dispose
  PROVE  IndInv'
  <1>0. TypeOK /\ QueueInv /\ OutboxInv /\ InFlightExact /\ IsFiniteSet(Flying)
    BY DEF IndInv
  <1>1. \A t \in Tasks : \/ task'[t] = task[t]
                         \/ task[t] = "queued" /\ task'[t] = "dropped"
    BY DEF Dispose
  <1>2. messageQueue' \in Seq(InMessages) /\ Len(messageQueue') = 0
    BY DEF Dispose
  <1>3. /\ task' \in [Tasks -> TaskStatus]
        /\ promise' \in [OutRequests ->
                           {"unsent", "pending", "resolved", "rejected"}]
    BY <1>0 DEF Dispose, TypeOK, TaskStatus
  <1>4. TypeOK'
    BY <1>0, <1>2, <1>3 DEF Dispose, TypeOK, ConnectionState
  <1>5. QueueInv'
    BY <1>2 DEF QueueInv
  <1>6. OutboxInv'
    BY <1>0, <1>1, OutboxSame DEF Dispose, ReplyKinds
  <1>7. Flying' = Flying
    BY <1>1 DEF Flying
  <1> QED
    BY <1>0, <1>4, <1>5, <1>6, <1>7, FlyingSame DEF IndInv, Dispose

\* Every callback preserves the invariant.
LEMMA NextInd == IndInv /\ [Next]_vars => IndInv'
  <1> SUFFICES ASSUME IndInv, [Next]_vars PROVE IndInv'
    OBVIOUS
  <1>1. CASE UNCHANGED vars
    <2>1. TypeOK'
      BY <1>1 DEF IndInv, TypeOK, vars, inbound, outbound
    <2> QED
      BY <1>1, <2>1, QuietInd DEF vars, inbound
  <1>2. CASE Receive
    BY <1>2, ReceiveTaskInd, ReceiveCancelUndispatchedInd,
       ReceiveCancelRunningInd, ReceiveCancelEarlyInd, ReceiveQueuedInd,
       ReceiveResponseDirectlyInd DEF Receive
  <1>3. CASE Dispatch
    <2>1. ASSUME NEW r \in InRequests, DispatchDropped("request", r)
          PROVE  IndInv'
      BY <2>1, DispatchDroppedInd DEF TaskKinds, Tasks
    <2>2. ASSUME NEW n \in Notes, DispatchDropped("notification", n)
          PROVE  IndInv'
      BY <2>2, DispatchDroppedInd DEF TaskKinds, Tasks
    <2> QED
      BY <1>3, <2>1, <2>2, TimerIdleInd, DispatchRequestInd,
         DispatchRefusedInd, DispatchCancelInd, DispatchNotificationInd,
         DispatchResponseInd DEF Dispatch
  <1>4. CASE Handlers
    BY <1>4, RequestHandledInd, NotificationHandledInd DEF Handlers, ReplyKinds
  <1>5. CASE Writer
    BY <1>5, ReplyWrittenInd, ResultNotWrittenInd, ErrorNotWrittenInd,
       UndispatchedWrittenInd, RequestWrittenInd, RequestNotWrittenInd,
       CancelWrittenInd DEF Writer, ReplyKinds
  <1>6. CASE Owner
    BY <1>6, ListenInd, CloseInd, DisposeInd, SendRequestInd, CancelBeforeInd,
       CancelPendingInd DEF Owner
  <1> QED
    BY <1>1, <1>2, <1>3, <1>4, <1>5, <1>6 DEF Next
-----------------------------------------------------------------------------
(* The theorems.                                                           *)

\* The inductive invariant holds in every reachable state.
LEMMA IndInvInvariant == Spec => []IndInv
  BY InitInd, NextInd, PTL DEF Spec

\* The state of createMessageConnection keeps its types; inFlight in
\* particular never drops below zero.
THEOREM TypeCorrect == Spec => []TypeOK
  <1>1. IndInv => TypeOK
    BY DEF IndInv
  <1> QED
    BY IndInvInvariant, <1>1, PTL

\* inFlight counts exactly the handlers in progress and the requests whose
\* error reply was lost, and never exceeds maxParallelism.
THEOREM InFlightExactHolds == Spec => []InFlightExact
  <1>1. IndInv => InFlightExact
    BY DEF IndInv
  <1> QED
    BY IndInvInvariant, <1>1, PTL

\* Every path of the dispatcher that queues a message or frees a slot leaves a
\* timer behind whenever a message could be dispatched.
LEMMA NoLostWakeupStep == NoLostWakeup /\ [Next]_vars => NoLostWakeup'
  <1> SUFFICES ASSUME NoLostWakeup, [Next]_vars PROVE NoLostWakeup'
    OBVIOUS
  <1> USE DEF NoLostWakeup, Admits, Triggered
  <1>1. CASE UNCHANGED vars
    BY <1>1 DEF vars, inbound
  <1>2. CASE Receive
    BY <1>2 DEF Receive, ReceiveTask, ReceiveCancelUndispatched,
                ReceiveCancelRunning, ReceiveCancelEarly, ReceiveQueued,
                ReceiveResponseDirectly, Enqueue
  <1>3. CASE Dispatch
    BY <1>3 DEF Dispatch, TimerIdle, DispatchRequest, DispatchRefused,
                DispatchDropped, DispatchCancel, DispatchNotification,
                DispatchResponse, EndTurn
  <1>4. CASE Handlers
    BY <1>4 DEF Handlers, RequestHandled, NotificationHandled, Land
  <1>5. CASE Writer
    BY <1>5 DEF Writer, ReplyWritten, ResultNotWritten, ErrorNotWritten,
                UndispatchedWritten, RequestWritten, RequestNotWritten,
                CancelWritten, Land, inbound
  <1>6. CASE Owner
    BY <1>6 DEF Owner, Listen, Close, Dispose, SendRequest, CancelBefore,
                CancelPending, inbound
  <1> QED
    BY <1>1, <1>2, <1>3, <1>4, <1>5, <1>6 DEF Next

\* A message that could be dispatched always has a timer coming, whatever the
\* limit: the dispatcher of connection.ts never stalls with work to do.
THEOREM NoLostWakeupHolds == Spec => []NoLostWakeup
  <1>1. Init => NoLostWakeup
    BY DEF Init, NoLostWakeup
  <1> QED
    BY <1>1, NoLostWakeupStep, PTL DEF Spec

\* A step keeps every pending promise within reach.
LEMMA NoOrphanPromiseStep ==
  TypeOK /\ NoOrphanPromise /\ [Next]_vars => NoOrphanPromise'
  <1> SUFFICES ASSUME TypeOK, NoOrphanPromise, [Next]_vars
               PROVE  NoOrphanPromise'
    OBVIOUS
  <1> USE DEF NoOrphanPromise, isDisposed
  <1>0. promise \in [OutRequests ->
                       {"unsent", "pending", "resolved", "rejected"}]
    BY DEF TypeOK
  <1>1. CASE UNCHANGED vars
    BY <1>1 DEF vars, outbound
  <1>2. CASE Receive
    BY <1>0, <1>2
       DEF Receive, ReceiveTask, ReceiveCancelUndispatched, PeerCancels,
           ReceiveCancelRunning, ReceiveCancelEarly, ReceiveQueued,
           ReceiveResponseDirectly, HandleResponse, Settle, outbound
  <1>3. CASE Dispatch
    BY <1>0, <1>3
       DEF Dispatch, TimerIdle, Take, DispatchRequest, DispatchRefused,
           DispatchDropped, DispatchCancel, DispatchNotification,
           DispatchResponse, HandleResponse, HandleInvalid, Settle, outbound
  <1>4. CASE Handlers
    BY <1>4 DEF Handlers, RequestHandled, NotificationHandled, outbound
  <1>5. CASE Writer
    BY <1>0, <1>5
       DEF Writer, ReplyWritten, ResultNotWritten, ErrorNotWritten,
           UndispatchedWritten, RequestWritten, RequestNotWritten,
           CancelWritten, CanSend, Settle, outbound
  <1>6. CASE Owner
    BY <1>0, <1>6
       DEF Owner, Listen, Close, Dispose, SendRequest, CancelBefore,
           CancelPending, outbound
  <1> QED
    BY <1>1, <1>2, <1>3, <1>4, <1>5, <1>6 DEF Next

\* A pending sendRequest promise can always be settled by a response, a write
\* failure or dispose, and none survives dispose.
THEOREM NoOrphanPromiseHolds == Spec => []NoOrphanPromise
  <1>1. Init => NoOrphanPromise
    BY DEF Init, NoOrphanPromise, isDisposed
  <1> QED
    BY <1>1, TypeCorrect, NoOrphanPromiseStep, PTL DEF Spec

-----------------------------------------------------------------------------
(***************************************************************************)
(* $/cancelRequest in both directions and the number of responses a        *)
(* request gets.                                                           *)
(***************************************************************************)

\* A request gets its response while it is "done" or "unqueued" at the
\* latest, and the one cancelUndispatched gave for it is written once.
RepliesInv ==
  /\ \A r \in InRequests : replies[r] # 0 => /\ replies[r] = 1
                                             /\ task[r] \in {"done", "unqueued"}
  /\ \A r \in InRequests, i \in 1..Len(outbox) :
       outbox[i] = Message("undispatched", r)
         => task[r] = "unqueued" /\ replies[r] = 0
  /\ \A r \in InRequests, i, j \in 1..Len(outbox) :
       /\ outbox[i] = Message("undispatched", r)
       /\ outbox[j] = Message("undispatched", r)
       => i = j

\* What is in the outbox about a request of this end has been sent, and its
\* cancellation is behind it.
SentInv ==
  \A o \in OutRequests, i \in 1..Len(outbox) :
    /\ outbox[i] \in {Message("request", o), Message("cancel", o)}
         => promise[o] # "unsent"
    /\ outbox[i] = Message("cancel", o)
         => \A j \in 1..Len(outbox) : outbox[j] = Message("request", o) => j < i

\* A queued $/cancelRequest was received, is the only one for its request, and
\* is behind that request; a request that waits for its turn is in the queue.
CancelQueueInv ==
  /\ \A r \in InRequests, i \in 1..Len(messageQueue) :
       messageQueue[i] = Message("cancel", r)
         => /\ r \in cancelArrived
            /\ \A j \in 1..Len(messageQueue) :
                 /\ messageQueue[j] = Message("cancel", r) => j = i
                 /\ messageQueue[j] = Message("request", r) => j < i
  /\ \A r \in InRequests :
       task[r] = "queued" =>
         \E i \in 1..Len(messageQueue) : messageQueue[i] = Message("request", r)
  /\ \A r \in cancelArrived : task[r] # "absent"

\* Until the connection is disposed of, the queued cancellations are the
\* remembered ones, and they include those of the requests still queued.
RememberedInv ==
  ~isDisposed =>
    /\ \A r \in InRequests :
         r \in knownCanceledRequests <=>
           \E i \in 1..Len(messageQueue) : messageQueue[i] = Message("cancel", r)
    /\ \A r \in cancelArrived :
         task[r] = "queued" => r \in knownCanceledRequests

CancelInv == /\ IndInv
             /\ RepliesInv
             /\ SentInv
             /\ CancelQueueInv
             /\ RememberedInv
             /\ TokensMatch
             /\ CancelReachesHandler
-----------------------------------------------------------------------------
(* What the changes of the queue and of the outbox do to their elements.   *)

\* A message is its kind and its id.
LEMMA MessageDistinct ==
  \A k1, i1, k2, i2 : Message(k1, i1) = Message(k2, i2) <=> k1 = k2 /\ i1 = i2
  BY DEF Message

\* A message appended to the queue is the only new one, at the last place.
LEMMA QueueGrowth ==
  ASSUME TypeOK, NEW m \in InMessages, messageQueue' = Append(messageQueue, m)
  PROVE  /\ Len(messageQueue) \in Nat
         /\ Len(messageQueue') = Len(messageQueue) + 1
         /\ \A i \in 1..Len(messageQueue) : messageQueue'[i] = messageQueue[i]
         /\ messageQueue'[Len(messageQueue) + 1] = m
  BY AppendElements DEF TypeOK

\* The place in a queue of the i-th message of what is left without the k-th.
Old(k, i) == IF i < k THEN i ELSE i + 1

\* Removing one message from the queue keeps the others, in their order.
LEMMA QueueShrink ==
  ASSUME TypeOK, NEW k \in 1..Len(messageQueue),
         \/ messageQueue' = RemoveAt(messageQueue, k)
         \/ k = 1 /\ messageQueue' = Tail(messageQueue)
  PROVE  /\ Len(messageQueue) \in Nat
         /\ Len(messageQueue') = Len(messageQueue) - 1
         /\ \A i \in 1..Len(messageQueue') :
              /\ Old(k, i) \in 1..Len(messageQueue) \ {k}
              /\ messageQueue'[i] = messageQueue[Old(k, i)]
         /\ \A j \in 1..Len(messageQueue) :
              j # k => \E i \in 1..Len(messageQueue') : Old(k, i) = j
         /\ \A i, j \in 1..Len(messageQueue') :
              /\ Old(k, i) = Old(k, j) => i = j
              /\ Old(k, i) < Old(k, j) => i < j
  <1>1. messageQueue \in Seq(InMessages)
    BY DEF TypeOK
  <1>2. /\ Len(messageQueue) \in Nat
        /\ Len(messageQueue') = Len(messageQueue) - 1
        /\ \A i \in 1..(Len(messageQueue) - 1) :
             messageQueue'[i] = messageQueue[Old(k, i)]
    <2>1. CASE messageQueue' = RemoveAt(messageQueue, k)
      BY <1>1, <2>1, RemoveAtElements DEF Old
    <2>2. CASE k = 1 /\ messageQueue' = Tail(messageQueue)
      <3>1. messageQueue # <<>>
        BY <1>1
      <3> QED
        BY <1>1, <2>2, <3>1, TailElements DEF Old
    <2> QED
      BY <2>1, <2>2
  <1>3. ASSUME NEW j \in 1..Len(messageQueue), j # k
        PROVE  \E i \in 1..Len(messageQueue') : Old(k, i) = j
    <2> DEFINE i == IF j < k THEN j ELSE j - 1
    <2>1. i \in 1..Len(messageQueue') /\ Old(k, i) = j
      BY <1>2, <1>3 DEF Old
    <2> QED
      BY <2>1
  <1>4. \A i \in 1..Len(messageQueue') : Old(k, i) \in 1..Len(messageQueue) \ {k}
    BY <1>2 DEF Old
  <1>5. \A i, j \in 1..Len(messageQueue') :
          /\ Old(k, i) = Old(k, j) => i = j
          /\ Old(k, i) < Old(k, j) => i < j
    BY <1>2 DEF Old
  <1> QED
    BY <1>2, <1>3, <1>4, <1>5

\* A message appended to the outbox is the only new one, at the last place.
LEMMA OutboxGrowth ==
  ASSUME TypeOK, NEW m \in OutMessages, outbox' = Append(outbox, m)
  PROVE  /\ Len(outbox) \in Nat
         /\ Len(outbox') = Len(outbox) + 1
         /\ \A i \in 1..Len(outbox) : outbox'[i] = outbox[i]
         /\ outbox'[Len(outbox) + 1] = m
  BY AppendElements DEF TypeOK

\* The write that settles leaves the outbox; the others move up by one.
LEMMA OutboxShrink ==
  ASSUME TypeOK, outbox # <<>>, outbox' = Tail(outbox)
  PROVE  /\ Len(outbox) \in Nat \ {0}
         /\ Len(outbox') = Len(outbox) - 1
         /\ Head(outbox) = outbox[1]
         /\ \A i \in 1..Len(outbox') :
              i + 1 \in 1..Len(outbox) /\ outbox'[i] = outbox[i + 1]
  BY TailElements DEF TypeOK

\* The head of the outbox is replaced by a message at its end.
LEMMA OutboxShift ==
  ASSUME TypeOK, outbox # <<>>, NEW m \in OutMessages,
         outbox' = Append(Tail(outbox), m)
  PROVE  /\ Len(outbox) \in Nat \ {0}
         /\ Len(outbox') = Len(outbox)
         /\ Head(outbox) = outbox[1]
         /\ \A i \in 1..(Len(outbox) - 1) :
              i + 1 \in 1..Len(outbox) /\ outbox'[i] = outbox[i + 1]
         /\ outbox'[Len(outbox)] = m
  <1> DEFINE rest == Tail(outbox)
  <1>1. /\ rest \in Seq(OutMessages)
        /\ Len(outbox) \in Nat \ {0} /\ Head(outbox) = outbox[1]
        /\ Len(rest) = Len(outbox) - 1
        /\ \A i \in 1..Len(rest) : rest[i] = outbox[i + 1]
    BY TailElements DEF TypeOK
  <1> HIDE DEF rest
  <1>2. /\ Len(outbox') = Len(rest) + 1
        /\ \A i \in 1..Len(rest) : outbox'[i] = rest[i]
        /\ outbox'[Len(rest) + 1] = m
    BY <1>1, AppendElements DEF rest
  <1> QED
    BY <1>1, <1>2
-----------------------------------------------------------------------------
(* Responses: RepliesInv.                                                  *)

\* What is settled for a request stays settled.
Steady == \A r \in InRequests :
            task[r] \in {"done", "unqueued"} => task'[r] = task[r]

\* The undispatched responses in the outbox move up by d places, none joins
\* them, and the only response delivered is the reply that was being written.
LEMMA RepliesShift ==
  ASSUME RepliesInv, Steady, NEW d \in {0, 1},
         \A i \in 1..Len(outbox'), r \in InRequests :
           outbox'[i] = Message("undispatched", r)
             => /\ i + d \in 1..Len(outbox)
                /\ outbox[i + d] = Message("undispatched", r),
         \A r \in InRequests :
           \/ replies'[r] = replies[r]
           \/ task[r] \in ReplyKinds /\ task'[r] = "done" /\ replies'[r] = 1
  PROVE  RepliesInv'
  <1>1. \A r \in InRequests : replies'[r] # 0 => /\ replies'[r] = 1
                                                 /\ task'[r] \in {"done", "unqueued"}
    BY DEF RepliesInv, Steady
  <1>2. \A r \in InRequests, i \in 1..Len(outbox') :
          outbox'[i] = Message("undispatched", r)
            => task'[r] = "unqueued" /\ replies'[r] = 0
    BY DEF RepliesInv, Steady, ReplyKinds
  <1>3. \A r \in InRequests, i, j \in 1..Len(outbox') :
          /\ outbox'[i] = Message("undispatched", r)
          /\ outbox'[j] = Message("undispatched", r)
          => i = j
    <2> SUFFICES ASSUME NEW r \in InRequests,
                        NEW i \in 1..Len(outbox'), NEW j \in 1..Len(outbox'),
                        outbox'[i] = Message("undispatched", r),
                        outbox'[j] = Message("undispatched", r)
                 PROVE  i = j
      OBVIOUS
    <2>1. i + d = j + d
      BY DEF RepliesInv
    <2> QED
      BY <2>1
  <1> QED
    BY <1>1, <1>2, <1>3 DEF RepliesInv

\* Steps that write nothing and deliver nothing.
LEMMA RepliesQuiet ==
  ASSUME IndInv, RepliesInv, Steady, UNCHANGED <<outbox, replies>>
  PROVE  RepliesInv'
  <1>1. \A i \in 1..Len(outbox) : i + 0 = i
    OBVIOUS
  <1> QED
    BY <1>1, RepliesShift

\* Steps that write something else, and deliver nothing.
LEMMA RepliesGrow ==
  ASSUME IndInv, RepliesInv, Steady, NEW m \in OutMessages,
         \A r \in InRequests : m # Message("undispatched", r),
         outbox' = Append(outbox, m), UNCHANGED replies
  PROVE  RepliesInv'
  <1>1. /\ Len(outbox) \in Nat
        /\ Len(outbox') = Len(outbox) + 1
        /\ \A i \in 1..Len(outbox) : outbox'[i] = outbox[i]
        /\ outbox'[Len(outbox) + 1] = m
    BY OutboxGrowth DEF IndInv
  <1>2. \A i \in 1..Len(outbox'), r \in InRequests :
          outbox'[i] = Message("undispatched", r)
            => i + 0 \in 1..Len(outbox) /\ outbox[i + 0] = Message("undispatched", r)
    BY <1>1
  <1> QED
    BY <1>2, RepliesShift

\* The write at the head settles; something else may be written.
LEMMA RepliesSettle ==
  ASSUME IndInv, RepliesInv, Steady, outbox # <<>>, NEW m \in OutMessages,
         \A r \in InRequests : m # Message("undispatched", r),
         outbox' \in {Tail(outbox), Append(Tail(outbox), m)},
         \A r \in InRequests :
           \/ replies'[r] = replies[r]
           \/ task[r] \in ReplyKinds /\ task'[r] = "done" /\ replies'[r] = 1
  PROVE  RepliesInv'
  <1>1. CASE outbox' = Tail(outbox)
    <2>1. \A i \in 1..Len(outbox') :
            i + 1 \in 1..Len(outbox) /\ outbox'[i] = outbox[i + 1]
      BY <1>1, OutboxShrink DEF IndInv
    <2> QED
      BY <2>1, RepliesShift
  <1>2. CASE outbox' = Append(Tail(outbox), m)
    <2>1. /\ Len(outbox) \in Nat
          /\ Len(outbox') = Len(outbox)
          /\ \A i \in 1..(Len(outbox) - 1) :
               i + 1 \in 1..Len(outbox) /\ outbox'[i] = outbox[i + 1]
          /\ outbox'[Len(outbox)] = m
      BY <1>2, OutboxShift DEF IndInv
    <2>2. \A i \in 1..Len(outbox'), r \in InRequests :
            outbox'[i] = Message("undispatched", r)
              => /\ i + 1 \in 1..Len(outbox)
                 /\ outbox[i + 1] = Message("undispatched", r)
      BY <2>1
    <2> QED
      BY <2>2, RepliesShift
  <1> QED
    BY <1>1, <1>2

\* cancelUndispatched answers a request that had no response yet.
LEMMA RepliesUndispatched ==
  ASSUME IndInv, RepliesInv, NEW r \in InRequests, ReceiveCancelUndispatched(r)
  PROVE  RepliesInv'
  <1>1. /\ outbox' = Append(outbox, Message("undispatched", r))
        /\ UNCHANGED replies
        /\ task' = [task EXCEPT ![r] = "unqueued"]
    BY DEF ReceiveCancelUndispatched, Write
  <1>2. task[r] = "queued"
    <2>1. PICK k \in 1..Len(messageQueue) : messageQueue[k] = Message("request", r)
      BY DEF ReceiveCancelUndispatched, IndInv, TypeOK
    <2>2. messageQueue[k].kind \in TaskKinds /\ messageQueue[k].id = r
      BY <2>1 DEF Message, TaskKinds
    <2> QED
      BY <2>2 DEF IndInv, QueueInv
  <1>3. /\ task'[r] = "unqueued"
        /\ \A u \in InRequests : u # r => task'[u] = task[u]
    BY <1>1 DEF IndInv, TypeOK, Tasks
  <1>4. replies[r] = 0
    BY <1>2 DEF RepliesInv
  <1>5. Message("undispatched", r) \in OutMessages
    BY DEF Message, OutMessages
  <1>6. /\ Len(outbox) \in Nat
        /\ Len(outbox') = Len(outbox) + 1
        /\ \A i \in 1..Len(outbox) : outbox'[i] = outbox[i]
        /\ outbox'[Len(outbox) + 1] = Message("undispatched", r)
    BY <1>1, <1>5, OutboxGrowth DEF IndInv
  <1>7. \A i \in 1..Len(outbox) : outbox[i] # Message("undispatched", r)
    BY <1>2 DEF RepliesInv
  <1>8. \A u \in InRequests, i \in 1..Len(outbox') :
          outbox'[i] = Message("undispatched", u)
            => \/ i \in 1..Len(outbox) /\ u # r
               \/ i = Len(outbox) + 1 /\ u = r
    BY <1>6, <1>7, MessageDistinct
  <1>9. \A u \in InRequests, i \in 1..Len(outbox') :
          outbox'[i] = Message("undispatched", u)
            => task'[u] = "unqueued" /\ replies'[u] = 0
    BY <1>1, <1>3, <1>4, <1>6, <1>8 DEF RepliesInv
  <1>10. \A u \in InRequests, i, j \in 1..Len(outbox') :
          /\ outbox'[i] = Message("undispatched", u)
          /\ outbox'[j] = Message("undispatched", u)
          => i = j
    BY <1>6, <1>8 DEF RepliesInv
  <1>11. \A u \in InRequests : replies'[u] # 0 =>
            replies'[u] = 1 /\ task'[u] \in {"done", "unqueued"}
    BY <1>1, <1>3 DEF RepliesInv
  <1> QED
    BY <1>9, <1>10, <1>11 DEF RepliesInv

\* The response of cancelUndispatched is written, or it is lost.
LEMMA RepliesUndispatchedWritten ==
  ASSUME IndInv, RepliesInv, NEW r \in InRequests, UndispatchedWritten(r)
  PROVE  RepliesInv'
  <1>1. /\ outbox # <<>> /\ Head(outbox) = Message("undispatched", r)
        /\ outbox' = Tail(outbox) /\ UNCHANGED task
        /\ \A u \in InRequests : u # r => replies'[u] = replies[u]
        /\ replies'[r] \in {replies[r], replies[r] + 1}
    BY DEF UndispatchedWritten, WriteSettles, Delivered, IndInv, TypeOK
  <1>2. /\ Len(outbox) \in Nat \ {0}
        /\ outbox[1] = Message("undispatched", r)
        /\ \A i \in 1..Len(outbox') :
             i + 1 \in 1..Len(outbox) /\ outbox'[i] = outbox[i + 1]
    BY <1>1, OutboxShrink DEF IndInv
  <1>3. task[r] = "unqueued" /\ replies[r] = 0
    BY <1>2 DEF RepliesInv
  <1>4. \A i \in 1..Len(outbox') : outbox'[i] # Message("undispatched", r)
    <2> SUFFICES ASSUME NEW i \in 1..Len(outbox'),
                        outbox'[i] = Message("undispatched", r)
                 PROVE  FALSE
      OBVIOUS
    <2>1. i + 1 = 1
      BY <1>2 DEF RepliesInv
    <2> QED
      BY <2>1
  <1>5. \A u \in InRequests, i \in 1..Len(outbox') :
          outbox'[i] = Message("undispatched", u)
            => task'[u] = "unqueued" /\ replies'[u] = 0
    BY <1>1, <1>2, <1>4 DEF RepliesInv
  <1>6. \A u \in InRequests, i, j \in 1..Len(outbox') :
          /\ outbox'[i] = Message("undispatched", u)
          /\ outbox'[j] = Message("undispatched", u)
          => i = j
    <2> SUFFICES ASSUME NEW u \in InRequests,
                        NEW i \in 1..Len(outbox'), NEW j \in 1..Len(outbox'),
                        outbox'[i] = Message("undispatched", u),
                        outbox'[j] = Message("undispatched", u)
                 PROVE  i = j
      OBVIOUS
    <2>1. /\ i + 1 \in 1..Len(outbox) /\ outbox[i + 1] = Message("undispatched", u)
          /\ j + 1 \in 1..Len(outbox) /\ outbox[j + 1] = Message("undispatched", u)
      BY <1>2
    <2>2. i + 1 = j + 1
      BY <2>1 DEF RepliesInv
    <2> QED
      BY <2>2
  <1>7. \A u \in InRequests : replies'[u] # 0 =>
            replies'[u] = 1 /\ task'[u] \in {"done", "unqueued"}
    BY <1>1, <1>3 DEF RepliesInv
  <1> QED
    BY <1>5, <1>6, <1>7 DEF RepliesInv

\* The replies of the outbox are neither undispatched responses nor unknown.
LEMMA OutMessage ==
  /\ \A r \in InRequests, kind \in ReplyKinds \cup {"undispatched"} :
       Message(kind, r) \in OutMessages
  /\ \A o \in OutRequests, kind \in {"request", "cancel"} :
       Message(kind, o) \in OutMessages
  BY DEF Message, OutMessages, ReplyKinds

\* Every callback keeps RepliesInv.
LEMMA RepliesStep == IndInv /\ RepliesInv /\ [Next]_vars => RepliesInv'
  <1> SUFFICES ASSUME IndInv, RepliesInv, [Next]_vars PROVE RepliesInv'
    OBVIOUS
  <1>0. TypeOK /\ task \in [Tasks -> TaskStatus] /\ InRequests \subseteq Tasks
    BY DEF IndInv, TypeOK, Tasks
  <1>1. CASE UNCHANGED vars
    BY <1>1, RepliesQuiet DEF vars, inbound, Steady
  <1>2. CASE Receive
    <2>1. ASSUME NEW t \in Tasks, ReceiveTask(t) PROVE RepliesInv'
      <3>1. Steady
        BY <1>0, <2>1 DEF ReceiveTask, Steady
      <3> QED
        BY <2>1, <3>1, RepliesQuiet DEF ReceiveTask
    <2> QED
      BY <1>2, <2>1, RepliesUndispatched, RepliesQuiet
         DEF Receive, ReceiveCancelRunning, ReceiveCancelEarly, ReceiveQueued,
             ReceiveResponseDirectly, Steady
  <1>3. CASE Dispatch
    <2>1. ASSUME NEW kind \in TaskKinds, NEW t, Take(kind, t),
                 \E outcome : task' = [task EXCEPT ![t] = outcome]
          PROVE  Steady /\ UNCHANGED replies
      BY <1>0, <2>1, TakeEffect DEF Steady, Take
    <2>2. ASSUME NEW r \in InRequests, DispatchRefused(r) PROVE RepliesInv'
      <3>1. Steady /\ UNCHANGED replies
        BY <2>1, <2>2 DEF DispatchRefused, TaskKinds
      <3>2. outbox' = Append(outbox, Message("error", r))
        BY <2>2 DEF DispatchRefused, Write
      <3> QED
        BY <3>1, <3>2, RepliesGrow, OutMessage, MessageDistinct DEF ReplyKinds
    <2>3. ASSUME NEW r \in InRequests, DispatchRequest(r) PROVE RepliesInv'
      BY <2>1, <2>3, RepliesQuiet DEF DispatchRequest, TaskKinds
    <2>4. ASSUME NEW n \in Notes, DispatchNotification(n) PROVE RepliesInv'
      BY <2>1, <2>4, RepliesQuiet DEF DispatchNotification, TaskKinds
    <2>5. ASSUME NEW kind \in TaskKinds, NEW t, DispatchDropped(kind, t)
          PROVE  RepliesInv'
      BY <2>1, <2>5, RepliesQuiet DEF DispatchDropped
    <2>6. ASSUME TimerIdle \/ (\E r \in InRequests : DispatchCancel(r))
                   \/ (\E o \in OutRequests, kind \in {"response", "invalid"} :
                         DispatchResponse(kind, o))
          PROVE  RepliesInv'
      BY <2>6, RepliesQuiet
         DEF TimerIdle, DispatchCancel, DispatchResponse, Take, Steady
    <2> QED
      BY <1>3, <2>2, <2>3, <2>4, <2>5, <2>6 DEF Dispatch, TaskKinds
  <1>4. CASE Handlers
    <2>1. ASSUME NEW r \in InRequests, NEW kind \in ReplyKinds,
                 RequestHandled(r, kind)
          PROVE  RepliesInv'
      <3>1. Steady /\ UNCHANGED replies
        BY <1>0, <2>1 DEF RequestHandled, Steady
      <3>2. outbox' = Append(outbox, Message(kind, r))
        BY <2>1 DEF RequestHandled, Write
      <3> QED
        BY <3>1, <3>2, RepliesGrow, OutMessage, MessageDistinct DEF ReplyKinds
    <2>2. ASSUME NEW n \in Notes, NotificationHandled(n) PROVE RepliesInv'
      <3>1. Steady
        BY <1>0, <2>2 DEF NotificationHandled, Steady
      <3> QED
        BY <2>2, <3>1, RepliesQuiet DEF NotificationHandled
    <2> QED
      BY <1>4, <2>1, <2>2 DEF Handlers, ReplyKinds
  <1>5. CASE Writer
    <2>1. ASSUME NEW r \in InRequests, NEW kind \in ReplyKinds,
                 ReplyWritten(r, kind)
          PROVE  RepliesInv'
      <3>1. /\ outbox # <<>> /\ outbox' = Tail(outbox) /\ task[r] = kind
            /\ task' = [task EXCEPT ![r] = "done"]
            /\ replies' = [replies EXCEPT ![r] = @ + 1]
        BY <2>1, SettleEffect DEF ReplyWritten, Delivered
      <3>2. replies[r] = 0 /\ replies \in [InRequests -> Nat]
        BY <1>0, <3>1 DEF RepliesInv, ReplyKinds, TypeOK
      <3>3. /\ Steady
            /\ \A u \in InRequests :
                 \/ replies'[u] = replies[u]
                 \/ task[u] \in ReplyKinds /\ task'[u] = "done" /\ replies'[u] = 1
        BY <1>0, <3>1, <3>2 DEF Steady, ReplyKinds
      <3> QED
        BY <3>1, <3>3, RepliesSettle, OutMessage, MessageDistinct DEF ReplyKinds
    <2>2. ASSUME NEW r \in InRequests, ResultNotWritten(r) \/ ErrorNotWritten(r)
          PROVE  RepliesInv'
      <3>1. /\ outbox # <<>> /\ task[r] \in ReplyKinds
            /\ outbox' \in {Tail(outbox), Append(Tail(outbox), Message("error", r))}
            /\ task' \in {[task EXCEPT ![r] = "error"], [task EXCEPT ![r] = "lost"]}
            /\ UNCHANGED replies
        BY <2>2, SettleEffect DEF ResultNotWritten, ErrorNotWritten, ReplyKinds
      <3>2. Steady
        BY <1>0, <3>1 DEF Steady, ReplyKinds
      <3> QED
        BY <3>1, <3>2, RepliesSettle, OutMessage, MessageDistinct DEF ReplyKinds
    <2>3. ASSUME NEW o \in OutRequests,
                 RequestWritten(o) \/ RequestNotWritten(o) \/ CancelWritten(o)
          PROVE  RepliesInv'
      <3>1. /\ outbox # <<>>
            /\ outbox' \in {Tail(outbox), Append(Tail(outbox), Message("cancel", o))}
            /\ UNCHANGED <<task, replies>>
        BY <2>3 DEF RequestWritten, RequestNotWritten, CancelWritten,
                    WriteSettles, inbound
      <3>2. Steady
        BY <3>1 DEF Steady
      <3> QED
        BY <3>1, <3>2, RepliesSettle, OutMessage, MessageDistinct
    <2> QED
      BY <1>5, <2>1, <2>2, <2>3, RepliesUndispatchedWritten DEF Writer, ReplyKinds
  <1>6. CASE Owner
    <2>1. CASE Listen \/ Close
      BY <2>1, RepliesQuiet DEF Listen, Close, inbound, Steady
    <2>2. CASE Dispose
      <3>1. Steady
        BY <1>0, <2>2 DEF Dispose, Steady
      <3> QED
        BY <2>2, <3>1, RepliesQuiet DEF Dispose
    <2>3. ASSUME NEW o \in OutRequests,
                 SendRequest(o) \/ CancelBefore(o) \/ CancelPending(o)
          PROVE  RepliesInv'
      <3>1. /\ \/ UNCHANGED outbox
               \/ \E kind \in {"request", "cancel"} :
                    outbox' = Append(outbox, Message(kind, o))
            /\ UNCHANGED <<task, replies>>
        BY <2>3 DEF SendRequest, CancelBefore, CancelPending, Write, inbound
      <3>2. Steady
        BY <3>1 DEF Steady
      <3> QED
        BY <3>1, <3>2, RepliesQuiet, RepliesGrow, OutMessage, MessageDistinct
    <2> QED
      BY <1>6, <2>1, <2>2, <2>3 DEF Owner
  <1> QED
    BY <1>1, <1>2, <1>3, <1>4, <1>5, <1>6 DEF Next
-----------------------------------------------------------------------------
(* The requests of this end and their cancellations: SentInv.              *)

\* The messages about requests of this end move up by d places, none joins
\* them, and no promise becomes unsent again.
LEMMA SentShift ==
  ASSUME SentInv, NEW d \in {0, 1},
         \A i \in 1..Len(outbox'), o \in OutRequests, kind \in {"request", "cancel"} :
           outbox'[i] = Message(kind, o)
             => i + d \in 1..Len(outbox) /\ outbox[i + d] = Message(kind, o),
         \A o \in OutRequests : promise[o] # "unsent" => promise'[o] # "unsent"
  PROVE  SentInv'
  <1>1. \A o \in OutRequests, i \in 1..Len(outbox') :
          outbox'[i] \in {Message("request", o), Message("cancel", o)}
            => promise'[o] # "unsent"
    BY DEF SentInv
  <1>2. ASSUME NEW o \in OutRequests, NEW i \in 1..Len(outbox'),
               NEW j \in 1..Len(outbox'),
               outbox'[i] = Message("cancel", o), outbox'[j] = Message("request", o)
        PROVE  j < i
    <2>1. /\ i + d \in 1..Len(outbox) /\ outbox[i + d] = Message("cancel", o)
          /\ j + d \in 1..Len(outbox) /\ outbox[j + d] = Message("request", o)
      BY <1>2
    <2>2. j + d < i + d
      BY <2>1 DEF SentInv
    <2> QED
      BY <2>2
  <1> QED
    BY <1>1, <1>2 DEF SentInv

\* No promise becomes unsent again.
Kept == \A o \in OutRequests : promise[o] # "unsent" => promise'[o] # "unsent"

\* Steps that send nothing and settle nothing keep SentInv.
LEMMA SentQuiet ==
  ASSUME IndInv, SentInv, Kept, UNCHANGED outbox
  PROVE  SentInv'
  <1>1. \A i \in 1..Len(outbox) : i + 0 = i
    OBVIOUS
  <1> QED
    BY <1>1, SentShift DEF Kept

\* A response is written.
LEMMA SentGrowReply ==
  ASSUME IndInv, SentInv, Kept, NEW r \in InRequests,
         NEW kind \in ReplyKinds \cup {"undispatched"},
         outbox' = Append(outbox, Message(kind, r))
  PROVE  SentInv'
  <1> DEFINE m == Message(kind, r)
  <1>0. m \in OutMessages
    BY OutMessage
  <1>1. /\ Len(outbox) \in Nat
        /\ Len(outbox') = Len(outbox) + 1
        /\ \A i \in 1..Len(outbox) : outbox'[i] = outbox[i]
        /\ outbox'[Len(outbox) + 1] = m
    BY <1>0, OutboxGrowth DEF IndInv
  <1>2. \A o \in OutRequests, k \in {"request", "cancel"} : m # Message(k, o)
    BY MessageDistinct DEF ReplyKinds
  <1> HIDE DEF m
  <1>3. \A i \in 1..Len(outbox'), o \in OutRequests, k \in {"request", "cancel"} :
          outbox'[i] = Message(k, o)
            => i + 0 \in 1..Len(outbox) /\ outbox[i + 0] = Message(k, o)
    BY <1>1, <1>2
  <1> QED
    BY <1>3, SentShift DEF Kept

\* A write settles, and an InternalError may take its place.
LEMMA SentSettle ==
  ASSUME IndInv, SentInv, Kept, outbox # <<>>, NEW r,
         \/ outbox' = Tail(outbox)
         \/ r \in InRequests /\ outbox' = Append(Tail(outbox), Message("error", r))
  PROVE  SentInv'
  <1>1. CASE outbox' = Tail(outbox)
    <2>1. \A i \in 1..Len(outbox') :
            i + 1 \in 1..Len(outbox) /\ outbox'[i] = outbox[i + 1]
      BY <1>1, OutboxShrink DEF IndInv
    <2> QED
      BY <2>1, SentShift DEF Kept
  <1>2. CASE r \in InRequests /\ outbox' = Append(Tail(outbox), Message("error", r))
    <2>0. Message("error", r) \in OutMessages
      BY <1>2, OutMessage DEF ReplyKinds
    <2>1. /\ Len(outbox) \in Nat
          /\ Len(outbox') = Len(outbox)
          /\ \A i \in 1..(Len(outbox) - 1) :
               i + 1 \in 1..Len(outbox) /\ outbox'[i] = outbox[i + 1]
          /\ outbox'[Len(outbox)] = Message("error", r)
      BY <1>2, <2>0, OutboxShift DEF IndInv
    <2>2. \A o \in OutRequests, k \in {"request", "cancel"} :
            Message("error", r) # Message(k, o)
      BY MessageDistinct
    <2>3. \A i \in 1..Len(outbox'), o \in OutRequests, k \in {"request", "cancel"} :
            outbox'[i] = Message(k, o)
              => i + 1 \in 1..Len(outbox) /\ outbox[i + 1] = Message(k, o)
      BY <2>1, <2>2
    <2> QED
      BY <2>3, SentShift DEF Kept
  <1> QED
    BY <1>1, <1>2

\* The request that is sent is the first message about it.
LEMMA SentRequest ==
  ASSUME IndInv, SentInv, NEW o \in OutRequests, SendRequest(o)
  PROVE  SentInv'
  <1>1. /\ promise[o] = "unsent"
        /\ promise' = [promise EXCEPT ![o] = "pending"]
        /\ promise \in [OutRequests ->
                          {"unsent", "pending", "resolved", "rejected"}]
        /\ outbox' = Append(outbox, Message("request", o))
        /\ Message("request", o) \in OutMessages
    BY OutMessage DEF SendRequest, Write, IndInv, TypeOK
  <1>2. /\ Len(outbox) \in Nat
        /\ Len(outbox') = Len(outbox) + 1
        /\ \A i \in 1..Len(outbox) : outbox'[i] = outbox[i]
        /\ outbox'[Len(outbox) + 1] = Message("request", o)
    BY <1>1, OutboxGrowth DEF IndInv
  <1>3. \A i \in 1..Len(outbox) :
          outbox[i] \notin {Message("request", o), Message("cancel", o)}
    BY <1>1 DEF SentInv
  <1>4. \A u \in OutRequests, i \in 1..Len(outbox') :
          /\ outbox'[i] = Message("cancel", u) => i \in 1..Len(outbox) /\ u # o
          /\ outbox'[i] = Message("request", u) =>
               \/ i \in 1..Len(outbox) /\ u # o
               \/ i = Len(outbox) + 1 /\ u = o
    BY <1>2, <1>3, MessageDistinct
  <1>5. /\ promise'[o] = "pending"
        /\ \A u \in OutRequests : u # o => promise'[u] = promise[u]
    BY <1>1
  <1>6. \A u \in OutRequests, i \in 1..Len(outbox') :
          outbox'[i] \in {Message("request", u), Message("cancel", u)}
            => promise'[u] # "unsent"
    BY <1>2, <1>4, <1>5 DEF SentInv
  <1>7. \A u \in OutRequests, i, j \in 1..Len(outbox') :
          outbox'[i] = Message("cancel", u) /\ outbox'[j] = Message("request", u)
            => j < i
    BY <1>2, <1>4 DEF SentInv
  <1> QED
    BY <1>6, <1>7 DEF SentInv

\* A cancellation joins the outbox after its request, whose write may be
\* settling.
LEMMA SentCancel ==
  ASSUME IndInv, SentInv, Kept, NEW o \in OutRequests, promise[o] # "unsent",
         \/ outbox' = Append(outbox, Message("cancel", o))
         \/ outbox # <<>> /\ outbox' = Append(Tail(outbox), Message("cancel", o))
  PROVE  SentInv'
  <1> DEFINE m == Message("cancel", o)
  <1>0. m \in OutMessages
    BY OutMessage
  <1>1. PICK d \in {0, 1}, n \in Nat :
          /\ Len(outbox') = n + 1
          /\ \A i \in 1..n : i + d \in 1..Len(outbox) /\ outbox'[i] = outbox[i + d]
          /\ outbox'[n + 1] = m
    <2>1. CASE outbox' = Append(outbox, m)
      <3>1. /\ Len(outbox) \in Nat
            /\ Len(outbox') = Len(outbox) + 1
            /\ \A i \in 1..Len(outbox) : outbox'[i] = outbox[i]
            /\ outbox'[Len(outbox) + 1] = m
        BY <1>0, <2>1, OutboxGrowth DEF IndInv
      <3>2. \A i \in 1..Len(outbox) :
              i + 0 \in 1..Len(outbox) /\ outbox'[i] = outbox[i + 0]
        BY <3>1
      <3> QED
        BY <3>1, <3>2
    <2>2. CASE outbox # <<>> /\ outbox' = Append(Tail(outbox), m)
      <3>1. /\ Len(outbox) \in Nat \ {0}
            /\ Len(outbox') = Len(outbox)
            /\ \A i \in 1..(Len(outbox) - 1) :
                 i + 1 \in 1..Len(outbox) /\ outbox'[i] = outbox[i + 1]
            /\ outbox'[Len(outbox)] = m
        BY <1>0, <2>2, OutboxShift DEF IndInv
      <3>2. Len(outbox) - 1 \in Nat /\ (Len(outbox) - 1) + 1 = Len(outbox)
        BY <3>1
      <3> QED
        BY <3>1, <3>2
    <2> QED
      BY <2>1, <2>2
  <1>2. \A u \in OutRequests : m = Message("cancel", u) => u = o
    BY MessageDistinct
  <1>3. \A u \in OutRequests : m # Message("request", u)
    BY MessageDistinct
  <1> HIDE DEF m
  <1>4. \A u \in OutRequests, i \in 1..Len(outbox') :
          outbox'[i] \in {Message("request", u), Message("cancel", u)}
            => promise'[u] # "unsent"
    BY <1>1, <1>2, <1>3 DEF SentInv, Kept
  <1>5. ASSUME NEW u \in OutRequests,
               NEW i \in 1..Len(outbox'), NEW j \in 1..Len(outbox'),
               outbox'[i] = Message("cancel", u), outbox'[j] = Message("request", u)
        PROVE  j < i
    <2>1. j \in 1..n
      BY <1>1, <1>3, <1>5
    <2>2. CASE i = n + 1
      BY <2>1, <2>2
    <2>3. CASE i \in 1..n
      <3>1. /\ i + d \in 1..Len(outbox) /\ outbox[i + d] = Message("cancel", u)
            /\ j + d \in 1..Len(outbox) /\ outbox[j + d] = Message("request", u)
        BY <1>1, <1>5, <2>1, <2>3
      <3>2. j + d < i + d
        BY <3>1 DEF SentInv
      <3> QED
        BY <3>2
    <2> QED
      BY <1>1, <2>2, <2>3
  <1> QED
    BY <1>4, <1>5 DEF SentInv

\* Every callback keeps SentInv.
LEMMA SentStep == IndInv /\ SentInv /\ [Next]_vars => SentInv'
  <1> SUFFICES ASSUME IndInv, SentInv, [Next]_vars PROVE SentInv'
    OBVIOUS
  <1>0. promise \in [OutRequests -> {"unsent", "pending", "resolved", "rejected"}]
    BY DEF IndInv, TypeOK
  <1>1. CASE UNCHANGED vars
    BY <1>1, SentQuiet DEF vars, outbound, Kept
  <1>2. CASE Receive
    <2>1. ASSUME NEW r \in InRequests, ReceiveCancelUndispatched(r) PROVE SentInv'
      BY <2>1, SentGrowReply DEF ReceiveCancelUndispatched, Write, Kept, outbound
    <2>2. ASSUME NEW o \in OutRequests, ReceiveResponseDirectly(o) PROVE SentInv'
      <3>1. Kept
        BY <1>0, <2>2 DEF ReceiveResponseDirectly, HandleResponse, Settle, Kept
      <3> QED
        BY <2>2, <3>1, SentQuiet DEF ReceiveResponseDirectly
    <2> QED
      BY <1>2, <2>1, <2>2, SentQuiet
         DEF Receive, ReceiveTask, ReceiveCancelRunning, ReceiveCancelEarly,
             ReceiveQueued, outbound, Kept
  <1>3. CASE Dispatch
    <2>1. ASSUME NEW r \in InRequests, DispatchRefused(r) PROVE SentInv'
      BY <2>1, SentGrowReply DEF DispatchRefused, Write, Kept, outbound, ReplyKinds
    <2>2. ASSUME NEW o \in OutRequests, NEW kind, DispatchResponse(kind, o)
          PROVE  SentInv'
      <3>1. Kept
        BY <1>0, <2>2
           DEF DispatchResponse, HandleResponse, HandleInvalid, Settle, Kept
      <3> QED
        BY <2>2, <3>1, SentQuiet DEF DispatchResponse
    <2> QED
      BY <1>3, <2>1, <2>2, SentQuiet
         DEF Dispatch, TimerIdle, DispatchRequest, DispatchNotification,
             DispatchDropped, DispatchCancel, outbound, Kept
  <1>4. CASE Handlers
    <2>1. ASSUME NEW r \in InRequests, NEW kind \in ReplyKinds,
                 RequestHandled(r, kind)
          PROVE  SentInv'
      BY <2>1, SentGrowReply DEF RequestHandled, Write, Kept, outbound
    <2> QED
      BY <1>4, <2>1, SentQuiet
         DEF Handlers, ReplyKinds, NotificationHandled, outbound, Kept
  <1>5. CASE Writer
    <2>1. ASSUME NEW r \in InRequests,
                 \/ ReplyWritten(r, "result") \/ ReplyWritten(r, "error")
                 \/ ResultNotWritten(r) \/ ErrorNotWritten(r)
                 \/ UndispatchedWritten(r)
          PROVE  SentInv'
      <3>1. /\ outbox # <<>>
            /\ \/ outbox' = Tail(outbox)
               \/ outbox' = Append(Tail(outbox), Message("error", r))
            /\ UNCHANGED promise
        BY <2>1 DEF ReplyWritten, ResultNotWritten, ErrorNotWritten,
                    UndispatchedWritten, WriteSettles, outbound
      <3> QED
        BY <3>1, SentSettle DEF Kept
    <2>2. ASSUME NEW o \in OutRequests, RequestNotWritten(o) \/ CancelWritten(o)
          PROVE  SentInv'
      <3>1. outbox # <<>> /\ outbox' = Tail(outbox)
        BY <2>2 DEF RequestNotWritten, CancelWritten, WriteSettles
      <3>2. Kept
        BY <1>0, <2>2 DEF RequestNotWritten, CancelWritten, Settle, Kept, outbound
      <3> QED
        BY <3>1, <3>2, SentSettle
    <2>3. ASSUME NEW o \in OutRequests, RequestWritten(o) PROVE SentInv'
      <3>1. /\ outbox # <<>> /\ Head(outbox) = Message("request", o)
            /\ \/ outbox' = Tail(outbox)
               \/ outbox' = Append(Tail(outbox), Message("cancel", o))
        BY <2>3 DEF RequestWritten, WriteSettles
      <3>2. Kept
        BY <1>0, <2>3 DEF RequestWritten, Settle, Kept
      <3>3. promise[o] # "unsent"
        <4>1. 1 \in 1..Len(outbox) /\ outbox[1] = Message("request", o)
          BY <3>1, TailElements DEF IndInv, TypeOK
        <4> QED
          BY <4>1 DEF SentInv
      <3> QED
        BY <3>1, <3>2, <3>3, SentSettle, SentCancel
    <2> QED
      BY <1>5, <2>1, <2>2, <2>3 DEF Writer
  <1>6. CASE Owner
    <2>1. CASE Listen \/ Close
      BY <2>1, SentQuiet DEF Listen, Close, outbound, Kept
    <2>2. CASE Dispose
      <3>1. Kept
        BY <1>0, <2>2 DEF Dispose, Kept
      <3> QED
        BY <2>2, <3>1, SentQuiet DEF Dispose
    <2>3. ASSUME NEW o \in OutRequests, CancelBefore(o) \/ CancelPending(o)
          PROVE  SentInv'
      BY <2>3, SentQuiet, SentCancel DEF CancelBefore, CancelPending, Write, Kept
    <2> QED
      BY <1>6, <2>1, <2>2, <2>3, SentRequest DEF Owner
  <1> QED
    BY <1>1, <1>2, <1>3, <1>4, <1>5, <1>6 DEF Next
-----------------------------------------------------------------------------
(* The queue and the cancellations of the peer: CancelQueueInv.            *)

\* The queue stays as it is, or a message joins it that is neither a request
\* nor a cancellation.
LEMMA CancelQueueSame ==
  ASSUME IndInv, CancelQueueInv,
         \/ UNCHANGED messageQueue
         \/ \E m \in InMessages :
              /\ \A r \in InRequests :
                   m \notin {Message("request", r), Message("cancel", r)}
              /\ messageQueue' = Append(messageQueue, m),
         cancelArrived \subseteq cancelArrived', cancelArrived' \subseteq InRequests,
         \A r \in InRequests : task'[r] = "queued" => task[r] = "queued",
         \A r \in cancelArrived' : task'[r] # "absent"
  PROVE  CancelQueueInv'
  <1>1. /\ Len(messageQueue) \in Nat /\ Len(messageQueue') \in Nat
        /\ Len(messageQueue) <= Len(messageQueue')
        /\ \A i \in 1..Len(messageQueue) : messageQueue'[i] = messageQueue[i]
        /\ \A i \in 1..Len(messageQueue'), r \in InRequests,
              kind \in {"request", "cancel"} :
             messageQueue'[i] = Message(kind, r) => i \in 1..Len(messageQueue)
    <2>1. CASE UNCHANGED messageQueue
      BY <2>1 DEF IndInv, TypeOK
    <2>2. CASE ~UNCHANGED messageQueue
      <3>1. PICK m \in InMessages :
              /\ \A r \in InRequests :
                   m \notin {Message("request", r), Message("cancel", r)}
              /\ messageQueue' = Append(messageQueue, m)
        BY <2>2
      <3> QED
        BY <3>1, QueueGrowth DEF IndInv
    <2> QED
      BY <2>1, <2>2
  <1>2. \A r \in InRequests, i \in 1..Len(messageQueue') :
          messageQueue'[i] = Message("cancel", r)
            => /\ r \in cancelArrived'
               /\ \A j \in 1..Len(messageQueue') :
                    /\ messageQueue'[j] = Message("cancel", r) => j = i
                    /\ messageQueue'[j] = Message("request", r) => j < i
    BY <1>1 DEF CancelQueueInv
  <1>3. \A r \in InRequests :
          task'[r] = "queued" =>
            \E i \in 1..Len(messageQueue') : messageQueue'[i] = Message("request", r)
    <2> SUFFICES ASSUME NEW r \in InRequests, task'[r] = "queued"
                 PROVE  \E i \in 1..Len(messageQueue') :
                          messageQueue'[i] = Message("request", r)
      OBVIOUS
    <2>1. PICK i \in 1..Len(messageQueue) : messageQueue[i] = Message("request", r)
      BY DEF CancelQueueInv
    <2> QED
      BY <1>1, <2>1
  <1> QED
    BY <1>2, <1>3 DEF CancelQueueInv

\* A request that was not known before joins the queue.
LEMMA CancelQueueRequest ==
  ASSUME IndInv, CancelQueueInv, NEW r \in InRequests, ReceiveTask(r)
  PROVE  CancelQueueInv'
  <1>1. /\ task[r] = "absent" /\ task \in [Tasks -> TaskStatus] /\ r \in Tasks
        /\ task' = [task EXCEPT ![r] = "queued"]
        /\ messageQueue' = Append(messageQueue, Message("request", r))
        /\ UNCHANGED cancelArrived
        /\ cancelArrived \subseteq InRequests /\ InRequests \subseteq Tasks
    BY DEF ReceiveTask, Enqueue, IndInv, TypeOK, Tasks
  <1>2. Message("request", r) \in InMessages
    BY DEF Message, InMessages
  <1>3. /\ Len(messageQueue) \in Nat
        /\ Len(messageQueue') = Len(messageQueue) + 1
        /\ \A i \in 1..Len(messageQueue) : messageQueue'[i] = messageQueue[i]
        /\ messageQueue'[Len(messageQueue) + 1] = Message("request", r)
    BY <1>1, <1>2, QueueGrowth DEF IndInv
  <1>4. r \notin cancelArrived
    BY <1>1 DEF CancelQueueInv
  <1>5. \A u \in InRequests, i \in 1..Len(messageQueue') :
          /\ messageQueue'[i] = Message("cancel", u)
               => i \in 1..Len(messageQueue) /\ u # r
          /\ messageQueue'[i] = Message("request", u)
               => i \in 1..Len(messageQueue) \/ u = r
    BY <1>3, <1>4, MessageDistinct DEF CancelQueueInv
  <1>6. \A u \in InRequests, i \in 1..Len(messageQueue') :
          messageQueue'[i] = Message("cancel", u)
            => /\ u \in cancelArrived'
               /\ \A j \in 1..Len(messageQueue') :
                    /\ messageQueue'[j] = Message("cancel", u) => j = i
                    /\ messageQueue'[j] = Message("request", u) => j < i
    BY <1>1, <1>3, <1>5 DEF CancelQueueInv
  <1>7. \A u \in InRequests :
          task'[u] = "queued" =>
            \E i \in 1..Len(messageQueue') : messageQueue'[i] = Message("request", u)
    <2> SUFFICES ASSUME NEW u \in InRequests, task'[u] = "queued"
                 PROVE  \E i \in 1..Len(messageQueue') :
                          messageQueue'[i] = Message("request", u)
      OBVIOUS
    <2>1. CASE u = r
      BY <1>3, <2>1
    <2>2. CASE u # r
      <3>1. PICK i \in 1..Len(messageQueue) : messageQueue[i] = Message("request", u)
        BY <1>1, <2>2 DEF CancelQueueInv
      <3> QED
        BY <1>3, <3>1
    <2> QED
      BY <2>1, <2>2
  <1>8. \A u \in cancelArrived' : task'[u] # "absent"
    BY <1>1 DEF CancelQueueInv
  <1> QED
    BY <1>6, <1>7, <1>8 DEF CancelQueueInv

\* A cancellation joins the queue, the first for its request.
LEMMA CancelQueueCancel ==
  ASSUME IndInv, CancelQueueInv, NEW r \in InRequests, ReceiveCancelEarly(r)
  PROVE  CancelQueueInv'
  <1>1. /\ task[r] # "absent" /\ UNCHANGED task
        /\ messageQueue' = Append(messageQueue, Message("cancel", r))
        /\ r \notin cancelArrived /\ cancelArrived' = cancelArrived \cup {r}
    BY DEF ReceiveCancelEarly, PeerCancels, Enqueue
  <1>2. Message("cancel", r) \in InMessages
    BY DEF Message, InMessages
  <1>3. /\ Len(messageQueue) \in Nat
        /\ Len(messageQueue') = Len(messageQueue) + 1
        /\ \A i \in 1..Len(messageQueue) : messageQueue'[i] = messageQueue[i]
        /\ messageQueue'[Len(messageQueue) + 1] = Message("cancel", r)
    BY <1>1, <1>2, QueueGrowth DEF IndInv
  <1>4. \A u \in InRequests, i \in 1..Len(messageQueue') :
          /\ messageQueue'[i] = Message("cancel", u)
               => \/ i \in 1..Len(messageQueue) /\ u # r
                  \/ i = Len(messageQueue) + 1 /\ u = r
          /\ messageQueue'[i] = Message("request", u) => i \in 1..Len(messageQueue)
    BY <1>1, <1>3, MessageDistinct DEF CancelQueueInv
  <1>5. \A u \in InRequests, i \in 1..Len(messageQueue') :
          messageQueue'[i] = Message("cancel", u)
            => /\ u \in cancelArrived'
               /\ \A j \in 1..Len(messageQueue') :
                    /\ messageQueue'[j] = Message("cancel", u) => j = i
                    /\ messageQueue'[j] = Message("request", u) => j < i
    BY <1>1, <1>3, <1>4 DEF CancelQueueInv
  <1>6. \A u \in InRequests :
          task'[u] = "queued" =>
            \E i \in 1..Len(messageQueue') : messageQueue'[i] = Message("request", u)
    <2> SUFFICES ASSUME NEW u \in InRequests, task'[u] = "queued"
                 PROVE  \E i \in 1..Len(messageQueue') :
                          messageQueue'[i] = Message("request", u)
      OBVIOUS
    <2>1. PICK i \in 1..Len(messageQueue) : messageQueue[i] = Message("request", u)
      BY <1>1 DEF CancelQueueInv
    <2> QED
      BY <1>3, <2>1
  <1>7. \A u \in cancelArrived' : task'[u] # "absent"
    BY <1>1 DEF CancelQueueInv
  <1> QED
    BY <1>5, <1>6, <1>7 DEF CancelQueueInv

\* The k-th message leaves the queue; if it is a request, that request is not
\* queued any more.
LEMMA CancelQueueShrink ==
  ASSUME IndInv, CancelQueueInv, NEW k \in 1..Len(messageQueue),
         \/ messageQueue' = RemoveAt(messageQueue, k)
         \/ k = 1 /\ messageQueue' = Tail(messageQueue),
         cancelArrived \subseteq cancelArrived',
         \A r \in InRequests : task'[r] = "queued" =>
           task[r] = "queued" /\ messageQueue[k] # Message("request", r),
         \A r \in cancelArrived' : task'[r] # "absent"
  PROVE  CancelQueueInv'
  <1>1. /\ \A i \in 1..Len(messageQueue') :
             /\ Old(k, i) \in 1..Len(messageQueue) \ {k}
             /\ messageQueue'[i] = messageQueue[Old(k, i)]
        /\ \A j \in 1..Len(messageQueue) :
             j # k => \E i \in 1..Len(messageQueue') : Old(k, i) = j
        /\ \A i, j \in 1..Len(messageQueue') :
             /\ Old(k, i) = Old(k, j) => i = j
             /\ Old(k, i) < Old(k, j) => i < j
    BY QueueShrink DEF IndInv
  <1>2. \A r \in InRequests, i \in 1..Len(messageQueue') :
          messageQueue'[i] = Message("cancel", r)
            => /\ r \in cancelArrived'
               /\ \A j \in 1..Len(messageQueue') :
                    /\ messageQueue'[j] = Message("cancel", r) => j = i
                    /\ messageQueue'[j] = Message("request", r) => j < i
    <2> SUFFICES ASSUME NEW r \in InRequests, NEW i \in 1..Len(messageQueue'),
                        messageQueue'[i] = Message("cancel", r)
                 PROVE  /\ r \in cancelArrived'
                        /\ \A j \in 1..Len(messageQueue') :
                             /\ messageQueue'[j] = Message("cancel", r) => j = i
                             /\ messageQueue'[j] = Message("request", r) => j < i
      OBVIOUS
    <2>1. /\ Old(k, i) \in 1..Len(messageQueue)
          /\ messageQueue[Old(k, i)] = Message("cancel", r)
      BY <1>1
    <2>2. r \in cancelArrived'
      BY <2>1 DEF CancelQueueInv
    <2>3. ASSUME NEW j \in 1..Len(messageQueue')
          PROVE  /\ messageQueue'[j] = Message("cancel", r) => j = i
                 /\ messageQueue'[j] = Message("request", r) => j < i
      <3>1. /\ Old(k, j) \in 1..Len(messageQueue)
            /\ messageQueue'[j] = messageQueue[Old(k, j)]
        BY <1>1
      <3>2. /\ messageQueue'[j] = Message("cancel", r) => Old(k, j) = Old(k, i)
            /\ messageQueue'[j] = Message("request", r) => Old(k, j) < Old(k, i)
        BY <2>1, <3>1 DEF CancelQueueInv
      <3> QED
        BY <1>1, <3>2
    <2> QED
      BY <2>2, <2>3
  <1>3. ASSUME NEW r \in InRequests, task'[r] = "queued"
        PROVE  \E i \in 1..Len(messageQueue') : messageQueue'[i] = Message("request", r)
    <2>1. PICK j \in 1..Len(messageQueue) : messageQueue[j] = Message("request", r)
      BY <1>3 DEF CancelQueueInv
    <2>2. j # k
      BY <1>3, <2>1
    <2>3. PICK i \in 1..Len(messageQueue') : Old(k, i) = j
      BY <1>1, <2>2
    <2> QED
      BY <1>1, <2>1, <2>3
  <1> QED
    BY <1>2, <1>3 DEF CancelQueueInv

\* The dispatcher takes a message off the head of the queue.
LEMMA CancelQueueTake ==
  ASSUME IndInv, CancelQueueInv, NEW kind, NEW id, Take(kind, id),
         \/ /\ kind \in TaskKinds
            /\ \E outcome \in TaskStatus \ {"absent", "queued"} :
                 task' = [task EXCEPT ![id] = outcome]
         \/ kind \notin TaskKinds /\ UNCHANGED task
  PROVE  CancelQueueInv'
  <1>1. /\ messageQueue # <<>> /\ messageQueue' = Tail(messageQueue)
        /\ 1 \in 1..Len(messageQueue)
        /\ messageQueue[1] = Message(kind, id)
    BY TakeEffect, TailElements DEF IndInv, TypeOK
  <1>2. /\ task \in [Tasks -> TaskStatus] /\ InRequests \subseteq Tasks
        /\ UNCHANGED cancelArrived /\ cancelArrived \subseteq InRequests
    BY DEF IndInv, TypeOK, Tasks, Take
  <1>3. \A r \in InRequests : task'[r] = "queued" =>
          task[r] = "queued" /\ messageQueue[1] # Message("request", r)
    BY <1>1, <1>2, MessageDistinct DEF TaskKinds
  <1>4. \A r \in cancelArrived' : task'[r] # "absent"
    BY <1>2 DEF CancelQueueInv
  <1> QED
    BY <1>1, <1>2, <1>3, <1>4, CancelQueueShrink

\* No task becomes queued or absent.
NoneQueued == \A r \in InRequests : \/ task'[r] = task[r]
                                    \/ task'[r] \notin {"absent", "queued"}

\* Steps that leave the queue alone and make no request absent.
LEMMA CancelQueueQuiet ==
  ASSUME IndInv, CancelQueueInv, NoneQueued, UNCHANGED <<messageQueue, cancelArrived>>
  PROVE  CancelQueueInv'
  <1>1. cancelArrived \subseteq InRequests
    BY DEF IndInv, TypeOK
  <1>2. \A r \in cancelArrived' : task'[r] # "absent"
    BY <1>1 DEF CancelQueueInv, NoneQueued
  <1> QED
    BY <1>1, <1>2, CancelQueueSame DEF NoneQueued

\* Every callback keeps CancelQueueInv.
LEMMA CancelQueueStep == IndInv /\ CancelQueueInv /\ [Next]_vars => CancelQueueInv'
  <1> SUFFICES ASSUME IndInv, CancelQueueInv, [Next]_vars PROVE CancelQueueInv'
    OBVIOUS
  <1>0. /\ TypeOK /\ task \in [Tasks -> TaskStatus]
        /\ InRequests \subseteq Tasks /\ cancelArrived \subseteq InRequests
    BY DEF IndInv, TypeOK, Tasks
  <1>1. CASE UNCHANGED vars
    BY <1>1, CancelQueueQuiet DEF vars, inbound, NoneQueued
  <1>2. CASE Receive
    <2>1. ASSUME NEW n \in Notes, ReceiveTask(n) PROVE CancelQueueInv'
      <3>1. n \notin InRequests
        BY DisjointAssumption
      <3>2. /\ Message("notification", n) \in InMessages
            /\ messageQueue' = Append(messageQueue, Message("notification", n))
            /\ UNCHANGED cancelArrived
        BY <2>1, <3>1 DEF ReceiveTask, Enqueue, Message, InMessages
      <3>3. \A r \in InRequests : task'[r] = task[r]
        BY <1>0, <2>1, <3>1 DEF ReceiveTask
      <3>4. \A r \in InRequests : Message("notification", n) \notin
                                    {Message("request", r), Message("cancel", r)}
        BY MessageDistinct
      <3>5. \A r \in cancelArrived' : task'[r] # "absent"
        BY <1>0, <3>2, <3>3 DEF CancelQueueInv
      <3> QED
        BY <1>0, <3>2, <3>3, <3>4, <3>5, CancelQueueSame
    <2>2. ASSUME NEW r \in InRequests, ReceiveCancelUndispatched(r)
          PROVE  CancelQueueInv'
      <3>1. PICK k \in 1..Len(messageQueue) :
              /\ messageQueue[k] = Message("request", r)
              /\ messageQueue' = RemoveAt(messageQueue, k)
        BY <1>0, <2>2 DEF ReceiveCancelUndispatched, TypeOK
      <3>2. /\ task' = [task EXCEPT ![r] = "unqueued"]
            /\ cancelArrived' = cancelArrived \cup {r}
        BY <2>2 DEF ReceiveCancelUndispatched, PeerCancels
      <3>3. \A u \in InRequests : task'[u] = "queued" =>
              task[u] = "queued" /\ messageQueue[k] # Message("request", u)
        BY <1>0, <3>1, <3>2, MessageDistinct
      <3>4. \A u \in cancelArrived' : task'[u] # "absent"
        BY <1>0, <3>2 DEF CancelQueueInv
      <3> QED
        BY <3>1, <3>2, <3>3, <3>4, CancelQueueShrink
    <2>3. ASSUME NEW r \in InRequests, ReceiveCancelRunning(r) PROVE CancelQueueInv'
      <3>1. /\ UNCHANGED <<task, messageQueue>> /\ task[r] # "absent"
            /\ cancelArrived' = cancelArrived \cup {r}
        BY <2>3 DEF ReceiveCancelRunning, PeerCancels
      <3>2. \A u \in cancelArrived' : task'[u] # "absent"
        BY <3>1 DEF CancelQueueInv
      <3> QED
        BY <1>0, <3>1, <3>2, CancelQueueSame
    <2>4. ASSUME NEW o \in OutRequests, NEW kind \in {"response", "invalid"},
                 ReceiveQueued(kind, o)
          PROVE  CancelQueueInv'
      <3>1. /\ Message(kind, o) \in InMessages
            /\ messageQueue' = Append(messageQueue, Message(kind, o))
            /\ UNCHANGED <<task, cancelArrived>>
        BY <2>4 DEF ReceiveQueued, Enqueue, Message, InMessages
      <3>2. \A r \in InRequests :
              Message(kind, o) \notin {Message("request", r), Message("cancel", r)}
        BY MessageDistinct
      <3>3. \A u \in cancelArrived' : task'[u] # "absent"
        BY <3>1 DEF CancelQueueInv
      <3> QED
        BY <1>0, <3>1, <3>2, <3>3, CancelQueueSame
    <2>5. ASSUME NEW o \in OutRequests, ReceiveResponseDirectly(o)
          PROVE  CancelQueueInv'
      BY <2>5, CancelQueueQuiet DEF ReceiveResponseDirectly, NoneQueued
    <2> QED
      BY <1>2, <2>1, <2>2, <2>3, <2>4, <2>5, CancelQueueRequest, CancelQueueCancel
         DEF Receive, Tasks
  <1>3. CASE Dispatch
    <2>1. CASE TimerIdle
      BY <2>1, CancelQueueQuiet DEF TimerIdle, NoneQueued
    <2>2. ASSUME NEW r \in InRequests, DispatchRequest(r) \/ DispatchRefused(r)
          PROVE  CancelQueueInv'
      <3>1. /\ Take("request", r)
            /\ \E outcome \in TaskStatus \ {"absent", "queued"} :
                 task' = [task EXCEPT ![r] = outcome]
        BY <2>2 DEF DispatchRequest, DispatchRefused, TaskStatus
      <3> QED
        BY <3>1, CancelQueueTake DEF TaskKinds
    <2>3. ASSUME NEW n \in Notes, DispatchNotification(n) PROVE CancelQueueInv'
      <3>1. /\ Take("notification", n)
            /\ \E outcome \in TaskStatus \ {"absent", "queued"} :
                 task' = [task EXCEPT ![n] = outcome]
        BY <2>3 DEF DispatchNotification, TaskStatus
      <3> QED
        BY <3>1, CancelQueueTake DEF TaskKinds
    <2>4. ASSUME NEW kind \in TaskKinds, NEW t, DispatchDropped(kind, t)
          PROVE  CancelQueueInv'
      <3>1. /\ Take(kind, t)
            /\ \E outcome \in TaskStatus \ {"absent", "queued"} :
                 task' = [task EXCEPT ![t] = outcome]
        BY <2>4 DEF DispatchDropped, TaskStatus
      <3> QED
        BY <3>1, CancelQueueTake
    <2>5. ASSUME NEW kind \in {"cancel", "response", "invalid"}, NEW id,
                 Take(kind, id), UNCHANGED task
          PROVE  CancelQueueInv'
      BY <2>5, CancelQueueTake DEF TaskKinds
    <2> QED
      BY <1>3, <2>1, <2>2, <2>3, <2>4, <2>5
         DEF Dispatch, DispatchCancel, DispatchResponse, TaskKinds
  <1>4. CASE Handlers
    <2>1. NoneQueued
      BY <1>0, <1>4 DEF Handlers, RequestHandled, NotificationHandled, NoneQueued
    <2> QED
      BY <1>4, <2>1, CancelQueueQuiet
         DEF Handlers, RequestHandled, NotificationHandled
  <1>5. CASE Writer
    <2>1. NoneQueued
      BY <1>0, <1>5
         DEF Writer, ReplyWritten, ResultNotWritten, ErrorNotWritten,
             UndispatchedWritten, RequestWritten, RequestNotWritten,
             CancelWritten, inbound, NoneQueued
    <2>2. UNCHANGED <<messageQueue, cancelArrived>>
      BY <1>5
         DEF Writer, ReplyWritten, ResultNotWritten, ErrorNotWritten,
             UndispatchedWritten, RequestWritten, RequestNotWritten,
             CancelWritten, inbound
    <2> QED
      BY <2>1, <2>2, CancelQueueQuiet
  <1>6. CASE Owner
    <2>1. CASE Dispose
      <3>1. /\ Len(messageQueue') = 0 /\ UNCHANGED cancelArrived
            /\ \A r \in InRequests : \/ task'[r] = task[r] /\ task[r] # "queued"
                                     \/ task'[r] = "dropped"
        BY <1>0, <2>1 DEF Dispose
      <3> QED
        BY <1>0, <3>1 DEF CancelQueueInv
    <2> QED
      BY <1>6, <2>1, CancelQueueQuiet
         DEF Owner, Listen, Close, SendRequest, CancelBefore, CancelPending,
             inbound, NoneQueued
  <1> QED
    BY <1>1, <1>2, <1>3, <1>4, <1>5, <1>6 DEF Next
-----------------------------------------------------------------------------
(* Tokens and cancellations of the peer's requests.                        *)

\* What a step may do to one request: nothing, or it moves on with its token.
TokenMoves(r) ==
  \/ task'[r] = task[r] /\ (r \in requestTokens' <=> r \in requestTokens)
  \/ task'[r] = "running" /\ r \in requestTokens'
  \/ task[r] = "running" /\ task'[r] \in ReplyKinds
       /\ (r \in requestTokens' <=> r \in requestTokens)
  \/ task[r] = "result" /\ task'[r] = "error"
       /\ (r \in requestTokens' <=> r \in requestTokens)
  \/ task[r] \in {"absent", "queued"} /\ task'[r] \notin {"running", "result"}
       /\ (r \in requestTokens' => r \in requestTokens)
  \/ task'[r] \notin {"running", "result"} /\ r \notin requestTokens'

\* If every request moves like that, the tokens keep matching.
LEMMA TokensKept ==
  ASSUME IndInv, TokensMatch, ~isDisposed, ~isDisposed',
         requestTokens' \subseteq InRequests,
         \A r \in InRequests : TokenMoves(r)
  PROVE  TokensMatch'
  <1>1. \A r \in InRequests :
          /\ task[r] \in {"running", "result"} => r \in requestTokens
          /\ r \in requestTokens => task[r] \in {"running", "result", "error"}
    BY DEF TokensMatch
  <1>2. \A r \in InRequests :
          /\ task'[r] \in {"running", "result"} => r \in requestTokens'
          /\ r \in requestTokens' => task'[r] \in {"running", "result", "error"}
    BY <1>1 DEF TokenMoves, ReplyKinds
  <1> QED
    BY <1>2 DEF TokensMatch

\* What a step does to the tokens of a connection that is not disposed of.
LEMMA TokensMove ==
  ASSUME IndInv, [Next]_vars, ~isDisposed, ~isDisposed'
  PROVE  /\ requestTokens' \subseteq InRequests
         /\ \A r \in InRequests : TokenMoves(r)
  <1>0. /\ task \in [Tasks -> TaskStatus] /\ requestTokens \subseteq InRequests
        /\ InRequests \subseteq Tasks
    BY DEF IndInv, TypeOK, Tasks
  <1>1. CASE UNCHANGED vars
    BY <1>0, <1>1 DEF vars, inbound, TokenMoves
  <1>2. CASE Receive
    <2>1. ASSUME NEW r \in InRequests, ReceiveCancelUndispatched(r)
          PROVE  /\ requestTokens' \subseteq InRequests
                 /\ \A u \in InRequests : TokenMoves(u)
      BY <1>0, <2>1 DEF ReceiveCancelUndispatched, TokenMoves
    <2>2. ASSUME NEW t \in Tasks, ReceiveTask(t)
          PROVE  /\ requestTokens' \subseteq InRequests
                 /\ \A u \in InRequests : TokenMoves(u)
      BY <1>0, <2>2 DEF ReceiveTask, TokenMoves
    <2> QED
      BY <1>0, <1>2, <2>1, <2>2
         DEF Receive, ReceiveCancelRunning, ReceiveCancelEarly,
             ReceiveQueued, ReceiveResponseDirectly, TokenMoves
  <1>3. CASE Dispatch
    <2>1. ASSUME NEW r \in InRequests,
                 \/ DispatchRequest(r) \/ DispatchRefused(r) \/ DispatchCancel(r)
                 \/ DispatchDropped("request", r)
          PROVE  /\ requestTokens' \subseteq InRequests
                 /\ \A u \in InRequests : TokenMoves(u)
      <3>1. DispatchRefused(r) => task[r] = "queued"
        BY TakeEffect DEF DispatchRefused, TaskKinds
      <3> QED
        BY <1>0, <2>1, <3>1
           DEF DispatchRequest, DispatchRefused, DispatchCancel, DispatchDropped,
               TokenMoves
    <2>2. ASSUME NEW n \in Notes,
                 DispatchNotification(n) \/ DispatchDropped("notification", n)
          PROVE  /\ requestTokens' \subseteq InRequests
                 /\ \A u \in InRequests : TokenMoves(u)
      <3>1. n \notin InRequests
        BY DisjointAssumption
      <3> QED
        BY <1>0, <2>2, <3>1 DEF DispatchNotification, DispatchDropped, TokenMoves
    <2> QED
      BY <1>0, <1>3, <2>1, <2>2
         DEF Dispatch, TimerIdle, DispatchResponse, TokenMoves
  <1>4. CASE Handlers
    <2>1. ASSUME NEW n \in Notes, NotificationHandled(n)
          PROVE  /\ requestTokens' \subseteq InRequests
                 /\ \A u \in InRequests : TokenMoves(u)
      <3>1. n \notin InRequests
        BY DisjointAssumption
      <3> QED
        BY <1>0, <2>1, <3>1 DEF NotificationHandled, TokenMoves
    <2> QED
      BY <1>0, <1>4, <2>1 DEF Handlers, RequestHandled, TokenMoves, ReplyKinds
  <1>5. CASE Writer
    <2>1. ASSUME NEW r \in InRequests, ResultNotWritten(r)
          PROVE  /\ requestTokens' \subseteq InRequests
                 /\ \A u \in InRequests : TokenMoves(u)
      <3>1. task[r] = "result"
        BY <2>1, SettleEffect DEF ResultNotWritten, ReplyKinds
      <3> QED
        BY <1>0, <2>1, <3>1 DEF ResultNotWritten, TokenMoves
    <2>2. ASSUME NEW r \in InRequests, NEW kind \in ReplyKinds,
                 ReplyWritten(r, kind) \/ ErrorNotWritten(r)
          PROVE  /\ requestTokens' \subseteq InRequests
                 /\ \A u \in InRequests : TokenMoves(u)
      BY <1>0, <2>2 DEF ReplyWritten, ErrorNotWritten, TokenMoves
    <2> QED
      BY <1>0, <1>5, <2>1, <2>2
         DEF Writer, ReplyKinds, UndispatchedWritten, RequestWritten,
             RequestNotWritten, CancelWritten, inbound, TokenMoves
  <1>6. CASE Owner
    BY <1>0, <1>6
       DEF Owner, Listen, Close, Dispose, SendRequest, CancelBefore,
           CancelPending, inbound, TokenMoves, isDisposed
  <1> QED
    BY <1>1, <1>2, <1>3, <1>4, <1>5, <1>6 DEF Next

\* A connection is disposed of for good, by Dispose, and gets no tokens then.
LEMMA DisposedStays ==
  ASSUME IndInv, [Next]_vars
  PROVE  /\ isDisposed => isDisposed' /\ requestTokens' \subseteq requestTokens
         /\ isDisposed' /\ ~isDisposed => Dispose
  <1> USE DEF isDisposed
  <1>1. CASE UNCHANGED vars
    BY <1>1 DEF vars, inbound
  <1>2. CASE Receive
    BY <1>2 DEF Receive, ReceiveTask, ReceiveCancelUndispatched,
                ReceiveCancelRunning, ReceiveCancelEarly, ReceiveQueued,
                ReceiveResponseDirectly
  <1>3. CASE Dispatch
    BY <1>3 DEF Dispatch, TimerIdle, Take, DispatchRequest, DispatchRefused,
                DispatchDropped, DispatchCancel, DispatchNotification,
                DispatchResponse
  <1>4. CASE Handlers
    BY <1>4 DEF Handlers, RequestHandled, NotificationHandled
  <1>5. CASE Writer
    BY <1>5 DEF Writer, ReplyWritten, ResultNotWritten, ErrorNotWritten,
                UndispatchedWritten, RequestWritten, RequestNotWritten,
                CancelWritten, inbound
  <1>6. CASE Owner
    BY <1>6 DEF Owner, Listen, Close, Dispose, SendRequest, CancelBefore,
                CancelPending, inbound
  <1> QED
    BY <1>1, <1>2, <1>3, <1>4, <1>5, <1>6 DEF Next

\* Every callback keeps TokensMatch.
LEMMA TokensStep == IndInv /\ TokensMatch /\ [Next]_vars => TokensMatch'
  <1> SUFFICES ASSUME IndInv, TokensMatch, [Next]_vars PROVE TokensMatch'
    OBVIOUS
  <1>1. CASE isDisposed'
    <2>1. requestTokens' = {}
      BY <1>1, DisposedStays DEF TokensMatch, Dispose
    <2> QED
      BY <1>1, <2>1 DEF TokensMatch
  <1>2. CASE ~isDisposed'
    <2>1. ~isDisposed
      BY <1>2, DisposedStays
    <2> QED
      BY <1>2, <2>1, TokensKept, TokensMove
  <1> QED
    BY <1>1, <1>2
-----------------------------------------------------------------------------
(* The cancellations that are remembered: RememberedInv.                   *)

CancelQueued(r) ==
  \E i \in 1..Len(messageQueue) : messageQueue[i] = Message("cancel", r)

\* Appending m queues the cancellation of r exactly when m is that message.
LEMMA CancelQueuedGrow ==
  ASSUME IndInv, NEW m \in InMessages, messageQueue' = Append(messageQueue, m)
  PROVE  \A r \in InRequests :
           CancelQueued(r)' <=> CancelQueued(r) \/ m = Message("cancel", r)
  <1>1. /\ Len(messageQueue) \in Nat
        /\ Len(messageQueue') = Len(messageQueue) + 1
        /\ \A i \in 1..Len(messageQueue) : messageQueue'[i] = messageQueue[i]
        /\ messageQueue'[Len(messageQueue) + 1] = m
    BY QueueGrowth DEF IndInv
  <1>2. ASSUME NEW r \in InRequests, CancelQueued(r)
        PROVE  CancelQueued(r)'
    <2>1. PICK i \in 1..Len(messageQueue) : messageQueue[i] = Message("cancel", r)
      BY <1>2 DEF CancelQueued
    <2>2. i \in 1..Len(messageQueue') /\ messageQueue'[i] = Message("cancel", r)
      BY <1>1, <2>1
    <2> QED
      BY <2>2 DEF CancelQueued
  <1>3. ASSUME NEW r \in InRequests, m = Message("cancel", r)
        PROVE  CancelQueued(r)'
    <2>1. /\ Len(messageQueue) + 1 \in 1..Len(messageQueue')
          /\ messageQueue'[Len(messageQueue) + 1] = Message("cancel", r)
      BY <1>1, <1>3
    <2> QED
      BY <2>1 DEF CancelQueued
  <1>4. ASSUME NEW r \in InRequests, CancelQueued(r)'
        PROVE  CancelQueued(r) \/ m = Message("cancel", r)
    <2>1. PICK i \in 1..Len(messageQueue') : messageQueue'[i] = Message("cancel", r)
      BY <1>4 DEF CancelQueued
    <2> QED
      BY <1>1, <2>1 DEF CancelQueued
  <1> QED
    BY <1>2, <1>3, <1>4

\* Taking the k-th message unqueues a cancellation exactly when it is the k-th.
LEMMA CancelQueuedShrink ==
  ASSUME IndInv, CancelQueueInv, NEW k \in 1..Len(messageQueue),
         \/ messageQueue' = RemoveAt(messageQueue, k)
         \/ k = 1 /\ messageQueue' = Tail(messageQueue)
  PROVE  \A r \in InRequests :
           CancelQueued(r)' <=>
             CancelQueued(r) /\ messageQueue[k] # Message("cancel", r)
  <1>1. /\ \A i \in 1..Len(messageQueue') :
             /\ Old(k, i) \in 1..Len(messageQueue) \ {k}
             /\ messageQueue'[i] = messageQueue[Old(k, i)]
        /\ \A j \in 1..Len(messageQueue) :
             j # k => \E i \in 1..Len(messageQueue') : Old(k, i) = j
    BY QueueShrink DEF IndInv
  <1>2. ASSUME NEW r \in InRequests, CancelQueued(r),
               messageQueue[k] # Message("cancel", r)
        PROVE  CancelQueued(r)'
    <2>1. PICK j \in 1..Len(messageQueue) : messageQueue[j] = Message("cancel", r)
      BY <1>2 DEF CancelQueued
    <2>2. PICK i \in 1..Len(messageQueue') : Old(k, i) = j
      BY <1>1, <1>2, <2>1
    <2>3. messageQueue'[i] = Message("cancel", r)
      BY <1>1, <2>1, <2>2
    <2> QED
      BY <2>3 DEF CancelQueued
  <1>3. ASSUME NEW r \in InRequests, CancelQueued(r)'
        PROVE  CancelQueued(r) /\ messageQueue[k] # Message("cancel", r)
    <2>1. PICK i \in 1..Len(messageQueue') : messageQueue'[i] = Message("cancel", r)
      BY <1>3 DEF CancelQueued
    <2>2. /\ Old(k, i) \in 1..Len(messageQueue) /\ Old(k, i) # k
          /\ messageQueue[Old(k, i)] = Message("cancel", r)
      BY <1>1, <2>1
    <2> QED
      BY <2>2 DEF CancelQueued, CancelQueueInv
  <1> QED
    BY <1>2, <1>3

\* A request at rest in the queue has no token and is not cancelled behind its
\* back; the memory changes together with the queue.
LEMMA RememberedKept ==
  ASSUME RememberedInv, ~isDisposed,
         \A r \in InRequests :
           (r \in knownCanceledRequests' <=> CancelQueued(r)'),
         cancelArrived' \subseteq InRequests,
         \A r \in cancelArrived' :
           task'[r] = "queued" =>
             \/ r \in knownCanceledRequests'
             \/ r \in cancelArrived /\ task[r] = "queued"
                /\ (r \in knownCanceledRequests => r \in knownCanceledRequests')
  PROVE  RememberedInv'
  BY DEF RememberedInv, CancelQueued

\* Steps that leave the queue and the memory alone.
LEMMA RememberedQuiet ==
  ASSUME IndInv, RememberedInv, NoneQueued, ~isDisposed,
         UNCHANGED <<messageQueue, cancelArrived, knownCanceledRequests>>
  PROVE  RememberedInv'
  <1>1. \A r \in InRequests : r \in knownCanceledRequests <=> CancelQueued(r)
    BY DEF RememberedInv, CancelQueued
  <1>2. \A r \in InRequests : CancelQueued(r)' <=> CancelQueued(r)
    BY DEF CancelQueued
  <1>3. cancelArrived \subseteq InRequests
    BY DEF IndInv, TypeOK
  <1> QED
    BY <1>1, <1>2, <1>3, RememberedKept DEF NoneQueued

\* The dispatcher takes a message off the queue that is no cancellation.
LEMMA RememberedTake ==
  ASSUME IndInv, CancelQueueInv, RememberedInv, NoneQueued, ~isDisposed,
         NEW kind, kind # "cancel", NEW id, Take(kind, id),
         UNCHANGED knownCanceledRequests
  PROVE  RememberedInv'
  <1>1. /\ messageQueue' = Tail(messageQueue)
        /\ 1 \in 1..Len(messageQueue)
        /\ messageQueue[1] = Message(kind, id)
    BY TakeEffect, TailElements DEF IndInv, TypeOK
  <1>2. \A r \in InRequests : CancelQueued(r)' <=> CancelQueued(r)
    BY <1>1, CancelQueuedShrink, MessageDistinct
  <1>3. \A r \in InRequests : r \in knownCanceledRequests <=> CancelQueued(r)
    BY DEF RememberedInv, CancelQueued
  <1>4. cancelArrived' \subseteq InRequests /\ UNCHANGED cancelArrived
    BY DEF IndInv, TypeOK, Take
  <1> QED
    BY <1>2, <1>3, <1>4, RememberedKept DEF NoneQueued

\* The cancellation of r is dispatched: r itself has been before.
LEMMA RememberedForgotten ==
  ASSUME IndInv, CancelQueueInv, RememberedInv, ~isDisposed,
         NEW r \in InRequests, DispatchCancel(r)
  PROVE  RememberedInv'
  <1>1. /\ messageQueue' = Tail(messageQueue)
        /\ 1 \in 1..Len(messageQueue)
        /\ messageQueue[1] = Message("cancel", r)
    BY TakeEffect, TailElements DEF IndInv, TypeOK, DispatchCancel
  <1>2. \A u \in InRequests : CancelQueued(u)' <=> CancelQueued(u) /\ u # r
    BY <1>1, CancelQueuedShrink, MessageDistinct
  <1>3. \A u \in InRequests : u \in knownCanceledRequests <=> CancelQueued(u)
    BY DEF RememberedInv, CancelQueued
  <1>4. /\ knownCanceledRequests' = knownCanceledRequests \ {r}
        /\ UNCHANGED <<task, cancelArrived>>
        /\ cancelArrived \subseteq InRequests
    BY DEF DispatchCancel, Take, IndInv, TypeOK
  <1>5. task[r] # "queued"
    <2> SUFFICES ASSUME task[r] = "queued" PROVE FALSE
      OBVIOUS
    <2>1. PICK j \in 1..Len(messageQueue) : messageQueue[j] = Message("request", r)
      BY DEF CancelQueueInv
    <2>2. j < 1
      BY <1>1, <2>1 DEF CancelQueueInv
    <2> QED
      BY <2>2
  <1> QED
    BY <1>2, <1>3, <1>4, <1>5, RememberedKept

\* Every callback keeps RememberedInv.
LEMMA RememberedStep ==
  IndInv /\ CancelQueueInv /\ TokensMatch /\ RememberedInv /\ [Next]_vars
    => RememberedInv'
  <1> SUFFICES ASSUME IndInv, CancelQueueInv, TokensMatch, RememberedInv,
                      [Next]_vars, ~isDisposed'
               PROVE  RememberedInv'
    BY DEF RememberedInv
  <1>0. /\ TypeOK /\ task \in [Tasks -> TaskStatus]
        /\ InRequests \subseteq Tasks /\ cancelArrived \subseteq InRequests
        /\ ~isDisposed
        /\ \A r \in InRequests : r \in knownCanceledRequests <=> CancelQueued(r)
    BY DisposedStays DEF IndInv, TypeOK, Tasks, RememberedInv, CancelQueued
  <1>1. CASE UNCHANGED vars
    BY <1>0, <1>1, RememberedQuiet DEF vars, inbound, NoneQueued
  <1>2. CASE Receive
    <2>1. ASSUME NEW t \in Tasks, ReceiveTask(t) PROVE RememberedInv'
      <3> DEFINE m == Message(IF t \in InRequests THEN "request" ELSE "notification", t)
      <3>1. /\ m \in InMessages /\ messageQueue' = Append(messageQueue, m)
            /\ UNCHANGED <<cancelArrived, knownCanceledRequests>>
        BY <2>1 DEF ReceiveTask, Enqueue, Message, InMessages, Tasks
      <3>2. \A r \in InRequests : m # Message("cancel", r)
        BY MessageDistinct
      <3> HIDE DEF m
      <3>3. \A r \in InRequests : CancelQueued(r)' <=> CancelQueued(r)
        BY <3>1, <3>2, CancelQueuedGrow
      <3>4. \A r \in cancelArrived : task'[r] = task[r]
        BY <1>0, <2>1 DEF ReceiveTask, CancelQueueInv
      <3> QED
        BY <1>0, <3>1, <3>3, <3>4, RememberedKept
    <2>2. ASSUME NEW r \in InRequests, ReceiveCancelUndispatched(r)
          PROVE  RememberedInv'
      <3>1. PICK k \in 1..Len(messageQueue) :
              /\ messageQueue[k] = Message("request", r)
              /\ messageQueue' = RemoveAt(messageQueue, k)
        BY <1>0, <2>2 DEF ReceiveCancelUndispatched, TypeOK
      <3>2. /\ task' = [task EXCEPT ![r] = "unqueued"]
            /\ cancelArrived' = cancelArrived \cup {r}
            /\ UNCHANGED knownCanceledRequests
        BY <2>2 DEF ReceiveCancelUndispatched, PeerCancels
      <3>3. \A u \in InRequests : CancelQueued(u)' <=> CancelQueued(u)
        BY <3>1, CancelQueuedShrink, MessageDistinct
      <3>4. \A u \in cancelArrived' : task'[u] = "queued" =>
              u \in cancelArrived /\ task[u] = "queued"
        BY <1>0, <3>2
      <3> QED
        BY <1>0, <3>2, <3>3, <3>4, RememberedKept
    <2>3. ASSUME NEW r \in InRequests, ReceiveCancelRunning(r) PROVE RememberedInv'
      <3>1. /\ UNCHANGED <<task, messageQueue, knownCanceledRequests>>
            /\ cancelArrived' = cancelArrived \cup {r} /\ r \in requestTokens
        BY <2>3 DEF ReceiveCancelRunning, PeerCancels
      <3>2. task[r] # "queued"
        BY <1>0, <3>1 DEF TokensMatch
      <3>3. \A u \in InRequests : CancelQueued(u)' <=> CancelQueued(u)
        BY <3>1 DEF CancelQueued
      <3> QED
        BY <1>0, <3>1, <3>2, <3>3, RememberedKept
    <2>4. ASSUME NEW r \in InRequests, ReceiveCancelEarly(r) PROVE RememberedInv'
      <3>1. /\ messageQueue' = Append(messageQueue, Message("cancel", r))
            /\ Message("cancel", r) \in InMessages
            /\ UNCHANGED task /\ cancelArrived' = cancelArrived \cup {r}
            /\ knownCanceledRequests' = knownCanceledRequests \cup {r}
        BY <2>4 DEF ReceiveCancelEarly, PeerCancels, Enqueue, Message, InMessages
      <3>2. \A u \in InRequests : CancelQueued(u)' <=> CancelQueued(u) \/ u = r
        BY <3>1, CancelQueuedGrow, MessageDistinct
      <3> QED
        BY <1>0, <3>1, <3>2, RememberedKept
    <2>5. ASSUME NEW o \in OutRequests, NEW kind \in {"response", "invalid"},
                 ReceiveQueued(kind, o)
          PROVE  RememberedInv'
      <3>1. /\ Message(kind, o) \in InMessages
            /\ messageQueue' = Append(messageQueue, Message(kind, o))
            /\ UNCHANGED <<task, cancelArrived, knownCanceledRequests>>
        BY <2>5 DEF ReceiveQueued, Enqueue, Message, InMessages
      <3>2. \A r \in InRequests : CancelQueued(r)' <=> CancelQueued(r)
        BY <3>1, CancelQueuedGrow, MessageDistinct
      <3> QED
        BY <1>0, <3>1, <3>2, RememberedKept
    <2>6. ASSUME NEW o \in OutRequests, ReceiveResponseDirectly(o)
          PROVE  RememberedInv'
      BY <1>0, <2>6, RememberedQuiet DEF ReceiveResponseDirectly, NoneQueued
    <2> QED
      BY <1>2, <2>1, <2>2, <2>3, <2>4, <2>5, <2>6 DEF Receive
  <1>3. CASE Dispatch
    <2>1. CASE TimerIdle
      BY <1>0, <2>1, RememberedQuiet DEF TimerIdle, NoneQueued
    <2>2. ASSUME NEW r \in InRequests, DispatchRequest(r) \/ DispatchRefused(r)
          PROVE  RememberedInv'
      <3>1. Take("request", r) /\ UNCHANGED knownCanceledRequests /\ NoneQueued
        BY <1>0, <2>2 DEF DispatchRequest, DispatchRefused, NoneQueued
      <3> QED
        BY <1>0, <3>1, RememberedTake
    <2>3. ASSUME NEW n \in Notes, DispatchNotification(n) PROVE RememberedInv'
      <3>1. /\ Take("notification", n) /\ UNCHANGED knownCanceledRequests
            /\ NoneQueued
        BY <1>0, <2>3 DEF DispatchNotification, NoneQueued
      <3> QED
        BY <1>0, <3>1, RememberedTake
    <2>4. ASSUME NEW kind \in TaskKinds, NEW t, DispatchDropped(kind, t)
          PROVE  RememberedInv'
      BY <1>0, <2>4 DEF DispatchDropped
    <2>5. ASSUME NEW o \in OutRequests, NEW kind \in {"response", "invalid"},
                 DispatchResponse(kind, o)
          PROVE  RememberedInv'
      <3>1. Take(kind, o) /\ UNCHANGED knownCanceledRequests /\ NoneQueued
        BY <2>5 DEF DispatchResponse, NoneQueued
      <3> QED
        BY <1>0, <3>1, RememberedTake
    <2> QED
      BY <1>0, <1>3, <2>1, <2>2, <2>3, <2>4, <2>5, RememberedForgotten
         DEF Dispatch, TaskKinds
  <1>4. CASE Handlers
    <2>1. NoneQueued
      BY <1>0, <1>4 DEF Handlers, RequestHandled, NotificationHandled, NoneQueued
    <2> QED
      BY <1>0, <1>4, <2>1, RememberedQuiet
         DEF Handlers, RequestHandled, NotificationHandled
  <1>5. CASE Writer
    <2>1. NoneQueued
      BY <1>0, <1>5
         DEF Writer, ReplyWritten, ResultNotWritten, ErrorNotWritten,
             UndispatchedWritten, RequestWritten, RequestNotWritten,
             CancelWritten, inbound, NoneQueued
    <2>2. UNCHANGED <<messageQueue, cancelArrived, knownCanceledRequests>>
      BY <1>5
         DEF Writer, ReplyWritten, ResultNotWritten, ErrorNotWritten,
             UndispatchedWritten, RequestWritten, RequestNotWritten,
             CancelWritten, inbound
    <2> QED
      BY <1>0, <2>1, <2>2, RememberedQuiet
  <1>6. CASE Owner
    <2>1. ~Dispose
      BY DEF Dispose, isDisposed
    <2>2. NoneQueued
      BY <1>6, <2>1 DEF Owner, Listen, Close, SendRequest, CancelBefore,
                        CancelPending, inbound, NoneQueued
    <2> QED
      BY <1>0, <1>6, <2>1, <2>2, RememberedQuiet
         DEF Owner, Listen, Close, SendRequest, CancelBefore, CancelPending, inbound
  <1> QED
    BY <1>1, <1>2, <1>3, <1>4, <1>5, <1>6 DEF Next

\* A running request was running before, or its dispatch found the memory of
\* its cancellation; and a cancelled token stays cancelled.
LEMMA RunningSteps ==
  ASSUME IndInv, [Next]_vars
  PROVE  /\ cancelled \subseteq cancelled'
         /\ \A r \in InRequests : task'[r] = "running" =>
              \/ task[r] = "running"
              \/ /\ task[r] = "queued" /\ UNCHANGED cancelArrived
                 /\ r \in knownCanceledRequests => r \in cancelled'
         /\ \A r \in InRequests : r \in cancelArrived' =>
              \/ r \in cancelArrived
              \/ r \in cancelled'
              \/ task'[r] # "running"
              \/ r \notin requestTokens /\ UNCHANGED task
  <1> DEFINE P(r) ==
        /\ task'[r] = "running" =>
             \/ task[r] = "running"
             \/ /\ task[r] = "queued" /\ UNCHANGED cancelArrived
                /\ r \in knownCanceledRequests => r \in cancelled'
        /\ r \in cancelArrived' => \/ r \in cancelArrived
                                   \/ r \in cancelled'
                                   \/ task'[r] # "running"
                                   \/ r \notin requestTokens /\ UNCHANGED task
  <1>0. task \in [Tasks -> TaskStatus] /\ InRequests \subseteq Tasks
    BY DEF IndInv, TypeOK, Tasks
  <1>1. CASE UNCHANGED vars
    BY <1>1 DEF vars, inbound
  <1>2. CASE Receive
    <2>1. ASSUME NEW t \in Tasks, ReceiveTask(t)
          PROVE  cancelled \subseteq cancelled' /\ \A r \in InRequests : P(r)
      BY <1>0, <2>1 DEF ReceiveTask
    <2>2. ASSUME NEW u \in InRequests,
                 \/ ReceiveCancelUndispatched(u) \/ ReceiveCancelRunning(u)
                 \/ ReceiveCancelEarly(u)
          PROVE  cancelled \subseteq cancelled' /\ \A r \in InRequests : P(r)
      BY <1>0, <2>2 DEF ReceiveCancelUndispatched, ReceiveCancelRunning,
                        ReceiveCancelEarly, PeerCancels
    <2>3. ASSUME NEW o \in OutRequests,
                 \/ \E kind : ReceiveQueued(kind, o)
                 \/ ReceiveResponseDirectly(o)
          PROVE  cancelled \subseteq cancelled' /\ \A r \in InRequests : P(r)
      BY <2>3 DEF ReceiveQueued, ReceiveResponseDirectly
    <2> QED
      BY <1>2, <2>1, <2>2, <2>3 DEF Receive
  <1>3. CASE Dispatch
    <2>1. ASSUME NEW u \in InRequests, DispatchRequest(u)
          PROVE  cancelled \subseteq cancelled' /\ \A r \in InRequests : P(r)
      <3>1. task[u] = "queued" /\ UNCHANGED cancelArrived
        BY <2>1, TakeEffect DEF DispatchRequest, Take, TaskKinds
      <3> QED
        BY <1>0, <2>1, <3>1 DEF DispatchRequest
    <2>2. ASSUME NEW n \in Notes, DispatchNotification(n)
          PROVE  cancelled \subseteq cancelled' /\ \A r \in InRequests : P(r)
      <3>1. n \notin InRequests
        BY DisjointAssumption
      <3> QED
        BY <1>0, <2>2, <3>1 DEF DispatchNotification, Take
    <2>3. ASSUME NEW kind, NEW t, DispatchDropped(kind, t)
          PROVE  cancelled \subseteq cancelled' /\ \A r \in InRequests : P(r)
      BY <1>0, <2>3 DEF DispatchDropped, Take
    <2>4. ASSUME NEW u \in InRequests, DispatchRefused(u)
          PROVE  cancelled \subseteq cancelled' /\ \A r \in InRequests : P(r)
      BY <1>0, <2>4 DEF DispatchRefused, Take
    <2> QED
      BY <1>3, <2>1, <2>2, <2>3, <2>4
         DEF Dispatch, TimerIdle, DispatchCancel, DispatchResponse, Take
  <1>4. CASE Handlers
    BY <1>0, <1>4 DEF Handlers, RequestHandled, NotificationHandled
  <1>5. CASE Writer
    BY <1>0, <1>5
       DEF Writer, ReplyWritten, ResultNotWritten, ErrorNotWritten,
           UndispatchedWritten, RequestWritten, RequestNotWritten,
           CancelWritten, inbound
  <1>6. CASE Owner
    BY <1>0, <1>6
       DEF Owner, Listen, Close, Dispose, SendRequest, CancelBefore,
           CancelPending, inbound
  <1> QED
    BY <1>1, <1>2, <1>3, <1>4, <1>5, <1>6 DEF Next

\* Every callback keeps CancelReachesHandler.
LEMMA ReachesStep ==
  IndInv /\ TokensMatch /\ RememberedInv /\ CancelReachesHandler /\ [Next]_vars
    => CancelReachesHandler'
  <1> SUFFICES ASSUME IndInv, TokensMatch, RememberedInv, CancelReachesHandler,
                      [Next]_vars, ~isDisposed',
                      NEW r \in cancelArrived', task'[r] = "running"
               PROVE  r \in cancelled'
    BY DEF CancelReachesHandler
  <1>0. ~isDisposed /\ IndInv'
    BY DisposedStays, NextInd
  <1>1. r \in InRequests
    BY <1>0 DEF IndInv, TypeOK
  <1>2. CASE task[r] = "running"
    <2>1. r \in requestTokens
      BY <1>0, <1>1, <1>2 DEF TokensMatch
    <2>2. r \in cancelArrived => r \in cancelled
      BY <1>0, <1>2 DEF CancelReachesHandler
    <2> QED
      BY <1>1, <2>1, <2>2, RunningSteps
  <1>3. CASE task[r] # "running"
    <2>1. /\ task[r] = "queued" /\ UNCHANGED cancelArrived
          /\ r \in knownCanceledRequests => r \in cancelled'
      BY <1>1, <1>3, RunningSteps
    <2> QED
      BY <1>0, <2>1 DEF RememberedInv
  <1> QED
    BY <1>2, <1>3
-----------------------------------------------------------------------------
(* The theorem.                                                            *)

\* The new connection satisfies the inductive invariant.
LEMMA CancelInit == Init => CancelInv
  <1> SUFFICES ASSUME Init PROVE CancelInv
    OBVIOUS
  <1>1. IndInv
    BY InitInd
  <1>2. RepliesInv /\ SentInv /\ CancelQueueInv
    BY DEF Init, RepliesInv, SentInv, CancelQueueInv, Tasks
  <1>3. RememberedInv /\ CancelReachesHandler
    BY DEF Init, RememberedInv, CancelReachesHandler
  <1>4. TokensMatch
    BY DEF Init, TokensMatch, isDisposed, Tasks
  <1> QED
    BY <1>1, <1>2, <1>3, <1>4 DEF CancelInv

\* Every callback keeps the inductive invariant.
LEMMA CancelNext == CancelInv /\ [Next]_vars => CancelInv'
  BY NextInd, RepliesStep, SentStep, CancelQueueStep, RememberedStep,
     TokensStep, ReachesStep DEF CancelInv

\* The inductive invariant says what the run checks.
LEMMA CancelImplies == CancelInv => CancelsAndRepliesExact
  <1> SUFFICES ASSUME CancelInv PROVE CancelsAndRepliesExact
    OBVIOUS
  <1>0. /\ RepliesInv /\ SentInv /\ RememberedInv
        /\ TokensMatch /\ CancelReachesHandler
        /\ TypeOK
    BY DEF CancelInv, IndInv
  <1>1. NoStaleCancel
    BY <1>0 DEF NoStaleCancel, RememberedInv, Contains, TypeOK
  <1>2. AtMostOneReply
    BY <1>0 DEF AtMostOneReply, RepliesInv, TypeOK
  <1>3. CancelNeverFirst
    <2> SUFFICES ASSUME NEW i \in DOMAIN outbox, NEW j \in DOMAIN outbox,
                        outbox[i].kind = "cancel",
                        outbox[j] = Message("request", outbox[i].id)
                 PROVE  j < i
      BY DEF CancelNeverFirst
    <2>1. i \in 1..Len(outbox) /\ j \in 1..Len(outbox) /\ outbox[i] \in OutMessages
      BY <1>0 DEF TypeOK
    <2>2. outbox[i].id \in OutRequests /\ outbox[i] = Message("cancel", outbox[i].id)
      BY <2>1 DEF OutMessages, Message
    <2> QED
      BY <1>0, <2>1, <2>2 DEF SentInv
  <1> QED
    BY <1>0, <1>1, <1>2, <1>3 DEF CancelsAndRepliesExact

\* A cancellation from the peer reaches the handler of the request it names
\* and no other, whenever it arrives: before the dispatch, while the handler
\* runs, or as the undispatched request is answered at once.  This end never
\* sends a cancellation ahead of its request, and no request, whatever fails
\* or is disposed of, gets two responses.
THEOREM CancelsAndRepliesExactHolds == Spec => []CancelsAndRepliesExact
  BY CancelInit, CancelNext, CancelImplies, PTL DEF Spec

-----------------------------------------------------------------------------
(* The streams.                                                            *)

HIDE ParallelismAssumption
HIDE DisjointAssumption
HIDE DEF Unlimited

\* A message on the stream, and what was written and is not taken yet.
Size(m) == HeaderSize + BodySize[m]
Stream == buffer \o wire

WriteSettled(m) == writePromise[m] \in {"resolved", "rejected"}

\* Messages are written in the order of the calls.
Queue ==
  /\ phase # "encode" => writing # <<>>
  /\ \A i, j \in Messages : writePromise[i] = "none" /\ i < j => writePromise[j] = "none"
  /\ \A i, j \in 1..Len(writing) : i < j => writing[i] < writing[j]
  /\ \A i \in 1..Len(writing), m \in Messages : WriteSettled(m) => m < writing[i]

\* On the stream s messages are whole, but for where the first begins: the
\* units of one follow each other, and the next is of a later call.
Framed(s) ==
  /\ \A i, j \in 1..Len(s) : i < j =>
       IF s[i][2] + (j - i) <= Size(s[i][1])
       THEN s[j][1] = s[i][1] /\ s[j][2] = s[i][2] + (j - i)
       ELSE s[i][1] < s[j][1]
  /\ \A i \in 1..Len(s) - 1 : s[i][2] = Size(s[i][1]) => s[i + 1][2] = 1

\* What is on the stream is of writes that settled or of the one under way; a
\* body was written with success; and the stream ends with a whole message, or
\* with the header of the one under way.
Sent(s) ==
  /\ \A i \in 1..Len(s) :
       /\ WriteSettled(s[i][1]) \/ (phase = "body" /\ s[i][1] = Head(writing))
       /\ s[i][2] > HeaderSize => writePromise[s[i][1]] = "resolved"
  /\ sender = "running" /\ Len(s) > 0 =>
       IF phase = "body" THEN s[Len(s)] = <<Head(writing), HeaderSize>>
       ELSE s[Len(s)][2] = Size(s[Len(s)][1])

\* The reader is where it takes itself to be: before a header, unless a message
\* without its length went before, or before the body of the length it read.
Aligned(s, length) ==
  IF length = None
  THEN IF Len(s) = 0 THEN sender = "running" /\ phase = "body" => ~InSync(Head(writing))
       ELSE InSync(s[1][1]) => s[1][2] = 1
  ELSE /\ length > 0
       /\ IF Len(s) = 0
          THEN sender = "running" => phase = "body" /\ length = BodySize[Head(writing)]
          ELSE s[1][2] = HeaderSize + 1 /\ length = BodySize[s[1][1]]

\* The message of a body.
Of(b) == b[1][1]

\* Bodies taken are those of messages written; what was delivered comes before
\* them, in order, and they before what is on the stream.
Passed(bodies, s) ==
  /\ \A i \in 1..Len(bodies) :
       /\ Of(bodies[i]) \in Messages
       /\ bodies[i] = Body(Of(bodies[i]))
       /\ writePromise[Of(bodies[i])] = "resolved"
       /\ \A j \in 1..Len(bodies) : i < j => Of(bodies[i]) < Of(bodies[j])
       /\ \A j \in 1..Len(s) : Of(bodies[i]) < s[j][1]
  /\ \A i \in 1..Len(delivered) :
       /\ writePromise[delivered[i]] = "resolved"
       /\ \A j \in 1..Len(delivered) : i < j => delivered[i] < delivered[j]
       /\ \A j \in 1..Len(bodies) : delivered[i] < Of(bodies[j])
       /\ \A j \in 1..Len(s) : delivered[i] < s[j][1]

\* What was written with success is delivered, taken, or wholly on the stream.
OnItsWay(bodies, s) ==
  \A m \in Messages : writePromise[m] = "resolved" /\ content[m] = "plain" /\ InSync(m) =>
     \/ \E i \in 1..Len(delivered) : delivered[i] = m
     \/ \E i \in 1..Len(bodies) : Of(bodies[i]) = m
     \/ \E i \in 1..Len(s) : s[i] = <<m, Size(m)>>

\* What holds of a stream s, the length the reader read and the bodies taken.
Held(s, length, bodies) ==
  Framed(s) /\ Sent(s) /\ Aligned(s, length) /\ Passed(bodies, s) /\ OnItsWay(bodies, s)

StreamInv ==
  /\ StreamTypeOK /\ Queue
  /\ Held(Stream, nextMessageLength, decoding)
  /\ partialMessageTimer = (nextMessageLength # None)

\* Sizes are numbers.
LEMMA Sizes ==
  \A m \in Messages : BodySize[m] \in Nat \ {0} /\ m \in Nat \ {0} /\ Size(m) \in Nat
  BY TransportAssumption DEF Size, Messages, HeaderSize

\* What a unit is.
LEMMA UnitIs ==
  ASSUME NEW u
  PROVE  u \in Units <=> \E m \in Messages : \E i \in 1..Size(m) : u = <<m, i>>
  BY Sizes DEF Units, Size, HeaderSize

\* What a unit has.
LEMMA UnitHas ==
  ASSUME NEW u \in Units
  PROVE  /\ u[1] \in Messages /\ u[2] \in 1..Size(u[1]) /\ u = <<u[1], u[2]>>
         /\ u[1] \in Nat /\ u[2] \in Nat
  BY UnitIs, Sizes

\* A header and a body, unit by unit.
LEMMA HeaderIs ==
  ASSUME NEW m \in Messages
  PROVE  /\ Header(m) \in Seq(Units) /\ Len(Header(m)) = HeaderSize
         /\ \A i \in 1..HeaderSize : Header(m)[i] = <<m, i>>
<1>1. \A i \in 1..HeaderSize : <<m, i>> \in Units
  BY UnitIs, Sizes DEF Size, HeaderSize
<1> QED
  BY <1>1 DEF Header, HeaderSize

LEMMA BodyIs ==
  ASSUME NEW m \in Messages
  PROVE  /\ Body(m) \in Seq(Units) /\ Len(Body(m)) = BodySize[m]
         /\ \A i \in 1..BodySize[m] : Body(m)[i] = <<m, HeaderSize + i>>
         /\ Of(Body(m)) = m
         /\ Last(Body(m)) = <<m, Size(m)>>
<1>1. \A i \in 1..BodySize[m] : <<m, HeaderSize + i>> \in Units
  BY UnitIs, Sizes DEF Size, HeaderSize
<1>2. Body(m) \in Seq(Units) /\ Len(Body(m)) = BodySize[m]
  BY <1>1, Sizes DEF Body, HeaderSize
<1>3. \A i \in 1..BodySize[m] : Body(m)[i] = <<m, HeaderSize + i>>
  BY Sizes DEF Body, HeaderSize
<1> QED
  BY <1>2, <1>3, Sizes DEF Of, Last, Size, HeaderSize

\* The first of the units that end a header.
LEMMA HeaderEndIs ==
  ASSUME NEW units \in Seq(Units)
  PROVE  LET end == HeaderEnd(units) IN
         /\ end \in 0..Len(units)
         /\ end # 0 => units[end][2] = HeaderSize
         /\ end # 0 => \A i \in 1..end - 1 : units[i][2] # HeaderSize
<1> DEFINE I == {i \in 1..Len(units) : units[i][2] = HeaderSize}
           Least(i) == i \in I /\ \A j \in I : i <= j
           U == {k \in 0..Len(units) : \A j \in I : k < j}
<1>1. HeaderEnd(units) = IF I # {} THEN Min(I) ELSE 0
  BY DEF HeaderEnd, SelectInSeq
<1>2. CASE I = {}
  BY <1>1, <1>2
<1>3. CASE I # {}
  <2>1. \E i \in I : Least(i)
    <3> SUFFICES ASSUME \A i \in I : ~Least(i) PROVE FALSE
      OBVIOUS
    <3>1. U \subseteq 0..Len(units) /\ 0 \in U /\ Len(units) \in Nat
      OBVIOUS
    <3>2. ASSUME NEW i \in U, i < Len(units) PROVE i + 1 \in U
      BY <3>2
    <3>3. Len(units) \in U
      <4> HIDE DEF U
      <4> QED
        BY <3>1, <3>2, Reached
    <3> QED
      BY <3>3, <1>3
  <2>2. Least(Min(I))
    <3> DEFINE P(x) == x \in I /\ \A j \in I : x <= j
    <3>1. Min(I) = CHOOSE x \in I : \A j \in I : x <= j
      BY DEF Min
    <3> QED
      BY <2>1, <3>1
  <2>3. HeaderEnd(units) = Min(I)
    BY <1>1, <1>3
  <2> DEFINE e == Min(I)
  <2> HIDE DEF e
  <2>4. HeaderEnd(units) = e /\ Least(e)
    BY <2>2, <2>3 DEF e
  <2> QED
    BY <2>4
<1> QED
  BY <1>2, <1>3

\* What the units of a stream are.
LEMMA StreamHas ==
  ASSUME NEW s \in Seq(Units)
  PROVE  /\ Len(s) \in Nat
         /\ \A i \in 1..Len(s) :
              /\ s[i] \in Units /\ s[i] = <<s[i][1], s[i][2]>>
              /\ s[i][1] \in Messages /\ s[i][1] \in Nat
              /\ s[i][2] \in Nat /\ 1 <= s[i][2] /\ s[i][2] <= Size(s[i][1])
              /\ Size(s[i][1]) \in Nat
<1>1. Len(s) \in Nat /\ \A i \in 1..Len(s) : s[i] \in Units
  OBVIOUS
<1>2. ASSUME NEW i \in 1..Len(s)
      PROVE  /\ s[i] = <<s[i][1], s[i][2]>> /\ s[i][1] \in Messages /\ s[i][2] \in 1..Size(s[i][1])
             /\ s[i][1] \in Nat /\ Size(s[i][1]) \in Nat
  BY <1>1, UnitHas, Sizes
<1> QED
  BY <1>1, <1>2

\* t is s without its first k units.
Suffix(t, s, k) ==
  /\ t \in Seq(Units) /\ s \in Seq(Units) /\ k \in Nat
  /\ Len(t) = Len(s) - k
  /\ \A i \in 1..Len(t) : t[i] = s[k + i]

\* The rest of a stream is such a suffix, also when only part was received.
LEMMA SuffixOf ==
  ASSUME NEW s \in Seq(Units), NEW k \in 0..Len(s)
  PROVE  Suffix(SubSeq(s, k + 1, Len(s)), s, k)
  BY DEF Suffix

LEMMA SuffixConcat ==
  ASSUME NEW b \in Seq(Units), NEW w \in Seq(Units), NEW k \in 0..Len(b)
  PROVE  Suffix(SubSeq(b, k + 1, Len(b)) \o w, b \o w, k)
<1> DEFINE t == SubSeq(b, k + 1, Len(b))
<1>1. t \in Seq(Units) /\ Len(t) = Len(b) - k /\ \A i \in 1..Len(t) : t[i] = b[k + i]
  OBVIOUS
<1> HIDE DEF t
<1>2. /\ t \o w \in Seq(Units) /\ Len(t \o w) = Len(t) + Len(w)
      /\ \A i \in 1..Len(t) : (t \o w)[i] = t[i]
      /\ \A i \in 1..Len(w) : (t \o w)[Len(t) + i] = w[i]
  <2>1. t \in Seq(Units)
    BY <1>1
  <2> QED
    BY <2>1, ConcatElements
<1>3. /\ b \o w \in Seq(Units) /\ Len(b \o w) = Len(b) + Len(w)
      /\ \A i \in 1..Len(b) : (b \o w)[i] = b[i]
      /\ \A i \in 1..Len(w) : (b \o w)[Len(b) + i] = w[i]
  BY ConcatElements
<1>4. ASSUME NEW i \in 1..Len(t \o w) PROVE (t \o w)[i] = (b \o w)[k + i]
  <2>1. CASE i <= Len(t)
    BY <2>1, <1>1, <1>2, <1>3
  <2>2. CASE ~(i <= Len(t))
    <3> DEFINE j == i - Len(t)
    <3>1. j \in 1..Len(w) /\ i = Len(t) + j /\ k + i = Len(b) + j
      BY <2>2, <1>1, <1>2
    <3> QED
      BY <3>1, <1>2, <1>3
  <2> QED
    BY <2>1, <2>2
<1>5. Len(t \o w) = Len(b \o w) - k
  BY <1>1, <1>2, <1>3
<1>6. Suffix(t \o w, b \o w, k)
  BY <1>2, <1>3, <1>4, <1>5 DEF Suffix
<1> QED
  BY <1>6 DEF t

\* A suffix of a stream is framed and sent as the stream is.
LEMMA FramedSuffix ==
  ASSUME NEW s, NEW t, NEW k, Suffix(t, s, k), Framed(s)
  PROVE  Framed(t)
<1>1. /\ Len(s) \in Nat /\ Len(t) \in Nat /\ k \in Nat /\ Len(t) = Len(s) - k
      /\ \A i \in 1..Len(t) : k + i \in 1..Len(s) /\ t[i] = s[k + i]
  BY DEF Suffix
<1>2. ASSUME NEW i \in 1..Len(t), NEW j \in 1..Len(t), i < j
      PROVE  IF t[i][2] + (j - i) <= Size(t[i][1])
             THEN t[j][1] = t[i][1] /\ t[j][2] = t[i][2] + (j - i)
             ELSE t[i][1] < t[j][1]
  <2> DEFINE p == k + i
             q == k + j
  <2>1. p \in 1..Len(s) /\ q \in 1..Len(s) /\ p < q /\ q - p = j - i /\ t[i] = s[p] /\ t[j] = s[q]
    BY <1>1, <1>2
  <2> HIDE DEF p, q
  <2>2. IF s[p][2] + (q - p) <= Size(s[p][1])
        THEN s[q][1] = s[p][1] /\ s[q][2] = s[p][2] + (q - p)
        ELSE s[p][1] < s[q][1]
    BY <2>1 DEF Framed
  <2> QED
    BY <2>1, <2>2
<1>3. ASSUME NEW i \in 1..Len(t) - 1, t[i][2] = Size(t[i][1]) PROVE t[i + 1][2] = 1
  <2>1. i \in 1..Len(t) /\ i + 1 \in 1..Len(t) /\ k + i \in 1..Len(s) - 1 /\ k + (i + 1) = (k + i) + 1
    BY <1>1
  <2> QED
    BY <1>1, <1>3, <2>1 DEF Framed
<1> QED
  BY <1>2, <1>3 DEF Framed

LEMMA SentSuffix ==
  ASSUME NEW s, NEW t, NEW k, Suffix(t, s, k), Sent(s)
  PROVE  Sent(t)
<1>1. /\ Len(s) \in Nat /\ Len(t) \in Nat /\ k \in Nat /\ Len(t) = Len(s) - k
      /\ \A i \in 1..Len(t) : k + i \in 1..Len(s) /\ t[i] = s[k + i]
      /\ Len(t) > 0 => Len(s) > 0 /\ t[Len(t)] = s[Len(s)]
  <2>1. Len(t) > 0 => Len(t) \in 1..Len(t) /\ k + Len(t) = Len(s)
    BY DEF Suffix
  <2> QED
    BY <2>1 DEF Suffix
<1> QED
  BY <1>1 DEF Sent

\* Messages before one that is in step are in step.
LEMMA InSyncBefore ==
  ASSUME NEW m \in Messages, NEW n \in Messages, m <= n, InSync(n)
  PROVE  InSync(m)
  BY Sizes DEF InSync

\* What was passed on comes before a suffix of the stream, too.
LEMMA PassedSuffix ==
  ASSUME NEW s, NEW t, NEW k, NEW bodies, Suffix(t, s, k), Passed(bodies, s)
  PROVE  Passed(bodies, t)
<1>1. \A j \in 1..Len(t) : k + j \in 1..Len(s) /\ t[j] = s[k + j]
  BY DEF Suffix
<1> QED
  BY <1>1 DEF Passed

\* Messages follow each other on the stream.
LEMMA FramedOrder ==
  ASSUME NEW s \in Seq(Units), Framed(s), NEW i \in 1..Len(s), NEW j \in 1..Len(s), i <= j
  PROVE  s[i][1] <= s[j][1]
<1>1. CASE i = j
  BY <1>1, StreamHas
<1>2. CASE i < j
  <2>1. s[j][1] = s[i][1] \/ s[i][1] < s[j][1]
    BY <1>2 DEF Framed
  <2> QED
    BY <2>1, StreamHas
<1> QED
  BY <1>1, <1>2

\* The unit after one that does not end a message.
LEMMA FramedNext ==
  ASSUME NEW s \in Seq(Units), Framed(s), NEW i \in 1..Len(s), i + 1 \in 1..Len(s),
         s[i][2] < Size(s[i][1])
  PROVE  s[i + 1][1] = s[i][1] /\ s[i + 1][2] = s[i][2] + 1
<1> DEFINE j == i + 1
<1>1. i < j /\ j \in 1..Len(s) /\ s[i][2] + (j - i) = s[i][2] + 1 /\ s[i][2] + 1 <= Size(s[i][1])
  BY StreamHas
<1> HIDE DEF j
<1>2. s[j][1] = s[i][1] /\ s[j][2] = s[i][2] + 1
  BY <1>1 DEF Framed
<1> QED
  BY <1>2 DEF j

\* A reader in step finds the header of a message first.
LEMMA HeaderFirst ==
  ASSUME NEW s \in Seq(Units), Framed(s), Aligned(s, None),
         NEW e \in 1..Len(s), s[e][2] = HeaderSize, \A i \in 1..e - 1 : s[i][2] # HeaderSize,
         NEW i \in 1..e, InSync(s[i][1])
  PROVE  e = 2 /\ s[1][2] = 1 /\ s[1][1] = s[2][1]
<1>1. 1 \in 1..Len(s) /\ i \in 1..Len(s) /\ 1 <= i /\ Len(s) \in Nat
  OBVIOUS
<1>2. s[1][1] <= s[i][1]
  BY <1>1, FramedOrder
<1>3. InSync(s[1][1])
  BY <1>1, <1>2, InSyncBefore, StreamHas
<1>4. s[1][2] = 1
  BY <1>1, <1>3 DEF Aligned
<1>5. e # 1
  BY <1>4 DEF HeaderSize
<1>6. 2 \in 1..Len(s) /\ 1 + 1 = 2
  BY <1>5
<1>7. s[1][2] < Size(s[1][1])
  BY <1>1, <1>4, StreamHas, Sizes DEF Size, HeaderSize
<1>8. s[2][1] = s[1][1] /\ s[2][2] = 2
  BY <1>1, <1>4, <1>6, <1>7, FramedNext
<1> QED
  BY <1>4, <1>5, <1>8 DEF HeaderSize

\* Whether what is taken off is the header of one message.
Leads(s, e) ==
  /\ e = HeaderSize /\ s[1] = <<s[e][1], 1>>
  /\ content[s[e][1]] # "headerless"

\* Headers are taken off the stream: no body with them, and the reader is in
\* step with the body that follows, or knows of none.
LEMMA HeadersTaken ==
  ASSUME NEW s, NEW t, NEW bodies, NEW e \in 1..Len(s), Suffix(t, s, e),
         s[e][2] = HeaderSize, \A i \in 1..e - 1 : s[i][2] # HeaderSize,
         Held(s, None, bodies)
  PROVE  Held(t, IF Leads(s, e) THEN BodySize[s[e][1]] ELSE None, bodies)
<1> DEFINE m == s[e][1]
           length == IF Leads(s, e) THEN BodySize[m] ELSE None
<1>1. /\ s \in Seq(Units) /\ t \in Seq(Units) /\ Len(s) \in Nat /\ Len(t) = Len(s) - e
      /\ \A i \in 1..Len(t) : t[i] = s[e + i]
      /\ m \in Messages /\ s[e] = <<m, HeaderSize>>
  BY StreamHas DEF Suffix
<1>2. Framed(t) /\ Sent(t) /\ Passed(bodies, t)
  BY FramedSuffix, SentSuffix, PassedSuffix DEF Held
<1>3. BodySize[m] \in Nat \ {0} /\ BodySize[m] # None /\ Size(m) = HeaderSize + BodySize[m]
  BY <1>1, Sizes DEF None, Size
<1>4. Len(t) > 0 => e + 1 \in 1..Len(s) /\ t[1] = s[e + 1] /\ t[1][1] = m /\ t[1][2] = HeaderSize + 1
  <2> SUFFICES ASSUME Len(t) > 0
               PROVE  e + 1 \in 1..Len(s) /\ t[1] = s[e + 1] /\ t[1][1] = m /\ t[1][2] = HeaderSize + 1
    OBVIOUS
  <2>1. e + 1 \in 1..Len(s) /\ t[1] = s[e + 1]
    BY <1>1
  <2>2. s[e][2] < Size(s[e][1])
    BY <1>3 DEF HeaderSize
  <2> QED
    BY <1>1, <2>1, <2>2, FramedNext DEF Held
<1>5. Len(t) = 0 /\ sender = "running" => phase = "body" /\ m = Head(writing)
  <2> SUFFICES ASSUME Len(t) = 0, sender = "running" PROVE phase = "body" /\ m = Head(writing)
    OBVIOUS
  <2>1. Len(s) = e /\ Len(s) > 0
    BY <1>1
  <2>2. s[e][2] # Size(s[e][1])
    BY <1>3 DEF HeaderSize
  <2>3. phase = "body" /\ s[e] = <<Head(writing), HeaderSize>>
    BY <2>1, <2>2 DEF Held, Sent
  <2> QED
    BY <2>3
<1>6. Aligned(t, length)
  <2>1. CASE Leads(s, e)
    <3>1. length = BodySize[m] /\ length # None /\ length > 0
      BY <2>1, <1>3
    <3> HIDE DEF length
    <3> QED
      BY <3>1, <1>4, <1>5 DEF Aligned
  <2>2. CASE ~Leads(s, e)
    <3>1. ~InSync(m)
      <4> SUFFICES ASSUME InSync(m) PROVE FALSE
        OBVIOUS
      <4>1. e = 2 /\ s[1][2] = 1 /\ s[1][1] = s[2][1]
        <5>1. e \in 1..e /\ InSync(s[e][1])
          BY <1>1
        <5> QED
          BY <1>1, <5>1, HeaderFirst DEF Held
      <4>2. s[1] = <<m, 1>>
        BY <1>1, <4>1, StreamHas
      <4>3. content[m] # "headerless"
        BY <1>1, Sizes DEF InSync
      <4> QED
        BY <2>2, <4>1, <4>2, <4>3 DEF Leads, HeaderSize
    <3>2. length = None
      BY <2>2
    <3> HIDE DEF length
    <3> QED
      BY <3>1, <3>2, <1>4, <1>5 DEF Aligned
  <2> QED
    BY <2>1, <2>2
<1>7. OnItsWay(bodies, t)
  <2> SUFFICES ASSUME NEW n \in Messages, InSync(n),
                      NEW i \in 1..Len(s), s[i] = <<n, Size(n)>>
               PROVE  \E j \in 1..Len(t) : t[j] = <<n, Size(n)>>
    BY DEF OnItsWay, Held
  <2>1. Size(n) > HeaderSize /\ Size(n) \in Nat /\ HeaderSize = 2
    BY Sizes DEF Size, HeaderSize
  <2>2. CASE i <= e
    <3>1. s[i][1] = n /\ i \in 1..e
      BY <2>2
    <3>2. e = 2 /\ s[1][2] = 1
      BY <1>1, <3>1, HeaderFirst DEF Held
    <3>3. i = 1 \/ i = e
      BY <2>2, <3>2
    <3> QED
      BY <2>1, <3>2, <3>3
  <2>3. CASE ~(i <= e)
    <3>1. i - e \in 1..Len(t) /\ e + (i - e) = i
      BY <1>1, <2>3
    <3> QED
      BY <1>1, <3>1
  <2> QED
    BY <2>2, <2>3
<1> QED
  BY <1>2, <1>6, <1>7 DEF Held

\* A body is taken off the stream: it is that of one message, and what follows
\* begins with a header.
LEMMA BodyTaken ==
  ASSUME NEW s, NEW t, NEW bodies \in Seq(Seq(Units)), NEW length \in Nat, length <= Len(s),
         Suffix(t, s, length), Held(s, length, bodies),
         NEW body \in Seq(Units), Len(body) = length, \A i \in 1..length : body[i] = s[i]
  PROVE  Held(t, None, Append(bodies, body))
<1> DEFINE m == s[1][1]
           size == Size(m)
<1>1. /\ s \in Seq(Units) /\ t \in Seq(Units) /\ Len(s) \in Nat /\ Len(t) = Len(s) - length
      /\ \A i \in 1..Len(t) : t[i] = s[length + i]
  BY DEF Suffix
<1>2. length # None /\ length > 0 /\ Len(s) > 0
  BY <1>1 DEF None, Held, Aligned
<1>3. /\ 1 \in 1..Len(s) /\ m \in Messages /\ s[1][2] = HeaderSize + 1 /\ length = BodySize[m]
      /\ size = HeaderSize + length /\ HeaderSize = 2
  <2>1. 1 \in 1..Len(s) /\ s[1][2] = HeaderSize + 1 /\ length = BodySize[m]
    BY <1>1, <1>2 DEF Held, Aligned
  <2> QED
    BY <1>1, <2>1, StreamHas DEF Size, HeaderSize
<1>4. ASSUME NEW i \in 1..length
      PROVE  i \in 1..Len(s) /\ s[i][1] = m /\ s[i][2] = HeaderSize + i /\ s[i] = <<m, HeaderSize + i>>
  <2>1. i \in 1..Len(s)
    BY <1>1
  <2>2. s[i][1] = m /\ s[i][2] = HeaderSize + i
    <3>1. CASE i = 1
      BY <1>3, <3>1
    <3>2. CASE i # 1
      <4>1. 1 < i /\ s[1][2] + (i - 1) = HeaderSize + i /\ HeaderSize + i <= Size(s[1][1])
        BY <1>3, <3>2
      <4> QED
        BY <1>3, <2>1, <4>1 DEF Held, Framed
    <3> QED
      BY <3>1, <3>2
  <2> QED
    BY <1>1, <2>1, <2>2, StreamHas
<1>5. body = Body(m)
  <2>1. /\ Body(m) \in Seq(Units) /\ Len(Body(m)) = length
        /\ \A i \in 1..length : Body(m)[i] = <<m, HeaderSize + i>>
    BY <1>3, BodyIs
  <2>2. \A i \in 1..Len(body) : body[i] = Body(m)[i]
    BY <1>4, <2>1
  <2> QED
    BY <2>1, <2>2, SequencesEqual
<1>6. length \in 1..Len(s) /\ s[length][1] = m /\ s[length][2] = size
  <2>1. length \in 1..length
    BY <1>2
  <2> QED
    BY <1>3, <1>4, <2>1
<1>7. ASSUME NEW j \in 1..Len(t) PROVE m < t[j][1]
  <2> DEFINE k == length + j
  <2>1. k \in 1..Len(s) /\ length < k /\ t[j] = s[k] /\ k - length = j
    BY <1>1
  <2>2. ~(s[length][2] + (k - length) <= Size(s[length][1]))
    BY <1>3, <1>6, <2>1
  <2> HIDE DEF k
  <2>3. s[length][1] < s[k][1]
    BY <1>6, <2>1, <2>2 DEF Held, Framed
  <2> QED
    BY <1>6, <2>1, <2>3
<1>8. Framed(t) /\ Sent(t) /\ Passed(bodies, t)
  BY FramedSuffix, SentSuffix, PassedSuffix DEF Held
<1>9. Aligned(t, None)
  <2>1. CASE Len(t) = 0
    <3>1. length = Len(s)
      BY <1>1, <2>1
    <3>2. ~(sender = "running" /\ phase = "body")
      <4> SUFFICES ASSUME sender = "running", phase = "body" PROVE FALSE
        OBVIOUS
      <4>1. s[Len(s)] = <<Head(writing), HeaderSize>>
        BY <1>2 DEF Held, Sent
      <4> QED
        BY <1>2, <1>3, <1>6, <3>1, <4>1
    <3> QED
      BY <2>1, <3>2 DEF Aligned
  <2>2. CASE Len(t) # 0
    <3>1. length \in 1..Len(s) - 1 /\ 1 \in 1..Len(t) /\ t[1] = s[length + 1]
      BY <1>1, <1>6, <2>2
    <3>2. t[1][2] = 1
      BY <1>6, <3>1 DEF Held, Framed
    <3> QED
      BY <2>2, <3>2 DEF Aligned
  <2> QED
    BY <2>1, <2>2
<1> DEFINE after == Append(bodies, body)
<1>10. /\ Len(bodies) \in Nat /\ Len(after) = Len(bodies) + 1
       /\ \A i \in 1..Len(bodies) : after[i] = bodies[i]
       /\ after[Len(bodies) + 1] = body
  BY AppendElements
<1>11. Of(body) = m /\ writePromise[m] = "resolved"
  <2>1. s[1][2] > HeaderSize
    BY <1>3
  <2> QED
    BY <1>3, <1>5, <2>1, BodyIs DEF Held, Sent
<1> HIDE DEF after, m
<1>12. Passed(after, t)
  <2>1. \A i \in 1..Len(bodies) : Of(bodies[i]) < m
    BY <1>3 DEF Held, Passed, m
  <2>2. \A i \in 1..Len(delivered) : delivered[i] < m
    BY <1>3 DEF Held, Passed, m
  <2>3. \A i \in 1..Len(after) : i \in 1..Len(bodies) \/ i = Len(bodies) + 1
    BY <1>10
  <2>4. ASSUME NEW i \in 1..Len(after)
        PROVE  /\ Of(after[i]) \in Messages
               /\ after[i] = Body(Of(after[i]))
               /\ writePromise[Of(after[i])] = "resolved"
               /\ \A j \in 1..Len(t) : Of(after[i]) < t[j][1]
    <3>1. CASE i \in 1..Len(bodies)
      BY <1>8, <1>10, <3>1 DEF Passed
    <3>2. CASE i = Len(bodies) + 1
      BY <1>3, <1>5, <1>7, <1>10, <1>11, <3>2 DEF m
    <3> QED
      BY <2>3, <3>1, <3>2
  <2>5. ASSUME NEW i \in 1..Len(after), NEW j \in 1..Len(after), i < j
        PROVE  Of(after[i]) < Of(after[j])
    <3>1. i \in 1..Len(bodies)
      BY <1>10, <2>5
    <3>2. CASE j \in 1..Len(bodies)
      BY <1>8, <1>10, <2>5, <3>1, <3>2 DEF Passed
    <3>3. CASE j = Len(bodies) + 1
      BY <1>10, <1>11, <2>1, <3>1, <3>3
    <3> QED
      BY <2>3, <3>2, <3>3
  <2>6. ASSUME NEW i \in 1..Len(delivered), NEW j \in 1..Len(after) PROVE delivered[i] < Of(after[j])
    <3>1. CASE j \in 1..Len(bodies)
      BY <1>8, <1>10, <3>1 DEF Passed
    <3>2. CASE j = Len(bodies) + 1
      BY <1>10, <1>11, <2>2, <3>2
    <3> QED
      BY <2>3, <3>1, <3>2
  <2> QED
    BY <1>8, <2>4, <2>5, <2>6 DEF Passed
<1>13. OnItsWay(after, t)
  <2> SUFFICES ASSUME NEW n \in Messages, writePromise[n] = "resolved", content[n] = "plain", InSync(n)
               PROVE  \/ \E i \in 1..Len(delivered) : delivered[i] = n
                      \/ \E i \in 1..Len(after) : Of(after[i]) = n
                      \/ \E i \in 1..Len(t) : t[i] = <<n, Size(n)>>
    BY DEF OnItsWay
  <2>1. \/ \E i \in 1..Len(delivered) : delivered[i] = n
        \/ \E i \in 1..Len(bodies) : Of(bodies[i]) = n
        \/ \E i \in 1..Len(s) : s[i] = <<n, Size(n)>>
    BY DEF Held, OnItsWay
  <2>2. ASSUME NEW i \in 1..Len(bodies), Of(bodies[i]) = n PROVE \E j \in 1..Len(after) : Of(after[j]) = n
    BY <1>10, <2>2
  <2>3. ASSUME NEW i \in 1..Len(s), s[i] = <<n, Size(n)>>
        PROVE  \/ \E j \in 1..Len(after) : Of(after[j]) = n
               \/ \E j \in 1..Len(t) : t[j] = <<n, Size(n)>>
    <3>1. CASE i <= length
      <4>1. n = m
        BY <1>4, <2>3, <3>1
      <4>2. Len(bodies) + 1 \in 1..Len(after)
        BY <1>10
      <4> QED
        BY <1>10, <1>11, <4>1, <4>2
    <3>2. CASE ~(i <= length)
      <4>1. i - length \in 1..Len(t) /\ length + (i - length) = i
        BY <1>1, <3>2
      <4> QED
        BY <1>1, <2>3, <4>1
    <3> QED
      BY <3>1, <3>2
  <2> QED
    BY <2>1, <2>2, <2>3
<1> QED
  BY <1>8, <1>9, <1>12, <1>13 DEF Held, after

\* The reader's record during the loop, rest being what was not received yet.
Readings == [buffer : Seq(Units), length : Nat \cup {None}, timer : BOOLEAN,
             bodies : Seq(Seq(Units)), stop : BOOLEAN]
\* What holds of it before and after each turn.
Loop(r, rest) ==
  /\ r \in Readings
  /\ Held(r.buffer \o rest, r.length, r.bodies)
  /\ r.timer => r.length # None
  /\ r.stop => r.timer = (r.length # None)

\* What comes before the end of a first header, and is the header of one message.
LEMMA IsHeader ==
  ASSUME NEW b \in Seq(Units), NEW e \in 1..Len(b), b[e][2] = HeaderSize
  PROVE  (SubSeq(b, 1, e) = Header(b[e][1])) <=> (e = HeaderSize /\ b[1] = <<b[e][1], 1>>)
<1> DEFINE m == b[e][1]
           h == SubSeq(b, 1, e)
<1>1. /\ h \in Seq(Units) /\ Len(h) = e /\ \A i \in 1..e : h[i] = b[i]
      /\ m \in Messages /\ b[e] = <<m, HeaderSize>>
  <2>1. h \in Seq(Units) /\ Len(h) = e /\ \A i \in 1..e : h[i] = b[i]
    OBVIOUS
  <2> QED
    BY <2>1, StreamHas
<1>2. Header(m) \in Seq(Units) /\ Len(Header(m)) = 2 /\ Header(m)[1] = <<m, 1>> /\ Header(m)[2] = <<m, 2>>
  BY <1>1, HeaderIs DEF HeaderSize
<1> HIDE DEF h, m
<1>3. ASSUME h = Header(m) PROVE e = HeaderSize /\ b[1] = <<m, 1>>
  <2>1. e = 2 /\ h[1] = <<m, 1>>
    BY <1>1, <1>2, <1>3
  <2>2. 1 \in 1..e
    BY <2>1
  <2> QED
    BY <1>1, <2>1, <2>2 DEF HeaderSize
<1>4. ASSUME e = HeaderSize, b[1] = <<m, 1>> PROVE h = Header(m)
  <2>1. e = 2 /\ h[1] = <<m, 1>> /\ h[2] = <<m, 2>>
    BY <1>1, <1>4 DEF HeaderSize
  <2>2. \A i \in 1..Len(h) : h[i] = Header(m)[i]
    <3>1. ASSUME NEW i \in 1..Len(h) PROVE i = 1 \/ i = 2
      BY <1>1, <2>1
    <3> QED
      BY <1>2, <2>1, <3>1
  <2> QED
    BY <1>1, <1>2, <2>1, <2>2, SequencesEqual
<1> QED
  BY <1>3, <1>4 DEF h, m

\* A turn of the loop keeps what holds, and takes something off the buffer
\* unless it is the last.
LEMMA TurnHolds ==
  ASSUME NEW r, NEW rest \in Seq(Units), Loop(r, rest), ~r.stop
  PROVE  /\ Loop(Turn(r), rest)
         /\ Turn(r).stop \/ Len(Turn(r).buffer) < Len(r.buffer)
<1> DEFINE b == r.buffer
           s == b \o rest
<1>1. /\ r \in Readings /\ b \in Seq(Units) /\ r.bodies \in Seq(Seq(Units))
      /\ Len(b) \in Nat /\ r.length \in Nat \cup {None} /\ None \notin Nat
  BY DEF Loop, Readings, None
<1>2. Held(s, r.length, r.bodies) /\ (r.timer => r.length # None)
  BY DEF Loop
<1>3. s \in Seq(Units) /\ Len(b) <= Len(s) /\ \A i \in 1..Len(b) : i \in 1..Len(s) /\ s[i] = b[i]
  BY <1>1, ConcatElements
<1>4. CASE r.length = None
  <2> DEFINE e == HeaderEnd(b)
             m == b[e][1]
             good == SubSeq(b, 1, e) = Header(m) /\ content[m] # "headerless"
             left == SubSeq(b, e + 1, Len(b))
             length == IF good THEN BodySize[m] ELSE None
  <2>1. Turn(r) = IF e = 0 THEN [r EXCEPT !.stop = TRUE]
                  ELSE [r EXCEPT !.buffer = left, !.length = length, !.stop = ~good]
    BY <1>4 DEF Turn, ReadHeaders
  <2>2. /\ e \in 0..Len(b)
        /\ e # 0 => b[e][2] = HeaderSize /\ \A i \in 1..e - 1 : b[i][2] # HeaderSize
    BY <1>1, HeaderEndIs
  <2>3. CASE e = 0
    <3>1. Turn(r) = [r EXCEPT !.stop = TRUE]
      BY <2>1, <2>3
    <3>2. Turn(r) \in Readings /\ Turn(r).buffer = b /\ Turn(r).length = r.length
          /\ Turn(r).bodies = r.bodies /\ Turn(r).timer = r.timer /\ Turn(r).stop = TRUE
      BY <1>1, <3>1 DEF Readings
    <3>3. r.timer = FALSE
      BY <1>1, <1>2, <1>4 DEF Readings
    <3> HIDE DEF b
    <3> QED
      BY <1>2, <1>4, <3>2, <3>3 DEF Loop
  <2>4. CASE e # 0
    <3>1. e \in 1..Len(b) /\ e \in 1..Len(s) /\ s[e] = b[e] /\ 1 \in 1..Len(b) /\ s[1] = b[1]
      BY <1>1, <1>3, <2>2, <2>4
    <3>2. s[e][2] = HeaderSize /\ \A i \in 1..e - 1 : s[i][2] # HeaderSize
      <4>1. \A i \in 1..e - 1 : i \in 1..Len(b)
        BY <3>1
      <4> QED
        BY <1>3, <2>2, <2>4, <3>1, <4>1
    <3>3. good <=> Leads(s, e)
      <4>1. (SubSeq(b, 1, e) = Header(b[e][1])) <=> (e = HeaderSize /\ b[1] = <<b[e][1], 1>>)
        BY <1>1, <2>2, <2>4, <3>1, IsHeader
      <4> QED
        BY <3>1, <4>1 DEF Leads
    <3>4. Suffix(left \o rest, s, e) /\ left \in Seq(Units) /\ Len(left) = Len(b) - e
      <4>1. left \in Seq(Units) /\ Len(left) = Len(b) - e
        BY <1>1, <3>1
      <4>2. e \in 0..Len(b)
        BY <3>1
      <4> QED
        BY <1>1, <4>1, <4>2, SuffixConcat
    <3>5. m \in Messages /\ length \in Nat \cup {None} /\ good \in BOOLEAN
      BY <1>1, <3>1, StreamHas, Sizes
    <3> HIDE DEF e
    <3>6. Held(left \o rest, length, r.bodies)
      <4>1. Held(s, None, r.bodies)
        BY <1>2, <1>4
      <4>2. Held(left \o rest, IF Leads(s, e) THEN BodySize[s[e][1]] ELSE None, r.bodies)
        BY <3>1, <3>2, <3>4, <4>1, HeadersTaken
      <4>3. s[e][1] = m
        BY <3>1
      <4> QED
        BY <3>3, <4>2, <4>3
    <3> HIDE DEF b, left, length, good
    <3>7. Turn(r) = [r EXCEPT !.buffer = left, !.length = length, !.stop = ~good]
      BY <2>1, <2>4
    <3>8. Turn(r) \in Readings /\ Turn(r).buffer = left /\ Turn(r).length = length
          /\ Turn(r).bodies = r.bodies /\ Turn(r).timer = r.timer /\ Turn(r).stop = ~good
      BY <1>1, <3>4, <3>5, <3>7 DEF Readings
    <3>9. r.timer = FALSE /\ (Turn(r).stop => length = None)
      BY <1>1, <1>2, <1>4, <3>8 DEF Readings, length
    <3>10. Len(left) < Len(b)
      BY <1>1, <3>1, <3>4
    <3> QED
      BY <3>6, <3>8, <3>9, <3>10 DEF Loop, b
  <2> QED
    BY <2>3, <2>4
<1>5. CASE r.length # None
  <2> DEFINE length == r.length
             left == SubSeq(b, length + 1, Len(b))
             body == SubSeq(b, 1, length)
  <2>1. Turn(r) = IF Len(b) < length THEN [r EXCEPT !.timer = TRUE, !.stop = TRUE]
                  ELSE [r EXCEPT !.buffer = left, !.length = None, !.timer = FALSE,
                                 !.bodies = Append(r.bodies, body)]
    BY <1>5 DEF Turn, ReadBody
  <2>2. length \in Nat /\ length > 0
    BY <1>1, <1>2, <1>5 DEF Held, Aligned
  <2>3. CASE Len(b) < length
    <3>1. Turn(r) = [r EXCEPT !.timer = TRUE, !.stop = TRUE]
      BY <2>1, <2>3
    <3>2. Turn(r) \in Readings /\ Turn(r).buffer = b /\ Turn(r).length = r.length
          /\ Turn(r).bodies = r.bodies /\ Turn(r).timer = TRUE /\ Turn(r).stop = TRUE
      BY <1>1, <3>1 DEF Readings
    <3> HIDE DEF b
    <3> QED
      BY <1>2, <1>5, <3>2 DEF Loop
  <2>4. CASE ~(Len(b) < length)
    <3>1. length \in 0..Len(b) /\ length <= Len(s)
      BY <1>1, <1>3, <2>2, <2>4, ConcatElements
    <3>2. left \in Seq(Units) /\ Len(left) = Len(b) - length /\ Len(left) < Len(b)
      <4>1. Suffix(left, b, length)
        BY <1>1, <3>1, SuffixOf
      <4> HIDE DEF left, b
      <4> QED
        BY <1>1, <2>2, <4>1 DEF Suffix
    <3>3. body \in Seq(Units) /\ Len(body) = length /\ \A i \in 1..length : body[i] = b[i]
      BY <1>1, <2>2, <3>1
    <3>4. \A i \in 1..length : body[i] = s[i]
      <4>1. \A i \in 1..length : i \in 1..Len(b)
        BY <2>2, <3>1
      <4> QED
        BY <1>3, <3>3, <4>1
    <3>5. Suffix(left \o rest, s, length)
      BY <1>1, <3>1, SuffixConcat
    <3> HIDE DEF body, left, s, b
    <3>6. Held(left \o rest, None, Append(r.bodies, body))
      BY <1>1, <1>2, <2>2, <3>1, <3>3, <3>4, <3>5, BodyTaken
    <3>7. Turn(r) = [r EXCEPT !.buffer = left, !.length = None, !.timer = FALSE,
                              !.bodies = Append(r.bodies, body)]
      BY <2>1, <2>4
    <3>8. Append(r.bodies, body) \in Seq(Seq(Units))
      BY <1>1, <3>3, AppendElements
    <3>9. Turn(r) \in Readings /\ Turn(r).buffer = left /\ Turn(r).length = None
          /\ Turn(r).bodies = Append(r.bodies, body) /\ Turn(r).timer = FALSE /\ Turn(r).stop = r.stop
      BY <1>1, <3>2, <3>7, <3>8 DEF Readings
    <3> QED
      BY <3>2, <3>6, <3>9 DEF Loop, b
  <2> QED
    BY <2>3, <2>4
<1> QED
  BY <1>4, <1>5

\* What remains after the loop.
LEMMA OnDataHolds ==
  ASSUME NEW rest \in Seq(Units), NEW chunk \in Seq(Units), buffer \in Seq(Units),
         Loop(Reading(chunk), rest)
  PROVE  \A r \in OnData(chunk) : Loop(r, rest) /\ r.stop
<1> DEFINE n == Len(buffer) + Len(chunk) + 1
           Rule(i, before) == IF i = 0 THEN {Reading(chunk)} ELSE {Turn(r) : r \in before}
           Loops(f) == [i \in 0..n |-> Rule(i, f[i - 1])]
           after == CHOOSE f : f = Loops(f)
           U == {k \in 0..n : \E f : /\ f = [i \in 0..k |-> f[i]]
                                     /\ f[0] = Reading(chunk)
                                     /\ \A i \in 1..k : f[i] = Turn(f[i - 1])}
<1>1. OnData(chunk) = after[n]
  BY DEF OnData
<1>2. n \in Nat
  OBVIOUS
<1>3. n \in U
  <2>1. U \subseteq 0..n
    OBVIOUS
  <2>2. 0 \in U
    <3> DEFINE f == [i \in 0..0 |-> Reading(chunk)]
    <3>1. f = [i \in 0..0 |-> f[i]] /\ f[0] = Reading(chunk) /\ \A i \in 1..0 : f[i] = Turn(f[i - 1])
      OBVIOUS
    <3> HIDE DEF f
    <3> QED
      BY <3>1, <1>2
  <2>3. ASSUME NEW k \in U, k < n PROVE k + 1 \in U
    <3>1. k \in 0..n /\ k + 1 \in 0..n
      BY <1>2, <2>3
    <3>2. PICK f : /\ f = [i \in 0..k |-> f[i]]
                   /\ f[0] = Reading(chunk)
                   /\ \A i \in 1..k : f[i] = Turn(f[i - 1])
      OBVIOUS
    <3> DEFINE g == [i \in 0..k + 1 |-> IF i = k + 1 THEN Turn(f[k]) ELSE f[i]]
    <3>3. g = [i \in 0..k + 1 |-> g[i]]
      OBVIOUS
    <3>4. g[0] = Reading(chunk)
      BY <3>1, <3>2
    <3>5. ASSUME NEW i \in 1..k + 1 PROVE g[i] = Turn(g[i - 1])
      <4>1. i - 1 \in 0..k /\ i \in 0..k + 1 /\ i - 1 \in 0..k + 1 /\ i - 1 # k + 1
        BY <3>1
      <4>2. g[i - 1] = f[i - 1]
        BY <4>1
      <4>3. g[i] = Turn(f[i - 1])
        <5>1. CASE i = k + 1
          <6>1. i - 1 = k
            BY <3>1, <5>1
          <6> QED
            BY <4>1, <5>1, <6>1
        <5>2. CASE i # k + 1
          <6>1. i \in 1..k
            BY <3>1, <5>2
          <6> QED
            BY <3>2, <4>1, <5>2, <6>1
        <5> QED
          BY <5>1, <5>2
      <4> QED
        BY <4>2, <4>3
    <3> HIDE DEF g
    <3> QED
      BY <3>1, <3>3, <3>4, <3>5
  <2> HIDE DEF U, n
  <2> QED
    BY <1>2, <2>1, <2>2, <2>3, Reached
<1>4. PICK f : /\ f[0] = Reading(chunk)
               /\ \A i \in 1..n : f[i] = Turn(f[i - 1])
  BY <1>3
<1>5. after = Loops(after)
  <2> DEFINE g == [i \in 0..n |-> {f[i]}]
  <2>1. ASSUME NEW i \in 0..n PROVE g[i] = Rule(i, g[i - 1])
    <3>1. CASE i = 0
      BY <3>1, <1>4
    <3>2. CASE i # 0
      <4>1. i \in 1..n /\ i - 1 \in 0..n
        BY <1>2, <3>2
      <4>2. g[i - 1] = {f[i - 1]} /\ g[i] = {Turn(f[i - 1])}
        BY <1>4, <4>1
      <4> HIDE DEF g
      <4>3. {Turn(r) : r \in g[i - 1]} = {Turn(f[i - 1])}
        BY <4>2
      <4> QED
        BY <3>2, <4>2, <4>3
    <3> QED
      BY <3>1, <3>2
  <2>2. g = Loops(g)
    <3> HIDE DEF Rule
    <3> QED
      BY <2>1
  <2> HIDE DEF g, Loops
  <2> QED
    BY <2>2
<1> DEFINE V == {i \in 0..n : \A r \in after[i] : Loop(r, rest) /\ (r.stop \/ Len(r.buffer) + i < n)}
<1>6. ASSUME NEW i \in 0..n PROVE after[i] = Rule(i, after[i - 1])
  <2> HIDE DEF after, n, Rule
  <2> QED
    BY <1>5
<1>7. n \in V
  <2>1. V \subseteq 0..n
    OBVIOUS
  <2>2. 0 \in V
    <3>1. after[0] = {Reading(chunk)} /\ 0 \in 0..n
      <4>1. 0 \in 0..n
        BY <1>2
      <4> HIDE DEF after, n
      <4> QED
        BY <1>6, <4>1
    <3>2. Len(Reading(chunk).buffer) + 0 < n
      <4>1. Reading(chunk).buffer = buffer \o chunk
        BY DEF Reading
      <4>2. Len(buffer \o chunk) = Len(buffer) + Len(chunk) /\ Len(buffer) \in Nat /\ Len(chunk) \in Nat
        BY ConcatElements
      <4> QED
        BY <4>1, <4>2
    <3> HIDE DEF after, n
    <3> QED
      BY <3>1, <3>2
  <2>3. ASSUME NEW i \in V, i < n PROVE i + 1 \in V
    <3>1. i \in 0..n /\ i + 1 \in 0..n /\ (i + 1) - 1 = i /\ i + 1 # 0
      BY <1>2, <2>3
    <3>2. after[i + 1] = {Turn(q) : q \in after[i]}
      <4>1. after[i + 1] = Rule(i + 1, after[(i + 1) - 1])
        BY <1>6, <3>1
      <4> HIDE DEF after, n
      <4> QED
        BY <3>1, <4>1
    <3>3. ASSUME NEW q \in after[i]
          PROVE  Loop(Turn(q), rest) /\ (Turn(q).stop \/ Len(Turn(q).buffer) + (i + 1) < n)
      <4>1. Loop(q, rest) /\ (q.stop \/ Len(q.buffer) + i < n)
        OBVIOUS
      <4>2. CASE q.stop
        <5>1. Turn(q) = q
          BY <4>2 DEF Turn
        <5> QED
          BY <4>1, <4>2, <5>1
      <4>3. CASE ~q.stop
        <5>1. Loop(Turn(q), rest) /\ (Turn(q).stop \/ Len(Turn(q).buffer) < Len(q.buffer))
          BY <4>1, <4>3, TurnHolds
        <5>2. Len(Turn(q).buffer) \in Nat /\ Len(q.buffer) \in Nat
          BY <4>1, <5>1 DEF Loop, Readings
        <5>3. Len(q.buffer) + i < n
          BY <4>1, <4>3
        <5> DEFINE x == Len(Turn(q).buffer)
                   y == Len(q.buffer)
        <5>4. x \in Nat /\ y \in Nat /\ y + i < n /\ i \in Nat /\ n \in Nat
          BY <1>2, <3>1, <5>2, <5>3
        <5> HIDE DEF n, x, y
        <5>5. x < y => x + (i + 1) < n
          BY <5>4
        <5> QED
          BY <5>1, <5>5 DEF x, y
      <4> QED
        BY <4>2, <4>3
    <3> HIDE DEF after, n
    <3> QED
      BY <3>1, <3>2, <3>3
  <2> HIDE DEF V, n
  <2> QED
    BY <1>2, <2>1, <2>2, <2>3, Reached
<1>8. ASSUME NEW r \in after[n] PROVE Loop(r, rest) /\ r.stop
  <2>1. Loop(r, rest) /\ (r.stop \/ Len(r.buffer) + n < n)
    BY <1>7
  <2>2. Len(r.buffer) \in Nat
    BY <2>1 DEF Loop, Readings
  <2> HIDE DEF n
  <2> QED
    BY <1>2, <2>1, <2>2
<1> QED
  BY <1>1, <1>8

\* A header or a body that goes on where the stream ended.
LEMMA FramedConcat ==
  ASSUME NEW s \in Seq(Units), NEW t \in Seq(Units), Framed(s), Len(t) > 0,
         NEW m \in Messages, NEW from \in Nat, from + Len(t) <= Size(m),
         \A i \in 1..Len(t) : t[i] = <<m, from + i>>,
         Len(s) > 0 => \/ s[Len(s)] = <<m, from>>
                       \/ from = 0 /\ s[Len(s)][1] < m /\ s[Len(s)][2] = Size(s[Len(s)][1])
  PROVE  Framed(s \o t)
<1> DEFINE u == s \o t
           N == Len(s)
<1>1. /\ u \in Seq(Units) /\ N \in Nat /\ Len(t) \in Nat /\ Len(u) = N + Len(t)
      /\ \A i \in 1..N : u[i] = s[i]
      /\ \A i \in 1..Len(t) : u[N + i] = t[i]
  BY ConcatElements
<1> HIDE DEF u
<1>2. /\ m \in Nat /\ Size(m) \in Nat
      /\ \A i \in 1..N : /\ s[i][1] \in Nat /\ s[i][2] \in Nat /\ Size(s[i][1]) \in Nat
                         /\ s[i][2] <= Size(s[i][1])
  BY Sizes, StreamHas
<1>3. ASSUME NEW j \in 1..Len(u), j > N
      PROVE  /\ j - N \in 1..Len(t) /\ u[j][1] = m /\ u[j][2] = from + (j - N)
             /\ from + (j - N) <= Size(m)
  <2> DEFINE k == j - N
  <2>1. k \in 1..Len(t) /\ j = N + k
    BY <1>1, <1>3
  <2> HIDE DEF k
  <2>2. u[j] = <<m, from + k>>
    BY <1>1, <2>1
  <2> QED
    BY <1>1, <1>2, <2>1, <2>2 DEF k
<1>4. ASSUME NEW i \in 1..Len(u), NEW j \in 1..Len(u), i < j
      PROVE  IF u[i][2] + (j - i) <= Size(u[i][1])
             THEN u[j][1] = u[i][1] /\ u[j][2] = u[i][2] + (j - i)
             ELSE u[i][1] < u[j][1]
  <2>1. CASE j <= N
    <3>1. i \in 1..N /\ j \in 1..N
      BY <1>1, <1>4, <2>1
    <3>2. IF s[i][2] + (j - i) <= Size(s[i][1])
          THEN s[j][1] = s[i][1] /\ s[j][2] = s[i][2] + (j - i)
          ELSE s[i][1] < s[j][1]
      BY <1>4, <3>1 DEF Framed
    <3> QED
      BY <1>1, <3>1, <3>2
  <2>2. CASE i <= N /\ j > N
    <3>1. i \in 1..N /\ N \in 1..Len(s) /\ u[i] = s[i]
      BY <1>1, <2>2
    <3>2. u[j][1] = m /\ u[j][2] = from + (j - N) /\ from + (j - N) <= Size(m)
      BY <1>3, <2>2
    <3>3. IF s[i][2] + (N - i) <= Size(s[i][1])
          THEN s[N][1] = s[i][1] /\ s[N][2] = s[i][2] + (N - i)
          ELSE s[i][1] < s[N][1]
      <4>1. CASE i = N
        BY <1>2, <3>1, <4>1
      <4>2. CASE i # N
        <5>1. i < N
          BY <3>1, <4>2
        <5> QED
          BY <3>1, <5>1 DEF Framed
      <4> QED
        BY <4>1, <4>2
    <3>4. /\ s[N][1] \in Nat /\ s[N][2] \in Nat /\ Size(s[N][1]) \in Nat
          /\ s[i][1] \in Nat /\ s[i][2] \in Nat /\ Size(s[i][1]) \in Nat
      BY <1>2, <3>1
    <3> DEFINE a == s[i][2]
               z == Size(s[i][1])
    <3> HIDE DEF a, z
    <3>5. /\ a \in Nat /\ z \in Nat /\ i <= N /\ N < j
          /\ i \in Nat /\ j \in Nat /\ N \in Nat
      BY <1>1, <2>2, <3>1, <3>4 DEF a, z
    <3>6. a + (j - i) = (a + (N - i)) + (j - N)
      BY <3>5
    <3>7. ~(a + (N - i) <= z) => ~(a + (j - i) <= z)
      BY <3>5
    <3>8. CASE s[N] = <<m, from>>
      <4>1. s[N][1] = m /\ s[N][2] = from
        BY <3>8
      <4>2. CASE a + (N - i) <= z
        <5>1. s[i][1] = m /\ a + (N - i) = from
          BY <3>3, <4>1, <4>2 DEF a, z
        <5>2. a + (j - i) = from + (j - N)
          BY <3>6, <5>1
        <5> QED
          BY <3>1, <3>2, <5>1, <5>2 DEF a
      <4>3. CASE ~(a + (N - i) <= z)
        <5>1. s[i][1] < m /\ ~(a + (j - i) <= z)
          BY <3>3, <3>7, <4>1, <4>3 DEF a, z
        <5> QED
          BY <3>1, <3>2, <5>1 DEF a, z
      <4> QED
        BY <4>2, <4>3
    <3>9. CASE s[N][1] < m /\ s[N][2] = Size(s[N][1])
      <4>1. CASE a + (N - i) <= z
        <5>1. s[N][1] = s[i][1] /\ a + (N - i) = z
          BY <3>3, <3>9, <4>1 DEF a, z
        <5>2. s[i][1] < m /\ ~(a + (j - i) <= z)
          BY <3>9, <3>5, <5>1
        <5> QED
          BY <3>1, <3>2, <5>2 DEF a, z
      <4>2. CASE ~(a + (N - i) <= z)
        <5>1. s[i][1] < s[N][1] /\ ~(a + (j - i) <= z)
          BY <3>3, <3>7, <4>2 DEF a, z
        <5>2. s[i][1] < m
          <6>1. s[i][1] \in Nat /\ s[N][1] \in Nat /\ m \in Nat
            BY <1>2, <3>1, <3>4
          <6>2. s[i][1] < s[N][1] /\ s[N][1] < m
            BY <3>9, <5>1
          <6> QED
            BY <6>1, <6>2
        <5> QED
          BY <3>1, <3>2, <5>1, <5>2 DEF a, z
      <4> QED
        BY <4>1, <4>2
    <3> QED
      BY <3>1, <3>8, <3>9
  <2>3. CASE i > N
    <3>1. u[i][1] = m /\ u[i][2] = from + (i - N)
      BY <1>3, <2>3
    <3>2. u[j][1] = m /\ u[j][2] = from + (j - N) /\ from + (j - N) <= Size(m)
      BY <1>1, <1>3, <1>4, <2>3
    <3>3. (from + (i - N)) + (j - i) = from + (j - N)
      BY <1>1
    <3> QED
      BY <3>1, <3>2, <3>3
  <2> QED
    BY <1>1, <2>1, <2>2, <2>3
<1>5. ASSUME NEW i \in 1..Len(u) - 1, u[i][2] = Size(u[i][1]) PROVE u[i + 1][2] = 1
  <2>1. CASE i < N
    <3>1. i \in 1..Len(s) - 1 /\ i \in 1..N /\ i + 1 \in 1..N
      BY <1>1, <2>1
    <3> QED
      BY <1>1, <1>5, <3>1 DEF Framed
  <2>2. CASE i = N
    <3>1. i + 1 \in 1..Len(u) /\ i + 1 > N /\ N \in 1..N /\ (i + 1) - N = 1 /\ u[N] = s[N]
      BY <1>1, <2>2
    <3>2. ~(s[N] = <<m, from>>)
      <4> SUFFICES ASSUME s[N] = <<m, from>> PROVE FALSE
        OBVIOUS
      <4>1. from = Size(m)
        BY <1>5, <2>2, <3>1
      <4> QED
        BY <1>1, <1>2, <4>1
    <3>3. from = 0
      <4>1. Len(s) > 0
        BY <3>1
      <4> QED
        BY <3>2, <4>1
    <3>4. u[i + 1][2] = from + ((i + 1) - N)
      BY <1>3, <3>1
    <3> QED
      BY <3>1, <3>3, <3>4
  <2>3. CASE i > N
    <3>1. i \in 1..Len(u) /\ i - N < Len(t)
      BY <1>1
    <3>2. u[i][1] = m /\ u[i][2] = from + (i - N)
      BY <1>3, <2>3, <3>1
    <3> QED
      BY <1>1, <1>2, <1>5, <3>1, <3>2
  <2> QED
    BY <1>1, <2>1, <2>2, <2>3
<1> QED
  BY <1>4, <1>5 DEF Framed, u

\* Steps of the writer that write nothing.
LEMMA QuietStep ==
  ASSUME StreamInv, UNCHANGED <<content, wire, readerVars>>,
         \A m \in Messages : (writePromise'[m] = "resolved") <=> (writePromise[m] = "resolved"),
         \A m \in Messages : WriteSettled(m) => WriteSettled(m)',
         \A m \in Messages : (phase = "body" /\ m = Head(writing))
            => (WriteSettled(m)' \/ (phase' = "body" /\ m = Head(writing'))),
         sender' = "running" => /\ sender = "running" /\ (phase' = "body" <=> phase = "body")
                                /\ phase = "body" => Head(writing') = Head(writing)
  PROVE  /\ Held(Stream, nextMessageLength, decoding)'
         /\ (partialMessageTimer = (nextMessageLength # None))'
<1> DEFINE s == Stream
<1>1. /\ Stream' = Stream /\ nextMessageLength' = nextMessageLength /\ decoding' = decoding
      /\ delivered' = delivered /\ content' = content /\ partialMessageTimer' = partialMessageTimer
  BY DEF Stream, readerVars
<1>2. s \in Seq(Units) /\ Len(s) \in Nat /\ \A i \in 1..Len(s) : s[i][1] \in Messages
  <2>1. s \in Seq(Units)
    BY ConcatElements DEF StreamInv, StreamTypeOK, Stream
  <2> QED
    BY <2>1, StreamHas
<1>3. \A i \in 1..Len(delivered) : delivered[i] \in Messages
  BY DEF StreamInv, StreamTypeOK
<1>4. /\ Framed(s) /\ Sent(s) /\ Aligned(s, nextMessageLength)
      /\ Passed(decoding, s) /\ OnItsWay(decoding, s)
  BY DEF StreamInv, Held
<1> HIDE DEF s
<1>5. Framed(s)'
  BY <1>1, <1>4 DEF Framed, Size, s
<1>6. Sent(s)'
  BY <1>1, <1>2, <1>4 DEF Sent, Size, s
<1>7. Aligned(s, nextMessageLength)'
  BY <1>1, <1>4 DEF Aligned, InSync, s
<1>8. Passed(decoding, s)'
  BY <1>1, <1>3, <1>4 DEF Passed, s
<1>9. OnItsWay(decoding, s)'
  BY <1>1, <1>4 DEF OnItsWay, InSync, s
<1> QED
  BY <1>1, <1>5, <1>6, <1>7, <1>8, <1>9 DEF Held, StreamInv, s

\* The stream is a sequence of units.
LEMMA StreamUnits ==
  ASSUME StreamInv
  PROVE  /\ Stream \in Seq(Units) /\ Len(Stream) \in Nat
         /\ \A i \in 1..Len(Stream) : Stream[i][1] \in Messages
         /\ \A i \in 1..Len(delivered) : delivered[i] \in Messages
<1>1. Stream \in Seq(Units) /\ delivered \in Seq(Messages)
  BY ConcatElements DEF StreamInv, StreamTypeOK, Stream
<1> QED
  BY <1>1, StreamHas

\* The message of the write under way.
LEMMA Writing ==
  ASSUME StreamInv, writing # <<>>
  PROVE  /\ Head(writing) \in Messages /\ writePromise[Head(writing)] = "pending"
         /\ writing \in Seq(Messages) /\ Head(writing) = writing[1] /\ 1 \in 1..Len(writing)
         /\ \A m \in Messages : WriteSettled(m) => m < Head(writing)
<1>1. writing \in Seq(Messages)
  BY DEF StreamInv, StreamTypeOK
<1>2. Head(writing) = writing[1] /\ writing[1] \in Messages /\ 1 \in 1..Len(writing) /\ 1 \in DOMAIN writing
  BY <1>1, TailElements
<1>3. writePromise[Head(writing)] = "pending"
  BY <1>2 DEF StreamInv, StreamTypeOK
<1> QED
  BY <1>1, <1>2, <1>3 DEF StreamInv, Queue

\* A write settles.
LEMMA SettleKeeps ==
  ASSUME StreamInv, writing # <<>>, NEW outcome \in {"resolved", "rejected"}, SettleWrite(outcome)
  PROVE  /\ writePromise' \in [Messages -> {"none", "pending", "resolved", "rejected"}]
         /\ writing' \in Seq(Messages) /\ phase' = "encode"
         /\ \A m \in Messages :
              writePromise'[m] = "pending" <=> \E i \in DOMAIN writing' : writing'[i] = m
         /\ Queue'
         /\ writePromise'[Head(writing)] = outcome
         /\ \A m \in Messages : m # Head(writing) => writePromise'[m] = writePromise[m]
         /\ \A m \in Messages : WriteSettled(m) \/ m = Head(writing) <=> WriteSettled(m)'
<1> DEFINE h == Head(writing)
           w == Tail(writing)
<1>1. /\ h \in Messages /\ writePromise[h] = "pending" /\ writing \in Seq(Messages)
      /\ h = writing[1] /\ 1 \in 1..Len(writing)
      /\ \A m \in Messages : WriteSettled(m) => m < h
  BY Writing
<1>2. /\ writePromise \in [Messages -> {"none", "pending", "resolved", "rejected"}]
      /\ \A m \in Messages : writePromise[m] = "pending" <=> \E i \in 1..Len(writing) : writing[i] = m
      /\ \A i \in 1..Len(writing), m \in Messages : WriteSettled(m) => m < writing[i]
      /\ \A i, j \in 1..Len(writing) : i < j => writing[i] < writing[j]
      /\ \A i, j \in Messages : writePromise[i] = "none" /\ i < j => writePromise[j] = "none"
  BY DEF StreamInv, StreamTypeOK, Queue
<1>3. /\ w \in Seq(Messages) /\ Len(writing) \in Nat \ {0} /\ Len(w) = Len(writing) - 1
      /\ \A i \in 1..Len(w) : w[i] = writing[i + 1]
  BY <1>1, TailElements
<1>4. writing' = w /\ phase' = "encode" /\ writePromise' = [writePromise EXCEPT ![h] = outcome]
  BY DEF SettleWrite
<1> HIDE DEF h, w
<1>5. /\ writePromise'[h] = outcome
      /\ \A m \in Messages : m # h => writePromise'[m] = writePromise[m]
      /\ writePromise' \in [Messages -> {"none", "pending", "resolved", "rejected"}]
  BY <1>1, <1>2, <1>4
<1>6. \A i \in 1..Len(w) : i + 1 \in 1..Len(writing) /\ h < w[i] /\ w[i] \in Messages /\ w[i] # h
  <2>1. ASSUME NEW i \in 1..Len(w) PROVE i + 1 \in 1..Len(writing) /\ 1 < i + 1
    BY <1>3
  <2>2. \A i \in 1..Len(w) : w[i] \in Messages /\ w[i] \in Nat
    BY <1>3, Sizes
  <2>3. \A i \in 1..Len(w) : h < w[i]
    BY <1>1, <1>2, <1>3, <2>1
  <2>4. h \in Nat
    BY <1>1, Sizes
  <2> QED
    BY <2>1, <2>2, <2>3, <2>4
<1>7. ASSUME NEW m \in Messages
      PROVE  writePromise'[m] = "pending" <=> \E i \in 1..Len(w) : w[i] = m
  <2>1. ASSUME writePromise'[m] = "pending" PROVE \E i \in 1..Len(w) : w[i] = m
    <3>1. m # h /\ writePromise[m] = "pending"
      BY <1>5, <2>1
    <3>2. PICK i \in 1..Len(writing) : writing[i] = m
      BY <1>2, <3>1
    <3>3. i # 1
      BY <1>1, <3>1, <3>2
    <3>4. i - 1 \in 1..Len(w) /\ (i - 1) + 1 = i
      BY <1>3, <3>3
    <3> QED
      BY <1>3, <3>2, <3>4
  <2>2. ASSUME NEW i \in 1..Len(w), w[i] = m PROVE writePromise'[m] = "pending"
    <3>1. m # h /\ writePromise[m] = "pending"
      BY <1>2, <1>3, <1>6, <2>2
    <3> QED
      BY <1>5, <3>1
  <2> QED
    BY <2>1, <2>2
<1>8. \A m \in Messages : WriteSettled(m) \/ m = h <=> WriteSettled(m)'
  BY <1>5 DEF WriteSettled
<1>9. Queue'
  <2>1. \A i, j \in Messages : writePromise'[i] = "none" /\ i < j => writePromise'[j] = "none"
    <3>1. \A j \in Messages : writePromise[j] = "none" => j # h
      BY <1>1
    <3>2. \A i \in Messages : writePromise'[i] = "none" => i # h
      BY <1>5
    <3> QED
      BY <1>2, <1>5, <3>1, <3>2
  <2>2. ASSUME NEW i \in 1..Len(w), NEW j \in 1..Len(w), i < j PROVE w[i] < w[j]
    <3>1. i + 1 < j + 1 /\ i + 1 \in 1..Len(writing) /\ j + 1 \in 1..Len(writing)
      BY <1>3, <1>6, <2>2
    <3> QED
      BY <1>2, <1>3, <3>1
  <2>3. ASSUME NEW i \in 1..Len(w), NEW m \in Messages, WriteSettled(m)' PROVE m < w[i]
    <3>1. WriteSettled(m) \/ m = h
      BY <1>8, <2>3
    <3> QED
      BY <1>2, <1>3, <1>6, <3>1
  <2> QED
    BY <1>4, <2>1, <2>2, <2>3 DEF Queue
<1>10. DOMAIN w = 1..Len(w)
  BY <1>3
<1> QED
  BY <1>3, <1>4, <1>5, <1>7, <1>8, <1>9, <1>10 DEF h

\* write: the promise is pending and the message the last to wait.
LEMMA WriteMessageKeeps ==
  ASSUME StreamInv, NEW m \in Messages, WriteMessage(m)
  PROVE  StreamInv'
<1>1. /\ writePromise' = [writePromise EXCEPT ![m] = "pending"] /\ writePromise[m] = "none"
      /\ \A j \in 1..m - 1 : writePromise[j] # "none"
      /\ writing' = Append(writing, m)
      /\ UNCHANGED <<content, wire, readerVars>> /\ phase' = phase /\ sender' = sender
  BY DEF WriteMessage
<1>2. /\ writing \in Seq(Messages)
      /\ writePromise \in [Messages -> {"none", "pending", "resolved", "rejected"}]
      /\ \A n \in Messages : writePromise[n] = "pending" <=> \E i \in 1..Len(writing) : writing[i] = n
      /\ phase # "encode" => writing # <<>>
      /\ \A i \in 1..Len(writing), n \in Messages : WriteSettled(n) => n < writing[i]
      /\ \A i, j \in 1..Len(writing) : i < j => writing[i] < writing[j]
      /\ \A i, j \in Messages : writePromise[i] = "none" /\ i < j => writePromise[j] = "none"
  BY DEF StreamInv, StreamTypeOK, Queue
<1> DEFINE w == Append(writing, m)
<1>3. /\ w \in Seq(Messages) /\ Len(writing) \in Nat /\ Len(w) = Len(writing) + 1 /\ w # <<>>
      /\ \A i \in 1..Len(writing) : w[i] = writing[i]
      /\ w[Len(writing) + 1] = m
      /\ DOMAIN w = 1..Len(w)
  BY <1>2, AppendElements
<1>4. Len(writing) > 0 => Head(w) = Head(writing)
  <2> SUFFICES ASSUME Len(writing) > 0 PROVE Head(w) = Head(writing)
    OBVIOUS
  <2>1. 1 \in 1..Len(writing) /\ writing # <<>>
    BY <1>2, <1>3
  <2>2. Head(w) = w[1] /\ Head(writing) = writing[1]
    BY <1>2, <1>3, <2>1, TailElements
  <2> HIDE DEF w
  <2> QED
    BY <1>3, <2>1, <2>2
<1> HIDE DEF w
<1>5. /\ writePromise' \in [Messages -> {"none", "pending", "resolved", "rejected"}]
      /\ writePromise'[m] = "pending"
      /\ \A n \in Messages : n # m => writePromise'[n] = writePromise[n]
  BY <1>1, <1>2
<1>6. \A n \in Messages : WriteSettled(n) <=> WriteSettled(n)'
  BY <1>1, <1>5 DEF WriteSettled
<1>7. \A n \in Messages : writePromise[n] # "none" => n < m
  <2> SUFFICES ASSUME NEW n \in Messages, writePromise[n] # "none" PROVE n < m
    OBVIOUS
  <2>1. n # m /\ ~(m < n)
    BY <1>1, <1>2
  <2> QED
    BY <2>1, Sizes
<1>8. ASSUME NEW n \in Messages
      PROVE  writePromise'[n] = "pending" <=> \E i \in 1..Len(w) : w[i] = n
  <2>1. Len(writing) + 1 \in 1..Len(w) /\ \A i \in 1..Len(writing) : i \in 1..Len(w)
    BY <1>3
  <2>2. \A i \in 1..Len(w) : i \in 1..Len(writing) \/ i = Len(writing) + 1
    BY <1>3
  <2>3. CASE n = m
    BY <1>3, <1>5, <2>1, <2>3
  <2>4. CASE n # m
    <3>1. writePromise'[n] = writePromise[n]
      BY <1>5, <2>4
    <3>2. (\E i \in 1..Len(writing) : writing[i] = n) => \E i \in 1..Len(w) : w[i] = n
      BY <1>3, <2>1
    <3>3. (\E i \in 1..Len(w) : w[i] = n) => \E i \in 1..Len(writing) : writing[i] = n
      BY <1>3, <2>2, <2>4
    <3> QED
      BY <1>2, <3>1, <3>2, <3>3
  <2> QED
    BY <2>3, <2>4
<1>9. Queue'
  <2>1. \A i, j \in Messages : writePromise'[i] = "none" /\ i < j => writePromise'[j] = "none"
    <3> SUFFICES ASSUME NEW i \in Messages, NEW j \in Messages, writePromise'[i] = "none", i < j
                 PROVE  writePromise'[j] = "none"
      OBVIOUS
    <3>1. writePromise[i] = "none"
      BY <1>1, <1>5
    <3>2. i \notin 1..m - 1
      BY <1>1, <3>1
    <3>3. j # m
      BY <3>2, Sizes
    <3> QED
      BY <1>2, <1>5, <3>1, <3>3
  <2>2. \A i \in 1..Len(writing) : writing[i] < m
    <3>1. \A i \in 1..Len(writing) : writing[i] \in Messages /\ writePromise[writing[i]] = "pending"
      BY <1>2
    <3> QED
      BY <1>7, <3>1
  <2>3. \A i \in 1..Len(w) : i \in 1..Len(writing) \/ i = Len(writing) + 1
    BY <1>3
  <2>4. ASSUME NEW i \in 1..Len(w), NEW j \in 1..Len(w), i < j PROVE w[i] < w[j]
    <3>1. i \in 1..Len(writing)
      BY <1>3, <2>4
    <3>2. CASE j \in 1..Len(writing)
      BY <1>2, <1>3, <2>4, <3>1, <3>2
    <3>3. CASE j = Len(writing) + 1
      BY <1>3, <2>2, <3>1, <3>3
    <3> QED
      BY <2>3, <3>2, <3>3
  <2>5. ASSUME NEW i \in 1..Len(w), NEW n \in Messages, WriteSettled(n)' PROVE n < w[i]
    <3>1. WriteSettled(n) /\ n < m
      BY <1>6, <1>7, <2>5 DEF WriteSettled
    <3>2. CASE i \in 1..Len(writing)
      BY <1>2, <1>3, <3>1, <3>2
    <3>3. CASE i = Len(writing) + 1
      BY <1>3, <3>1, <3>3
    <3> QED
      BY <2>3, <3>2, <3>3
  <2> QED
    BY <1>1, <1>3, <2>1, <2>4, <2>5 DEF Queue, w
<1>10. StreamTypeOK'
  BY <1>1, <1>3, <1>5, <1>8 DEF StreamInv, StreamTypeOK, readerVars, w
<1>11. phase = "body" => Head(writing') = Head(writing)
  BY <1>1, <1>2, <1>4 DEF w
<1>12. /\ Held(Stream, nextMessageLength, decoding)'
       /\ (partialMessageTimer = (nextMessageLength # None))'
  <2>1. \A n \in Messages : (writePromise'[n] = "resolved") <=> (writePromise[n] = "resolved")
    BY <1>1, <1>5
  <2> QED
    BY <1>1, <1>6, <1>11, <2>1, QuietStep
<1> QED
  BY <1>9, <1>10, <1>12 DEF StreamInv

\* A write fails: nothing of it goes to the stream, or nothing after its header.
LEMMA RejectKeeps ==
  ASSUME StreamInv, writing # <<>>, SettleWrite("rejected"), sender' = sender,
         UNCHANGED <<content, wire, readerVars>>, phase = "encode" \/ sender # "running"
  PROVE  StreamInv'
<1>1. /\ writePromise' \in [Messages -> {"none", "pending", "resolved", "rejected"}]
      /\ writing' \in Seq(Messages) /\ phase' = "encode"
      /\ \A m \in Messages :
           writePromise'[m] = "pending" <=> \E i \in DOMAIN writing' : writing'[i] = m
      /\ Queue'
      /\ writePromise'[Head(writing)] = "rejected"
      /\ \A m \in Messages : m # Head(writing) => writePromise'[m] = writePromise[m]
      /\ \A m \in Messages : WriteSettled(m) \/ m = Head(writing) <=> WriteSettled(m)'
  BY SettleKeeps
<1>2. StreamTypeOK'
  BY <1>1 DEF StreamInv, StreamTypeOK, readerVars
<1>3. \A m \in Messages : (writePromise'[m] = "resolved") <=> (writePromise[m] = "resolved")
  BY <1>1, Writing
<1>4. /\ Held(Stream, nextMessageLength, decoding)'
      /\ (partialMessageTimer = (nextMessageLength # None))'
  BY <1>1, <1>3, QuietStep
<1> QED
  BY <1>1, <1>2, <1>4 DEF StreamInv

\* The encoders settle.
LEMMA EncodeKeeps ==
  ASSUME StreamInv, Encode
  PROVE  StreamInv'
<1>1. writing # <<>> /\ phase = "encode" /\ sender' = sender /\ UNCHANGED <<content, wire, readerVars>>
  BY DEF Encode, UnderWay
<1>2. CASE content[Head(writing)] = "unencodable"
  <2>1. SettleWrite("rejected")
    BY <1>2 DEF Encode
  <2> QED
    BY <1>1, <2>1, RejectKeeps
<1>3. CASE content[Head(writing)] # "unencodable"
  <2>1. phase' = "header" /\ UNCHANGED <<writePromise, writing>>
    BY <1>3 DEF Encode
  <2>2. StreamTypeOK' /\ Queue'
    BY <1>1, <2>1 DEF StreamInv, StreamTypeOK, Queue, readerVars, WriteSettled
  <2>3. /\ Held(Stream, nextMessageLength, decoding)'
        /\ (partialMessageTimer = (nextMessageLength # None))'
    BY <1>1, <2>1, QuietStep DEF WriteSettled
  <2> QED
    BY <2>2, <2>3 DEF StreamInv
<1> QED
  BY <1>2, <1>3

\* The stream ends, or the process dies.
LEMMA EndKeeps ==
  ASSUME StreamInv, End \/ Die
  PROVE  StreamInv'
<1>1. /\ sender' \in {"ended", "dead"}
      /\ UNCHANGED <<content, writePromise, writing, phase, wire, readerVars>>
  BY DEF End, Die
<1>2. StreamTypeOK' /\ Queue'
  BY <1>1 DEF StreamInv, StreamTypeOK, Queue, readerVars, WriteSettled
<1>3. /\ Held(Stream, nextMessageLength, decoding)'
      /\ (partialMessageTimer = (nextMessageLength # None))'
  BY <1>1, QuietStep DEF WriteSettled
<1> QED
  BY <1>2, <1>3 DEF StreamInv

\* What is written comes after what is on the stream.
LEMMA StreamGrows ==
  ASSUME StreamInv, NEW t \in Seq(Units), wire' = wire \o t, buffer' = buffer
  PROVE  /\ Stream' = Stream \o t /\ wire' \in Seq(Units) /\ Stream' \in Seq(Units)
         /\ Len(Stream') = Len(Stream) + Len(t) /\ Len(Stream) \in Nat /\ Len(t) \in Nat
         /\ \A i \in 1..Len(Stream) : Stream'[i] = Stream[i]
         /\ \A i \in 1..Len(t) : Stream'[Len(Stream) + i] = t[i]
<1>1. buffer \in Seq(Units) /\ wire \in Seq(Units)
  BY DEF StreamInv, StreamTypeOK
<1>2. buffer \o (wire \o t) = (buffer \o wire) \o t /\ wire \o t \in Seq(Units)
  BY <1>1
<1> QED
  BY <1>1, <1>2, ConcatElements, StreamUnits DEF Stream

\* A header is written.
LEMMA HeaderKeeps ==
  ASSUME StreamInv, WriteHeader, sender = "running"
  PROVE  StreamInv'
<1> DEFINE h == Head(writing)
           t == Header(h)
           s == Stream
           u == Stream'
<1>1. /\ writing # <<>> /\ phase = "header" /\ phase' = "body" /\ wire' = wire \o t
      /\ UNCHANGED <<content, writePromise, writing, sender, readerVars>>
  BY DEF WriteHeader, UnderWay
<1>2. /\ buffer' = buffer /\ nextMessageLength' = nextMessageLength /\ decoding' = decoding
      /\ delivered' = delivered /\ partialMessageTimer' = partialMessageTimer
  BY <1>1 DEF readerVars
<1>3. /\ h \in Messages /\ writePromise[h] = "pending" /\ h = writing[1]
      /\ \A m \in Messages : WriteSettled(m) => m < h
  BY <1>1, Writing
<1>4. t \in Seq(Units) /\ Len(t) = 2 /\ t[1] = <<h, 1>> /\ t[2] = <<h, 2>>
  BY <1>3, HeaderIs DEF HeaderSize
<1> HIDE DEF t
<1>5. /\ u = s \o t /\ wire' \in Seq(Units) /\ u \in Seq(Units)
      /\ Len(u) = Len(s) + 2 /\ Len(s) \in Nat
      /\ \A i \in 1..Len(s) : u[i] = s[i]
      /\ u[Len(s) + 1] = t[1] /\ u[Len(s) + 2] = t[2]
  <2>1. 1 \in 1..Len(t) /\ 2 \in 1..Len(t)
    BY <1>4
  <2> QED
    BY <1>1, <1>2, <1>4, <2>1, StreamGrows
<1>6. /\ Framed(s) /\ Sent(s) /\ Aligned(s, nextMessageLength)
      /\ Passed(decoding, s) /\ OnItsWay(decoding, s)
      /\ s \in Seq(Units) /\ \A i \in 1..Len(s) : s[i][1] \in Messages
      /\ \A i \in 1..Len(delivered) : delivered[i] \in Messages
  BY StreamUnits DEF StreamInv, Held
<1> HIDE DEF s, u, h
<1>7. \A i \in 1..Len(u) : i \in 1..Len(s) \/ i = Len(s) + 1 \/ i = Len(s) + 2
  BY <1>5
<1>8. \A i \in 1..Len(s) : WriteSettled(s[i][1]) /\ s[i][1] < h
  BY <1>1, <1>3, <1>6 DEF Sent
<1>9. Framed(u)
  <2>1. Len(t) > 0 /\ 0 + Len(t) <= Size(h) /\ 0 \in Nat
    BY <1>3, <1>4, Sizes DEF Size, HeaderSize
  <2>2. \A i \in 1..Len(t) : t[i] = <<h, 0 + i>>
    <3>1. \A i \in 1..Len(t) : i = 1 \/ i = 2
      BY <1>4
    <3> QED
      BY <1>4, <3>1
  <2>3. Len(s) > 0 => s[Len(s)][1] < h /\ s[Len(s)][2] = Size(s[Len(s)][1])
    <3>1. Len(s) > 0 => Len(s) \in 1..Len(s)
      BY <1>5
    <3> QED
      BY <1>1, <1>6, <1>8, <3>1 DEF Sent
  <2> HIDE DEF Messages
  <2> QED
    BY <1>3, <1>4, <1>5, <1>6, <2>1, <2>2, <2>3, FramedConcat
<1>10. Framed(Stream)'
  BY <1>9 DEF Framed, Size, u
<1>11. Sent(Stream)'
  <2>1. ASSUME NEW i \in 1..Len(u)
        PROVE  /\ \/ writePromise'[u[i][1]] \in {"resolved", "rejected"}
                  \/ phase' = "body" /\ u[i][1] = Head(writing')
               /\ u[i][2] > HeaderSize => writePromise'[u[i][1]] = "resolved"
    <3>1. CASE i \in 1..Len(s)
      <4>1. u[i] = s[i] /\ WriteSettled(s[i][1]) /\ (s[i][2] > HeaderSize => writePromise[s[i][1]] = "resolved")
        BY <1>5, <1>6, <1>8, <3>1 DEF Sent
      <4> QED
        BY <1>1, <4>1 DEF WriteSettled
    <3>2. CASE i = Len(s) + 1 \/ i = Len(s) + 2
      BY <1>1, <1>4, <1>5, <3>2 DEF HeaderSize, h
    <3> QED
      BY <1>7, <3>1, <3>2
  <2>2. u[Len(u)] = <<Head(writing'), HeaderSize>>
    BY <1>1, <1>4, <1>5 DEF HeaderSize, h
  <2> QED
    BY <1>1, <2>1, <2>2 DEF Sent, WriteSettled, u
<1>12. Aligned(Stream, nextMessageLength)'
  <2>1. Len(u) > 0
    BY <1>5
  <2>2. CASE Len(s) = 0
    <3>1. u[1] = <<h, 1>> /\ nextMessageLength = None
      BY <1>1, <1>4, <1>5, <1>6, <2>2 DEF Aligned
    <3> QED
      BY <1>2, <2>1, <3>1 DEF Aligned, u
  <2>3. CASE Len(s) # 0
    <3>1. u[1] = s[1]
      BY <1>5, <2>3
    <3> QED
      BY <1>1, <1>2, <1>6, <2>1, <2>3, <3>1 DEF Aligned, InSync, u
  <2> QED
    BY <2>2, <2>3
<1>13. Passed(decoding, Stream)'
  <2>1. \A m \in Messages : writePromise[m] = "resolved" => m < h
    BY <1>3 DEF WriteSettled
  <2>2. \A i \in 1..Len(decoding) : Of(decoding[i]) < h
    BY <1>6, <2>1 DEF Passed
  <2>3. \A i \in 1..Len(delivered) : delivered[i] < h
    BY <1>6, <2>1 DEF Passed
  <2>4. \A j \in 1..Len(u) : j \in 1..Len(s) \/ u[j][1] = h
    BY <1>4, <1>5, <1>7
  <2>5. ASSUME NEW j \in 1..Len(u)
        PROVE  /\ \A i \in 1..Len(decoding) : Of(decoding[i]) < u[j][1]
               /\ \A i \in 1..Len(delivered) : delivered[i] < u[j][1]
    <3>1. CASE j \in 1..Len(s)
      BY <1>5, <1>6, <3>1 DEF Passed
    <3>2. CASE u[j][1] = h
      BY <2>2, <2>3, <3>2
    <3> QED
      BY <2>4, <3>1, <3>2
  <2> QED
    BY <1>1, <1>2, <1>6, <2>5 DEF Passed, u
<1>14. OnItsWay(decoding, Stream)'
  <2>1. \A i \in 1..Len(s) : i \in 1..Len(u)
    BY <1>5
  <2>2. ASSUME NEW m \in Messages, writePromise[m] = "resolved", content[m] = "plain", InSync(m)
        PROVE  \/ \E i \in 1..Len(delivered) : delivered[i] = m
               \/ \E i \in 1..Len(decoding) : Of(decoding[i]) = m
               \/ \E i \in 1..Len(u) : u[i] = <<m, Size(m)>>
    BY <1>5, <1>6, <2>1, <2>2 DEF OnItsWay
  <2>3. writePromise' = writePromise /\ content' = content
    BY <1>1
  <2> QED
    BY <1>2, <2>2, <2>3 DEF OnItsWay, InSync, Size, Of, u
<1>15. StreamTypeOK' /\ Queue'
  BY <1>1, <1>2, <1>5 DEF StreamInv, StreamTypeOK, Queue, readerVars, WriteSettled
<1>16. (partialMessageTimer = (nextMessageLength # None))'
  BY <1>2 DEF StreamInv
<1> QED
  BY <1>2, <1>10, <1>11, <1>12, <1>13, <1>14, <1>15, <1>16 DEF StreamInv, Held

\* A body is written, and the write succeeds.
LEMMA BodyKeeps ==
  ASSUME StreamInv, WriteBody, sender = "running"
  PROVE  StreamInv'
<1> DEFINE h == Head(writing)
           t == Body(h)
           s == Stream
           u == Stream'
<1>1. /\ writing # <<>> /\ phase = "body" /\ wire' = wire \o t /\ SettleWrite("resolved")
      /\ UNCHANGED <<content, sender, readerVars>>
  BY DEF WriteBody, UnderWay
<1>2. /\ buffer' = buffer /\ nextMessageLength' = nextMessageLength /\ decoding' = decoding
      /\ delivered' = delivered /\ partialMessageTimer' = partialMessageTimer
  BY <1>1 DEF readerVars
<1>3. /\ h \in Messages /\ writePromise[h] = "pending"
      /\ \A m \in Messages : WriteSettled(m) => m < h
      /\ BodySize[h] \in Nat \ {0} /\ Size(h) = 2 + BodySize[h]
  BY <1>1, Writing, Sizes DEF Size, HeaderSize
<1>4. /\ t \in Seq(Units) /\ Len(t) = BodySize[h]
      /\ \A i \in 1..Len(t) : t[i] = <<h, 2 + i>>
  BY <1>3, BodyIs DEF HeaderSize
<1> HIDE DEF t
<1>5. /\ u = s \o t /\ wire' \in Seq(Units) /\ u \in Seq(Units)
      /\ Len(u) = Len(s) + Len(t) /\ Len(s) \in Nat
      /\ \A i \in 1..Len(s) : u[i] = s[i]
      /\ \A i \in 1..Len(t) : u[Len(s) + i] = t[i]
  BY <1>1, <1>2, <1>4, StreamGrows
<1>6. /\ Framed(s) /\ Sent(s) /\ Aligned(s, nextMessageLength)
      /\ Passed(decoding, s) /\ OnItsWay(decoding, s)
      /\ s \in Seq(Units) /\ \A i \in 1..Len(s) : s[i][1] \in Messages
      /\ \A i \in 1..Len(delivered) : delivered[i] \in Messages
  BY StreamUnits DEF StreamInv, Held
<1>7. /\ writePromise' \in [Messages -> {"none", "pending", "resolved", "rejected"}]
      /\ writing' \in Seq(Messages) /\ phase' = "encode"
      /\ \A m \in Messages :
           writePromise'[m] = "pending" <=> \E i \in DOMAIN writing' : writing'[i] = m
      /\ Queue'
      /\ writePromise'[h] = "resolved"
      /\ \A m \in Messages : m # h => writePromise'[m] = writePromise[m]
      /\ \A m \in Messages : WriteSettled(m) \/ m = h <=> WriteSettled(m)'
  BY <1>1, SettleKeeps
<1>8. \A m \in Messages : writePromise[m] = "resolved" => writePromise'[m] = "resolved" /\ m < h
  BY <1>3, <1>7 DEF WriteSettled
<1> HIDE DEF s, u
<1>9. Framed(u)
  <2>1. Len(t) > 0 /\ 2 + Len(t) <= Size(h) /\ 2 \in Nat
    BY <1>3, <1>4
  <2>2. Len(s) > 0 => s[Len(s)] = <<h, 2>>
    BY <1>1, <1>6 DEF Sent, HeaderSize
  <2> HIDE DEF h
  <2> QED
    BY <1>3, <1>4, <1>5, <1>6, <2>1, <2>2, FramedConcat
<1>10. Framed(Stream)'
  BY <1>9 DEF Framed, Size, u
<1> HIDE DEF h
<1>11. ASSUME NEW j \in 1..Len(u), j \notin 1..Len(s) PROVE u[j][1] = h
  <2>1. j - Len(s) \in 1..Len(t) /\ Len(s) + (j - Len(s)) = j
    BY <1>4, <1>5, <1>11
  <2> QED
    BY <1>4, <1>5, <2>1
<1>12. u[Len(u)] = <<h, Size(h)>> /\ Len(u) > 0 /\ Len(u) \in 1..Len(u)
  <2>1. Len(t) \in 1..Len(t) /\ 2 + Len(t) = Size(h) /\ Len(u) = Len(s) + Len(t) /\ Len(t) > 0
    BY <1>3, <1>4, <1>5
  <2>2. t[Len(t)] = <<h, 2 + Len(t)>>
    BY <1>4, <2>1
  <2>3. u[Len(s) + Len(t)] = t[Len(t)]
    BY <1>5, <2>1
  <2>4. Len(u) > 0 /\ Len(u) \in 1..Len(u)
    BY <1>5, <2>1
  <2> QED
    BY <2>1, <2>2, <2>3, <2>4
<1>13. Sent(Stream)'
  <2>1. ASSUME NEW i \in 1..Len(u)
        PROVE  /\ writePromise'[u[i][1]] \in {"resolved", "rejected"}
               /\ u[i][2] > HeaderSize => writePromise'[u[i][1]] = "resolved"
    <3>1. CASE i \in 1..Len(s)
      <4>1. u[i] = s[i] /\ s[i][1] \in Messages /\ (WriteSettled(s[i][1]) \/ s[i][1] = h)
            /\ (s[i][2] > HeaderSize => writePromise[s[i][1]] = "resolved")
        BY <1>5, <1>6, <3>1 DEF Sent, h
      <4>2. PICK m \in Messages : m = s[i][1]
        BY <4>1
      <4>3. WriteSettled(m)'
        BY <1>7, <4>1, <4>2
      <4> QED
        BY <1>7, <1>8, <4>1, <4>2, <4>3 DEF WriteSettled
    <3>2. CASE i \notin 1..Len(s)
      <4>1. u[i][1] = h
        BY <1>11, <3>2
      <4> QED
        BY <1>7, <4>1
    <3> QED
      BY <3>1, <3>2
  <2>2. u[Len(u)][2] = Size(u[Len(u)][1])
    BY <1>12
  <2> QED
    BY <1>7, <2>1, <2>2 DEF Sent, WriteSettled, Size, u
<1>14. Aligned(Stream, nextMessageLength)'
  <2>1. CASE Len(s) = 0
    <3>1. 1 \in 1..Len(t) /\ Len(s) + 1 = 1
      BY <1>3, <1>4, <2>1
    <3>2. u[1] = <<h, 2 + 1>>
      BY <1>4, <1>5, <3>1
    <3>3. CASE nextMessageLength = None
      <4>1. ~InSync(h)
        BY <1>1, <1>6, <2>1, <3>3, sender = "running" DEF Aligned, h
      <4> QED
        BY <1>1, <1>2, <1>12, <3>2, <3>3, <4>1 DEF Aligned, InSync, u
    <3>4. CASE nextMessageLength # None
      <4>1. nextMessageLength = BodySize[h] /\ nextMessageLength > 0
        BY <1>6, <2>1, <3>4 DEF Aligned, h
      <4> QED
        BY <1>2, <1>12, <3>2, <3>4, <4>1 DEF Aligned, HeaderSize, u
    <3> QED
      BY <3>3, <3>4
  <2>2. CASE Len(s) # 0
    <3>1. u[1] = s[1]
      BY <1>5, <2>2
    <3> QED
      BY <1>1, <1>2, <1>6, <1>12, <2>2, <3>1 DEF Aligned, InSync, u
  <2> QED
    BY <2>1, <2>2
<1>15. Passed(decoding, Stream)'
  <2>1. \A i \in 1..Len(decoding) : Of(decoding[i]) < h
    BY <1>6, <1>8 DEF Passed
  <2>2. \A i \in 1..Len(delivered) : delivered[i] < h
    BY <1>6, <1>8 DEF Passed
  <2>3. ASSUME NEW j \in 1..Len(u)
        PROVE  /\ \A i \in 1..Len(decoding) : Of(decoding[i]) < u[j][1]
               /\ \A i \in 1..Len(delivered) : delivered[i] < u[j][1]
    <3>1. CASE j \in 1..Len(s)
      BY <1>5, <1>6, <3>1 DEF Passed
    <3>2. CASE j \notin 1..Len(s)
      BY <1>11, <2>1, <2>2, <3>2
    <3> QED
      BY <3>1, <3>2
  <2> QED
    BY <1>2, <1>6, <1>8, <2>3 DEF Passed, u
<1>16. OnItsWay(decoding, Stream)'
  <2>1. \A i \in 1..Len(s) : i \in 1..Len(u)
    BY <1>5
  <2>2. content' = content
    BY <1>1
  <2>3. ASSUME NEW m \in Messages, writePromise'[m] = "resolved", content[m] = "plain", InSync(m)
        PROVE  \/ \E i \in 1..Len(delivered) : delivered[i] = m
               \/ \E i \in 1..Len(decoding) : Of(decoding[i]) = m
               \/ \E i \in 1..Len(u) : u[i] = <<m, Size(m)>>
    <3>1. CASE m = h
      BY <1>12, <3>1
    <3>2. CASE m # h
      <4>1. writePromise[m] = "resolved"
        BY <1>7, <2>3, <3>2
      <4> QED
        BY <1>5, <1>6, <2>1, <2>3, <4>1 DEF OnItsWay
    <3> QED
      BY <3>1, <3>2
  <2> QED
    BY <1>2, <2>2, <2>3 DEF OnItsWay, InSync, u
<1>17. StreamTypeOK'
  BY <1>1, <1>2, <1>5, <1>7 DEF StreamInv, StreamTypeOK, readerVars
<1>18. (partialMessageTimer = (nextMessageLength # None))'
  BY <1>2 DEF StreamInv
<1> QED
  BY <1>2, <1>7, <1>10, <1>13, <1>14, <1>15, <1>16, <1>17, <1>18 DEF StreamInv, Held

\* doWrite, as it succeeds or fails.
LEMMA DoWriteKeeps ==
  ASSUME StreamInv, WriteHeader \/ WriteBody
  PROVE  StreamInv'
<1>1. CASE sender = "running"
  BY <1>1, HeaderKeeps, BodyKeeps
<1>2. CASE sender # "running"
  <2>1. writing # <<>> /\ SettleWrite("rejected") /\ sender' = sender /\ UNCHANGED <<content, wire, readerVars>>
    BY <1>2 DEF WriteHeader, WriteBody, UnderWay
  <2> QED
    BY <1>2, <2>1, RejectKeeps
<1> QED
  BY <1>1, <1>2

\* Concatenation is associative.
LEMMA ConcatConcat ==
  \A a, b, c \in Seq(Units) : (a \o b) \o c = a \o (b \o c) /\ a \o b \in Seq(Units)
  OBVIOUS

\* Chunks are received and the loop takes what it can.
LEMMA ReceiveChunkKeeps ==
  ASSUME StreamInv, NEW n \in 1..MaxChunk, ReceiveChunk(n)
  PROVE  StreamInv'
<1> DEFINE chunk == SubSeq(wire, 1, n)
           rest == SubSeq(wire, n + 1, Len(wire))
<1>1. /\ wire \in Seq(Units) /\ buffer \in Seq(Units) /\ n \in 1..Len(wire)
      /\ nextMessageLength \in Nat \cup {None} /\ partialMessageTimer \in BOOLEAN
      /\ decoding \in Seq(Seq(Units))
  BY TransportAssumption DEF StreamInv, StreamTypeOK, ReceiveChunk
<1>2. /\ chunk \in Seq(Units) /\ rest \in Seq(Units) /\ chunk \o rest = wire
  BY <1>1
<1> HIDE DEF chunk, rest
<1>3. (buffer \o chunk) \o rest = Stream /\ buffer \o chunk \in Seq(Units)
  <2>1. buffer \in Seq(Units) /\ chunk \in Seq(Units) /\ rest \in Seq(Units)
    BY <1>1, <1>2
  <2>2. (buffer \o chunk) \o rest = buffer \o (chunk \o rest) /\ buffer \o chunk \in Seq(Units)
    BY <2>1, ConcatConcat
  <2> QED
    BY <1>2, <2>2 DEF Stream
<1>4. Loop(Reading(chunk), rest)
  BY <1>1, <1>3 DEF Loop, Reading, Readings, StreamInv
<1>5. PICK r \in OnData(chunk) :
        /\ wire' = rest /\ buffer' = r.buffer /\ nextMessageLength' = r.length
        /\ partialMessageTimer' = r.timer /\ decoding' = r.bodies
  BY DEF ReceiveChunk, chunk, rest
<1>6. UNCHANGED <<content, writePromise, writing, phase, sender, delivered, closed>>
  BY DEF ReceiveChunk, writerVars
<1>7. Loop(r, rest) /\ r.stop
  BY <1>1, <1>2, <1>4, OnDataHolds
<1>8. /\ r \in Readings /\ Held(r.buffer \o rest, r.length, r.bodies)
      /\ r.timer = (r.length # None)
  BY <1>7 DEF Loop
<1>9. StreamTypeOK' /\ Queue'
  BY <1>2, <1>5, <1>6, <1>8 DEF StreamInv, StreamTypeOK, Queue, WriteSettled, Readings
<1>10. Stream' = r.buffer \o rest
  BY <1>5 DEF Stream
<1> DEFINE s == r.buffer \o rest
<1> HIDE DEF s
<1>11. Held(s, r.length, r.bodies) /\ Stream' = s
  BY <1>8, <1>10 DEF s
<1>12. s \in Seq(Units)
  BY <1>2, <1>8 DEF s, Readings
<1>13. Held(Stream, nextMessageLength, decoding)'
  BY <1>5, <1>6, <1>11 DEF Held, Framed, Sent, Aligned, Passed, OnItsWay, WriteSettled, InSync, Size
<1> QED
  BY <1>5, <1>8, <1>9, <1>13 DEF StreamInv

\* A body is decoded.
LEMMA DecodeKeeps ==
  ASSUME StreamInv, Decode
  PROVE  StreamInv'
<1> DEFINE s == Stream
           m == Of(decoding[1])
           rest == Tail(decoding)
           plain == content[m] # "undecodable"
<1>1. /\ decoding \in Seq(Seq(Units)) /\ decoding # <<>> /\ delivered \in Seq(Messages)
      /\ Len(delivered) \in Nat
  BY DEF StreamInv, StreamTypeOK, Decode
<1>2. /\ Head(decoding) = decoding[1] /\ 1 \in 1..Len(decoding) /\ Len(decoding) \in Nat
      /\ rest \in Seq(Seq(Units)) /\ Len(rest) = Len(decoding) - 1
      /\ \A i \in 1..Len(rest) : rest[i] = decoding[i + 1]
  BY <1>1, TailElements
<1>3. /\ Framed(s) /\ Sent(s) /\ Aligned(s, nextMessageLength)
      /\ Passed(decoding, s) /\ OnItsWay(decoding, s)
  BY DEF StreamInv, Held
<1>4. /\ m \in Messages /\ m \in Nat /\ decoding[1] = Body(m) /\ writePromise[m] = "resolved"
      /\ \A i \in 1..Len(decoding) : 1 < i => m < Of(decoding[i])
      /\ \A i \in 1..Len(s) : m < s[i][1]
      /\ \A i \in 1..Len(delivered) : delivered[i] < m
  BY <1>2, <1>3, Sizes DEF Passed
<1>5. /\ decoding' = rest
      /\ delivered' = IF plain THEN Append(delivered, m) ELSE delivered
      /\ UNCHANGED <<content, writePromise, writing, phase, sender, wire, buffer,
                     nextMessageLength, partialMessageTimer, closed>>
  BY <1>2, <1>4 DEF Decode, Of, writerVars
<1>6. /\ Stream' = s
  BY <1>5 DEF Stream
<1> HIDE DEF s, m, rest
<1>7. ASSUME NEW i \in 1..Len(rest)
      PROVE  i + 1 \in 1..Len(decoding) /\ 1 < i + 1 /\ rest[i] = decoding[i + 1]
  BY <1>2
<1>8. /\ delivered' \in Seq(Messages)
      /\ \A i \in 1..Len(delivered') : delivered'[i] = m \/ (i \in 1..Len(delivered) /\ delivered'[i] = delivered[i])
      /\ \A i \in 1..Len(delivered) : i \in 1..Len(delivered') /\ delivered'[i] = delivered[i]
      /\ plain => \E i \in 1..Len(delivered') : delivered'[i] = m
      /\ \A i, j \in 1..Len(delivered') : i < j => delivered'[i] < delivered'[j]
  <2>0. \A i, j \in 1..Len(delivered) : i < j => delivered[i] < delivered[j]
    BY <1>3 DEF Passed
  <2>1. CASE plain
    <3>1. delivered' = Append(delivered, m)
      BY <1>5, <2>1
    <3>2. /\ delivered' \in Seq(Messages) /\ Len(delivered') = Len(delivered) + 1
          /\ \A i \in 1..Len(delivered) : delivered'[i] = delivered[i]
          /\ delivered'[Len(delivered) + 1] = m
      BY <1>1, <1>4, <3>1
    <3>3. ASSUME NEW i \in 1..Len(delivered') PROVE i = Len(delivered) + 1 \/ i \in 1..Len(delivered)
      BY <1>1, <3>2
    <3>4. Len(delivered) + 1 \in 1..Len(delivered') /\ \A i \in 1..Len(delivered) : i \in 1..Len(delivered')
      BY <1>1, <3>2
    <3>5. ASSUME NEW i \in 1..Len(delivered'), NEW j \in 1..Len(delivered'), i < j
          PROVE delivered'[i] < delivered'[j]
      <4>1. i \in 1..Len(delivered)
        BY <1>1, <3>2, <3>5
      <4>2. CASE j = Len(delivered) + 1
        BY <1>4, <3>2, <4>1, <4>2
      <4>3. CASE j \in 1..Len(delivered)
        BY <2>0, <3>2, <3>5, <4>1, <4>3
      <4> QED
        BY <3>3, <4>2, <4>3
    <3> QED
      BY <3>2, <3>3, <3>4, <3>5
  <2>2. CASE ~plain
    BY <1>1, <1>5, <2>0, <2>2
  <2> QED
    BY <2>1, <2>2
<1>9. Passed(decoding, Stream)'
  <2>1. \A i \in 1..Len(rest) :
          /\ Of(rest[i]) \in Messages
          /\ rest[i] = Body(Of(rest[i]))
          /\ writePromise[Of(rest[i])] = "resolved"
          /\ \A j \in 1..Len(rest) : i < j => Of(rest[i]) < Of(rest[j])
          /\ \A j \in 1..Len(s) : Of(rest[i]) < s[j][1]
    <3>1. ASSUME NEW i \in 1..Len(rest), NEW j \in 1..Len(rest), i < j
          PROVE Of(rest[i]) < Of(rest[j])
      <4>1. i + 1 < j + 1
        BY <3>1
      <4> QED
        BY <1>3, <1>7, <4>1 DEF Passed
    <3> QED
      BY <1>3, <1>7, <3>1 DEF Passed
  <2>2. ASSUME NEW i \in 1..Len(delivered')
        PROVE  /\ writePromise[delivered'[i]] = "resolved"
               /\ \A j \in 1..Len(rest) : delivered'[i] < Of(rest[j])
               /\ \A j \in 1..Len(s) : delivered'[i] < s[j][1]
    <3>1. CASE delivered'[i] = m
      BY <1>4, <1>7, <3>1
    <3>2. CASE i \in 1..Len(delivered) /\ delivered'[i] = delivered[i]
      BY <1>3, <1>7, <3>2 DEF Passed
    <3> QED
      BY <1>8, <3>1, <3>2
  <2> QED
    BY <1>5, <1>6, <1>8, <2>1, <2>2 DEF Passed, Of, Body
<1>10. OnItsWay(decoding, Stream)'
  <2>1. ASSUME NEW k \in Messages, writePromise[k] = "resolved", content[k] = "plain", InSync(k)
        PROVE  \/ \E i \in 1..Len(delivered') : delivered'[i] = k
               \/ \E i \in 1..Len(rest) : Of(rest[i]) = k
               \/ \E i \in 1..Len(s) : s[i] = <<k, Size(k)>>
    <3>1. CASE \E i \in 1..Len(decoding) : Of(decoding[i]) = k
      <4>1. PICK i \in 1..Len(decoding) : Of(decoding[i]) = k
        BY <3>1
      <4>2. CASE i = 1
        <5>1. k = m
          BY <4>1, <4>2 DEF m
        <5> QED
          BY <1>8, <2>1, <5>1
      <4>3. CASE i # 1
        <5>1. i - 1 \in 1..Len(rest) /\ (i - 1) + 1 = i
          BY <1>2, <4>3
        <5>2. rest[i - 1] = decoding[i]
          BY <1>2, <5>1
        <5> QED
          BY <4>1, <5>1, <5>2
      <4> QED
        BY <4>2, <4>3
    <3>2. CASE \E i \in 1..Len(delivered) : delivered[i] = k
      BY <1>8, <3>2
    <3>3. CASE \E i \in 1..Len(s) : s[i] = <<k, Size(k)>>
      BY <3>3
    <3> QED
      BY <1>3, <2>1, <3>1, <3>2, <3>3 DEF OnItsWay
  <2> QED
    BY <1>5, <1>6, <2>1 DEF OnItsWay, InSync, Size, Of
<1>11. Framed(Stream)' /\ Sent(Stream)' /\ Aligned(Stream, nextMessageLength)'
  BY <1>3, <1>5, <1>6 DEF Framed, Sent, Aligned, WriteSettled, InSync, Size
<1>12. StreamTypeOK' /\ Queue'
  BY <1>2, <1>5, <1>8 DEF StreamInv, StreamTypeOK, Queue, WriteSettled
<1>13. (partialMessageTimer = (nextMessageLength # None))'
  BY <1>5 DEF StreamInv
<1> QED
  BY <1>9, <1>10, <1>11, <1>12, <1>13 DEF StreamInv, Held

\* The stream closes.
LEMMA CloseStreamKeeps ==
  ASSUME StreamInv, CloseStream \/ UNCHANGED streamVars
  PROVE  StreamInv'
<1>1. /\ UNCHANGED <<content, writePromise, writing, phase, sender, wire, buffer,
                     nextMessageLength, partialMessageTimer, decoding, delivered>>
      /\ closed' \in BOOLEAN
  BY DEF CloseStream, StreamInv, StreamTypeOK, streamVars, readerVars, writerVars
<1>2. StreamTypeOK' /\ Queue'
  BY <1>1 DEF StreamInv, StreamTypeOK, Queue, WriteSettled
<1>3. Stream' = Stream
  BY <1>1 DEF Stream
<1>4. /\ Framed(Stream) /\ Sent(Stream) /\ Aligned(Stream, nextMessageLength)
      /\ Passed(decoding, Stream) /\ OnItsWay(decoding, Stream)
  BY DEF StreamInv, Held
<1>5. Held(Stream, nextMessageLength, decoding)'
  BY <1>1, <1>3, <1>4 DEF Held, Framed, Sent, Aligned, Passed, OnItsWay, WriteSettled, InSync, Size, Of
<1>6. (partialMessageTimer = (nextMessageLength # None))'
  BY <1>1 DEF StreamInv
<1> QED
  BY <1>2, <1>5, <1>6 DEF StreamInv

\* Nothing is on the stream at first.
LEMMA StreamStarts == StreamInit => StreamInv
<1> SUFFICES ASSUME StreamInit PROVE StreamInv
  OBVIOUS
<1>1. StreamTypeOK /\ Queue
  <2>1. \A m \in Messages : writePromise[m] = "none"
    BY DEF StreamInit
  <2>2. writing = <<>> /\ Len(writing) = 0 /\ DOMAIN writing = {} /\ phase = "encode"
    BY DEF StreamInit
  <2>3. StreamTypeOK
    <3>1. writePromise \in [Messages -> {"none", "pending", "resolved", "rejected"}]
      BY DEF StreamInit
    <3>2. \A m \in Messages :
            writePromise[m] = "pending" <=> \E i \in DOMAIN writing : writing[i] = m
      BY <2>1, <2>2
    <3>3. /\ writing \in Seq(Messages) /\ wire \in Seq(Units) /\ buffer \in Seq(Units)
          /\ decoding \in Seq(Seq(Units)) /\ delivered \in Seq(Messages)
      BY DEF StreamInit
    <3> QED
      BY <3>1, <3>2, <3>3 DEF StreamInit, StreamTypeOK
  <2>4. Queue
    BY <2>1, <2>2 DEF Queue, WriteSettled
  <2> QED
    BY <2>3, <2>4
<1>2. Stream \in Seq(Units) /\ Len(Stream) = 0 /\ Len(delivered) = 0 /\ Len(decoding) = 0
  BY DEF StreamInit, Stream
<1>3. /\ Framed(Stream) /\ Sent(Stream) /\ Aligned(Stream, nextMessageLength)
      /\ Passed(decoding, Stream)
  BY <1>2 DEF StreamInit, Framed, Sent, Aligned, Passed
<1>4. OnItsWay(decoding, Stream)
  BY DEF StreamInit, OnItsWay
<1> QED
  BY <1>1, <1>3, <1>4 DEF StreamInit, StreamInv, Held

\* What holds of the stream gives what is promised of the reader.
LEMMA ReaderIsExact == StreamInv => ReaderExact
<1> SUFFICES ASSUME StreamInv PROVE ReaderExact
  OBVIOUS
<1>1. /\ Passed(decoding, Stream) /\ OnItsWay(decoding, Stream)
      /\ Stream \in Seq(Units) /\ decoding \in Seq(Seq(Units)) /\ delivered \in Seq(Messages)
  BY StreamUnits DEF StreamInv, Held, StreamTypeOK
<1>2. ReaderSound
  <2>1. \A i \in 1..Len(decoding) : Of(decoding[i]) \in Messages /\ decoding[i] = Body(Of(decoding[i]))
    BY <1>1 DEF Passed
  <2>2. DOMAIN decoding = 1..Len(decoding)
    BY <1>1
  <2>3. partialMessageTimer = (nextMessageLength # None)
    BY DEF StreamInv
  <2> QED
    BY <2>1, <2>2, <2>3 DEF ReaderSound
<1>3. ASSUME NEW i \in DOMAIN delivered
      PROVE  /\ \A j \in 1..i - 1 : delivered[j] < delivered[i]
             /\ writePromise[delivered[i]] = "resolved"
  <2>1. i \in 1..Len(delivered) /\ \A j \in 1..i - 1 : j \in 1..Len(delivered) /\ j < i
    BY <1>1
  <2> QED
    BY <1>1, <2>1 DEF Passed
<1>4. ASSUME NEW m \in Messages, writePromise[m] = "resolved", content[m] = "plain", InSync(m)
      PROVE  \/ \E i \in DOMAIN delivered : delivered[i] = m
             \/ \E i \in DOMAIN decoding : decoding[i] = Body(m)
             \/ \E i \in DOMAIN (buffer \o wire) : (buffer \o wire)[i] = Last(Body(m))
  <2>1. /\ DOMAIN delivered = 1..Len(delivered) /\ DOMAIN decoding = 1..Len(decoding)
        /\ DOMAIN Stream = 1..Len(Stream)
    BY <1>1
  <2>2. Last(Body(m)) = <<m, Size(m)>>
    <3>1. /\ BodySize[m] \in 1..BodySize[m] /\ HeaderSize + BodySize[m] = Size(m)
      BY Sizes DEF Size
    <3>2. Len(Body(m)) = BodySize[m] /\ \A i \in 1..BodySize[m] : Body(m)[i] = <<m, HeaderSize + i>>
      BY BodyIs
    <3> QED
      BY <3>1, <3>2 DEF Last
  <2>3. \/ \E i \in 1..Len(delivered) : delivered[i] = m
        \/ \E i \in 1..Len(decoding) : Of(decoding[i]) = m
        \/ \E i \in 1..Len(Stream) : Stream[i] = <<m, Size(m)>>
    BY <1>1, <1>4 DEF OnItsWay
  <2> QED
    BY <1>1, <2>1, <2>2, <2>3 DEF Passed, Stream
<1>5. DeliveredOnceInOrder
  BY <1>3, <1>4 DEF DeliveredOnceInOrder
<1> QED
  BY <1>2, <1>5 DEF ReaderExact

\* A step keeps what holds of the stream.
LEMMA StreamStep == StreamInv /\ [StreamNext]_streamVars => StreamInv'
<1> SUFFICES ASSUME StreamInv, [StreamNext]_streamVars PROVE StreamInv'
  OBVIOUS
<1>1. CASE \E m \in Messages : WriteMessage(m)
  BY <1>1, WriteMessageKeeps
<1>2. CASE Encode
  BY <1>2, EncodeKeeps
<1>3. CASE WriteHeader \/ WriteBody
  BY <1>3, DoWriteKeeps
<1>4. CASE End \/ Die
  BY <1>4, EndKeeps
<1>5. CASE \E n \in 1..MaxChunk : ReceiveChunk(n)
  BY <1>5, ReceiveChunkKeeps
<1>6. CASE Decode
  BY <1>6, DecodeKeeps
<1>7. CASE CloseStream \/ UNCHANGED streamVars
  BY <1>7, CloseStreamKeeps
<1> QED
  BY <1>1, <1>2, <1>3, <1>4, <1>5, <1>6, <1>7 DEF StreamNext

\* However the stream is cut, the reader takes the bodies of messages off it and
\* nothing else; messages arrive in the order of the calls of write and at most
\* once; and none whose write succeeded is lost on its way, unless it cannot be
\* decoded or comes after one without Content-Length.
THEOREM ReaderExactHolds == StreamSpec => []ReaderExact
<1>1. StreamInit => StreamInv
  BY StreamStarts
<1>2. StreamInv /\ [StreamNext]_streamVars => StreamInv'
  BY StreamStep
<1>3. StreamInv => ReaderExact
  BY ReaderIsExact
<1> QED
  BY <1>1, <1>2, <1>3, PTL DEF StreamSpec
=============================================================================
