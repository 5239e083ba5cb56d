---------------------------- MODULE FifoExecutor ----------------------------
(***************************************************************************)
(* What jsonrpc/src/common/semaphore.ts promises to its callers, without   *)
(* the setImmediate scheduling that implements it: tasks start one by one  *)
(* in the order they were submitted, never more than Capacity of them run  *)
(* at the same time, and a task that can start is eventually started.      *)
(***************************************************************************)
EXTENDS Naturals, Sequences, FiniteSets

CONSTANTS Tasks,     \* the tasks callers may submit, each at most once
          Capacity   \* how many tasks may run at the same time

VARIABLES pending,   \* submitted and not yet started, in order
          running,   \* the tasks that have started and not finished
          finished   \* the tasks whose promise has been settled

vars == <<pending, running, finished>>

Known == {pending[i] : i \in 1..Len(pending)} \cup running \cup finished

Init == /\ pending = <<>>
        /\ running = {}
        /\ finished = {}

Submit(t) == /\ t \notin Known
             /\ pending' = Append(pending, t)
             /\ UNCHANGED <<running, finished>>

Start == /\ pending # <<>>
         /\ Cardinality(running) < Capacity
         /\ pending' = Tail(pending)
         /\ running' = running \cup {Head(pending)}
         /\ UNCHANGED finished

Finish(t) == /\ t \in running
             /\ running' = running \ {t}
             /\ finished' = finished \cup {t}
             /\ UNCHANGED pending

\* A task that does not suspend starts and finishes in the same turn.
StartAndFinish == /\ pending # <<>>
                  /\ Cardinality(running) < Capacity
                  /\ pending' = Tail(pending)
                  /\ finished' = finished \cup {Head(pending)}
                  /\ UNCHANGED running

Next == \/ \E t \in Tasks : Submit(t) \/ Finish(t)
        \/ Start
        \/ StartAndFinish

\* Order and capacity, without the promise that anything ever starts.
SafeSpec == Init /\ [][Next]_vars

Spec == SafeSpec /\ WF_vars(Start \/ StartAndFinish)
=============================================================================
