--------------------------- MODULE TaskLifecycle ---------------------------
(***************************************************************************)
(* What the queue promises of a task, with no workers, leases, sessions or *)
(* locks in sight: a row takes one legal step at a time, each decided on   *)
(* the row as it is when the step is taken, and the handler's work is      *)
(* committed in the step that completes it. IngestQueue implements it in   *)
(* every deployment in which recovery touches only abandoned claims; it    *)
(* has these two variables and others, so it extends this module and the   *)
(* refinement mapping is the identity.                                     *)
(***************************************************************************)
EXTENDS QueueRows

VARIABLES
  row,      \* task_queue
  effects   \* history: committed handler runs per task

lifecycle == <<row, effects>>

LifecycleInit ==
  /\ row \in [Tasks -> {AbsentRow, [AbsentRow EXCEPT !.status = "pending"]}]
  /\ effects = [t \in Tasks |-> 0]

Enqueue(S) == row' = EnqueuedRows(row, S) /\ UNCHANGED effects

Claim(t, w) ==
  /\ Claimable(row, t)
  /\ row' = [row EXCEPT ![t] = Claimed(@, w)]
  /\ UNCHANGED effects

Start(t) ==
  /\ row[t].status = "claimed"
  /\ row' = [row EXCEPT ![t].status = "running"]
  /\ UNCHANGED effects

(* The work, the terminal row and the tasks the handler enqueues, at once; *)
(* a batch worker may start and complete a task in one transaction.        *)
Complete(t, S) ==
  /\ row[t].status \in Reapable
  /\ row' = EnqueuedRows([row EXCEPT ![t] = Completed(@)], S)
  /\ effects' = [effects EXCEPT ![t] = @ + 1]

(* A failure, or the requeue of abandoned claims, of several rows at once. *)
Fail(S, retryable, delayed) ==
  /\ \A t \in S : row[t].status \in Reapable
  /\ row' = [t \in Tasks |-> IF t \in S THEN Failed(row[t], retryable, delayed) ELSE row[t]]
  /\ UNCHANGED effects

(* Claims are traded for a place in a batch at a provider.                 *)
Park(S) ==
  /\ \A t \in S : row[t].status \in Reapable
  /\ row' = [t \in Tasks |-> IF t \in S THEN [row[t] EXCEPT !.status = "batched"] ELSE row[t]]
  /\ UNCHANGED effects

Parked == {t \in Tasks : row[t].status = "batched"}

(* A batch came back: answers are stored, refusals fail their tasks.       *)
Deliver(done, refused, retryable, delayed) ==
  /\ done \cup refused \subseteq Parked
  /\ row' = [t \in Tasks |-> IF t \in done THEN Completed(row[t])
                            ELSE IF t \in refused THEN Failed(row[t], retryable[t], delayed)
                            ELSE row[t]]
  /\ effects' = [t \in Tasks |-> IF t \in done THEN effects[t] + 1 ELSE effects[t]]

BackoffEnds(t) ==
  /\ row[t].backoff
  /\ row' = [row EXCEPT ![t].backoff = FALSE]
  /\ UNCHANGED effects

(* The rows go with their documents.                                       *)
Cascade(S) ==
  /\ \A t \in S : row[t].status \notin NoRow
  /\ row' = [t \in Tasks |-> IF t \in S THEN [row[t] EXCEPT !.status = "gone"] ELSE row[t]]
  /\ UNCHANGED effects

LifecycleNext ==
  \/ \E t \in Tasks, w \in Workers : Claim(t, w)
  \/ \E t \in Tasks : Start(t) \/ BackoffEnds(t)
  \/ \E t \in Tasks : \E S \in SUBSET Tasks : Complete(t, S)
  \/ \E S \in SUBSET Tasks : Enqueue(S) \/ Cascade(S) \/ Park(S)
  \/ \E done, refused \in SUBSET Parked : \E retryable \in [refused -> BOOLEAN] :
       \E delayed \in BOOLEAN : Deliver(done, refused, retryable, delayed)
  \/ \E S \in SUBSET Tasks : \E retryable, delayed \in BOOLEAN : Fail(S, retryable, delayed)

(* The queue implements the lifecycle of models/task_queue.py: in spite of *)
(* copies written back late, requeues and crashes, every change of a row   *)
(* is one legal step from what the row holds at that moment.               *)
LifecycleSpec == LifecycleInit /\ [][LifecycleNext]_lifecycle
-----------------------------------------------------------------------------
(* claim_next's advisory lock and conflict predicate: no two tasks whose   *)
(* declared write modes conflict hold a reservation at once, whatever      *)
(* crashes, leases and requeues came between.                              *)
NoConflictingReservations ==
  \A t, a \in Tasks :
    t # a /\ row[t].status \in Reserving /\ row[a].status \in Reserving => ~Conflicts(t, a)

(* A handler's work is committed at most once, and exactly when its row    *)
(* says completed (or was deleted with its document afterwards).           *)
WorkCommittedOnce ==
  \A t \in Tasks :
    /\ effects[t] <= 1
    /\ row[t].status # "gone" => (effects[t] = 1 <=> row[t].status = "completed")

(* complete() is terminal: no later write takes a completed row back.      *)
CompletedIsFinal ==
  [][\A t \in Tasks : row[t].status = "completed" =>
                        row'[t].status \in {"completed", "gone"}]_lifecycle

(* The dependency gate: a task's work is committed only after that of every *)
(* task it was enqueued after, including when a dependency's row vanished. *)
DependenciesFirst ==
  \A t \in Tasks : effects[t] > 0 => \A d \in Deps[t] : effects[d] > 0
=============================================================================
