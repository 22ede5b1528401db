----------------------------- MODULE QueueRows -----------------------------
(***************************************************************************)
(* The task_queue row and the tree it is scoped to: what the claim query,  *)
(* the terminal writes and the scheduler's questions compute from them.    *)
(* Nothing here changes state; IngestQueue and AttemptLog build their      *)
(* actions from these operators.                                           *)
(*                                                                         *)
(* A task is an element of Tasks and its immutable columns are constants.  *)
(* The mutable columns are a record:                                       *)
(*   status     the `status` column, plus "absent" (not enqueued yet) and  *)
(*              "gone" (the row cascaded away with its document)           *)
(*   owner      `claimed_by`                                               *)
(*   retries    `retry_count`                                              *)
(*   retryable  `retryable`                                                *)
(*   backoff    whether `retry_after` is still in the future               *)
(***************************************************************************)
EXTENDS Naturals, FiniteSets

CONSTANTS
  Tasks,       \* queue rows that may come to exist
  Nodes,       \* documents that may come to exist
  Workers,     \* worker ids, the values `claimed_by` takes
  NoOne,       \* "claimed_by IS NULL", "parent_id IS NULL", no lock holder
  Parent,      \* [Nodes -> Nodes \cup {NoOne}]
  Path,        \* [Nodes -> SUBSET Nodes], the ancestors `documents.path` holds
  Scope,       \* [Tasks -> Nodes], `scope_document_id`
  Mode,        \* [Tasks -> WriteModes], `write_mode`
  Deps,        \* [Tasks -> SUBSET Tasks], `dependencies`
  Advisory,    \* tasks whose type is in ADVISORY_TASK_TYPES
  MaxRetries   \* `max_retries`

WriteModes == {"self", "children", "subtree"}

(* Mutant: one list of statuses for both questions, as before migration 012. *)
ReapableIfReserving == {"claimed", "running", "batched"}

Reapable == {"claimed", "running"}
Reserving == {"claimed", "running", "batched"}
Statuses == {"pending", "completed", "failed"} \cup Reserving
NoRow == {"absent", "gone"}

Rows == [status : Statuses \cup NoRow, owner : Workers \cup {NoOne},
         retries : 0..MaxRetries, retryable : BOOLEAN, backoff : BOOLEAN]

AbsentRow == [status |-> "absent", owner |-> NoOne, retries |-> 0,
              retryable |-> TRUE, backoff |-> FALSE]

-----------------------------------------------------------------------------
(* What a row is to the scheduler.                                         *)

(* Mutant: the cap is tested with <=.                                      *)
HasRetryLeftOffByOne(r) ==
  r.status = "failed" /\ r.retryable /\ r.retries <= MaxRetries

HasRetryLeft(r) == r.status = "failed" /\ r.retryable /\ r.retries < MaxRetries

(* Mutant: spec 5.2 read literally, without the rows waiting for a retry.  *)
UnfinishedLiterally(r) == r.status \in {"pending"} \cup Reserving

Unfinished(r) == r.status \in {"pending"} \cup Reserving \/ HasRetryLeft(r)

FailedForGood(r) == r.status = "failed" /\ ~HasRetryLeft(r)

Due(r) == (r.status = "pending" \/ HasRetryLeft(r)) /\ ~r.backoff

-----------------------------------------------------------------------------
(* Write modes: spec 5.3's table, as the claim query states it.            *)

Within(n, root) == n = root \/ root \in Path[n]

Conflicts(t, a) ==
  \/ Mode[a] = Mode[t] /\ Mode[a] \in {"self", "children"} /\ Scope[a] = Scope[t]
  \/ Mode[a] = "subtree" /\ Within(Scope[t], Scope[a])
  \/ Mode[t] = "subtree" /\ Within(Scope[a], Scope[t])

(* Mutant: the claim looks at the row and its dependencies alone.          *)
ClaimableAnywhere(rows, t) ==
  Due(rows[t]) /\ \A d \in Deps[t] : rows[d].status = "completed"

(* Mutant: a dependency that failed for good, or vanished, counts as met.  *)
ClaimableAfterAnyEnd(rows, t) ==
  /\ Due(rows[t])
  /\ \A d \in Deps[t] : ~Unfinished(rows[d])
  /\ \A a \in Tasks \ {t} : rows[a].status \in Reserving => ~Conflicts(t, a)

Claimable(rows, t) ==
  /\ Due(rows[t])
  /\ \A d \in Deps[t] : rows[d].status = "completed"
  /\ \A a \in Tasks \ {t} : rows[a].status \in Reserving => ~Conflicts(t, a)

-----------------------------------------------------------------------------
(* The writes.                                                             *)

(* Enqueue: the tasks of S that do not exist yet become pending.           *)
EnqueuedRows(rows, S) ==
  [t \in Tasks |-> IF t \in S /\ rows[t].status = "absent"
                   THEN [AbsentRow EXCEPT !.status = "pending"] ELSE rows[t]]

(* Mutant: a retry is taken without being counted.                         *)
ClaimedUncounted(r, w) ==
  [r EXCEPT !.status = "claimed", !.owner = w, !.backoff = FALSE]

Claimed(r, w) ==
  [r EXCEPT !.status = "claimed", !.owner = w, !.backoff = FALSE,
            !.retries = IF r.status = "failed" THEN @ + 1 ELSE @]

Completed(r) == [r EXCEPT !.status = "completed"]

(* The decision to retry is taken on the loaded copy `r`.                  *)
Failed(r, retryable, delayed) ==
  [r EXCEPT !.status = "failed", !.retryable = retryable,
            !.backoff = delayed /\ retryable /\ r.retries < MaxRetries]

(* What a session's flush does to a row: UPDATE ... WHERE id, naming only  *)
(* the columns whose value differs from the loaded copy. There is no       *)
(* version column and no status test in the WHERE.                         *)
Flush(current, loaded, written) ==
  [c \in DOMAIN current |-> IF written[c] # loaded[c] THEN written[c] ELSE current[c]]

(* The same for the one document column the queue writes, `settled`.       *)
FlushSettled(current, loaded, written) ==
  IF written # loaded THEN written ELSE current

-----------------------------------------------------------------------------
ASSUME NoOneAssumption == NoOne \notin Nodes \cup Tasks \cup Workers
ASSUME TreeAssumption ==
  /\ Parent \in [Nodes -> Nodes \cup {NoOne}]
  /\ Path \in [Nodes -> SUBSET Nodes]
  /\ \A n \in Nodes :
       /\ IsFiniteSet(Path[n])
       /\ n \notin Path[n]
       /\ Path[n] = IF Parent[n] = NoOne THEN {} ELSE {Parent[n]} \cup Path[Parent[n]]
ASSUME RowAssumption ==
  /\ Scope \in [Tasks -> Nodes]
  /\ Mode \in [Tasks -> WriteModes]
  /\ Deps \in [Tasks -> SUBSET Tasks]
  /\ Advisory \subseteq Tasks
  /\ MaxRetries \in Nat
=============================================================================
