------------------------ MODULE TaskLifecycleProofs -------------------------
(***************************************************************************)
(* The safety of the lifecycle, for any set of tasks, any tree, any write  *)
(* modes and dependencies. Each property is inductive with one addition:   *)
(* a task past its claim has its dependencies' work behind it. The first   *)
(* lemmas say what the writes of QueueRows return and preserve.            *)
(***************************************************************************)
EXTENDS TaskLifecycle, TLAPS

-----------------------------------------------------------------------------
(* Rows and their writes.                                                  *)

(* A flush of typed copies leaves a typed row, whatever is stale in them.  *)
LEMMA FlushType ==
  ASSUME NEW c \in Rows, NEW l \in Rows, NEW w \in Rows
  PROVE  Flush(c, l, w) \in Rows
  BY DEF Rows, Flush

(* A flush of an up-to-date copy is a plain write.                         *)
LEMMA FlushFresh ==
  ASSUME NEW c \in Rows, NEW w \in Rows
  PROVE  Flush(c, c, w) = w
  BY DEF Rows, Flush

(* Every write keeps the row typed; the retry cap is what bounds Claimed.  *)
LEMMA WriteTypes ==
  ASSUME NEW r \in Rows
  PROVE  /\ \A w \in Workers : Due(r) => Claimed(r, w) \in Rows
         /\ Completed(r) \in Rows
         /\ \A retryable, delayed \in BOOLEAN : Failed(r, retryable, delayed) \in Rows
         /\ [r EXCEPT !.status = "running"] \in Rows
         /\ [r EXCEPT !.status = "batched"] \in Rows
         /\ [r EXCEPT !.status = "gone"] \in Rows
         /\ [r EXCEPT !.status = "pending"] \in Rows
         /\ [r EXCEPT !.backoff = FALSE] \in Rows
<1>1. MaxRetries \in Nat
  BY RowAssumption
<1>2. ASSUME NEW w \in Workers, Due(r) PROVE Claimed(r, w) \in Rows
  <2>1. (IF r.status = "failed" THEN r.retries + 1 ELSE r.retries) \in 0..MaxRetries
    BY <1>1, <1>2 DEF Rows, Due, HasRetryLeft
  <2> QED
    BY <2>1 DEF Rows, Claimed, Statuses, Reserving, NoRow
<1>3. Completed(r) \in Rows
  BY DEF Rows, Completed, Statuses, Reserving, NoRow
<1>4. ASSUME NEW retryable \in BOOLEAN, NEW delayed \in BOOLEAN PROVE Failed(r, retryable, delayed) \in Rows
  BY <1>1 DEF Rows, Failed, Statuses, Reserving, NoRow
<1>5. /\ [r EXCEPT !.status = "running"] \in Rows
      /\ [r EXCEPT !.status = "batched"] \in Rows
      /\ [r EXCEPT !.status = "gone"] \in Rows
      /\ [r EXCEPT !.status = "pending"] \in Rows
      /\ [r EXCEPT !.backoff = FALSE] \in Rows
  BY DEF Rows, Statuses, Reserving, NoRow
<1> QED
  BY <1>2, <1>3, <1>4, <1>5

(* A row that does not exist yet, and one just enqueued.                   *)
LEMMA AbsentType == AbsentRow \in Rows
  BY RowAssumption DEF AbsentRow, Rows, Statuses, Reserving, NoRow

(* A row just enqueued is typed, pending and not backing off.              *)
LEMMA PendingType ==
  /\ [AbsentRow EXCEPT !.status = "pending"] \in Rows
  /\ [AbsentRow EXCEPT !.status = "pending"].status = "pending"
  /\ ~[AbsentRow EXCEPT !.status = "pending"].backoff
<1>1. [AbsentRow EXCEPT !.status = "pending"] \in Rows
  BY AbsentType, WriteTypes
<1>2. /\ [AbsentRow EXCEPT !.status = "pending"].status = "pending"
      /\ ~[AbsentRow EXCEPT !.status = "pending"].backoff
  BY DEF AbsentRow
<1> QED
  BY <1>1, <1>2

(* The status each write leaves behind.                                    *)
LEMMA WriteStatus ==
  ASSUME NEW r \in Rows
  PROVE  /\ \A w : Claimed(r, w).status = "claimed"
         /\ Completed(r).status = "completed"
         /\ \A retryable, delayed : Failed(r, retryable, delayed).status = "failed"
         /\ [r EXCEPT !.status = "running"].status = "running"
         /\ [r EXCEPT !.status = "batched"].status = "batched"
         /\ [r EXCEPT !.status = "gone"].status = "gone"
         /\ [r EXCEPT !.backoff = FALSE].status = r.status
  BY DEF Rows, Claimed, Completed, Failed

(* The conflict predicate does not depend on who asks.                     *)
LEMMA ConflictIsMutual ==
  ASSUME NEW t \in Tasks, NEW a \in Tasks
  PROVE  Conflicts(t, a) <=> Conflicts(a, t)
  BY DEF Conflicts

(* Enqueueing keeps a queue typed and turns only absent rows, into pending *)
(* ones.                                                                   *)
LEMMA EnqueuedTypes ==
  ASSUME NEW rows \in [Tasks -> Rows], NEW S
  PROVE  /\ EnqueuedRows(rows, S) \in [Tasks -> Rows]
         /\ \A t \in Tasks :
              \/ EnqueuedRows(rows, S)[t] = rows[t]
              \/ rows[t].status = "absent" /\ EnqueuedRows(rows, S)[t].status = "pending"
<1> QED
  BY PendingType DEF EnqueuedRows

-----------------------------------------------------------------------------
(* The lifecycle.                                                          *)

Types == row \in [Tasks -> Rows] /\ effects \in [Tasks -> Nat]

DependenciesDone ==
  \A t \in Tasks : row[t].status \in Reserving \cup {"completed"} \/ effects[t] > 0 =>
    \A d \in Deps[t] : effects[d] > 0

LInv == Types /\ NoConflictingReservations /\ WorkCommittedOnce /\ DependenciesDone

(* Which statuses a step may lead from and to, and what happens to the     *)
(* count of commits: all that the safety properties need of a step.        *)
StatusStep(t) ==
  \/ /\ row'[t].status = row[t].status /\ effects'[t] = effects[t]
  \/ /\ row[t].status = "absent" /\ row'[t].status = "pending" /\ effects'[t] = effects[t]
  \/ /\ Claimable(row, t) /\ row'[t].status = "claimed" /\ effects'[t] = effects[t]
     /\ \A a \in Tasks \ {t} : row'[a] = row[a]
  \/ /\ row[t].status = "claimed" /\ row'[t].status = "running" /\ effects'[t] = effects[t]
  \/ /\ row[t].status \in Reapable /\ row'[t].status = "batched" /\ effects'[t] = effects[t]
  \/ /\ row[t].status \in Reserving /\ row'[t].status = "completed"
     /\ effects'[t] = effects[t] + 1
  \/ /\ row[t].status \in Reserving /\ row'[t].status = "failed" /\ effects'[t] = effects[t]
  \/ /\ row[t].status \notin NoRow /\ row'[t].status = "gone" /\ effects'[t] = effects[t]

(* Every step keeps the types and moves each row along one of those edges. *)
LEMMA StepStatus ==
  ASSUME Types, [LifecycleNext]_lifecycle
  PROVE  Types' /\ \A t \in Tasks : StatusStep(t)
<1>1. ASSUME NEW t \in Tasks, NEW w \in Workers, Claim(t, w)
      PROVE  Types' /\ \A u \in Tasks : StatusStep(u)
  <2>1. row[t] \in Rows /\ Due(row[t])
    BY <1>1 DEF Types, Claim, Claimable
  <2>2. /\ row' = [row EXCEPT ![t] = Claimed(row[t], w)]
        /\ Claimed(row[t], w) \in Rows /\ Claimed(row[t], w).status = "claimed"
    <3>1. row' = [row EXCEPT ![t] = Claimed(row[t], w)]
      BY <1>1 DEF Claim
    <3>2. Claimed(row[t], w) \in Rows
      BY <2>1, WriteTypes
    <3>3. Claimed(row[t], w).status = "claimed"
      BY <2>1, WriteStatus
    <3> QED
      BY <3>1, <3>2, <3>3
  <2> QED
    BY <1>1, <2>2 DEF Types, Claim, StatusStep
<1>2. ASSUME NEW t \in Tasks, Start(t)
      PROVE  Types' /\ \A u \in Tasks : StatusStep(u)
  <2>1. row' = [row EXCEPT ![t] = [row[t] EXCEPT !.status = "running"]]
    BY <1>2 DEF Start
  <2>2. [row[t] EXCEPT !.status = "running"] \in Rows
        /\ [row[t] EXCEPT !.status = "running"].status = "running"
    BY WriteTypes, WriteStatus DEF Types
  <2> QED
    BY <1>2, <2>1, <2>2 DEF Types, Start, StatusStep
<1>3. ASSUME NEW t \in Tasks, BackoffEnds(t)
      PROVE  Types' /\ \A u \in Tasks : StatusStep(u)
  <2>1. row' = [row EXCEPT ![t] = [row[t] EXCEPT !.backoff = FALSE]]
    BY <1>3 DEF BackoffEnds
  <2>2. [row[t] EXCEPT !.backoff = FALSE] \in Rows
        /\ [row[t] EXCEPT !.backoff = FALSE].status = row[t].status
    BY WriteTypes, WriteStatus DEF Types
  <2> QED
    BY <1>3, <2>1, <2>2 DEF Types, BackoffEnds, StatusStep
<1>4. ASSUME NEW t \in Tasks, NEW S \in SUBSET Tasks, Complete(t, S)
      PROVE  Types' /\ \A u \in Tasks : StatusStep(u)
  <2> DEFINE done == [row EXCEPT ![t] = Completed(row[t])]
  <2>1. Completed(row[t]) \in Rows /\ Completed(row[t]).status = "completed"
    BY WriteTypes, WriteStatus DEF Types
  <2>2. done \in [Tasks -> Rows] /\ done[t].status = "completed"
        /\ \A u \in Tasks \ {t} : done[u] = row[u]
    BY <2>1 DEF Types
  <2>3. row[t].status \in Reapable /\ row' = EnqueuedRows(done, S)
        /\ effects' = [effects EXCEPT ![t] = effects[t] + 1]
    BY <1>4 DEF Complete
  <2> HIDE DEF done
  <2>4. Types'
    BY <2>2, <2>3, EnqueuedTypes DEF Types
  <2>5. \A u \in Tasks : StatusStep(u)
    BY <2>2, <2>3, EnqueuedTypes DEF Types, StatusStep, Reapable, Reserving
  <2> QED
    BY <2>4, <2>5
<1>5. ASSUME NEW S \in SUBSET Tasks, Enqueue(S)
      PROVE  Types' /\ \A u \in Tasks : StatusStep(u)
  BY <1>5, EnqueuedTypes DEF Types, Enqueue, StatusStep
<1>6. ASSUME NEW S \in SUBSET Tasks, Cascade(S)
      PROVE  Types' /\ \A u \in Tasks : StatusStep(u)
  <2>1. \A t \in Tasks : /\ [row[t] EXCEPT !.status = "gone"] \in Rows
                         /\ [row[t] EXCEPT !.status = "gone"].status = "gone"
    BY WriteTypes, WriteStatus DEF Types
  <2> QED
    BY <1>6, <2>1 DEF Types, Cascade, StatusStep
<1>7. ASSUME NEW S \in SUBSET Tasks, NEW retryable \in BOOLEAN, NEW delayed \in BOOLEAN,
             Fail(S, retryable, delayed)
      PROVE  Types' /\ \A u \in Tasks : StatusStep(u)
  <2>1. \A t \in Tasks : /\ Failed(row[t], retryable, delayed) \in Rows
                         /\ Failed(row[t], retryable, delayed).status = "failed"
    <3> SUFFICES ASSUME NEW t \in Tasks
                 PROVE  /\ Failed(row[t], retryable, delayed) \in Rows
                        /\ Failed(row[t], retryable, delayed).status = "failed"
      OBVIOUS
    <3>1. row[t] \in Rows
      BY DEF Types
    <3>2. Failed(row[t], retryable, delayed) \in Rows
      BY <3>1, WriteTypes
    <3>3. Failed(row[t], retryable, delayed).status = "failed"
      BY <3>1, WriteStatus
    <3> QED
      BY <3>2, <3>3
  <2> QED
    BY <1>7, <2>1 DEF Types, Fail, StatusStep, Reapable, Reserving
<1>8. ASSUME UNCHANGED lifecycle
      PROVE  Types' /\ \A u \in Tasks : StatusStep(u)
  BY <1>8 DEF lifecycle, Types, StatusStep
<1>9. ASSUME NEW S \in SUBSET Tasks, Park(S)
      PROVE  Types' /\ \A u \in Tasks : StatusStep(u)
  <2>1. \A t \in Tasks : /\ [row[t] EXCEPT !.status = "batched"] \in Rows
                         /\ [row[t] EXCEPT !.status = "batched"].status = "batched"
    BY WriteTypes, WriteStatus DEF Types
  <2> QED
    BY <1>9, <2>1 DEF Types, Park, StatusStep
<1>10. ASSUME NEW done \in SUBSET Parked, NEW refused \in SUBSET Parked,
              NEW retryable \in [refused -> BOOLEAN], NEW delayed \in BOOLEAN,
              Deliver(done, refused, retryable, delayed)
       PROVE  Types' /\ \A u \in Tasks : StatusStep(u)
  <2>1. \A t \in Tasks : row[t] \in Rows
    BY DEF Types
  <2>2. \A t \in Tasks : /\ Completed(row[t]) \in Rows
                         /\ Completed(row[t]).status = "completed"
    BY <2>1, WriteTypes, WriteStatus
  <2>3. \A t \in refused : /\ Failed(row[t], retryable[t], delayed) \in Rows
                           /\ Failed(row[t], retryable[t], delayed).status = "failed"
    <3>1. \A t \in Tasks, r \in BOOLEAN : Failed(row[t], r, delayed) \in Rows
      BY <2>1, WriteTypes
    <3>2. ASSUME NEW t \in Tasks, NEW r \in BOOLEAN
          PROVE  Failed(row[t], r, delayed).status = "failed"
      BY <2>1, WriteStatus
    <3> QED
      BY <3>1, <3>2 DEF Parked
  <2>4. Types'
    BY <1>10, <2>2, <2>3 DEF Types, Deliver
  <2>5. \A u \in Tasks : StatusStep(u)
    BY <1>10, <2>2, <2>3 DEF Types, Deliver, Parked, StatusStep, Reserving
  <2> QED
    BY <2>4, <2>5
<1> QED
  BY <1>1, <1>2, <1>3, <1>4, <1>5, <1>6, <1>7, <1>8, <1>9, <1>10 DEF LifecycleNext

(* The inductive invariant is preserved.                                   *)
LEMMA LInvStep == LInv /\ [LifecycleNext]_lifecycle => LInv'
<1> SUFFICES ASSUME LInv, [LifecycleNext]_lifecycle PROVE LInv'
  OBVIOUS
<1>1. Types' /\ \A t \in Tasks : StatusStep(t)
  BY StepStatus DEF LInv
<1>2. NoConflictingReservations'
  <2> SUFFICES ASSUME NEW t \in Tasks, NEW a \in Tasks, t # a,
                      row'[t].status \in Reserving, row'[a].status \in Reserving
               PROVE  ~Conflicts(t, a)
    BY DEF NoConflictingReservations
  <2>1. CASE row[t].status \in Reserving /\ row[a].status \in Reserving
    BY <2>1 DEF LInv, NoConflictingReservations
  <2>2. CASE row[t].status \notin Reserving
    <3>1. Claimable(row, t) /\ row'[a] = row[a]
      BY <1>1, <2>2 DEF StatusStep, Reapable, Reserving
    <3> QED
      BY <3>1 DEF Claimable
  <2>3. CASE row[a].status \notin Reserving
    <3>1. Claimable(row, a) /\ row'[t] = row[t]
      BY <1>1, <2>3 DEF StatusStep, Reapable, Reserving
    <3> QED
      BY <3>1, ConflictIsMutual DEF Claimable
  <2> QED
    BY <2>1, <2>2, <2>3
<1>3. WorkCommittedOnce'
  <2> SUFFICES ASSUME NEW t \in Tasks
               PROVE  /\ effects'[t] <= 1
                      /\ row'[t].status # "gone" =>
                           (effects'[t] = 1 <=> row'[t].status = "completed")
    BY DEF WorkCommittedOnce
  <2>1. /\ effects[t] \in Nat /\ effects[t] <= 1
        /\ row[t].status # "gone" => (effects[t] = 1 <=> row[t].status = "completed")
    BY DEF LInv, Types, WorkCommittedOnce
  <2>2. StatusStep(t)
    BY <1>1
  <2> QED
    BY <2>1, <2>2 DEF StatusStep, Claimable, Due, HasRetryLeft, Reapable, Reserving, NoRow
<1>4. DependenciesDone'
  <2> SUFFICES ASSUME NEW t \in Tasks, NEW d \in Deps[t],
                      row'[t].status \in Reserving \cup {"completed"} \/ effects'[t] > 0
               PROVE  effects'[d] > 0
    BY DEF DependenciesDone
  <2>1. d \in Tasks /\ effects[d] \in Nat /\ effects'[d] \in Nat /\ effects[t] \in Nat
    BY <1>1, RowAssumption DEF LInv, Types
  <2>2. effects[d] > 0 => effects'[d] > 0
    BY <1>1, <2>1 DEF StatusStep
  <2>3. CASE row[t].status \in Reserving \cup {"completed"} \/ effects[t] > 0
    BY <2>2, <2>3 DEF LInv, DependenciesDone
  <2>4. CASE ~(row[t].status \in Reserving \cup {"completed"} \/ effects[t] > 0)
    <3>1. Claimable(row, t)
      BY <1>1, <2>1, <2>4 DEF StatusStep, Reapable, Reserving
    <3>2. row[d].status = "completed"
      BY <3>1 DEF Claimable
    <3> QED
      BY <2>1, <2>2, <3>2 DEF LInv, WorkCommittedOnce
  <2> QED
    BY <2>3, <2>4
<1> QED
  BY <1>1, <1>2, <1>3, <1>4 DEF LInv

(* And it holds at the start.                                              *)
LEMMA LInvInit == LifecycleInit => LInv
<1> SUFFICES ASSUME LifecycleInit PROVE LInv
  OBVIOUS
<1>3. Types /\ \A t \in Tasks : row[t].status \in {"absent", "pending"} /\ effects[t] = 0
  <2>1. row \in [Tasks -> Rows]
    BY AbsentType, PendingType DEF LifecycleInit
  <2>2. \A t \in Tasks : row[t].status \in {"absent", "pending"}
    <3>1. AbsentRow.status = "absent"
      BY DEF AbsentRow
    <3> QED
      BY <3>1, PendingType DEF LifecycleInit
  <2> QED
    BY <2>1, <2>2 DEF LifecycleInit, Types
<1> QED
  BY <1>3, RowAssumption
     DEF LInv, NoConflictingReservations, WorkCommittedOnce, DependenciesDone, Reserving

(* No two conflicting reservations, work committed once and only under a   *)
(* completed row, dependencies first: in every reachable state of the      *)
(* lifecycle.                                                              *)
THEOREM LifecycleSafety ==
  LifecycleSpec => [](NoConflictingReservations /\ WorkCommittedOnce /\ DependenciesFirst)
<1>1. LInv => NoConflictingReservations /\ WorkCommittedOnce /\ DependenciesFirst
  BY DEF LInv, DependenciesDone, DependenciesFirst
<1> QED
  BY <1>1, LInvInit, LInvStep, PTL DEF LifecycleSpec

(* A completed row stays completed until its document is deleted.          *)
THEOREM LifecycleIsMonotone == LifecycleSpec => CompletedIsFinal
<1>1. LInv /\ [LifecycleNext]_lifecycle =>
        [\A t \in Tasks : row[t].status = "completed" =>
                            row'[t].status \in {"completed", "gone"}]_lifecycle
  BY StepStatus DEF LInv, StatusStep, Claimable, Due, HasRetryLeft, Reapable, Reserving
<1> QED
  BY <1>1, LInvInit, LInvStep, PTL DEF LifecycleSpec, CompletedIsFinal
=============================================================================
