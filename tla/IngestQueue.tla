---------------------------- MODULE IngestQueue ----------------------------
(***************************************************************************)
(* The ingest queue at work: workers claim a task, run its handler, record *)
(* the outcome and walk up the tree settling nodes; clients upload and     *)
(* delete; workers crash, return, and recover or reap what was left.       *)
(*                                                                         *)
(* Every transaction that reads and later writes is two actions, a load    *)
(* and a commit, because PostgreSQL runs it at READ COMMITTED and the ORM  *)
(* writes back a copy it loaded earlier. A transaction that is one SQL     *)
(* statement (the claim) is one action.                                    *)
(***************************************************************************)
EXTENDS TaskLifecycle, Sequences

CONSTANTS
  Clients,     \* API requests: they upload and delete, and run no task
  Loopers,     \* workers that run `_loop`; the others are inline drains
  DrainRoot,   \* [Workers \ Loopers -> Nodes], the document an inline drain is for
  Eligible,    \* [Workers -> SUBSET Tasks], badge filter and root filter
  Existing,    \* nodes there from the start
  Queued,      \* tasks pending at the start
  Uploads,     \* nodes a client may create later, with the work queued on them
  Deletable,   \* nodes a client may delete
  Spawner,     \* [Tasks -> Tasks \cup {NoOne}], whose handler enqueues it
  Maker,       \* [Nodes -> Tasks \cup {NoOne}], whose handler creates it
  Rungs,       \* [Nodes -> [0..n -> Seq(Tasks)]], the rollup tasks of a node with
               \* that many children, in offer order: the fingerprint that tells a
               \* task from the next of its type is over the child count
  StableIds,   \* a restarted worker keeps its worker id
  Pauses,      \* a live worker may go a whole lease without a beat
  MaxFaults    \* bound: crashes and database errors of a behaviour

ASSUME ProcessAssumption ==
  /\ Clients \cap (Workers \cup {NoOne}) = {}
  /\ Loopers \subseteq Workers
  /\ DrainRoot \in [Workers \ Loopers -> Nodes]
  /\ Eligible \in [Workers -> SUBSET Tasks]
ASSUME WorkAssumption ==
  /\ Existing \cup Uploads \cup Deletable \subseteq Nodes
  /\ Queued \subseteq Tasks
  /\ Spawner \in [Tasks -> Tasks \cup {NoOne}]
  /\ Maker \in [Nodes -> Tasks \cup {NoOne}]
  /\ \A n \in Nodes : \A C \in SUBSET {m \in Nodes : Parent[m] = n} :
       Rungs[n][Cardinality(C)] \in Seq(Tasks)
  /\ StableIds \in BOOLEAN
  /\ Pauses \in BOOLEAN
  /\ MaxFaults \in Nat

(* A handler works on its own document and below it: what it enqueues is   *)
(* scoped there or to a node it makes, and it makes nodes only there. What *)
(* is there from the start has its parent there.                           *)
ASSUME HandlerAssumption ==
  /\ \A s \in Tasks : Spawner[s] # NoOne =>
       Scope[s] = Scope[Spawner[s]] \/ Maker[Scope[s]] = Spawner[s]
  /\ \A n \in Nodes : Maker[n] # NoOne =>
       /\ n \notin Existing \cup Uploads
       /\ Parent[n] # NoOne
       /\ Parent[n] = Scope[Maker[n]] \/ Maker[Parent[n]] = Maker[n]
  /\ \A t \in Queued : Scope[t] \in Existing
  /\ \A n \in Existing : Parent[n] \in Existing \cup {NoOne}

VARIABLES
  settled,     \* documents.settled, plus "absent" and "gone"
  lock,        \* who holds a document row FOR UPDATE across two actions
  logged,      \* how often a task was enqueued: the attempt log's first entry
  lapsed,      \* the lease of the row's claim has run out
  pc, job, at, \* per process: phase, task held, node the settle walk is at
  loaded,      \* per process: the open transaction's copies of task rows
  seen,        \* per process: its copies of documents.settled
  plan,        \* per process: what the planner offered, enqueued at commit
  starts,      \* history: handler runs begun per task
  faults       \* bound counter

rowVars == <<row, settled, lock, logged, lapsed>>
procVars == <<pc, job, at, loaded, seen, plan>>
history == <<effects, starts, faults>>
vars == <<rowVars, procVars, history>>

Procs == Workers \cup Clients

Nothing == [x \in {} |-> x]

(* Phases in which run_once's heartbeat thread beats for job[w].           *)
Beating == {"claimed", "marking", "marked", "handling", "failing", "recording"}
Phases == Beating \cup
  {"down", "boot", "recovering", "idle", "reaping", "walking", "settling", "drained"}

NodeStates == {"in_flight", "settled", "failed"}
Exists(n) == settled[n] \in NodeStates
Descendants(n) == {m \in Nodes : Within(m, n)}

-----------------------------------------------------------------------------
(* A node is in flight at the start when work is queued at or below it.    *)
Init ==
  /\ row = [t \in Tasks |-> IF t \in Queued THEN [AbsentRow EXCEPT !.status = "pending"]
                                            ELSE AbsentRow]
  /\ settled = [n \in Nodes |->
       IF n \notin Existing THEN "absent"
       ELSE IF \E t \in Queued : Within(Scope[t], n) THEN "in_flight" ELSE "settled"]
  /\ lock = [n \in Nodes |-> NoOne]
  /\ logged = [t \in Tasks |-> IF t \in Queued THEN 1 ELSE 0]
  /\ lapsed = [t \in Tasks |-> FALSE]
  /\ pc = [p \in Procs |-> IF p \in Loopers THEN "boot" ELSE "idle"]
  /\ job = [p \in Procs |-> NoOne]
  /\ at = [p \in Procs |-> NoOne]
  /\ loaded = [p \in Procs |-> Nothing]
  /\ seen = [p \in Procs |-> Nothing]
  /\ plan = [p \in Procs |-> {}]
  /\ effects = [t \in Tasks |-> 0]
  /\ starts = [t \in Tasks |-> 0]
  /\ faults = 0

-----------------------------------------------------------------------------
(* Transactions.                                                           *)

(* Load: the process keeps copies of the rows of S and of their documents. *)
Load(p, S) ==
  /\ loaded' = [loaded EXCEPT ![p] = [t \in S |-> row[t]]]
  /\ seen' = [seen EXCEPT ![p] = [n \in {Scope[t] : t \in S} |-> settled[n]]]

EndTx(p) ==
  /\ loaded' = [loaded EXCEPT ![p] = Nothing]
  /\ seen' = [seen EXCEPT ![p] = Nothing]

Held(p) == DOMAIN loaded[p]

(* An UPDATE by primary key that matches no row raises StaleDataError.     *)
NoneGone(S) == \A t \in S : row[t].status # "gone"

(* A row another transaction holds FOR UPDATE: an UPDATE of it, and an     *)
(* INSERT that references it, wait for that transaction.                   *)
Unlocked(S) == \A n \in S : lock[n] = NoOne

(* Enqueue, besides the rows: the pending attempt record, and the          *)
(* un-settling of the scope node from the copy of `settled` the            *)
(* transaction read earlier.                                               *)
EnqueuedLog(S) == [t \in Tasks |-> IF t \in S THEN logged[t] + 1 ELSE logged[t]]
UnSettled(p, nodes, S) ==
  [n \in Nodes |->
     IF n \in {Scope[t] : t \in S} /\ n \in DOMAIN seen[p]
     THEN FlushSettled(nodes[n], seen[p][n], "in_flight") ELSE nodes[n]]

(* Mutant: an advisory task's last failure fails its node.                 *)
FailHeldAdvisoryToo(p, retryable, delayed) ==
  LET written == [t \in Held(p) |-> Failed(loaded[p][t], retryable, delayed)]
      dead == {Scope[t] : t \in {u \in Held(p) : FailedForGood(written[u])}}
  IN  /\ NoneGone(Held(p))
      /\ Unlocked({n \in dead : seen[p][n] # "failed"})
      /\ row' = [t \in Tasks |-> IF t \in Held(p)
                                 THEN Flush(row[t], loaded[p][t], written[t]) ELSE row[t]]
      /\ settled' = [n \in Nodes |-> IF n \in dead
                                     THEN FlushSettled(settled[n], seen[p][n], "failed")
                                     ELSE settled[n]]

(* Fail every row this transaction loaded: the row, and the scope node     *)
(* when no retry is left and the task is not advisory.                     *)
FailHeld(p, retryable, delayed) ==
  LET written == [t \in Held(p) |-> Failed(loaded[p][t], retryable, delayed)]
      dead == {Scope[t] : t \in {u \in Held(p) \ Advisory : FailedForGood(written[u])}}
  IN  /\ NoneGone(Held(p))
      /\ Unlocked({n \in dead : seen[p][n] # "failed"})
      /\ row' = [t \in Tasks |-> IF t \in Held(p)
                                 THEN Flush(row[t], loaded[p][t], written[t]) ELSE row[t]]
      /\ settled' = [n \in Nodes |-> IF n \in dead
                                     THEN FlushSettled(settled[n], seen[p][n], "failed")
                                     ELSE settled[n]]

-----------------------------------------------------------------------------
(* IngestWorker.run_once                                                   *)

(* claim_next: one statement under the claim lock.                         *)
ClaimNext(w, t) ==
  /\ pc[w] = "idle"
  /\ t \in Eligible[w]
  /\ Claimable(row, t)
  /\ row' = [row EXCEPT ![t] = Claimed(@, w)]
  /\ lapsed' = [lapsed EXCEPT ![t] = FALSE]
  /\ pc' = [pc EXCEPT ![w] = "claimed"]
  /\ job' = [job EXCEPT ![w] = t]
  /\ UNCHANGED <<settled, lock, logged, at, loaded, seen, plan, history>>

(* run_once returns, or raises into the loop's own error handler.          *)
GoIdle(p) ==
  /\ pc' = [pc EXCEPT ![p] = "idle"]
  /\ job' = [job EXCEPT ![p] = NoOne]

(* mark_running, first half. A row that is gone ends the run; a row that   *)
(* is not `claimed` raises ValueError outside run_once's try.              *)
MarkLoad(w) ==
  /\ pc[w] = "claimed"
  /\ IF row[job[w]].status = "claimed"
     THEN /\ Load(w, {job[w]})
          /\ pc' = [pc EXCEPT ![w] = "marking"]
          /\ UNCHANGED job
     ELSE GoIdle(w) /\ UNCHANGED <<loaded, seen>>
  /\ UNCHANGED <<rowVars, at, plan, history>>

MarkCommit(w) ==
  /\ pc[w] = "marking"
  /\ LET t == job[w] IN
     IF NoneGone({t})
     THEN /\ row' = [row EXCEPT ![t] =
                       Flush(@, loaded[w][t], [loaded[w][t] EXCEPT !.status = "running"])]
          /\ pc' = [pc EXCEPT ![w] = "marked"]
          /\ UNCHANGED job
     ELSE GoIdle(w) /\ UNCHANGED row
  /\ EndTx(w)
  /\ UNCHANGED <<settled, lock, logged, lapsed, at, plan, history>>

(* The handler's transaction opens by reading the row again.               *)
HandleLoad(w) ==
  /\ pc[w] = "marked"
  /\ IF NoneGone({job[w]})
     THEN /\ Load(w, {job[w]})
          /\ pc' = [pc EXCEPT ![w] = "handling"]
          /\ starts' = [starts EXCEPT ![job[w]] = @ + 1]
          /\ UNCHANGED job
     ELSE GoIdle(w) /\ UNCHANGED <<loaded, seen, starts>>
  /\ UNCHANGED <<rowVars, at, plan, effects, faults>>

(* What the handler of t leaves behind: nodes, and tasks on them.          *)
Made(t) == {n \in Nodes : Maker[n] = t}
Spawned(t) == {s \in Tasks : Spawner[s] = t}

(* Mutant: a container is born settled above the work below it.            *)
BornByOwnWork(n, S) == IF \E s \in S : Scope[s] = n THEN "in_flight" ELSE "settled"

(* A node a handler makes is in flight when the handler enqueues work, S,  *)
(* on it or below it: a section waits for its chunks.                      *)
BornAs(n, S) == IF \E s \in S : Within(Scope[s], n) THEN "in_flight" ELSE "settled"

(* The handler's work and complete(), in one commit.                       *)
HandleCommit(w) ==
  /\ pc[w] = "handling"
  /\ LET t == job[w]
         S == Spawned(t)
     IN  /\ NoneGone({t})
         /\ Unlocked({Scope[s] : s \in S})
         /\ row' = EnqueuedRows(
              [row EXCEPT ![t] = Flush(@, loaded[w][t], Completed(loaded[w][t]))], S)
         /\ settled' = UnSettled(w,
              [n \in Nodes |-> IF n \in Made(t) /\ settled[n] = "absent"
                                THEN BornAs(n, S) ELSE settled[n]], S)
         /\ logged' = EnqueuedLog(S)
         /\ effects' = [effects EXCEPT ![t] = @ + 1]
         /\ at' = [at EXCEPT ![w] = Scope[t]]
  /\ pc' = [pc EXCEPT ![w] = "walking"]
  /\ job' = [job EXCEPT ![w] = NoOne]
  /\ EndTx(w)
  /\ UNCHANGED <<lock, lapsed, plan, starts, faults>>

(* Mutant: what the handler wrote before it raised is committed.           *)
HandleRaiseKeepingWork(w) ==
  /\ pc[w] = "handling"
  /\ pc' = [pc EXCEPT ![w] = "failing"]
  /\ effects' = [effects EXCEPT ![job[w]] = @ + 1]
  /\ EndTx(w)
  /\ UNCHANGED <<rowVars, job, at, plan, starts, faults>>

(* The handler, or its commit, raises: the transaction rolls back.         *)
HandleRaise(w) ==
  /\ pc[w] = "handling"
  /\ pc' = [pc EXCEPT ![w] = "failing"]
  /\ EndTx(w)
  /\ UNCHANGED <<rowVars, job, at, plan, history>>

(* _record_failure, in a transaction of its own.                           *)
RecordLoad(w) ==
  /\ pc[w] = "failing"
  /\ IF NoneGone({job[w]})
     THEN /\ Load(w, {job[w]})
          /\ pc' = [pc EXCEPT ![w] = "recording"]
          /\ UNCHANGED job
     ELSE GoIdle(w) /\ UNCHANGED <<loaded, seen>>
  /\ UNCHANGED <<rowVars, at, plan, history>>

(* classify_exception decides whether the error is retryable.              *)
RecordCommit(w, retryable) ==
  /\ pc[w] = "recording"
  /\ FailHeld(w, retryable, TRUE)
  /\ at' = [at EXCEPT ![w] = Scope[job[w]]]
  /\ pc' = [pc EXCEPT ![w] = "walking"]
  /\ job' = [job EXCEPT ![w] = NoOne]
  /\ EndTx(w)
  /\ UNCHANGED <<lock, logged, lapsed, plan, history>>

-----------------------------------------------------------------------------
(* Leases and recovery.                                                    *)

IsBeating(t) == \E w \in Workers : job[w] = t /\ pc[w] \in Beating

(* Mutant: a claim that never became `running` is overlooked.              *)
LeaseExpiresOnRunning(t) ==
  /\ row[t].status = "running"
  /\ ~lapsed[t]
  /\ Pauses \/ ~IsBeating(t)
  /\ lapsed' = [lapsed EXCEPT ![t] = TRUE]
  /\ UNCHANGED <<row, settled, lock, logged, procVars, history>>

(* A lease runs out when nobody beats for the row, or when a live worker   *)
(* is paused for longer than the lease.                                    *)
LeaseExpires(t) ==
  /\ row[t].status \in Reapable
  /\ ~lapsed[t]
  /\ Pauses \/ ~IsBeating(t)
  /\ lapsed' = [lapsed EXCEPT ![t] = TRUE]
  /\ UNCHANGED <<row, settled, lock, logged, procVars, history>>

(* touch_heartbeat: by the task's id alone.                                *)
Beat(w) ==
  /\ pc[w] \in Beating
  /\ row[job[w]].status \in Reapable
  /\ lapsed[job[w]]
  /\ lapsed' = [lapsed EXCEPT ![job[w]] = FALSE]
  /\ UNCHANGED <<row, settled, lock, logged, procVars, history>>

BackoffPasses(t) ==
  /\ row[t].backoff
  /\ row' = [row EXCEPT ![t].backoff = FALSE]
  /\ UNCHANGED <<settled, lock, logged, lapsed, procVars, history>>

(* Mutant: the rows of every worker id are taken for this one's.           *)
StaleOfAnyone(w) == {t \in Tasks : StableIds /\ row[t].status \in Reapable}

(* requeue_stale_claims: what an earlier incarnation with this id held.    *)
StaleOf(w) == {t \in Tasks : StableIds /\ row[t].status \in Reapable /\ row[t].owner = w}

RecoverLoad(w) ==
  /\ pc[w] = "boot"
  /\ Load(w, StaleOf(w))
  /\ pc' = [pc EXCEPT ![w] = "recovering"]
  /\ UNCHANGED <<rowVars, job, at, plan, history>>

(* Mutants: the lease is not looked at; running rows are not looked for.   *)
ExpiredOrNot == {t \in Tasks : row[t].status \in Reapable}
ExpiredClaimed == {t \in Tasks : row[t].status = "claimed" /\ lapsed[t]}

(* requeue_expired_claims, under the reaper lock. A round that finds       *)
(* nothing writes nothing.                                                 *)
Expired == {t \in Tasks : row[t].status \in Reapable /\ lapsed[t]}

ReaperLockFree == \A w \in Workers : pc[w] # "reaping"

ReapLoad(w) ==
  /\ pc[w] = "idle"
  /\ w \in Loopers
  /\ ReaperLockFree
  /\ Expired # {}
  /\ Load(w, Expired)
  /\ pc' = [pc EXCEPT ![w] = "reaping"]
  /\ UNCHANGED <<rowVars, job, at, plan, history>>

(* Both fail what they loaded, to be retried at once. Neither walks.       *)
RequeueCommit(w) ==
  /\ pc[w] \in {"recovering", "reaping"}
  /\ FailHeld(w, TRUE, FALSE)
  /\ pc' = [pc EXCEPT ![w] = "idle"]
  /\ EndTx(w)
  /\ UNCHANGED <<lock, logged, lapsed, job, at, plan, history>>

Unlock(p) == lock' = [n \in Nodes |-> IF lock[n] = p THEN NoOne ELSE lock[n]]

(* Whatever the process had open is rolled back.                           *)
Drop(p, phase) ==
  /\ pc' = [pc EXCEPT ![p] = phase]
  /\ job' = [job EXCEPT ![p] = NoOne]
  /\ at' = [at EXCEPT ![p] = NoOne]
  /\ plan' = [plan EXCEPT ![p] = {}]
  /\ EndTx(p)
  /\ Unlock(p)
  /\ UNCHANGED <<row, settled, logged, lapsed, effects, starts>>

(* An UPDATE of a vanished row aborts the transaction; recovery is tried   *)
(* again from the start, everything else gives up until the next round.    *)
Retreat(w) == IF pc[w] = "recovering" THEN "boot" ELSE "idle"

StaleWrite(w) ==
  /\ pc[w] \in {"recording", "recovering", "reaping"}
  /\ ~NoneGone(Held(w))
  /\ Drop(w, Retreat(w))
  /\ UNCHANGED faults

(* The database is unreachable for one transaction outside the handler's.  *)
DatabaseError(w) ==
  /\ faults < MaxFaults
  /\ pc[w] \in {"claimed", "marking", "failing", "recording", "recovering",
                "reaping", "walking", "settling"}
  /\ Drop(w, Retreat(w))
  /\ faults' = faults + 1

Crash(w) ==
  /\ faults < MaxFaults
  /\ pc[w] \notin {"down", "drained"}
  /\ Drop(w, "down")
  /\ faults' = faults + 1

(* A looper comes back through its recovery; an inline drain ended with    *)
(* its request, and another request brings another.                        *)
Return(w) ==
  /\ pc[w] = "down"
  /\ pc' = [pc EXCEPT ![w] = IF w \in Loopers THEN "boot" ELSE "idle"]
  /\ UNCHANGED <<rowVars, job, at, loaded, seen, plan, history>>

-----------------------------------------------------------------------------
(* drain_document: an inline worker that could claim nothing asks whether  *)
(* its document's tree still owes work, and reports the tree if not.       *)
UnfinishedUnder(n) == {t \in Tasks : Within(Scope[t], n) /\ Unfinished(row[t])}

DrainReturn(w) ==
  /\ pc[w] = "idle"
  /\ w \notin Loopers
  /\ \A t \in Eligible[w] : ~Claimable(row, t)
  /\ UnfinishedUnder(DrainRoot[w]) = {}
  /\ pc' = [pc EXCEPT ![w] = "drained"]
  /\ UNCHANGED <<rowVars, job, at, loaded, seen, plan, history>>

(* The request's patience runs out first, and the call raises.             *)
DrainTimeout(w) ==
  /\ faults < MaxFaults
  /\ pc[w] = "idle"
  /\ w \notin Loopers
  /\ UnfinishedUnder(DrainRoot[w]) # {}
  /\ pc' = [pc EXCEPT ![w] = "down"]
  /\ faults' = faults + 1
  /\ UNCHANGED <<rowVars, job, at, loaded, seen, plan, effects, starts>>

-----------------------------------------------------------------------------
(* settle_walk: settle_node per level, one transaction and one row lock.   *)

Children(n) == {m \in Nodes : Parent[m] = n /\ Exists(m)}

RungsOf(n) == Rungs[n][Cardinality(Children(n))]

AllRungs(n) == UNION {{q[i] : i \in DOMAIN q} : q \in {Rungs[n][k] : k \in DOMAIN Rungs[n]}}

(* Only the planner offers a rollup: on its own node, for any number of    *)
(* children, and nothing else enqueues one.                                *)
ASSUME RungAssumption ==
  \A n \in Nodes :
    /\ \A C \in SUBSET {m \in Nodes : Parent[m] = n} : Cardinality(C) \in DOMAIN Rungs[n]
    /\ \A t \in AllRungs(n) :
         t \in Tasks /\ Scope[t] = n /\ Spawner[t] = NoOne /\ t \notin Queued

(* IngestRollupPlanner: the first rung the node's attempt log lacks.       *)
Offered(n) ==
  LET rungs == RungsOf(n)
  IN  {rungs[i] : i \in {k \in DOMAIN rungs :
                           /\ logged[rungs[k]] = 0
                           /\ \A j \in 1..(k - 1) : logged[rungs[j]] > 0}}

(* Mutant: a node whose log holds any rung is taken to hold them all.      *)
PlannedUnlessAny(p, n) ==
  IF p \in Workers /\ \A t \in AllRungs(n) : logged[t] = 0 THEN Offered(n) ELSE {}

(* Workers walk with the rollup planner; a delete walks with NO_ROLLUP.    *)
Planned(p, n) == IF p \in Workers THEN Offered(n) ELSE {}

StructuringComplete(n) == \A t \in Tasks : Scope[t] = n => ~Unfinished(row[t])

UnsettledChildren(n) == {m \in Children(n) : settled[m] # "settled"}

(* Mutant: the children are not asked.                                     *)
MaySettleOverChildren(n) == settled[n] # "failed" /\ StructuringComplete(n)

MaySettle(n) ==
  /\ settled[n] # "failed"
  /\ StructuringComplete(n)
  /\ UnsettledChildren(n) = {}

(* The level is blocked, or its node is gone: the walk ends here.          *)
SettleStop(p) ==
  /\ pc[p] = "walking"
  /\ Unlocked({at[p]})
  /\ ~(Exists(at[p]) /\ MaySettle(at[p]))
  /\ pc' = [pc EXCEPT ![p] = "idle"]
  /\ at' = [at EXCEPT ![p] = NoOne]
  /\ UNCHANGED <<rowVars, job, loaded, seen, plan, history>>

(* Mutant: the node is read without FOR UPDATE.                            *)
SettleUnlocked(p) ==
  /\ pc[p] = "walking"
  /\ LET n == at[p] IN
       /\ Exists(n)
       /\ MaySettle(n)
       /\ seen' = [seen EXCEPT ![p] = [m \in {n} |-> settled[m]]]
       /\ plan' = [plan EXCEPT ![p] = Planned(p, n)]
  /\ pc' = [pc EXCEPT ![p] = "settling"]
  /\ UNCHANGED <<row, settled, lock, logged, lapsed, job, at, loaded, history>>

(* SELECT ... FOR UPDATE, the three tests, and the planner.                *)
SettleLock(p) ==
  /\ pc[p] = "walking"
  /\ LET n == at[p] IN
       /\ Unlocked({n})
       /\ Exists(n)
       /\ MaySettle(n)
       /\ lock' = [lock EXCEPT ![n] = p]
       /\ seen' = [seen EXCEPT ![p] = [m \in {n} |-> settled[m]]]
       /\ plan' = [plan EXCEPT ![p] = Planned(p, n)]
  /\ pc' = [pc EXCEPT ![p] = "settling"]
  /\ UNCHANGED <<row, settled, logged, lapsed, job, at, loaded, history>>

(* Enqueue what was offered, or settle and go on at the parent.            *)
SettleCommit(p) ==
  /\ pc[p] = "settling"
  /\ LET n == at[p]
         up == IF plan[p] = {} THEN Parent[n] ELSE NoOne
     IN  /\ row' = EnqueuedRows(row, plan[p])
         /\ logged' = EnqueuedLog(plan[p])
         /\ settled' = IF plan[p] = {}
                       THEN [settled EXCEPT ![n] = FlushSettled(@, seen[p][n], "settled")]
                       ELSE UnSettled(p, settled, plan[p])
         /\ at' = [at EXCEPT ![p] = up]
         /\ pc' = [pc EXCEPT ![p] = IF up = NoOne THEN "idle" ELSE "walking"]
  /\ plan' = [plan EXCEPT ![p] = {}]
  /\ Unlock(p)
  /\ EndTx(p)
  /\ UNCHANGED <<lapsed, job, history>>

-----------------------------------------------------------------------------
(* Clients: a request that uploads, and one that deletes.                  *)

QueuedOn(n) == {t \in Tasks : Scope[t] = n /\ Spawner[t] = NoOne /\ t \notin AllRungs(n)}

(* Mutant: the INSERT does not wait for the parent's row lock.             *)
UploadAtOnce(c, n) ==
  /\ pc[c] = "idle"
  /\ n \in Uploads
  /\ settled[n] = "absent"
  /\ Parent[n] # NoOne => Exists(Parent[n])
  /\ row' = EnqueuedRows(row, QueuedOn(n))
  /\ logged' = EnqueuedLog(QueuedOn(n))
  /\ settled' = [settled EXCEPT ![n] = "in_flight"]
  /\ UNCHANGED <<lock, lapsed, procVars, history>>

(* A new node and its first task, in one transaction. The INSERT           *)
(* references the parent, so it waits for a settle_node that holds it; the *)
(* parent's own `settled` is left alone.                                   *)
Upload(c, n) ==
  /\ pc[c] = "idle"
  /\ n \in Uploads
  /\ settled[n] = "absent"
  /\ Parent[n] # NoOne => Exists(Parent[n]) /\ Unlocked({Parent[n]})
  /\ row' = EnqueuedRows(row, QueuedOn(n))
  /\ logged' = EnqueuedLog(QueuedOn(n))
  /\ settled' = [settled EXCEPT ![n] = "in_flight"]
  /\ UNCHANGED <<lock, lapsed, procVars, history>>

(* Mutant: the request ends without a walk.                                *)
DeleteWithoutWalk(c, n) ==
  /\ pc[c] = "idle"
  /\ n \in Deletable
  /\ Exists(n)
  /\ LET doomed == {m \in Descendants(n) : Exists(m)} IN
       /\ Unlocked(doomed)
       /\ settled' = [m \in Nodes |-> IF m \in doomed THEN "gone" ELSE settled[m]]
       /\ row' = [t \in Tasks |-> IF Scope[t] \in doomed /\ row[t].status \notin NoRow
                                  THEN [row[t] EXCEPT !.status = "gone"] ELSE row[t]]
  /\ UNCHANGED <<lock, logged, lapsed, procVars, history>>

(* DELETE cascades to the descendants and to every row scoped to one, and  *)
(* the request then walks from the parent.                                 *)
Delete(c, n) ==
  /\ pc[c] = "idle"
  /\ n \in Deletable
  /\ Exists(n)
  /\ LET doomed == {m \in Descendants(n) : Exists(m)} IN
       /\ Unlocked(doomed)
       /\ settled' = [m \in Nodes |-> IF m \in doomed THEN "gone" ELSE settled[m]]
       /\ row' = [t \in Tasks |-> IF Scope[t] \in doomed /\ row[t].status \notin NoRow
                                  THEN [row[t] EXCEPT !.status = "gone"] ELSE row[t]]
  /\ at' = [at EXCEPT ![c] = Parent[n]]
  /\ pc' = [pc EXCEPT ![c] = IF Parent[n] = NoOne THEN "idle" ELSE "walking"]
  /\ UNCHANGED <<lock, logged, lapsed, job, loaded, seen, plan, history>>

-----------------------------------------------------------------------------
Run(w) ==
  \/ MarkLoad(w) \/ MarkCommit(w)
  \/ HandleLoad(w) \/ HandleCommit(w) \/ HandleRaise(w)
  \/ RecordLoad(w)
  \/ \E retryable \in BOOLEAN : RecordCommit(w, retryable)
  \/ StaleWrite(w)

Recover(w) == RecoverLoad(w) \/ ReapLoad(w) \/ RequeueCommit(w)

Walk(p) == SettleStop(p) \/ SettleLock(p) \/ SettleCommit(p)

Request(c) == \E n \in Nodes : Upload(c, n) \/ Delete(c, n)

Fault(w) == DatabaseError(w) \/ Crash(w) \/ DrainTimeout(w)

Next ==
  \/ \E w \in Workers, t \in Tasks : ClaimNext(w, t)
  \/ \E w \in Workers : Run(w) \/ Recover(w) \/ Beat(w) \/ Return(w)
  \/ \E w \in Workers : DrainReturn(w) \/ Fault(w)
  \/ \E p \in Procs : Walk(p)
  \/ \E c \in Clients : Request(c)
  \/ \E t \in Tasks : LeaseExpires(t) \/ BackoffPasses(t)

Spec == Init /\ [][Next]_vars

(* Threads that are running keep running, crashed workers are restarted    *)
(* and clocks advance. A fault, a beat and a client's decision to call are *)
(* never owed.                                                             *)
Fairness ==
  /\ \A w \in Workers :
       /\ WF_vars(\E t \in Tasks : ClaimNext(w, t))
       /\ WF_vars(Run(w))
       /\ WF_vars(Recover(w))
       /\ WF_vars(Return(w))
       /\ WF_vars(DrainReturn(w))
  /\ \A p \in Procs : WF_vars(Walk(p))
  /\ \A t \in Tasks : WF_vars(LeaseExpires(t)) /\ WF_vars(BackoffPasses(t))

FairSpec == Spec /\ Fairness

-----------------------------------------------------------------------------
(* Deployments in which no recovery can touch a claim somebody still acts  *)
(* on: no live worker outlasts its own lease, and a worker that recovers   *)
(* by its own id is the only one that recovers at all. A fleet whose       *)
(* workers come back under fresh ids satisfies it, and so does one         *)
(* appliance worker beside inline drains.                                  *)
SafeDeployment ==
  /\ ~Pauses
  /\ StableIds => \A v, w \in Loopers : v = w

(* Every variable stays in the set the code keeps it in.                   *)
TypeOK ==
  /\ row \in [Tasks -> Rows]
  /\ settled \in [Nodes -> NodeStates \cup NoRow]
  /\ lock \in [Nodes -> Procs \cup {NoOne}]
  /\ logged \in [Tasks -> Nat]
  /\ lapsed \in [Tasks -> BOOLEAN]
  /\ pc \in [Procs -> Phases]
  /\ job \in [Procs -> Tasks \cup {NoOne}]
  /\ at \in [Procs -> Nodes \cup {NoOne}]
  /\ DOMAIN loaded = Procs
  /\ DOMAIN seen = Procs
  /\ \A p \in Procs :
       /\ Held(p) \subseteq Tasks
       /\ loaded[p] \in [Held(p) -> Rows]
       /\ DOMAIN seen[p] \subseteq Nodes
       /\ seen[p] \in [DOMAIN seen[p] -> NodeStates \cup NoRow]
  /\ plan \in [Procs -> SUBSET Tasks]
  /\ effects \in [Tasks -> Nat]
  /\ starts \in [Tasks -> Nat]
  /\ faults \in 0..MaxFaults

(* A task is in the hands of one worker: nobody else's recovery has freed  *)
(* it while the first is between its claim and its terminal write.         *)
OneExecutor ==
  \A v, w \in Workers :
    v # w /\ pc[v] \in Beating /\ pc[w] \in Beating => job[v] # job[w]

(* The retry cap bites on crashes too: a task that keeps killing its       *)
(* worker begins at most once per claim the cap allows.                    *)
CrashLoopBounded == \A t \in Tasks : starts[t] <= MaxRetries + 1

(* fail(): a node is failed only when a task scoped to it that is not      *)
(* advisory has failed with no retry left.                                 *)
FailedHasCause ==
  \A n \in Nodes : settled[n] = "failed" =>
    \E t \in Tasks \ Advisory : Scope[t] = n /\ FailedForGood(row[t])

(* settle_node's row lock and attempt diff: whoever finishes last and      *)
(* however many walk, a rollup is enqueued for a node at most once.        *)
RollupOnce == \A n \in Nodes : \A t \in AllRungs(n) : logged[t] <= 1

(* A rollup is enqueued only once its inputs are complete: nothing at or   *)
(* below its node owes work any more, however deep; and in its turn: it is *)
(* a rung for the children the node has now, and the rungs before it are   *)
(* in the log.                                                             *)
RollupAfterInputs ==
  [][\A n \in Nodes : \A t \in AllRungs(n) : logged'[t] # logged[t] =>
       /\ \A u \in Tasks \ {t} : Within(Scope[u], n) => ~Unfinished(row'[u])
       /\ \E i \in DOMAIN RungsOf(n)' :
            /\ RungsOf(n)'[i] = t
            /\ \A j \in 1..(i - 1) : logged'[RungsOf(n)'[j]] = 1]_vars

(* Spec 2.1, "settled": no task is pending for the node.                   *)
PublishedOwesNothing ==
  \A n \in Nodes : settled[n] = "settled" => StructuringComplete(n)

(* Spec 2.1 read recursively: a settled node's children are settled too.   *)
PublishedTree ==
  \A n \in Nodes : settled[n] = "settled" => UnsettledChildren(n) = {}

(* A walk never publishes over unfinished work: in the very state in which *)
(* a node becomes settled, its tasks are done and its children settled,    *)
(* although settle_node locks no row but the node's and looked one step    *)
(* earlier. It holds whatever finishes, and whatever is uploaded or        *)
(* deleted beside the trees that are rolled up; a deletion inside of one   *)
(* may reopen a settled child in between (README, Reopened).               *)
SettlesOverFinished ==
  [][\A n \in Nodes :
       settled[n] # "settled" /\ settled[n] # "absent" /\ settled'[n] = "settled" =>
         StructuringComplete(n)' /\ (UnsettledChildren(n) = {})']_vars

(* A finished node carries its whole rollup: nothing the planner would     *)
(* still offer is left un-enqueued on a node that is published. Deletions  *)
(* are those of whole trees that are rolled up, or of others: the walk     *)
(* after a deletion inside of one has no planner (README,                  *)
(* DeleteSkipsRollup).                                                     *)
PublishedIsRolledUp ==
  \A n \in Nodes : settled[n] = "settled" => Offered(n) = {}

(* drain_document returns only when the tree owes no more work, so what    *)
(* the request reports afterwards is a finished tree.                      *)
DrainedOwesNothing ==
  \A w \in Workers \ Loopers : pc[w] = "drained" => UnfinishedUnder(DrainRoot[w]) = {}

(* Recovery is complete: a claim is always given up again, by its worker,  *)
(* by that worker's restart, or by the lease.                              *)
ClaimsAreReleased ==
  \A t \in Tasks : row[t].status \in Reapable ~> row[t].status \notin Reapable

(* The queue runs dry: in the end nothing is held and nothing is left that *)
(* a worker could claim, now or when a backoff has passed.                 *)
QueueRunsDry ==
  <>[](\A t \in Tasks : row[t].status \notin Reserving /\ ~Claimable(row, t)
                        /\ ~row[t].backoff)

HasFailureBelow(n) == \E m \in Descendants(n) : settled[m] = "failed"

(* Late-bound settling misses nobody: a node in flight is settled in the   *)
(* end unless it, or something below it, failed or it was deleted, or a    *)
(* fault came between somebody's commit and the walk after it.             *)
TreeSettles ==
  \A n \in Nodes :
    settled[n] = "in_flight" ~>
      settled[n] \in {"settled", "gone"} \/ HasFailureBelow(n) \/ faults > 0

(* fail(), of advisory types: the failure is recorded and leaves the walk  *)
(* waiting on nothing, also when it is the lease that ended the last try.  *)
AdvisoryFailureSettles ==
  \A t \in Advisory :
    (/\ FailedForGood(row[t]) /\ lapsed[t]
     /\ settled[Scope[t]] = "in_flight" /\ MaySettle(Scope[t]))
    ~> settled[Scope[t]] # "in_flight"
=============================================================================
