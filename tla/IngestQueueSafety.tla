------------------------- MODULE IngestQueueSafety -------------------------
(***************************************************************************)
(* Type correctness of the queue, and who may write a row.                 *)
(*                                                                         *)
(* Every handler, recovery, walk and request leaves every variable in the  *)
(* set the code keeps it in; in particular no claim ever takes retry_count *)
(* past max_retries. In a safe deployment, further, the row of a running   *)
(* task names its worker, the copy every transaction will write back is    *)
(* what the row still holds, and recovery only ever holds rows nobody      *)
(* runs: the invariant that makes a WHERE clause with nothing but the id   *)
(* safe. So every step is one of the lifecycle of a task, and the queue    *)
(* has every safety property of the lifecycle. That dependencies come      *)
(* first and starts stay bounded needs no such deployment.                 *)
(***************************************************************************)
EXTENDS IngestQueue, TaskLifecycleProofs, FiniteSetTheorems

(* Type correctness is inductive together with what the phases say of the  *)
(* two pointers: a beating process has a task, a walking one a node.       *)

HasTask == \A w \in Workers : pc[w] \in Beating => job[w] \in Tasks
HasNode == \A p \in Procs : pc[p] \in {"walking", "settling"} => at[p] \in Nodes

RowTypes ==
  /\ row \in [Tasks -> Rows]
  /\ settled \in [Nodes -> NodeStates \cup NoRow]
  /\ lock \in [Nodes -> Procs \cup {NoOne}]
  /\ logged \in [Tasks -> Nat]
  /\ lapsed \in [Tasks -> BOOLEAN]

ProcTypes ==
  /\ pc \in [Procs -> Phases]
  /\ job \in [Procs -> Tasks \cup {NoOne}]
  /\ at \in [Procs -> Nodes \cup {NoOne}]
  /\ plan \in [Procs -> SUBSET Tasks]
  /\ HasTask
  /\ HasNode

TxTypes ==
  /\ DOMAIN loaded = Procs
  /\ DOMAIN seen = Procs
  /\ \A p \in Procs :
       /\ Held(p) \subseteq Tasks
       /\ loaded[p] \in [Held(p) -> Rows]
       /\ DOMAIN seen[p] \subseteq Nodes
       /\ seen[p] \in [DOMAIN seen[p] -> NodeStates \cup NoRow]

HistoryTypes ==
  /\ effects \in [Tasks -> Nat]
  /\ starts \in [Tasks -> Nat]
  /\ faults \in 0..MaxFaults

(* Between a load by id and the commit after it, the copy is of the job.   *)
HasCopy ==
  \A w \in Workers : pc[w] \in {"marking", "handling", "recording"} => Held(w) = {job[w]}

TypeInv == RowTypes /\ ProcTypes /\ TxTypes /\ HistoryTypes /\ HasCopy

(* What a worker is, and what stays typed when it is not touched.          *)
LEMMA WorkerIsProc == \A w \in Workers : w \in Procs /\ w \notin Clients
  BY ProcessAssumption DEF Procs

(* Same keeps the types.                                                   *)
LEMMA SameTypes ==
  ASSUME TypeInv
  PROVE  /\ UNCHANGED rowVars => RowTypes'
         /\ UNCHANGED <<pc, job, at, plan>> => ProcTypes'
         /\ UNCHANGED <<loaded, seen>> => TxTypes'
         /\ UNCHANGED history => HistoryTypes'
         /\ UNCHANGED <<pc, job, loaded>> => HasCopy'
  BY DEF TypeInv, RowTypes, ProcTypes, TxTypes, HistoryTypes, HasCopy, HasTask, HasNode,
         Held, rowVars, history

(* HasCopy is disturbed only by a process that enters one of its phases.   *)
LEMMA CopyTypes ==
  ASSUME TypeInv, NEW p \in Procs,
         \A q \in Procs \ {p} :
           pc'[q] = pc[q] /\ job'[q] = job[q] /\ loaded'[q] = loaded[q],
         pc'[p] \in {"marking", "handling", "recording"} => DOMAIN loaded'[p] = {job'[p]}
  PROVE  HasCopy'
  BY WorkerIsProc DEF TypeInv, HasCopy, Held

(* A load types the copies and leaves everyone else's alone.               *)
LEMMA LoadTypes ==
  ASSUME TypeInv, NEW p \in Procs, NEW S \in SUBSET Tasks, Load(p, S)
  PROVE  /\ TxTypes'
         /\ DOMAIN loaded'[p] = S
         /\ \A q \in Procs \ {p} : loaded'[q] = loaded[q]
  BY RowAssumption DEF TypeInv, RowTypes, Load, TxTypes, Held

(* The end of a transaction leaves no copies and everyone else's alone.    *)
LEMMA EndTxTypes ==
  ASSUME TypeInv, NEW p \in Procs, EndTx(p)
  PROVE  /\ TxTypes'
         /\ Held(p)' = {}
         /\ \A q \in Procs \ {p} : loaded'[q] = loaded[q]
  BY DEF TypeInv, EndTx, TxTypes, Held, Nothing

(* Un-settling and logging keep the documents typed.                       *)
LEMMA UnSettledTypes ==
  ASSUME TypeInv, NEW p \in Procs, NEW S,
         NEW nodes \in [Nodes -> NodeStates \cup NoRow]
  PROVE  UnSettled(p, nodes, S) \in [Nodes -> NodeStates \cup NoRow]
  BY DEF UnSettled, FlushSettled, NodeStates

(* So does the log's first entry.                                          *)
LEMMA EnqueuedLogTypes ==
  ASSUME TypeInv, NEW S
  PROVE  EnqueuedLog(S) \in [Tasks -> Nat]
  BY DEF TypeInv, RowTypes, EnqueuedLog

(* A failure writes typed rows and typed documents, from copies however    *)
(* old.                                                                    *)
LEMMA FailHeldTypes ==
  ASSUME TypeInv, NEW p \in Procs, NEW retryable \in BOOLEAN, NEW delayed \in BOOLEAN,
         FailHeld(p, retryable, delayed)
  PROVE  /\ row' \in [Tasks -> Rows]
         /\ settled' \in [Nodes -> NodeStates \cup NoRow]
<1>1. \A t \in Held(p) : Failed(loaded[p][t], retryable, delayed) \in Rows
  BY WriteTypes DEF TypeInv, TxTypes
<1>2. row' \in [Tasks -> Rows]
  BY <1>1, FlushType DEF TypeInv, RowTypes, TxTypes, FailHeld
<1>3. settled' \in [Nodes -> NodeStates \cup NoRow]
  BY DEF TypeInv, RowTypes, FailHeld, FlushSettled, NodeStates
<1> QED
  BY <1>2, <1>3

(* Releasing a document row leaves the locks typed.                        *)
LEMMA UnlockTypes ==
  ASSUME TypeInv, NEW p \in Procs, Unlock(p)
  PROVE  lock' \in [Nodes -> Procs \cup {NoOne}]
  BY DEF TypeInv, RowTypes, Unlock

(* What the planner offers are tasks.                                      *)
LEMMA PlannedTypes ==
  ASSUME NEW p, NEW n \in Nodes
  PROVE  Planned(p, n) \in SUBSET Tasks
<1>1. Children(n) \in SUBSET {m \in Nodes : Parent[m] = n}
  BY DEF Children
<1>2. RungsOf(n) \in Seq(Tasks)
  BY <1>1, WorkAssumption DEF RungsOf
<1>3. \A i \in DOMAIN RungsOf(n) : RungsOf(n)[i] \in Tasks
  BY <1>2
<1> QED
  BY <1>3 DEF Planned, Offered

(* GoIdle, and the ends of Drop, leave the process without a task.         *)
LEMMA GoIdleTypes ==
  ASSUME TypeInv, NEW p \in Procs, GoIdle(p), UNCHANGED <<at, plan>>,
         \A q \in Procs \ {p} : loaded'[q] = loaded[q]
  PROVE  ProcTypes' /\ HasCopy'
<1>1. ProcTypes'
  BY DEF TypeInv, ProcTypes, GoIdle, HasTask, HasNode, Phases, Beating
<1>2. HasCopy'
  BY CopyTypes DEF TypeInv, ProcTypes, GoIdle
<1> QED
  BY <1>1, <1>2

(* A step that only changes the phase of p, to one that needs no more      *)
(* than p has.                                                             *)
LEMMA PhaseTypes ==
  ASSUME TypeInv, NEW p \in Procs, NEW phase \in Phases,
         pc' = [pc EXCEPT ![p] = phase], UNCHANGED <<job, at, plan>>,
         phase \in Beating => pc[p] \in Beating,
         phase \notin {"walking", "settling"}
  PROVE  ProcTypes'
  BY DEF TypeInv, ProcTypes, HasTask, HasNode

(* The initial state is typed.                                             *)
LEMMA TypeInit == Init => TypeInv
<1> SUFFICES ASSUME Init PROVE TypeInv
  OBVIOUS
<1> USE ProcessAssumption, RowAssumption, WorkAssumption
<1>1. AbsentRow \in Rows /\ [AbsentRow EXCEPT !.status = "pending"] \in Rows
  <2>1. AbsentRow \in Rows
    BY DEF AbsentRow, Rows, Statuses, Reserving, NoRow
  <2> QED
    BY <2>1, WriteTypes
<1>2. row \in [Tasks -> Rows]
  BY <1>1 DEF Init
<1>3. settled \in [Nodes -> NodeStates \cup NoRow]
  BY DEF Init, NodeStates, NoRow
<1>4. /\ lock \in [Nodes -> Procs \cup {NoOne}]
      /\ logged \in [Tasks -> Nat]
      /\ lapsed \in [Tasks -> BOOLEAN]
      /\ effects \in [Tasks -> Nat]
      /\ starts \in [Tasks -> Nat]
      /\ faults \in 0..MaxFaults
  BY DEF Init
<1>5. /\ pc \in [Procs -> Phases]
      /\ job \in [Procs -> Tasks \cup {NoOne}]
      /\ at \in [Procs -> Nodes \cup {NoOne}]
  BY DEF Init, Phases
<1>6. ASSUME NEW p \in Procs
      PROVE  /\ Held(p) \subseteq Tasks
             /\ loaded[p] \in [Held(p) -> Rows]
             /\ DOMAIN seen[p] \subseteq Nodes
             /\ seen[p] \in [DOMAIN seen[p] -> NodeStates \cup NoRow]
  BY <1>6 DEF Init, Held, Nothing
<1>7. /\ DOMAIN loaded = Procs
      /\ DOMAIN seen = Procs
      /\ plan \in [Procs -> SUBSET Tasks]
  BY DEF Init
<1>8. HasTask /\ HasNode /\ HasCopy
  BY WorkerIsProc DEF Init, HasTask, HasNode, HasCopy, Beating
<1> QED
  BY <1>2, <1>3, <1>4, <1>5, <1>6, <1>7, <1>8
     DEF TypeInv, RowTypes, ProcTypes, TxTypes, HistoryTypes

(* ClaimNext keeps the types.                                              *)
LEMMA ClaimNextTypes ==
  ASSUME TypeInv, NEW w \in Workers, NEW t \in Tasks, ClaimNext(w, t)
  PROVE  TypeInv'
<1>1. row[t] \in Rows /\ Due(row[t])
  BY DEF TypeInv, RowTypes, ClaimNext, Claimable
<1>2. RowTypes'
  BY <1>1, WriteTypes DEF TypeInv, RowTypes, ClaimNext
<1>3. ProcTypes'
  BY WorkerIsProc DEF TypeInv, ProcTypes, ClaimNext, HasTask, HasNode, Phases, Beating
<1>4. HasCopy'
  BY WorkerIsProc, CopyTypes DEF TypeInv, ProcTypes, ClaimNext
<1>5. TxTypes' /\ HistoryTypes'
  BY SameTypes DEF ClaimNext
<1> QED
  BY <1>2, <1>3, <1>4, <1>5 DEF TypeInv

(* MarkLoad keeps the types.                                               *)
LEMMA MarkLoadTypes ==
  ASSUME TypeInv, NEW w \in Workers, MarkLoad(w)
  PROVE  TypeInv'
<1>1. w \in Procs /\ job[w] \in Tasks
  BY WorkerIsProc DEF TypeInv, ProcTypes, HasTask, MarkLoad, Beating
<1>2. RowTypes' /\ HistoryTypes'
  BY SameTypes DEF MarkLoad
<1>3. CASE row[job[w]].status = "claimed"
  <2>1. TxTypes'
    BY <1>1, <1>3, LoadTypes DEF MarkLoad
  <2>2. ProcTypes'
    BY <1>1, <1>3, PhaseTypes DEF MarkLoad, Phases, Beating
  <2>3. HasCopy'
    BY <1>1, <1>3, LoadTypes, CopyTypes DEF TypeInv, ProcTypes, MarkLoad
  <2> QED
    BY <1>2, <2>1, <2>2, <2>3 DEF TypeInv
<1>4. CASE ~(row[job[w]].status = "claimed")
  <2>1. TxTypes'
    BY <1>4, SameTypes DEF MarkLoad
  <2>2. ProcTypes' /\ HasCopy'
    BY <1>1, <1>4, GoIdleTypes DEF MarkLoad
  <2> QED
    BY <1>2, <2>1, <2>2 DEF TypeInv
<1> QED
  BY <1>3, <1>4

(* MarkCommit keeps the types.                                             *)
LEMMA MarkCommitTypes ==
  ASSUME TypeInv, NEW w \in Workers, MarkCommit(w)
  PROVE  TypeInv'
<1>1. w \in Procs /\ job[w] \in Tasks
  BY WorkerIsProc DEF TypeInv, ProcTypes, HasTask, MarkCommit, Beating
<1>2. TxTypes' /\ HistoryTypes'
  BY <1>1, EndTxTypes, SameTypes DEF MarkCommit
<1>3. CASE NoneGone({job[w]})
  <2>1. row[job[w]] \in Rows /\ loaded[w][job[w]] \in Rows
    BY <1>1 DEF TypeInv, RowTypes, TxTypes, HasCopy, MarkCommit
  <2>2. Flush(row[job[w]], loaded[w][job[w]],
              [loaded[w][job[w]] EXCEPT !.status = "running"]) \in Rows
    BY <2>1, WriteTypes, FlushType
  <2>3. RowTypes'
    BY <1>1, <1>3, <2>2 DEF TypeInv, RowTypes, MarkCommit
  <2>4. ProcTypes'
    BY <1>1, <1>3, PhaseTypes DEF MarkCommit, Phases, Beating
  <2>5. HasCopy'
    BY <1>1, <1>3, EndTxTypes, CopyTypes DEF TypeInv, ProcTypes, MarkCommit
  <2> QED
    BY <1>2, <2>3, <2>4, <2>5 DEF TypeInv
<1>4. CASE ~NoneGone({job[w]})
  <2>1. RowTypes'
    BY <1>4, SameTypes DEF MarkCommit, rowVars
  <2>2. ProcTypes' /\ HasCopy'
    BY <1>1, <1>4, EndTxTypes, GoIdleTypes DEF MarkCommit
  <2> QED
    BY <1>2, <2>1, <2>2 DEF TypeInv
<1> QED
  BY <1>3, <1>4

(* HandleLoad keeps the types.                                             *)
LEMMA HandleLoadTypes ==
  ASSUME TypeInv, NEW w \in Workers, HandleLoad(w)
  PROVE  TypeInv'
<1>1. w \in Procs /\ job[w] \in Tasks
  BY WorkerIsProc DEF TypeInv, ProcTypes, HasTask, HandleLoad, Beating
<1>2. RowTypes' /\ HistoryTypes'
  BY <1>1, SameTypes DEF TypeInv, RowTypes, HistoryTypes, HandleLoad, rowVars
<1>3. CASE NoneGone({job[w]})
  <2>1. TxTypes'
    BY <1>1, <1>3, LoadTypes DEF HandleLoad
  <2>2. ProcTypes'
    BY <1>1, <1>3, PhaseTypes DEF HandleLoad, Phases, Beating
  <2>3. HasCopy'
    BY <1>1, <1>3, LoadTypes, CopyTypes DEF TypeInv, ProcTypes, HandleLoad
  <2> QED
    BY <1>2, <2>1, <2>2, <2>3 DEF TypeInv
<1>4. CASE ~(NoneGone({job[w]}))
  <2>1. TxTypes'
    BY <1>4, SameTypes DEF HandleLoad
  <2>2. ProcTypes' /\ HasCopy'
    BY <1>1, <1>4, GoIdleTypes DEF HandleLoad
  <2> QED
    BY <1>2, <2>1, <2>2 DEF TypeInv
<1> QED
  BY <1>3, <1>4

(* HandleCommit keeps the types.                                           *)
LEMMA HandleCommitTypes ==
  ASSUME TypeInv, NEW w \in Workers, HandleCommit(w)
  PROVE  TypeInv'
<1>1. w \in Procs /\ job[w] \in Tasks
  BY WorkerIsProc DEF TypeInv, ProcTypes, HasTask, HandleCommit, Beating
<1>2. TxTypes' /\ HasCopy'
  BY <1>1, EndTxTypes, CopyTypes DEF TypeInv, ProcTypes, HandleCommit
<1>3. row' \in [Tasks -> Rows]
  <2>1. row[job[w]] \in Rows /\ loaded[w][job[w]] \in Rows
    BY <1>1 DEF TypeInv, RowTypes, TxTypes, HasCopy, HandleCommit
  <2>2. Flush(row[job[w]], loaded[w][job[w]], Completed(loaded[w][job[w]])) \in Rows
    BY <2>1, WriteTypes, FlushType
  <2> DEFINE done == [row EXCEPT ![job[w]] =
        Flush(@, loaded[w][job[w]], Completed(loaded[w][job[w]]))]
  <2>3. done \in [Tasks -> Rows]
    BY <2>2 DEF TypeInv, RowTypes
  <2>4. row' = EnqueuedRows(done, Spawned(job[w]))
    BY DEF HandleCommit
  <2> HIDE DEF done
  <2> QED
    BY <2>3, <2>4, EnqueuedTypes
<1>4. settled' \in [Nodes -> NodeStates \cup NoRow]
  <2> DEFINE made == [n \in Nodes |->
        IF n \in Made(job[w]) /\ settled[n] = "absent"
        THEN BornAs(n, Spawned(job[w])) ELSE settled[n]]
  <2>1. made \in [Nodes -> NodeStates \cup NoRow]
    BY DEF TypeInv, RowTypes, NodeStates, BornAs
  <2>2. settled' = UnSettled(w, made, Spawned(job[w]))
    BY DEF HandleCommit
  <2> QED
    BY <1>1, <2>1, <2>2, UnSettledTypes
<1>5. logged' \in [Tasks -> Nat] /\ UNCHANGED <<lock, lapsed>>
  BY EnqueuedLogTypes DEF HandleCommit
<1>6. ProcTypes'
  BY <1>1, RowAssumption
     DEF TypeInv, ProcTypes, HandleCommit, HasTask, HasNode, Phases, Beating
<1>7. HistoryTypes'
  BY <1>1 DEF TypeInv, HistoryTypes, HandleCommit
<1> QED
  BY <1>2, <1>3, <1>4, <1>5, <1>6, <1>7 DEF TypeInv, RowTypes

(* HandleRaise keeps the types.                                            *)
LEMMA HandleRaiseTypes ==
  ASSUME TypeInv, NEW w \in Workers, HandleRaise(w)
  PROVE  TypeInv'
<1>1. w \in Procs /\ job[w] \in Tasks
  BY WorkerIsProc DEF TypeInv, ProcTypes, HasTask, HandleRaise, Beating
<1>2. TxTypes' /\ HasCopy'
  BY <1>1, EndTxTypes, CopyTypes DEF TypeInv, ProcTypes, HandleRaise
<1>3. RowTypes' /\ HistoryTypes'
  BY SameTypes DEF HandleRaise
<1>4. ProcTypes'
  BY <1>1, PhaseTypes DEF HandleRaise, Phases, Beating
<1> QED
  BY <1>2, <1>3, <1>4 DEF TypeInv

(* RecordLoad keeps the types.                                             *)
LEMMA RecordLoadTypes ==
  ASSUME TypeInv, NEW w \in Workers, RecordLoad(w)
  PROVE  TypeInv'
<1>1. w \in Procs /\ job[w] \in Tasks
  BY WorkerIsProc DEF TypeInv, ProcTypes, HasTask, RecordLoad, Beating
<1>2. RowTypes' /\ HistoryTypes'
  BY SameTypes DEF RecordLoad
<1>3. CASE NoneGone({job[w]})
  <2>1. TxTypes'
    BY <1>1, <1>3, LoadTypes DEF RecordLoad
  <2>2. ProcTypes'
    BY <1>1, <1>3, PhaseTypes DEF RecordLoad, Phases, Beating
  <2>3. HasCopy'
    BY <1>1, <1>3, LoadTypes, CopyTypes DEF TypeInv, ProcTypes, RecordLoad
  <2> QED
    BY <1>2, <2>1, <2>2, <2>3 DEF TypeInv
<1>4. CASE ~(NoneGone({job[w]}))
  <2>1. TxTypes'
    BY <1>4, SameTypes DEF RecordLoad
  <2>2. ProcTypes' /\ HasCopy'
    BY <1>1, <1>4, GoIdleTypes DEF RecordLoad
  <2> QED
    BY <1>2, <2>1, <2>2 DEF TypeInv
<1> QED
  BY <1>3, <1>4

(* RecordCommit keeps the types.                                           *)
LEMMA RecordCommitTypes ==
  ASSUME TypeInv, NEW w \in Workers, NEW retryable \in BOOLEAN, RecordCommit(w, retryable)
  PROVE  TypeInv'
<1>1. w \in Procs /\ job[w] \in Tasks
  BY WorkerIsProc DEF TypeInv, ProcTypes, HasTask, RecordCommit, Beating
<1>2. TxTypes' /\ HasCopy'
  BY <1>1, EndTxTypes, CopyTypes DEF TypeInv, ProcTypes, RecordCommit
<1>3. RowTypes'
  BY <1>1, FailHeldTypes DEF TypeInv, RowTypes, RecordCommit
<1>4. ProcTypes'
  BY <1>1, RowAssumption
     DEF TypeInv, ProcTypes, RecordCommit, HasTask, HasNode, Phases, Beating
<1>5. HistoryTypes'
  BY SameTypes DEF RecordCommit
<1> QED
  BY <1>2, <1>3, <1>4, <1>5 DEF TypeInv

(* LeaseExpires keeps the types.                                           *)
LEMMA LeaseExpiresTypes ==
  ASSUME TypeInv, NEW t \in Tasks, LeaseExpires(t)
  PROVE  TypeInv'
<1>1. lapsed' \in [Tasks -> BOOLEAN]
  BY DEF TypeInv, RowTypes, LeaseExpires
<1>2. ProcTypes' /\ TxTypes' /\ HistoryTypes' /\ HasCopy'
  BY SameTypes DEF LeaseExpires, procVars
<1> QED
  BY <1>1, <1>2 DEF TypeInv, RowTypes, LeaseExpires

(* Beat keeps the types.                                                   *)
LEMMA BeatTypes ==
  ASSUME TypeInv, NEW w \in Workers, Beat(w)
  PROVE  TypeInv'
<1>1. lapsed' \in [Tasks -> BOOLEAN]
  BY DEF TypeInv, RowTypes, Beat
<1>2. ProcTypes' /\ TxTypes' /\ HistoryTypes' /\ HasCopy'
  BY SameTypes DEF Beat, procVars
<1> QED
  BY <1>1, <1>2 DEF TypeInv, RowTypes, Beat

(* BackoffPasses keeps the types.                                          *)
LEMMA BackoffPassesTypes ==
  ASSUME TypeInv, NEW t \in Tasks, BackoffPasses(t)
  PROVE  TypeInv'
<1>1. row' \in [Tasks -> Rows]
  <2>1. [row[t] EXCEPT !.backoff = FALSE] \in Rows
    BY WriteTypes DEF TypeInv, RowTypes
  <2> QED
    BY <2>1 DEF TypeInv, RowTypes, BackoffPasses
<1>2. ProcTypes' /\ TxTypes' /\ HistoryTypes' /\ HasCopy'
  BY SameTypes DEF BackoffPasses, procVars
<1> QED
  BY <1>1, <1>2 DEF TypeInv, RowTypes, BackoffPasses

(* RecoverLoad keeps the types.                                            *)
LEMMA RecoverLoadTypes ==
  ASSUME TypeInv, NEW w \in Workers, RecoverLoad(w)
  PROVE  TypeInv'
<1>1. w \in Procs /\ StaleOf(w) \in SUBSET Tasks
  BY WorkerIsProc DEF StaleOf
<1>2. TxTypes' /\ HasCopy'
  BY <1>1, LoadTypes, CopyTypes DEF TypeInv, ProcTypes, RecoverLoad
<1>3. ProcTypes'
  BY <1>1, PhaseTypes DEF RecoverLoad, Phases, Beating
<1>4. RowTypes' /\ HistoryTypes'
  BY SameTypes DEF RecoverLoad
<1> QED
  BY <1>2, <1>3, <1>4 DEF TypeInv

(* ReapLoad keeps the types.                                               *)
LEMMA ReapLoadTypes ==
  ASSUME TypeInv, NEW w \in Workers, ReapLoad(w)
  PROVE  TypeInv'
<1>1. w \in Procs /\ Expired \in SUBSET Tasks
  BY WorkerIsProc DEF Expired
<1>2. TxTypes' /\ HasCopy'
  BY <1>1, LoadTypes, CopyTypes DEF TypeInv, ProcTypes, ReapLoad
<1>3. ProcTypes'
  BY <1>1, PhaseTypes DEF ReapLoad, Phases, Beating
<1>4. RowTypes' /\ HistoryTypes'
  BY SameTypes DEF ReapLoad
<1> QED
  BY <1>2, <1>3, <1>4 DEF TypeInv

(* RequeueCommit keeps the types.                                          *)
LEMMA RequeueCommitTypes ==
  ASSUME TypeInv, NEW w \in Workers, RequeueCommit(w)
  PROVE  TypeInv'
<1>1. w \in Procs
  BY WorkerIsProc
<1>2. TxTypes' /\ HasCopy'
  BY <1>1, EndTxTypes, CopyTypes DEF TypeInv, ProcTypes, RequeueCommit
<1>3. ProcTypes'
  BY <1>1, PhaseTypes DEF RequeueCommit, Phases, Beating
<1>4. RowTypes' /\ HistoryTypes'
  BY <1>1, FailHeldTypes, SameTypes DEF TypeInv, RowTypes, RequeueCommit
<1> QED
  BY <1>2, <1>3, <1>4 DEF TypeInv

(* A rollback leaves the process with nothing, in a phase that needs nothing. *)
LEMMA DropTypes ==
  ASSUME TypeInv, NEW p \in Procs, NEW phase \in {"boot", "idle", "down"}, Drop(p, phase)
  PROVE  RowTypes' /\ ProcTypes' /\ TxTypes' /\ HasCopy'
<1>1. TxTypes' /\ HasCopy'
  BY EndTxTypes, CopyTypes DEF TypeInv, ProcTypes, Drop
<1>2. RowTypes'
  BY UnlockTypes DEF TypeInv, RowTypes, Drop
<1>3. ProcTypes'
  BY DEF TypeInv, ProcTypes, Drop, HasTask, HasNode, Phases, Beating
<1> QED
  BY <1>1, <1>2, <1>3

(* StaleWrite keeps the types.                                             *)
LEMMA StaleWriteTypes ==
  ASSUME TypeInv, NEW w \in Workers, StaleWrite(w)
  PROVE  TypeInv'
<1>1. w \in Procs
  BY WorkerIsProc
<1>2. RowTypes' /\ ProcTypes' /\ TxTypes' /\ HasCopy'
  BY <1>1, DropTypes DEF StaleWrite, Retreat
<1>3. HistoryTypes'
  BY WorkAssumption DEF TypeInv, HistoryTypes, StaleWrite, Drop
<1> QED
  BY <1>2, <1>3 DEF TypeInv

(* DatabaseError keeps the types.                                          *)
LEMMA DatabaseErrorTypes ==
  ASSUME TypeInv, NEW w \in Workers, DatabaseError(w)
  PROVE  TypeInv'
<1>1. w \in Procs
  BY WorkerIsProc
<1>2. RowTypes' /\ ProcTypes' /\ TxTypes' /\ HasCopy'
  BY <1>1, DropTypes DEF DatabaseError, Retreat
<1>3. HistoryTypes'
  BY WorkAssumption DEF TypeInv, HistoryTypes, DatabaseError, Drop
<1> QED
  BY <1>2, <1>3 DEF TypeInv

(* Crash keeps the types.                                                  *)
LEMMA CrashTypes ==
  ASSUME TypeInv, NEW w \in Workers, Crash(w)
  PROVE  TypeInv'
<1>1. w \in Procs
  BY WorkerIsProc
<1>2. RowTypes' /\ ProcTypes' /\ TxTypes' /\ HasCopy'
  BY <1>1, DropTypes DEF Crash
<1>3. HistoryTypes'
  BY WorkAssumption DEF TypeInv, HistoryTypes, Crash, Drop
<1> QED
  BY <1>2, <1>3 DEF TypeInv

(* Return keeps the types.                                                 *)
LEMMA ReturnTypes ==
  ASSUME TypeInv, NEW w \in Workers, Return(w)
  PROVE  TypeInv'
<1>1. w \in Procs
  BY WorkerIsProc
<1>2. RowTypes' /\ TxTypes' /\ HistoryTypes'
  BY SameTypes DEF Return
<1>3. ProcTypes'
  <2>1. PICK phase \in {"boot", "idle"} : pc' = [pc EXCEPT ![w] = phase]
    BY DEF Return
  <2> QED
    BY <1>1, <2>1, PhaseTypes DEF Return, Phases, Beating
<1>5. HasCopy'
  BY <1>1, CopyTypes DEF Return, TypeInv, ProcTypes
<1> QED
  BY <1>2, <1>3, <1>5 DEF TypeInv

(* DrainReturn keeps the types.                                            *)
LEMMA DrainReturnTypes ==
  ASSUME TypeInv, NEW w \in Workers, DrainReturn(w)
  PROVE  TypeInv'
<1>1. w \in Procs
  BY WorkerIsProc
<1>2. RowTypes' /\ TxTypes' /\ HistoryTypes'
  BY SameTypes DEF DrainReturn
<1>3. ProcTypes'
  BY <1>1, PhaseTypes DEF DrainReturn, Phases, Beating
<1>5. HasCopy'
  BY <1>1, CopyTypes DEF DrainReturn, TypeInv, ProcTypes
<1> QED
  BY <1>2, <1>3, <1>5 DEF TypeInv

(* DrainTimeout keeps the types.                                           *)
LEMMA DrainTimeoutTypes ==
  ASSUME TypeInv, NEW w \in Workers, DrainTimeout(w)
  PROVE  TypeInv'
<1>1. w \in Procs
  BY WorkerIsProc
<1>2. RowTypes' /\ TxTypes'
  BY SameTypes DEF DrainTimeout
<1>3. ProcTypes'
  BY <1>1, PhaseTypes DEF DrainTimeout, Phases, Beating
<1>5. HasCopy'
  BY <1>1, CopyTypes DEF DrainTimeout, TypeInv, ProcTypes
<1>4. HistoryTypes'
  BY WorkAssumption DEF TypeInv, HistoryTypes, DrainTimeout
<1> QED
  BY <1>2, <1>3, <1>5, <1>4 DEF TypeInv

(* SettleStop keeps the types.                                             *)
LEMMA SettleStopTypes ==
  ASSUME TypeInv, NEW p \in Procs, SettleStop(p)
  PROVE  TypeInv'
<1>1. RowTypes' /\ TxTypes' /\ HistoryTypes'
  BY SameTypes DEF SettleStop
<1>2. ProcTypes'
  BY DEF TypeInv, ProcTypes, SettleStop, HasTask, HasNode, Phases, Beating
<1>3. HasCopy'
  BY CopyTypes DEF SettleStop, TypeInv, ProcTypes
<1> QED
  BY <1>1, <1>2, <1>3 DEF TypeInv

(* SettleLock keeps the types.                                             *)
LEMMA SettleLockTypes ==
  ASSUME TypeInv, NEW p \in Procs, SettleLock(p)
  PROVE  TypeInv'
<1>1. at[p] \in Nodes
  BY DEF TypeInv, ProcTypes, HasNode, SettleLock
<1>2. RowTypes'
  BY <1>1 DEF TypeInv, RowTypes, SettleLock
<1>3. TxTypes'
  BY <1>1 DEF TypeInv, RowTypes, TxTypes, Held, SettleLock
<1>4. ProcTypes'
  BY <1>1, PlannedTypes DEF TypeInv, ProcTypes, SettleLock, HasTask, HasNode, Phases, Beating
<1>5. HasCopy'
  BY CopyTypes DEF SettleLock, TypeInv, ProcTypes
<1>6. HistoryTypes'
  BY SameTypes DEF SettleLock
<1> QED
  BY <1>2, <1>3, <1>4, <1>5, <1>6 DEF TypeInv

(* SettleCommit keeps the types.                                           *)
LEMMA SettleCommitTypes ==
  ASSUME TypeInv, NEW p \in Procs, SettleCommit(p)
  PROVE  TypeInv'
<1>1. at[p] \in Nodes
  BY DEF TypeInv, ProcTypes, HasNode, SettleCommit
<1>2. TxTypes' /\ HasCopy'
  BY EndTxTypes, CopyTypes DEF SettleCommit, TypeInv, ProcTypes
<1>3. /\ row' \in [Tasks -> Rows]
      /\ logged' \in [Tasks -> Nat]
      /\ lock' \in [Nodes -> Procs \cup {NoOne}]
  BY EnqueuedTypes, EnqueuedLogTypes, UnlockTypes DEF TypeInv, RowTypes, SettleCommit
<1>4. settled' \in [Nodes -> NodeStates \cup NoRow]
  <2>1. CASE plan[p] = {}
    BY <1>1, <2>1 DEF TypeInv, RowTypes, SettleCommit, FlushSettled, NodeStates
  <2>2. CASE plan[p] # {}
    BY <2>2, UnSettledTypes DEF TypeInv, RowTypes, SettleCommit
  <2> QED
    BY <2>1, <2>2
<1>5. ProcTypes'
  <2>1. PICK up \in Nodes \cup {NoOne} :
          /\ at' = [at EXCEPT ![p] = up]
          /\ pc' = [pc EXCEPT ![p] = IF up = NoOne THEN "idle" ELSE "walking"]
    BY <1>1, TreeAssumption DEF SettleCommit
  <2> QED
    BY <2>1 DEF TypeInv, ProcTypes, SettleCommit, HasTask, HasNode, Phases, Beating
<1>6. HistoryTypes'
  BY SameTypes DEF SettleCommit
<1> QED
  BY <1>2, <1>3, <1>4, <1>5, <1>6 DEF TypeInv, RowTypes, SettleCommit

(* Upload keeps the types.                                                 *)
LEMMA UploadTypes ==
  ASSUME TypeInv, NEW c, NEW n \in Nodes, Upload(c, n)
  PROVE  TypeInv'
<1>1. /\ row' \in [Tasks -> Rows]
      /\ logged' \in [Tasks -> Nat]
  BY EnqueuedTypes, EnqueuedLogTypes DEF TypeInv, RowTypes, Upload
<1>2. settled' \in [Nodes -> NodeStates \cup NoRow]
  BY DEF TypeInv, RowTypes, Upload, NodeStates
<1>3. ProcTypes' /\ TxTypes' /\ HistoryTypes' /\ HasCopy'
  BY SameTypes DEF Upload, procVars
<1> QED
  BY <1>1, <1>2, <1>3 DEF TypeInv, RowTypes, Upload

(* Delete keeps the types.                                                 *)
LEMMA DeleteTypes ==
  ASSUME TypeInv, NEW c \in Clients, NEW n \in Nodes, Delete(c, n)
  PROVE  TypeInv'
<1>1. c \in Procs
  BY DEF Procs
<1>2. row' \in [Tasks -> Rows]
  <2>1. \A t \in Tasks : [row[t] EXCEPT !.status = "gone"] \in Rows
    BY WriteTypes DEF TypeInv, RowTypes
  <2> QED
    BY <2>1 DEF TypeInv, RowTypes, Delete
<1>3. settled' \in [Nodes -> NodeStates \cup NoRow]
  BY DEF TypeInv, RowTypes, Delete, NoRow
<1>4. TxTypes' /\ HistoryTypes'
  BY SameTypes DEF Delete
<1>5. ProcTypes'
  BY <1>1, TreeAssumption DEF TypeInv, ProcTypes, Delete, HasTask, HasNode, Phases, Beating
<1>6. HasCopy'
  BY <1>1, CopyTypes DEF Delete, TypeInv, ProcTypes
<1> QED
  BY <1>2, <1>3, <1>4, <1>5, <1>6 DEF TypeInv, RowTypes, Delete

(* Every step of the queue keeps the types.                                *)
LEMMA TypeStep == TypeInv /\ [Next]_vars => TypeInv'
<1> SUFFICES ASSUME TypeInv, [Next]_vars
             PROVE  TypeInv'
  OBVIOUS
<1>1. ASSUME NEW w \in Workers, NEW t \in Tasks, ClaimNext(w, t) PROVE TypeInv'
  BY <1>1, ClaimNextTypes
<1>2. ASSUME NEW w \in Workers, Run(w) PROVE TypeInv'
  BY <1>2, MarkLoadTypes, MarkCommitTypes, HandleLoadTypes, HandleCommitTypes,
     HandleRaiseTypes, RecordLoadTypes, RecordCommitTypes, StaleWriteTypes DEF Run
<1>3. ASSUME NEW w \in Workers, Recover(w) PROVE TypeInv'
  BY <1>3, RecoverLoadTypes, ReapLoadTypes, RequeueCommitTypes DEF Recover
<1>4. ASSUME NEW w \in Workers, Beat(w) \/ Return(w) \/ DrainReturn(w) PROVE TypeInv'
  BY <1>4, BeatTypes, ReturnTypes, DrainReturnTypes
<1>5. ASSUME NEW w \in Workers, Fault(w) PROVE TypeInv'
  BY <1>5, DatabaseErrorTypes, CrashTypes, DrainTimeoutTypes DEF Fault
<1>6. ASSUME NEW p \in Procs, Walk(p) PROVE TypeInv'
  BY <1>6, SettleStopTypes, SettleLockTypes, SettleCommitTypes DEF Walk
<1>7. ASSUME NEW c \in Clients, Request(c) PROVE TypeInv'
  BY <1>7, UploadTypes, DeleteTypes DEF Request
<1>8. ASSUME NEW t \in Tasks, LeaseExpires(t) \/ BackoffPasses(t) PROVE TypeInv'
  BY <1>8, LeaseExpiresTypes, BackoffPassesTypes
<1>9. ASSUME UNCHANGED vars PROVE TypeInv'
  BY <1>9, SameTypes DEF vars, rowVars, procVars, TypeInv
<1> QED
  BY <1>1, <1>2, <1>3, <1>4, <1>5, <1>6, <1>7, <1>8, <1>9 DEF Next

(* The types hold in every reachable state.                                *)
THEOREM TypeCorrect == Spec => []TypeOK
<1>1. Init => TypeInv
  BY TypeInit
<1>2. TypeInv /\ [Next]_vars => TypeInv'
  BY TypeStep
<1>3. TypeInv => TypeOK
  BY DEF TypeInv, RowTypes, ProcTypes, TxTypes, HistoryTypes, TypeOK
<1> QED
  BY <1>1, <1>2, <1>3, PTL DEF Spec

----------------------------------------------------------------------------
(* The row of the task a worker is running says so, unless it is gone.     *)
HolderOwns ==
  \A w \in Workers : pc[w] \in Beating =>
    \/ row[job[w]].status = "gone"
    \/ /\ row[job[w]].owner = w
       /\ row[job[w]].status = IF pc[w] \in {"claimed", "marking"} THEN "claimed" ELSE "running"

(* The copy a run will write back is what the row still holds.             *)
FreshCopy ==
  \A w \in Workers : pc[w] \in {"marking", "handling", "recording"} =>
    row[job[w]].status = "gone" \/ loaded[w][job[w]] = row[job[w]]

(* So is the copy a recovery will write back, and nobody runs the task.    *)
FreshRecovery ==
  \A w \in Workers : pc[w] \in {"recovering", "reaping"} => \A t \in Held(w) :
    /\ ~IsBeating(t)
    /\ row[t].status = "gone" \/ (row[t].status \in Reapable /\ loaded[w][t] = row[t])

(* A lease that has run out is nobody's.                                   *)
LapsedIsAbandoned ==
  \A t \in Tasks : lapsed[t] /\ row[t].status \in Reapable => ~IsBeating(t)

(* The reaper lock, and who recovers by id.                                *)
OneReaper == \A v, w \in Workers : pc[v] = "reaping" /\ pc[w] = "reaping" => v = w
Recovering ==
  \A w \in Workers :
    /\ pc[w] \in {"boot", "recovering", "reaping"} => w \in Loopers
    /\ pc[w] = "recovering" /\ Held(w) # {} => StableIds

(* Only a failed row backs off.                                            *)
BackoffIsFailed == \A t \in Tasks : row[t].backoff => row[t].status \in {"failed", "gone"}

Ownership ==
  /\ HolderOwns /\ OneExecutor /\ FreshCopy /\ FreshRecovery /\ LapsedIsAbandoned
  /\ OneReaper /\ Recovering /\ BackoffIsFailed

Quiet == {"idle", "down", "drained", "boot", "walking", "settling"}

(* The process that a step of p leaves alone.                              *)
Same(q) == pc'[q] = pc[q] /\ job'[q] = job[q] /\ loaded'[q] = loaded[q]

(* The rows p may write: its job's, or those it is recovering.             *)
Holds(p, t) ==
  /\ p \in Workers
  /\ row[t].status # "gone"
  /\ \/ pc[p] \in Beating /\ job[p] = t
     \/ pc[p] \in {"recovering", "reaping"} /\ t \in Held(p)

(* How a row changes in a step that ends, or does not concern, p's hold.   *)
Released(p, t) ==
  \/ row'[t] = row[t]
  \/ row[t].status = "absent" /\ row'[t].status = "pending" /\ ~row'[t].backoff
  \/ row'[t].status = "gone"
  \/ /\ row[t].status \in {"failed", "gone"}
     /\ row'[t].status = row[t].status /\ ~row'[t].backoff
  \/ /\ Holds(p, t)
     /\ row'[t].status \notin Reapable
     /\ row'[t].backoff => row'[t].status = "failed"

(* Two recoveries never hold the same row.                                 *)
LEMMA RecoveriesApart ==
  ASSUME SafeDeployment, TypeInv, Ownership, NEW v \in Workers, NEW w \in Workers, v # w,
         pc[v] \in {"recovering", "reaping"}, pc[w] \in {"recovering", "reaping"}
  PROVE  Held(v) \cap Held(w) = {}
<1>1. v \in Loopers /\ w \in Loopers
  BY DEF Ownership, Recovering
<1>2. ~StableIds
  BY <1>1 DEF SafeDeployment
<1>3. CASE pc[v] = "reaping" /\ pc[w] = "reaping"
  BY <1>3 DEF Ownership, OneReaper
<1>4. CASE pc[v] = "recovering" \/ pc[w] = "recovering"
  BY <1>2, <1>4 DEF Ownership, Recovering
<1> QED
  BY <1>3, <1>4

(* A held row is claimed or running.                                       *)
LEMMA HoldsReapable ==
  ASSUME TypeInv, Ownership, NEW p, NEW t \in Tasks, Holds(p, t)
  PROVE  row[t].status \in Reapable
  BY DEF Ownership, HolderOwns, FreshRecovery, Holds, Reapable

(* A step after which p runs nothing, and which touches no row but p's,    *)
(* disturbs nobody else's claim.                                           *)
LEMMA QuietStep ==
  ASSUME SafeDeployment, TypeInv, Ownership, NEW p,
         \A q \in Workers \ {p} : Same(q),
         p \in Workers => pc'[p] \in Quiet,
         p \in Workers /\ pc'[p] = "boot" => p \in Loopers,
         UNCHANGED lapsed,
         \A t \in Tasks : Released(p, t)
  PROVE  Ownership'
<1>1. \A v \in Workers : pc'[v] \in Beating => v # p /\ Same(v)
  BY DEF Quiet, Beating
<1>2. \A v \in Workers : pc'[v] \in {"recovering", "reaping"} => v # p /\ Same(v)
  BY DEF Quiet
<1>3. ASSUME NEW v \in Workers, pc'[v] \in Beating
      PROVE  row'[job[v]] = row[job[v]] \/ row'[job[v]].status = "gone"
  <2> DEFINE t == job[v]
  <2>1. v # p /\ pc[v] \in Beating /\ t \in Tasks
    BY <1>1, <1>3 DEF Same, TypeInv, ProcTypes, HasTask
  <2>2. row[t].status = "gone" \/ row[t].status \in {"claimed", "running"}
    BY <2>1 DEF Ownership, HolderOwns
  <2>3. ~Holds(p, t)
    BY <2>1 DEF Holds, Ownership, OneExecutor, FreshRecovery, IsBeating
  <2> QED
    BY <2>1, <2>2, <2>3 DEF Released
<1>4. ASSUME NEW v \in Workers, pc'[v] \in {"recovering", "reaping"}, NEW t \in Held(v)
      PROVE  /\ ~IsBeating(t)
             /\ row'[t].status = "gone" \/ (row'[t] = row[t] /\ row[t].status # "gone")
  <2>1. v # p /\ pc[v] \in {"recovering", "reaping"} /\ t \in Tasks /\ v \in Procs
    BY <1>2, <1>4, WorkerIsProc DEF Same, TypeInv, TxTypes
  <2>2. ~IsBeating(t) /\ (row[t].status = "gone" \/ row[t].status \in Reapable)
    BY <2>1 DEF Ownership, FreshRecovery
  <2>3. ~Holds(p, t)
    BY <2>1, <2>2, RecoveriesApart DEF Holds, IsBeating
  <2> QED
    BY <2>1, <2>2, <2>3 DEF Released, Reapable
<1>5. \A t : IsBeating(t)' => IsBeating(t)
  BY <1>1 DEF IsBeating, Same
<1>6. HolderOwns'
  BY <1>1, <1>3 DEF Ownership, HolderOwns, Same
<1>7. OneExecutor'
  BY <1>1 DEF Ownership, OneExecutor, Same
<1>8. FreshCopy'
  BY <1>1, <1>3 DEF Ownership, FreshCopy, Same, Beating
<1>9. FreshRecovery'
  BY <1>2, <1>4, <1>5 DEF Ownership, FreshRecovery, Same, Held
<1>10. LapsedIsAbandoned'
  <2>1. \A t \in Tasks : row'[t].status \in Reapable => row'[t] = row[t]
    BY DEF Released, Reapable
  <2> QED
    BY <2>1, <1>5 DEF Ownership, LapsedIsAbandoned
<1>11. OneReaper' /\ Recovering'
  BY <1>2 DEF Ownership, OneReaper, Recovering, Same, Held, Quiet
<1>12. BackoffIsFailed'
  BY DEF Ownership, BackoffIsFailed, Released
<1> QED
  BY <1>6, <1>7, <1>8, <1>9, <1>10, <1>11, <1>12 DEF Ownership

(* A step of a run that keeps its task.                                    *)
LEMMA HolderStep ==
  ASSUME SafeDeployment, TypeInv, Ownership, NEW w \in Workers,
         pc[w] \in Beating, pc'[w] \in Beating, job'[w] = job[w],
         \A q \in Workers \ {w} : Same(q),
         UNCHANGED lapsed,
         \A t \in Tasks \ {job[w]} : row'[t] = row[t],
         row[job[w]].status = "gone" => row'[job[w]] = row[job[w]],
         \/ row'[job[w]].status = "gone"
         \/ /\ row'[job[w]].owner = row[job[w]].owner
            /\ row'[job[w]].status =
                 IF pc'[w] \in {"claimed", "marking"} THEN "claimed" ELSE "running"
            /\ ~row'[job[w]].backoff,
         pc'[w] \in {"marking", "handling", "recording"} =>
           loaded'[w][job[w]] = row'[job[w]]
  PROVE  Ownership'
<1>1. job[w] \in Tasks
  BY DEF TypeInv, ProcTypes, HasTask
<1>2. \A v \in Workers : pc'[v] \in {"boot", "recovering", "reaping"} => v # w /\ Same(v)
  BY DEF Beating
<1>3. \A v \in Workers \ {w} : pc'[v] \in Beating =>
        Same(v) /\ job[v] \in Tasks \ {job[w]} /\ row'[job[v]] = row[job[v]]
  BY DEF Ownership, OneExecutor, Same, TypeInv, ProcTypes, HasTask
<1>4. \A t : IsBeating(t)' => IsBeating(t)
  BY <1>3 DEF IsBeating, Same
<1>5. HolderOwns'
  BY <1>1, <1>3 DEF Ownership, HolderOwns, Same
<1>6. OneExecutor'
  BY <1>3 DEF Ownership, OneExecutor, Same
<1>7. FreshCopy'
  BY <1>1, <1>3 DEF Ownership, FreshCopy, Same, Beating
<1>8. FreshRecovery'
  <2>1. \A v \in Workers : pc'[v] \in {"recovering", "reaping"} =>
          \A t \in Held(v) : t \in Tasks /\ ~IsBeating(t) /\ t # job[w]
    BY <1>2, WorkerIsProc DEF Ownership, FreshRecovery, Same, IsBeating, TypeInv, TxTypes
  <2> QED
    BY <1>2, <1>4, <2>1 DEF Ownership, FreshRecovery, Same, Held
<1>9. LapsedIsAbandoned'
  <2>1. IsBeating(job[w]) /\ (row[job[w]].status # "gone" => row[job[w]].status \in Reapable)
    BY DEF IsBeating, Ownership, HolderOwns, Reapable
  <2>2. row'[job[w]].status \in Reapable => row[job[w]].status \in Reapable
    BY <2>1 DEF Reapable
  <2> QED
    BY <1>4, <2>2 DEF Ownership, LapsedIsAbandoned
<1>10. OneReaper' /\ Recovering'
  BY <1>2 DEF Ownership, OneReaper, Recovering, Same, Held, Beating
<1>11. BackoffIsFailed'
  BY <1>1 DEF Ownership, BackoffIsFailed
<1> QED
  BY <1>5, <1>6, <1>7, <1>8, <1>9, <1>10, <1>11 DEF Ownership

(* A claim makes one new holder of a row nobody held.                      *)
LEMMA ClaimOwnership ==
  ASSUME SafeDeployment, TypeInv, Ownership, NEW w \in Workers, NEW t \in Tasks, ClaimNext(w, t)
  PROVE  Ownership'
<1>1. /\ row[t] \in Rows /\ row[t].status \in {"pending", "failed"}
      /\ w \in Procs /\ pc[w] = "idle"
  BY WorkerIsProc DEF TypeInv, RowTypes, ClaimNext, Claimable, Due, HasRetryLeft
<1>2. /\ row'[t].status = "claimed" /\ row'[t].owner = w /\ ~row'[t].backoff
      /\ \A u \in Tasks \ {t} : row'[u] = row[u]
  BY <1>1 DEF TypeInv, RowTypes, ClaimNext, Claimed, Rows
<1>3. /\ pc'[w] = "claimed" /\ job'[w] = t
      /\ \A q \in Workers \ {w} : Same(q)
      /\ loaded' = loaded
      /\ ~lapsed'[t] /\ \A u \in Tasks \ {t} : lapsed'[u] = lapsed[u]
  BY <1>1 DEF TypeInv, RowTypes, ProcTypes, ClaimNext, Same
<1>4. ~IsBeating(t)
  BY <1>1 DEF Ownership, HolderOwns, IsBeating
<1>5. \A u : IsBeating(u)' => u = t \/ IsBeating(u)
  BY <1>3 DEF IsBeating, Same
<1>6. \A v \in Workers \ {w} : pc'[v] \in Beating =>
        Same(v) /\ job[v] \in Tasks \ {t} /\ row'[job[v]] = row[job[v]]
  BY <1>2, <1>3, <1>4 DEF Same, IsBeating, TypeInv, ProcTypes, HasTask
<1>7. HolderOwns'
  BY <1>2, <1>3, <1>6 DEF Ownership, HolderOwns, Same
<1>8. OneExecutor'
  BY <1>3, <1>6 DEF Ownership, OneExecutor, Same
<1>9. FreshCopy'
  BY <1>3, <1>6 DEF Ownership, FreshCopy, Same, Beating
<1>10. FreshRecovery'
  <2>1. \A v \in Workers : pc'[v] \in {"recovering", "reaping"} => v # w /\ Same(v)
    BY <1>3
  <2>2. \A v \in Workers : pc'[v] \in {"recovering", "reaping"} =>
          \A u \in Held(v) : u \in Tasks \ {t}
    BY <1>1, <2>1, WorkerIsProc
       DEF Ownership, FreshRecovery, Same, TypeInv, TxTypes, Reapable
  <2> QED
    BY <1>2, <1>5, <2>1, <2>2 DEF Ownership, FreshRecovery, Same, Held
<1>11. LapsedIsAbandoned'
  BY <1>2, <1>3, <1>5 DEF Ownership, LapsedIsAbandoned
<1>12. OneReaper' /\ Recovering'
  BY <1>3 DEF Ownership, OneReaper, Recovering, Same, Held
<1>13. BackoffIsFailed'
  BY <1>2 DEF Ownership, BackoffIsFailed
<1> QED
  BY <1>7, <1>8, <1>9, <1>10, <1>11, <1>12, <1>13 DEF Ownership

(* RecoverLoad takes copies of rows nobody runs.                         *)
LEMMA RecoverLoadOwnership ==
  ASSUME SafeDeployment, TypeInv, Ownership, NEW w \in Workers, RecoverLoad(w)
  PROVE  Ownership'
<1>1. w \in Procs /\ StaleOf(w) \in SUBSET Tasks
  BY WorkerIsProc DEF StaleOf
<1>2. /\ \A q \in Workers \ {w} : Same(q)
      /\ row' = row /\ lapsed' = lapsed /\ job' = job
      /\ loaded'[w] = [t \in StaleOf(w) |-> row[t]]
      /\ pc'[w] = "recovering" /\ pc[w] = "boot"
  BY <1>1 DEF RecoverLoad, Load, Same, TypeInv, ProcTypes, TxTypes, rowVars
<1>3. \A t \in StaleOf(w) : row[t].status \in Reapable /\ ~IsBeating(t)
  BY <1>2 DEF StaleOf, Ownership, HolderOwns, IsBeating, Reapable, Beating
<1>4. \A t : IsBeating(t)' => IsBeating(t)
  BY <1>2 DEF IsBeating, Same, Beating
<1>5. HolderOwns' /\ OneExecutor' /\ FreshCopy'
  BY <1>2 DEF Ownership, HolderOwns, OneExecutor, FreshCopy, Same, Beating
<1>6. FreshRecovery'
  <2>1. ASSUME NEW v \in Workers \ {w}, pc'[v] \in {"recovering", "reaping"}, NEW t \in Held(v)'
        PROVE  ~IsBeating(t)' /\ (row'[t].status = "gone" \/ (row'[t].status \in Reapable /\ loaded'[v][t] = row'[t]))
    BY <1>2, <1>4, <2>1 DEF Ownership, FreshRecovery, Same, Held
  <2>2. ASSUME NEW t \in Held(w)'
        PROVE  ~IsBeating(t)' /\ row'[t].status \in Reapable /\ loaded'[w][t] = row'[t]
    BY <1>2, <1>3, <1>4, <2>2 DEF Held
  <2> QED
    BY <2>1, <2>2 DEF FreshRecovery, Held
<1>7. LapsedIsAbandoned' /\ BackoffIsFailed'
  BY <1>2, <1>4 DEF Ownership, LapsedIsAbandoned, BackoffIsFailed
<1>8. OneReaper' /\ Recovering'
  BY <1>2 DEF Ownership, OneReaper, Recovering, Same, Held, RecoverLoad, StaleOf
<1> QED
  BY <1>5, <1>6, <1>7, <1>8 DEF Ownership

(* ReapLoad takes copies of rows nobody runs.                            *)
LEMMA ReapLoadOwnership ==
  ASSUME SafeDeployment, TypeInv, Ownership, NEW w \in Workers, ReapLoad(w)
  PROVE  Ownership'
<1>1. w \in Procs /\ Expired \in SUBSET Tasks
  BY WorkerIsProc DEF Expired
<1>2. /\ \A q \in Workers \ {w} : Same(q)
      /\ row' = row /\ lapsed' = lapsed /\ job' = job
      /\ loaded'[w] = [t \in Expired |-> row[t]]
      /\ pc'[w] = "reaping" /\ pc[w] = "idle"
  BY <1>1 DEF ReapLoad, Load, Same, TypeInv, ProcTypes, TxTypes, rowVars
<1>3. \A t \in Expired : row[t].status \in Reapable /\ ~IsBeating(t)
  BY DEF Expired, Ownership, LapsedIsAbandoned
<1>4. \A t : IsBeating(t)' => IsBeating(t)
  BY <1>2 DEF IsBeating, Same, Beating
<1>5. HolderOwns' /\ OneExecutor' /\ FreshCopy'
  BY <1>2 DEF Ownership, HolderOwns, OneExecutor, FreshCopy, Same, Beating
<1>6. FreshRecovery'
  <2>1. ASSUME NEW v \in Workers \ {w}, pc'[v] \in {"recovering", "reaping"}, NEW t \in Held(v)'
        PROVE  ~IsBeating(t)' /\ (row'[t].status = "gone" \/ (row'[t].status \in Reapable /\ loaded'[v][t] = row'[t]))
    BY <1>2, <1>4, <2>1 DEF Ownership, FreshRecovery, Same, Held
  <2>2. ASSUME NEW t \in Held(w)'
        PROVE  ~IsBeating(t)' /\ row'[t].status \in Reapable /\ loaded'[w][t] = row'[t]
    BY <1>2, <1>3, <1>4, <2>2 DEF Held
  <2> QED
    BY <2>1, <2>2 DEF FreshRecovery, Held
<1>7. LapsedIsAbandoned' /\ BackoffIsFailed'
  BY <1>2, <1>4 DEF Ownership, LapsedIsAbandoned, BackoffIsFailed
<1>8. OneReaper' /\ Recovering'
  BY <1>2 DEF Ownership, OneReaper, Recovering, Same, Held, ReapLoad, ReaperLockFree
<1> QED
  BY <1>5, <1>6, <1>7, <1>8 DEF Ownership


(* Copies that still hold what the rows hold make a requeue a plain write. *)
LEMMA FailHeldFresh ==
  ASSUME TypeInv, NEW p \in Procs, NEW retryable \in BOOLEAN, NEW delayed \in BOOLEAN,
         FailHeld(p, retryable, delayed),
         \A t \in Held(p) : loaded[p][t] = row[t]
  PROVE  row' = [t \in Tasks |-> IF t \in Held(p) THEN Failed(row[t], retryable, delayed)
                                 ELSE row[t]]
<1>1. ASSUME NEW t \in Held(p)
      PROVE  Flush(row[t], loaded[p][t], Failed(loaded[p][t], retryable, delayed))
               = Failed(row[t], retryable, delayed)
  <2>1. row[t] \in Rows /\ Failed(row[t], retryable, delayed) \in Rows
    BY WriteTypes DEF TypeInv, RowTypes, TxTypes
  <2> QED
    BY <2>1, FlushFresh
<1> QED
  BY <1>1 DEF FailHeld

(* Each step that ends a hold, or holds nothing, is a quiet step.          *)
LEMMA RecordCommitOwnership ==
  ASSUME SafeDeployment, TypeInv, Ownership, NEW w \in Workers, NEW retryable \in BOOLEAN,
         RecordCommit(w, retryable)
  PROVE  Ownership'
<1>1. w \in Procs /\ pc[w] = "recording" /\ FailHeld(w, retryable, TRUE)
  BY WorkerIsProc DEF RecordCommit
<1>2. Held(w) = {job[w]} /\ row[job[w]].status # "gone"
  BY <1>1 DEF TypeInv, HasCopy, FailHeld, NoneGone
<1>3. \A t \in Held(w) : loaded[w][t] = row[t]
  BY <1>1, <1>2 DEF Ownership, FreshCopy
<1>4. row' = [t \in Tasks |-> IF t \in Held(w) THEN Failed(row[t], retryable, TRUE)
                              ELSE row[t]]
  BY <1>1, <1>3, FailHeldFresh
<1>5. \A t \in Tasks : Released(w, t)
  <2> SUFFICES ASSUME NEW t \in Tasks PROVE Released(w, t)
    OBVIOUS
  <2>1. row[t] \in Rows
    BY DEF TypeInv, RowTypes
  <2>2. CASE t \in Held(w)
    <3>1. row'[t] = Failed(row[t], retryable, TRUE)
      BY <1>4, <2>2
    <3>2. row'[t].status = "failed"
      BY <2>1, <3>1 DEF Failed, Rows
    <3>3. Holds(w, t)
      BY <1>1, <1>2, <2>2 DEF Holds, Beating
    <3> QED
      BY <3>2, <3>3 DEF Released, Reapable
  <2>3. CASE t \notin Held(w)
    BY <1>4, <2>3 DEF Released
  <2> QED
    BY <2>2, <2>3
<1>6. \A q \in Workers \ {w} : Same(q)
  BY <1>1, WorkerIsProc, EndTxTypes DEF RecordCommit, Same, TypeInv, ProcTypes, TxTypes
<1>7. pc'[w] = "walking" /\ UNCHANGED lapsed
  BY <1>1 DEF RecordCommit, TypeInv, ProcTypes
<1> QED
  BY <1>5, <1>6, <1>7, QuietStep DEF Quiet

(* RequeueCommit keeps ownership.                                          *)
LEMMA RequeueCommitOwnership ==
  ASSUME SafeDeployment, TypeInv, Ownership, NEW w \in Workers, RequeueCommit(w)
  PROVE  Ownership'
<1>1. w \in Procs /\ pc[w] \in {"recovering", "reaping"} /\ FailHeld(w, TRUE, FALSE)
  BY WorkerIsProc DEF RequeueCommit
<1>2. \A t \in Held(w) : row[t].status # "gone" /\ loaded[w][t] = row[t]
  BY <1>1 DEF Ownership, FreshRecovery, FailHeld, NoneGone
<1>4. row' = [t \in Tasks |-> IF t \in Held(w) THEN Failed(row[t], TRUE, FALSE) ELSE row[t]]
  BY <1>1, <1>2, FailHeldFresh
<1>5. ASSUME NEW t \in Tasks PROVE Released(w, t)
  <2>1. CASE t \in Held(w)
    <3>1. row'[t].status = "failed"
      BY <1>4, <2>1 DEF Failed, TypeInv, RowTypes, Rows
    <3> QED
      BY <1>1, <1>2, <2>1, <3>1 DEF Released, Holds, Reapable
  <2>2. CASE t \notin Held(w)
    BY <1>4, <2>2 DEF Released
  <2> QED
    BY <2>1, <2>2
<1>6. \A q \in Workers \ {w} : Same(q)
  BY <1>1, WorkerIsProc, EndTxTypes DEF RequeueCommit, Same, TypeInv, ProcTypes, TxTypes
<1>7. pc'[w] = "idle" /\ UNCHANGED lapsed
  BY <1>1 DEF RequeueCommit, TypeInv, ProcTypes
<1> QED
  BY <1>5, <1>6, <1>7, QuietStep DEF Quiet

(* The handler's commit completes the row it finds running.                *)
LEMMA HandleCommitRow ==
  ASSUME TypeInv, Ownership, NEW w \in Workers, HandleCommit(w)
  PROVE  /\ row[job[w]].status = "running"
         /\ row' = EnqueuedRows([row EXCEPT ![job[w]] = Completed(@)], Spawned(job[w]))
<1>1. /\ w \in Procs /\ job[w] \in Tasks
      /\ row[job[w]] \in Rows /\ Completed(row[job[w]]) \in Rows
      /\ pc[w] = "handling" /\ row[job[w]].status # "gone"
  BY WorkerIsProc, WriteTypes
     DEF HandleCommit, TypeInv, RowTypes, ProcTypes, HasTask, Beating, NoneGone
<1>2. loaded[w][job[w]] = row[job[w]] /\ row[job[w]].status = "running"
  BY <1>1 DEF Ownership, FreshCopy, HolderOwns, Beating
<1>3. Flush(row[job[w]], loaded[w][job[w]], Completed(loaded[w][job[w]])) = Completed(row[job[w]])
  BY <1>1, <1>2, FlushFresh
<1> QED
  BY <1>2, <1>3 DEF HandleCommit

(* HandleCommit keeps ownership.                                           *)
LEMMA HandleCommitOwnership ==
  ASSUME SafeDeployment, TypeInv, Ownership, NEW w \in Workers, HandleCommit(w)
  PROVE  Ownership'
<1>1. w \in Procs /\ job[w] \in Tasks /\ pc[w] = "handling"
  BY WorkerIsProc DEF HandleCommit, TypeInv, ProcTypes, HasTask, Beating
<1>2. ASSUME NEW t \in Tasks PROVE Released(w, t)
  <2>1. row[t] \in Rows
    BY DEF TypeInv, RowTypes
  <2>2. CASE t = job[w]
    <3>1. row'[t] = Completed(row[t]) /\ row[t].status = "running"
      BY <1>1, <2>1, <2>2, HandleCommitRow DEF EnqueuedRows, Completed, TypeInv, RowTypes, Rows
    <3> QED
      BY <1>1, <2>1, <2>2, <3>1 DEF Released, Holds, Beating, Completed, Rows, Reapable, Ownership, BackoffIsFailed
  <2>3. CASE t # job[w]
    BY <1>1, <2>1, <2>3, HandleCommitRow DEF EnqueuedRows, AbsentRow, Released, TypeInv, RowTypes
  <2> QED
    BY <2>2, <2>3
<1>3. \A q \in Workers \ {w} : Same(q)
  BY <1>1, WorkerIsProc, EndTxTypes DEF HandleCommit, Same, TypeInv, ProcTypes, TxTypes
<1>4. pc'[w] = "walking" /\ UNCHANGED lapsed
  BY <1>1 DEF HandleCommit, TypeInv, ProcTypes
<1> QED
  BY <1>2, <1>3, <1>4, QuietStep DEF Quiet

(* MarkLoad, HandleLoad and RecordLoad: keep the task, or go idle.         *)
LEMMA MarkLoadOwnership ==
  ASSUME SafeDeployment, TypeInv, Ownership, NEW w \in Workers, MarkLoad(w)
  PROVE  Ownership'
<1>1. w \in Procs /\ job[w] \in Tasks /\ pc[w] = "claimed"
  BY WorkerIsProc DEF MarkLoad, TypeInv, ProcTypes, HasTask, Beating
<1>2. row' = row /\ lapsed' = lapsed
  BY DEF MarkLoad, rowVars
<1>3. CASE row[job[w]].status = "claimed"
  <2>1. /\ pc'[w] = "marking" /\ job' = job /\ \A q \in Workers \ {w} : Same(q)
        /\ loaded'[w][job[w]] = row[job[w]]
    BY <1>1, <1>3, WorkerIsProc DEF MarkLoad, Load, Same, TypeInv, ProcTypes, TxTypes
  <2>2. row[job[w]].status = "gone" \/
          /\ row[job[w]].status = "claimed"
          /\ ~row[job[w]].backoff
    BY <1>1 DEF Ownership, HolderOwns, BackoffIsFailed, Beating
  <2> QED
    BY <1>1, <1>2, <2>1, <2>2, HolderStep DEF Beating
<1>4. CASE ~(row[job[w]].status = "claimed")
  <2>1. pc'[w] = "idle" /\ \A q \in Workers \ {w} : Same(q)
    BY <1>1, <1>4, WorkerIsProc DEF MarkLoad, GoIdle, Same, TypeInv, ProcTypes
  <2> QED
    BY <1>2, <2>1, QuietStep DEF Quiet, Released
<1> QED
  BY <1>3, <1>4

(* HandleLoad keeps ownership.                                             *)
LEMMA HandleLoadOwnership ==
  ASSUME SafeDeployment, TypeInv, Ownership, NEW w \in Workers, HandleLoad(w)
  PROVE  Ownership'
<1>1. w \in Procs /\ job[w] \in Tasks /\ pc[w] = "marked"
  BY WorkerIsProc DEF HandleLoad, TypeInv, ProcTypes, HasTask, Beating
<1>2. row' = row /\ lapsed' = lapsed
  BY DEF HandleLoad, rowVars
<1>3. CASE NoneGone({job[w]})
  <2>1. /\ pc'[w] = "handling" /\ job' = job /\ \A q \in Workers \ {w} : Same(q)
        /\ loaded'[w][job[w]] = row[job[w]]
    BY <1>1, <1>3, WorkerIsProc DEF HandleLoad, Load, Same, TypeInv, ProcTypes, TxTypes
  <2>2. row[job[w]].status = "gone" \/
          /\ row[job[w]].status = "running"
          /\ ~row[job[w]].backoff
    BY <1>1 DEF Ownership, HolderOwns, BackoffIsFailed, Beating
  <2> QED
    BY <1>1, <1>2, <2>1, <2>2, HolderStep DEF Beating
<1>4. CASE ~(NoneGone({job[w]}))
  <2>1. pc'[w] = "idle" /\ \A q \in Workers \ {w} : Same(q)
    BY <1>1, <1>4, WorkerIsProc DEF HandleLoad, GoIdle, Same, TypeInv, ProcTypes
  <2> QED
    BY <1>2, <2>1, QuietStep DEF Quiet, Released
<1> QED
  BY <1>3, <1>4

(* RecordLoad keeps ownership.                                             *)
LEMMA RecordLoadOwnership ==
  ASSUME SafeDeployment, TypeInv, Ownership, NEW w \in Workers, RecordLoad(w)
  PROVE  Ownership'
<1>1. w \in Procs /\ job[w] \in Tasks /\ pc[w] = "failing"
  BY WorkerIsProc DEF RecordLoad, TypeInv, ProcTypes, HasTask, Beating
<1>2. row' = row /\ lapsed' = lapsed
  BY DEF RecordLoad, rowVars
<1>3. CASE NoneGone({job[w]})
  <2>1. /\ pc'[w] = "recording" /\ job' = job /\ \A q \in Workers \ {w} : Same(q)
        /\ loaded'[w][job[w]] = row[job[w]]
    BY <1>1, <1>3, WorkerIsProc DEF RecordLoad, Load, Same, TypeInv, ProcTypes, TxTypes
  <2>2. row[job[w]].status = "gone" \/
          /\ row[job[w]].status = "running"
          /\ ~row[job[w]].backoff
    BY <1>1 DEF Ownership, HolderOwns, BackoffIsFailed, Beating
  <2> QED
    BY <1>1, <1>2, <2>1, <2>2, HolderStep DEF Beating
<1>4. CASE ~(NoneGone({job[w]}))
  <2>1. pc'[w] = "idle" /\ \A q \in Workers \ {w} : Same(q)
    BY <1>1, <1>4, WorkerIsProc DEF RecordLoad, GoIdle, Same, TypeInv, ProcTypes
  <2> QED
    BY <1>2, <2>1, QuietStep DEF Quiet, Released
<1> QED
  BY <1>3, <1>4

(* mark_running starts the row it finds claimed.                           *)
LEMMA MarkCommitRow ==
  ASSUME TypeInv, Ownership, NEW w \in Workers, MarkCommit(w), row[job[w]].status # "gone"
  PROVE  /\ row[job[w]].status = "claimed"
         /\ row' = [row EXCEPT ![job[w]].status = "running"]
<1>1. /\ job[w] \in Tasks /\ row[job[w]] \in Rows
      /\ [row[job[w]] EXCEPT !.status = "running"] \in Rows
      /\ pc[w] = "marking"
  BY WriteTypes DEF MarkCommit, TypeInv, RowTypes, ProcTypes, HasTask, Beating
<1>2. loaded[w][job[w]] = row[job[w]] /\ row[job[w]].status = "claimed"
  BY <1>1 DEF Ownership, FreshCopy, HolderOwns, Beating
<1>3. Flush(row[job[w]], loaded[w][job[w]], [loaded[w][job[w]] EXCEPT !.status = "running"])
        = [row[job[w]] EXCEPT !.status = "running"]
  BY <1>1, <1>2, FlushFresh
<1> QED
  BY <1>2, <1>3 DEF MarkCommit, NoneGone

(* MarkCommit keeps ownership.                                             *)
LEMMA MarkCommitOwnership ==
  ASSUME SafeDeployment, TypeInv, Ownership, NEW w \in Workers, MarkCommit(w)
  PROVE  Ownership'
<1>1. w \in Procs /\ job[w] \in Tasks /\ pc[w] = "marking" /\ row[job[w]] \in Rows
  BY WorkerIsProc DEF MarkCommit, TypeInv, RowTypes, ProcTypes, HasTask, Beating
<1>2. lapsed' = lapsed /\ \A q \in Workers \ {w} : loaded'[q] = loaded[q]
  BY <1>1, WorkerIsProc, EndTxTypes DEF MarkCommit
<1>3. CASE row[job[w]].status # "gone"
  <2>1. pc'[w] = "marked" /\ job' = job /\ \A q \in Workers \ {w} : Same(q)
    BY <1>1, <1>2, <1>3, WorkerIsProc DEF MarkCommit, NoneGone, Same, TypeInv, ProcTypes
  <2>2. /\ row'[job[w]].status = "running" /\ row'[job[w]].owner = row[job[w]].owner
        /\ ~row'[job[w]].backoff
        /\ \A t \in Tasks \ {job[w]} : row'[t] = row[t]
    <3>1. row[job[w]].status = "claimed" /\ ~row[job[w]].backoff
      BY <1>1, <1>3, MarkCommitRow DEF Ownership, BackoffIsFailed
    <3>2. /\ row'[job[w]] = [row[job[w]] EXCEPT !.status = "running"]
          /\ \A t \in Tasks \ {job[w]} : row'[t] = row[t]
      BY <1>1, <1>3, MarkCommitRow DEF TypeInv, RowTypes
    <3> QED
      BY <1>1, <3>1, <3>2 DEF Rows
  <2> QED
    BY <1>1, <1>2, <1>3, <2>1, <2>2, HolderStep DEF Beating
<1>4. CASE row[job[w]].status = "gone"
  <2>1. pc'[w] = "idle" /\ row' = row /\ \A q \in Workers \ {w} : Same(q)
    BY <1>1, <1>2, <1>4, WorkerIsProc DEF MarkCommit, NoneGone, GoIdle, Same, TypeInv, ProcTypes
  <2> QED
    BY <1>2, <2>1, QuietStep DEF Quiet, Released
<1> QED
  BY <1>3, <1>4

(* HandleRaise keeps ownership.                                            *)
LEMMA HandleRaiseOwnership ==
  ASSUME SafeDeployment, TypeInv, Ownership, NEW w \in Workers, HandleRaise(w)
  PROVE  Ownership'
<1>1. w \in Procs /\ job[w] \in Tasks /\ pc[w] = "handling"
  BY WorkerIsProc DEF HandleRaise, TypeInv, ProcTypes, HasTask, Beating
<1>2. row' = row /\ lapsed' = lapsed /\ job' = job
  BY DEF HandleRaise, rowVars
<1>3. pc'[w] = "failing" /\ \A q \in Workers \ {w} : Same(q)
  BY <1>1, WorkerIsProc, EndTxTypes DEF HandleRaise, Same, TypeInv, ProcTypes
<1>4. row[job[w]].status = "gone" \/ (row[job[w]].status = "running" /\ ~row[job[w]].backoff)
  BY <1>1 DEF Ownership, HolderOwns, BackoffIsFailed, Beating
<1> QED
  BY <1>1, <1>2, <1>3, <1>4, HolderStep DEF Beating

(* A rollback, and every step of a walk, a request or a restart.           *)
LEMMA DropOwnership ==
  ASSUME SafeDeployment, TypeInv, Ownership, NEW w \in Workers,
         NEW phase \in {"boot", "idle", "down"}, Drop(w, phase),
         phase = "boot" => w \in Loopers
  PROVE  Ownership'
<1>1. w \in Procs /\ row' = row /\ lapsed' = lapsed
  BY WorkerIsProc DEF Drop
<1>2. pc'[w] = phase /\ \A q \in Workers \ {w} : Same(q)
  BY <1>1, WorkerIsProc, EndTxTypes DEF Drop, Same, TypeInv, ProcTypes
<1> QED
  BY <1>1, <1>2, QuietStep DEF Quiet, Released

(* StaleWrite keeps ownership.                                             *)
LEMMA StaleWriteOwnership ==
  ASSUME SafeDeployment, TypeInv, Ownership, NEW w \in Workers, StaleWrite(w)
  PROVE  Ownership'
<1>1. Retreat(w) \in {"boot", "idle"} /\ (Retreat(w) = "boot" => w \in Loopers)
  BY DEF Retreat, Ownership, Recovering
<1> QED
  BY <1>1, DropOwnership DEF StaleWrite

(* DatabaseError keeps ownership.                                          *)
LEMMA DatabaseErrorOwnership ==
  ASSUME SafeDeployment, TypeInv, Ownership, NEW w \in Workers, DatabaseError(w)
  PROVE  Ownership'
<1>1. Retreat(w) \in {"boot", "idle"} /\ (Retreat(w) = "boot" => w \in Loopers)
  BY DEF Retreat, Ownership, Recovering
<1> QED
  BY <1>1, DropOwnership DEF DatabaseError

(* Crash keeps ownership.                                                  *)
LEMMA CrashOwnership ==
  ASSUME SafeDeployment, TypeInv, Ownership, NEW w \in Workers, Crash(w)
  PROVE  Ownership'
  BY DropOwnership DEF Crash

(* Return keeps ownership.                                                 *)
LEMMA ReturnOwnership ==
  ASSUME SafeDeployment, TypeInv, Ownership, NEW w \in Workers, Return(w)
  PROVE  Ownership'
<1>1. w \in Procs /\ row' = row /\ lapsed' = lapsed
  BY WorkerIsProc DEF Return, rowVars
<1>2. pc'[w] \in {"boot", "idle"} /\ (pc'[w] = "boot" => w \in Loopers) /\ \A q \in Workers \ {w} : Same(q)
  BY <1>1, WorkerIsProc DEF Return, Same, TypeInv, ProcTypes
<1> QED
  BY <1>1, <1>2, QuietStep DEF Quiet, Released

(* DrainReturn keeps ownership.                                            *)
LEMMA DrainReturnOwnership ==
  ASSUME SafeDeployment, TypeInv, Ownership, NEW w \in Workers, DrainReturn(w)
  PROVE  Ownership'
<1>1. w \in Procs /\ row' = row /\ lapsed' = lapsed
  BY WorkerIsProc DEF DrainReturn, rowVars
<1>2. pc'[w] = "drained" /\ \A q \in Workers \ {w} : Same(q)
  BY <1>1, WorkerIsProc DEF DrainReturn, Same, TypeInv, ProcTypes
<1> QED
  BY <1>1, <1>2, QuietStep DEF Quiet, Released

(* DrainTimeout keeps ownership.                                           *)
LEMMA DrainTimeoutOwnership ==
  ASSUME SafeDeployment, TypeInv, Ownership, NEW w \in Workers, DrainTimeout(w)
  PROVE  Ownership'
<1>1. w \in Procs /\ row' = row /\ lapsed' = lapsed
  BY WorkerIsProc DEF DrainTimeout, rowVars
<1>2. pc'[w] = "down" /\ \A q \in Workers \ {w} : Same(q)
  BY <1>1, WorkerIsProc DEF DrainTimeout, Same, TypeInv, ProcTypes
<1> QED
  BY <1>1, <1>2, QuietStep DEF Quiet, Released

(* SettleStop keeps ownership.                                             *)
LEMMA SettleStopOwnership ==
  ASSUME SafeDeployment, TypeInv, Ownership, NEW p \in Procs, SettleStop(p)
  PROVE  Ownership'
<1>1. row' = row /\ lapsed' = lapsed
  BY DEF SettleStop, rowVars
<1>2. pc'[p] = "idle" /\ \A q \in Workers \ {p} : Same(q)
  BY WorkerIsProc DEF SettleStop, Same, TypeInv, ProcTypes
<1> QED
  BY <1>1, <1>2, QuietStep DEF Quiet, Released

(* SettleLock keeps ownership.                                             *)
LEMMA SettleLockOwnership ==
  ASSUME SafeDeployment, TypeInv, Ownership, NEW p \in Procs, SettleLock(p)
  PROVE  Ownership'
<1>1. row' = row /\ lapsed' = lapsed
  BY DEF SettleLock, rowVars
<1>2. pc'[p] = "settling" /\ \A q \in Workers \ {p} : Same(q)
  BY WorkerIsProc DEF SettleLock, Same, TypeInv, ProcTypes
<1> QED
  BY <1>1, <1>2, QuietStep DEF Quiet, Released

(* Enqueueing touches no row that somebody holds.                          *)
LEMMA EnqueuedReleases ==
  ASSUME TypeInv, NEW p, NEW S, row' = EnqueuedRows(row, S), NEW t \in Tasks
  PROVE  Released(p, t)
  BY DEF EnqueuedRows, AbsentRow, Released

(* SettleCommit keeps ownership.                                           *)
LEMMA SettleCommitOwnership ==
  ASSUME SafeDeployment, TypeInv, Ownership, NEW p \in Procs, SettleCommit(p)
  PROVE  Ownership'
<1>1. \A t \in Tasks : Released(p, t)
  BY EnqueuedReleases DEF SettleCommit
<1>2. pc'[p] \in {"idle", "walking"} /\ UNCHANGED lapsed
  BY DEF SettleCommit, TypeInv, ProcTypes
<1>3. \A q \in Workers \ {p} : Same(q)
  BY WorkerIsProc, EndTxTypes DEF SettleCommit, Same, TypeInv, ProcTypes
<1> QED
  BY <1>1, <1>2, <1>3, QuietStep DEF Quiet

(* Upload keeps ownership.                                                 *)
LEMMA UploadOwnership ==
  ASSUME SafeDeployment, TypeInv, Ownership, NEW c \in Clients, NEW n \in Nodes, Upload(c, n)
  PROVE  Ownership'
<1>1. \A t \in Tasks : Released(c, t)
  BY EnqueuedReleases DEF Upload
<1> QED
  BY <1>1, WorkerIsProc, QuietStep DEF Upload, Same, procVars

(* Delete keeps ownership.                                                 *)
LEMMA DeleteOwnership ==
  ASSUME SafeDeployment, TypeInv, Ownership, NEW c \in Clients, NEW n \in Nodes, Delete(c, n)
  PROVE  Ownership'
<1>1. ASSUME NEW t \in Tasks PROVE Released(c, t)
  <2>1. row'[t] = row[t] \/ row'[t] = [row[t] EXCEPT !.status = "gone"]
    BY DEF Delete
  <2>2. row[t] \in Rows
    BY DEF TypeInv, RowTypes
  <2> QED
    BY <2>1, <2>2 DEF Released, Rows
<1>2. \A q \in Workers : Same(q)
  BY WorkerIsProc DEF Delete, Same, TypeInv, ProcTypes, Procs
<1> QED
  BY <1>1, <1>2, WorkerIsProc, QuietStep DEF Delete

(* BackoffPasses keeps ownership.                                          *)
LEMMA BackoffPassesOwnership ==
  ASSUME SafeDeployment, TypeInv, Ownership, NEW t \in Tasks, BackoffPasses(t)
  PROVE  Ownership'
<1>1. ASSUME NEW u \in Tasks PROVE Released(NoOne, u)
  BY DEF BackoffPasses, Released, TypeInv, RowTypes, Rows, Ownership, BackoffIsFailed
<1>2. \A q \in Workers : Same(q)
  BY DEF BackoffPasses, Same, procVars
<1> QED
  BY <1>1, <1>2, NoOneAssumption, QuietStep DEF BackoffPasses

(* LeaseExpires keeps ownership.                                           *)
LEMMA LeaseExpiresOwnership ==
  ASSUME SafeDeployment, TypeInv, Ownership, NEW t \in Tasks, LeaseExpires(t)
  PROVE  Ownership'
<1>1. row' = row /\ pc' = pc /\ job' = job /\ loaded' = loaded
  BY DEF LeaseExpires, procVars
<1>2. /\ HolderOwns' /\ OneExecutor' /\ FreshCopy' /\ FreshRecovery'
      /\ OneReaper' /\ Recovering' /\ BackoffIsFailed'
  BY <1>1 DEF Ownership, HolderOwns, OneExecutor, FreshCopy, FreshRecovery, OneReaper,
              Recovering, BackoffIsFailed, Held, IsBeating
<1>3. LapsedIsAbandoned'
  BY <1>1 DEF LeaseExpires, Ownership, LapsedIsAbandoned, IsBeating, SafeDeployment, TypeInv, RowTypes
<1> QED
  BY <1>2, <1>3 DEF Ownership

(* Beat keeps ownership.                                                   *)
LEMMA BeatOwnership ==
  ASSUME SafeDeployment, TypeInv, Ownership, NEW w \in Workers, Beat(w)
  PROVE  Ownership'
<1>1. row' = row /\ pc' = pc /\ job' = job /\ loaded' = loaded
  BY DEF Beat, procVars
<1>2. /\ HolderOwns' /\ OneExecutor' /\ FreshCopy' /\ FreshRecovery'
      /\ OneReaper' /\ Recovering' /\ BackoffIsFailed'
  BY <1>1 DEF Ownership, HolderOwns, OneExecutor, FreshCopy, FreshRecovery, OneReaper,
              Recovering, BackoffIsFailed, Held, IsBeating
<1>3. LapsedIsAbandoned'
  BY <1>1 DEF Beat, Ownership, LapsedIsAbandoned, IsBeating, SafeDeployment, TypeInv, RowTypes
<1> QED
  BY <1>2, <1>3 DEF Ownership

(* Nobody holds anything at the start.                                     *)
LEMMA InitOwnership == Init => Ownership
<1> SUFFICES ASSUME Init PROVE Ownership
  OBVIOUS
<1>1. \A w \in Workers : /\ pc[w] \in {"boot", "idle"} /\ Held(w) = {}
                         /\ pc[w] = "boot" => w \in Loopers
  BY WorkerIsProc DEF Init, Held, Nothing
<1>2. \A t \in Tasks : row[t].status \in {"pending", "absent"} /\ ~row[t].backoff
  BY DEF Init, AbsentRow
<1> QED
  BY <1>1, <1>2
     DEF Ownership, HolderOwns, OneExecutor, FreshCopy, FreshRecovery, LapsedIsAbandoned,
         OneReaper, Recovering, BackoffIsFailed, Beating, IsBeating, Reapable

(* In a safe deployment ownership is an invariant of the queue.            *)
LEMMA OwnershipStep ==
  ASSUME SafeDeployment, TypeInv, Ownership, [Next]_vars
  PROVE  Ownership'
<1>1. ASSUME NEW w \in Workers, NEW t \in Tasks, ClaimNext(w, t) PROVE Ownership'
  BY <1>1, ClaimOwnership
<1>2. ASSUME NEW w \in Workers, Run(w) PROVE Ownership'
  BY <1>2, MarkLoadOwnership, MarkCommitOwnership, HandleLoadOwnership,
     HandleCommitOwnership, HandleRaiseOwnership, RecordLoadOwnership,
     RecordCommitOwnership, StaleWriteOwnership DEF Run
<1>3. ASSUME NEW w \in Workers, Recover(w) PROVE Ownership'
  BY <1>3, RecoverLoadOwnership, ReapLoadOwnership, RequeueCommitOwnership DEF Recover
<1>4. ASSUME NEW w \in Workers, Beat(w) \/ Return(w) \/ DrainReturn(w) PROVE Ownership'
  BY <1>4, BeatOwnership, ReturnOwnership, DrainReturnOwnership
<1>5. ASSUME NEW w \in Workers, Fault(w) PROVE Ownership'
  BY <1>5, DatabaseErrorOwnership, CrashOwnership, DrainTimeoutOwnership DEF Fault
<1>6. ASSUME NEW p \in Procs, Walk(p) PROVE Ownership'
  BY <1>6, SettleStopOwnership, SettleLockOwnership, SettleCommitOwnership DEF Walk
<1>7. ASSUME NEW c \in Clients, Request(c) PROVE Ownership'
  BY <1>7, UploadOwnership, DeleteOwnership DEF Request
<1>8. ASSUME NEW t \in Tasks, LeaseExpires(t) \/ BackoffPasses(t) PROVE Ownership'
  BY <1>8, LeaseExpiresOwnership, BackoffPassesOwnership
<1>9. ASSUME UNCHANGED vars PROVE Ownership'
  BY <1>9 DEF vars, rowVars, procVars, Ownership, HolderOwns, OneExecutor, FreshCopy,
     FreshRecovery, LapsedIsAbandoned, OneReaper, Recovering, BackoffIsFailed, Held, IsBeating
<1> QED
  BY <1>1, <1>2, <1>3, <1>4, <1>5, <1>6, <1>7, <1>8, <1>9 DEF Next

(* OneExecutor, and with it everything Ownership says.                     *)
THEOREM OneExecutorHolds ==
  ASSUME SafeDeployment
  PROVE  Spec => []OneExecutor
<1>1. Init => TypeInv /\ Ownership
  BY TypeInit, InitOwnership
<1>2. TypeInv /\ Ownership /\ [Next]_vars => TypeInv' /\ Ownership'
  BY TypeStep, OwnershipStep
<1>3. Ownership => OneExecutor
  BY DEF Ownership
<1> QED
  BY <1>1, <1>2, <1>3, PTL DEF Spec

-----------------------------------------------------------------------------
(* In a safe deployment the queue implements the lifecycle of a task.      *)

(* The sets of rows an action names are sets of tasks.                     *)
LEMMA EnqueueIsEnqueue ==
  ASSUME NEW S \in SUBSET Tasks, row' = EnqueuedRows(row, S), UNCHANGED effects
  PROVE  LifecycleNext
<1>1. Enqueue(S)
  BY DEF Enqueue, EnqueuedRows
<1> QED
  BY <1>1 DEF LifecycleNext

(* The queue starts where a lifecycle may start.                           *)
LEMMA InitRefines == Init => LifecycleInit
  BY DEF Init, LifecycleInit

(* Every step of the queue is a lifecycle step or leaves rows and commits  *)
(* alone.                                                                  *)
LEMMA StepRefines ==
  ASSUME SafeDeployment, TypeInv, Ownership, [Next]_vars
  PROVE  LifecycleNext \/ UNCHANGED <<row, effects>>
<1>1. ASSUME NEW w \in Workers, NEW t \in Tasks, ClaimNext(w, t) PROVE LifecycleNext
  <2>1. Claim(t, w)
    BY <1>1 DEF ClaimNext, Claim, history
  <2> QED
    BY <2>1 DEF LifecycleNext
<1>2. ASSUME NEW w \in Workers, MarkCommit(w)
      PROVE  LifecycleNext \/ UNCHANGED <<row, effects>>
  <2>1. CASE row[job[w]].status # "gone"
    <3>1. job[w] \in Tasks /\ Start(job[w])
      BY <1>2, <2>1, MarkCommitRow
         DEF MarkCommit, Start, history, TypeInv, ProcTypes, HasTask, Beating
    <3> QED
      BY <3>1 DEF LifecycleNext
  <2>2. CASE row[job[w]].status = "gone"
    BY <1>2, <2>2 DEF MarkCommit, NoneGone, history
  <2> QED
    BY <2>1, <2>2
<1>3. ASSUME NEW w \in Workers, HandleCommit(w) PROVE LifecycleNext
  <2>1. job[w] \in Tasks /\ Spawned(job[w]) \in SUBSET Tasks
    BY <1>3 DEF HandleCommit, TypeInv, ProcTypes, HasTask, Beating, Spawned
  <2>2. Complete(job[w], Spawned(job[w]))
    BY <1>3, HandleCommitRow
       DEF HandleCommit, Complete, EnqueuedRows, Reapable
  <2> QED
    BY <2>1, <2>2 DEF LifecycleNext
<1>4. ASSUME NEW p \in Procs, NEW retryable \in BOOLEAN, NEW delayed \in BOOLEAN,
             FailHeld(p, retryable, delayed), UNCHANGED effects,
             \A t \in Held(p) : row[t].status \in Reapable /\ loaded[p][t] = row[t]
      PROVE  LifecycleNext
  <2>1. Held(p) \in SUBSET Tasks
    BY DEF TypeInv, TxTypes
  <2>2. Fail(Held(p), retryable, delayed)
    BY <1>4, FailHeldFresh DEF Fail
  <2> QED
    BY <2>1, <2>2 DEF LifecycleNext
<1>5. ASSUME NEW w \in Workers, NEW retryable \in BOOLEAN, RecordCommit(w, retryable)
      PROVE  LifecycleNext
  <2>1. Held(w) = {job[w]} /\ row[job[w]].status # "gone" /\ pc[w] = "recording"
    BY <1>5 DEF RecordCommit, TypeInv, HasCopy, FailHeld, NoneGone
  <2>2. row[job[w]].status \in Reapable /\ loaded[w][job[w]] = row[job[w]]
    BY <2>1 DEF Ownership, HolderOwns, FreshCopy, Beating, Reapable
  <2> QED
    BY <1>4, <1>5, <2>1, <2>2, WorkerIsProc DEF RecordCommit, history
<1>6. ASSUME NEW w \in Workers, RequeueCommit(w) PROVE LifecycleNext
  <2>1. \A t \in Held(w) : row[t].status \in Reapable /\ loaded[w][t] = row[t]
    BY <1>6 DEF RequeueCommit, Ownership, FreshRecovery, FailHeld, NoneGone
  <2> QED
    BY <1>4, <1>6, <2>1, WorkerIsProc DEF RequeueCommit, history
<1>7. ASSUME NEW t \in Tasks, BackoffPasses(t) PROVE LifecycleNext
  <2>1. BackoffEnds(t)
    BY <1>7 DEF BackoffPasses, BackoffEnds, history
  <2> QED
    BY <2>1 DEF LifecycleNext
<1>8. ASSUME NEW p \in Procs, SettleCommit(p) PROVE LifecycleNext
  BY <1>8, EnqueueIsEnqueue DEF SettleCommit, history, TypeInv, ProcTypes
<1>9. ASSUME NEW c \in Clients, NEW n \in Nodes, Upload(c, n) PROVE LifecycleNext
  BY <1>9, EnqueueIsEnqueue DEF Upload, QueuedOn, history
<1>10. ASSUME NEW c \in Clients, NEW n \in Nodes, Delete(c, n) PROVE LifecycleNext
  <2> DEFINE doomed == {m \in Descendants(n) : Exists(m)}
             S == {t \in Tasks : Scope[t] \in doomed /\ row[t].status \notin NoRow}
  <2>1. Cascade(S)
    BY <1>10 DEF Delete, Cascade, history
  <2> QED
    BY <2>1 DEF LifecycleNext
<1>11. ASSUME NEW w \in Workers,
              \/ MarkLoad(w) \/ HandleLoad(w) \/ HandleRaise(w) \/ RecordLoad(w)
              \/ StaleWrite(w) \/ RecoverLoad(w) \/ ReapLoad(w)
              \/ Beat(w) \/ Return(w) \/ DrainReturn(w) \/ Fault(w)
       PROVE  UNCHANGED <<row, effects>>
  BY <1>11 DEF MarkLoad, HandleLoad, HandleRaise, RecordLoad, StaleWrite, RecoverLoad,
     ReapLoad, Beat, Return, DrainReturn, Fault, DatabaseError, Crash, DrainTimeout, Drop,
     rowVars, history
<1>12. ASSUME NEW p \in Procs, SettleStop(p) \/ SettleLock(p)
       PROVE  UNCHANGED <<row, effects>>
  BY <1>12 DEF SettleStop, SettleLock, rowVars, history
<1>13. ASSUME NEW t \in Tasks, LeaseExpires(t) PROVE UNCHANGED <<row, effects>>
  BY <1>13 DEF LeaseExpires, history
<1>14. ASSUME UNCHANGED vars PROVE UNCHANGED <<row, effects>>
  BY <1>14 DEF vars, rowVars, history
<1> QED
  BY <1>1, <1>2, <1>3, <1>5, <1>6, <1>7, <1>8, <1>9, <1>10, <1>11, <1>12, <1>13, <1>14
     DEF Next, Run, Recover, Walk, Request

(* The queue implements the lifecycle.                                     *)
THEOREM QueueImplementsLifecycle ==
  ASSUME SafeDeployment
  PROVE  Spec => LifecycleSpec
<1>1. Init => TypeInv /\ Ownership /\ LifecycleInit
  BY TypeInit, InitOwnership, InitRefines
<1>2. TypeInv /\ Ownership /\ [Next]_vars => TypeInv' /\ Ownership'
  BY TypeStep, OwnershipStep
<1>3. TypeInv /\ Ownership /\ [Next]_vars => [LifecycleNext]_lifecycle
  BY StepRefines DEF lifecycle
<1> QED
  BY <1>1, <1>2, <1>3, PTL DEF Spec, LifecycleSpec

(* So conflicting reservations, double commits and work before its         *)
(* dependencies are impossible in a safe deployment.                       *)
THEOREM QueueSafety ==
  ASSUME SafeDeployment
  PROVE  Spec => [](NoConflictingReservations /\ WorkCommittedOnce /\ DependenciesFirst)
BY QueueImplementsLifecycle, LifecycleSafety, PTL

(* In particular no two claims ever reserve regions that conflict, however *)
(* claims, reapers and deletions interleave.                               *)
THEOREM ReservationsAreExclusive ==
  ASSUME SafeDeployment
  PROVE  Spec => []NoConflictingReservations
BY QueueSafety, PTL

(* And a completed task is never taken back.                               *)
THEOREM QueueIsMonotone ==
  ASSUME SafeDeployment
  PROVE  Spec => CompletedIsFinal
BY QueueImplementsLifecycle, LifecycleIsMonotone, PTL

-----------------------------------------------------------------------------
(* What one lifecycle step does to one row's retries and final failure.    *)
RetryStep(t) ==
  \/ row'[t] = row[t]
  \/ row[t].status = "absent" /\ row'[t] = [AbsentRow EXCEPT !.status = "pending"]
  \/ /\ row[t].status \in {"pending", "failed"} /\ ~FailedForGood(row[t])
     /\ row'[t].status = "claimed"
     /\ row'[t].retries = IF row[t].status = "failed" THEN row[t].retries + 1
                                                      ELSE row[t].retries
  \/ /\ row[t].status \in Reserving /\ row'[t].retries = row[t].retries
     /\ row'[t].status \in {"running", "batched", "completed", "failed"}
  \/ row'[t] = [row[t] EXCEPT !.backoff = FALSE]
  \/ row'[t] = [row[t] EXCEPT !.status = "gone"]

(* The same, for every row and every step of the lifecycle.                *)
LEMMA RetrySteps ==
  ASSUME row \in [Tasks -> Rows], LifecycleNext \/ UNCHANGED <<row, effects>>, NEW t \in Tasks
  PROVE  RetryStep(t)
<1>0. row[t] \in Rows
  OBVIOUS
<1>1. ASSUME NEW u \in Tasks, NEW w \in Workers, Claim(u, w) PROVE RetryStep(t)
  <2>1. CASE t # u
    BY <1>1, <2>1 DEF Claim, RetryStep
  <2>2. CASE t = u
    <3>1. row'[t] = Claimed(row[t], w) /\ Due(row[t])
      BY <1>1, <2>2 DEF Claim, Claimable
    <3> QED
      BY <1>0, <3>1 DEF Claimed, Due, HasRetryLeft, FailedForGood, Rows, RetryStep
  <2> QED
    BY <2>1, <2>2
<1>2. ASSUME NEW u \in Tasks, Start(u) PROVE RetryStep(t)
  BY <1>0, <1>2 DEF Start, RetryStep, Rows, Reserving
<1>3. ASSUME NEW u \in Tasks, BackoffEnds(u) PROVE RetryStep(t)
  BY <1>3 DEF BackoffEnds, RetryStep
<1>4. ASSUME NEW u \in Tasks, NEW S \in SUBSET Tasks, Complete(u, S) PROVE RetryStep(t)
  <2>1. CASE t # u
    BY <1>4, <2>1 DEF Complete, EnqueuedRows, RetryStep
  <2>2. CASE t = u
    <3>1. Completed(row[t]).status = "completed" /\ Completed(row[t]).retries = row[t].retries
      BY <1>0 DEF Completed, Rows
    <3>2. row'[t] = Completed(row[t]) /\ row[t].status \in Reapable
      BY <1>4, <2>2, <3>1 DEF Complete, EnqueuedRows
    <3> QED
      BY <3>1, <3>2 DEF RetryStep, Reserving, Reapable
  <2> QED
    BY <2>1, <2>2
<1>5. ASSUME NEW S \in SUBSET Tasks, Enqueue(S) PROVE RetryStep(t)
  BY <1>5 DEF Enqueue, EnqueuedRows, RetryStep
<1>6. ASSUME NEW S \in SUBSET Tasks, Cascade(S) PROVE RetryStep(t)
  BY <1>6 DEF Cascade, RetryStep
<1>7. ASSUME NEW S \in SUBSET Tasks, Park(S) PROVE RetryStep(t)
  BY <1>0, <1>7 DEF Park, RetryStep, Rows, Reserving, Reapable
<1>8. ASSUME NEW retryable, NEW delayed
      PROVE  /\ Failed(row[t], retryable, delayed).status = "failed"
             /\ Failed(row[t], retryable, delayed).retries = row[t].retries
  BY <1>0 DEF Failed, Rows
<1>9. ASSUME NEW done \in SUBSET Parked, NEW refused \in SUBSET Parked,
             NEW retryable \in [refused -> BOOLEAN], NEW delayed \in BOOLEAN,
             Deliver(done, refused, retryable, delayed)
      PROVE  RetryStep(t)
  <2>1. Completed(row[t]).status = "completed" /\ Completed(row[t]).retries = row[t].retries
    BY <1>0 DEF Completed, Rows
  <2>2. CASE t \in done
    BY <1>9, <2>1, <2>2 DEF Deliver, Parked, RetryStep, Reserving
  <2>3. CASE t \in refused /\ t \notin done
    <3>1. row'[t] = Failed(row[t], retryable[t], delayed) /\ row[t].status = "batched"
      BY <1>9, <2>3 DEF Deliver, Parked
    <3> QED
      BY <1>8, <3>1 DEF RetryStep, Reserving
  <2>4. CASE t \notin done \cup refused
    BY <1>9, <2>4 DEF Deliver, RetryStep
  <2> QED
    BY <2>2, <2>3, <2>4
<1>10. ASSUME NEW S \in SUBSET Tasks, NEW retryable \in BOOLEAN, NEW delayed \in BOOLEAN,
              Fail(S, retryable, delayed)
       PROVE  RetryStep(t)
  <2>1. CASE t \in S
    <3>1. row'[t] = Failed(row[t], retryable, delayed) /\ row[t].status \in Reapable
      BY <1>10, <2>1 DEF Fail
    <3> QED
      BY <1>8, <3>1 DEF RetryStep, Reserving, Reapable
  <2>2. CASE t \notin S
    BY <1>10, <2>2 DEF Fail, RetryStep
  <2> QED
    BY <2>1, <2>2
<1>11. CASE UNCHANGED <<row, effects>>
  BY <1>11 DEF RetryStep
<1> QED
  BY <1>1, <1>2, <1>3, <1>4, <1>5, <1>6, <1>7, <1>9, <1>10, <1>11 DEF LifecycleNext

-----------------------------------------------------------------------------
(* What holds in every deployment, also where a worker outlasts its lease  *)
(* or a recovery frees a live claim, so that copies are written back over  *)
(* rows that have moved on. No copy carries another retry_count or takes a *)
(* row back to `pending`, and only a handler's commit completes one.       *)
Early == {"claimed", "marking", "marked"}

(* The claims that a row says were taken of it.                            *)
Tries(r) == IF r.status \in {"absent", "pending"} THEN 0 ELSE r.retries + 1

(* A row's retries and status after a step: no fewer claims than before.   *)
MovesOn(t) ==
  \/ row'[t].status = row[t].status /\ row'[t].retries = row[t].retries
  \/ row[t].status = "absent" /\ row'[t].status = "pending"
  \/ row'[t].status \notin {"absent", "pending"} /\ row'[t].retries >= row[t].retries

(* A flush leaves the count alone, and the status or what is written of it. *)
LEMMA FlushMoves ==
  ASSUME NEW current \in Rows, NEW copy \in Rows, NEW written \in Rows,
         written.retries = copy.retries
  PROVE  /\ Flush(current, copy, written).retries = current.retries
         /\ Flush(current, copy, written).status \in {current.status, written.status}
  BY DEF Flush, Rows

(* Failing rows from copies.                                               *)
LEMMA FailMoves ==
  ASSUME TypeInv, NEW p \in Procs, NEW retryable \in BOOLEAN, NEW delayed \in BOOLEAN,
         FailHeld(p, retryable, delayed), NEW t \in Tasks
  PROVE  MovesOn(t) /\ row'[t].status \in {row[t].status, "failed"}
<1>1. CASE t \notin Held(p)
  BY <1>1 DEF FailHeld, MovesOn
<1>2. CASE t \in Held(p)
  <2> DEFINE written == Failed(loaded[p][t], retryable, delayed)
  <2>1. row[t] \in Rows /\ loaded[p][t] \in Rows /\ row[t].retries \in Nat
    BY <1>2, RowAssumption DEF TypeInv, RowTypes, TxTypes, Rows
  <2>2. written \in Rows /\ written.retries = loaded[p][t].retries /\ written.status = "failed"
    BY <2>1 DEF Failed, Rows, Statuses
  <2>3. row'[t] = Flush(row[t], loaded[p][t], written)
    BY <1>2 DEF FailHeld
  <2> HIDE DEF written
  <2> QED
    BY <2>1, <2>2, <2>3, FlushMoves DEF MovesOn
<1> QED
  BY <1>1, <1>2

(* Enqueuing.                                                              *)
LEMMA EnqueueMoves ==
  ASSUME NEW rows \in [Tasks -> Rows], NEW S, NEW t \in Tasks
  PROVE  \/ EnqueuedRows(rows, S)[t] = rows[t]
         \/ rows[t].status = "absent" /\ EnqueuedRows(rows, S)[t].status = "pending"
  BY DEF EnqueuedRows, AbsentRow

(* Every step, of every row.                                               *)
LEMMA RowMoves ==
  ASSUME TypeInv, [Next]_vars, NEW t \in Tasks
  PROVE  /\ MovesOn(t)
         /\ row'[t].status = "completed" =>
              \/ row[t].status = "completed"
              \/ \E w \in Workers : HandleCommit(w) /\ job[w] = t
<1> DEFINE Done == \E w \in Workers : HandleCommit(w) /\ job[w] = t
           Good == MovesOn(t) /\ (row'[t].status = "completed" => row[t].status = "completed" \/ Done)
<1>0. row \in [Tasks -> Rows] /\ row[t] \in Rows /\ row[t].retries \in Nat
  BY RowAssumption DEF TypeInv, RowTypes, Rows
<1>1. CASE row' = row
  BY <1>1 DEF MovesOn
<1>2. ASSUME NEW w \in Workers, NEW u \in Tasks, ClaimNext(w, u) PROVE Good
  <2>1. CASE t # u
    BY <1>0, <1>2, <2>1 DEF ClaimNext, MovesOn
  <2>2. CASE t = u
    <3>1. row'[t] = Claimed(row[t], w)
      BY <1>0, <1>2, <2>2 DEF ClaimNext
    <3> QED
      BY <1>0, <3>1 DEF Claimed, Rows, MovesOn
  <2> QED
    BY <2>1, <2>2
<1>3. ASSUME NEW w \in Workers, MarkCommit(w) PROVE Good
  <2>1. CASE row'[t] = row[t]
    BY <2>1 DEF MovesOn
  <2>2. CASE row'[t] # row[t]
    <3> DEFINE written == [loaded[w][t] EXCEPT !.status = "running"]
    <3>1. t = job[w] /\ row'[t] = Flush(row[t], loaded[w][t], written)
      BY <1>0, <1>3, <2>2 DEF MarkCommit
    <3>2. loaded[w][t] \in Rows
      BY <1>3, <3>1, WorkerIsProc DEF MarkCommit, TypeInv, TxTypes, HasCopy
    <3>3. written \in Rows /\ written.retries = loaded[w][t].retries /\ written.status = "running"
      BY <3>2 DEF Rows, Statuses, Reserving
    <3> HIDE DEF written
    <3> QED
      BY <1>0, <3>1, <3>2, <3>3, FlushMoves DEF MovesOn
  <2> QED
    BY <2>1, <2>2
<1>4. ASSUME NEW w \in Workers, HandleCommit(w) PROVE Good
  <2> DEFINE written == Completed(loaded[w][job[w]])
             done == [row EXCEPT ![job[w]] = Flush(@, loaded[w][job[w]], written)]
  <2>1. job[w] \in Tasks /\ loaded[w][job[w]] \in Rows
    BY <1>4, WorkerIsProc DEF HandleCommit, TypeInv, TxTypes, HasCopy, ProcTypes, HasTask, Beating
  <2>2. written \in Rows /\ written.retries = loaded[w][job[w]].retries
    BY <2>1 DEF Completed, Rows, Statuses
  <2>3. written.status = "completed"
    BY <2>1 DEF Completed, Rows
  <2>4. done \in [Tasks -> Rows]
    BY <1>0, <2>1, <2>2, FlushType
  <2>5. row' = EnqueuedRows(done, Spawned(job[w]))
    BY <1>4 DEF HandleCommit
  <2>6. \/ row'[t] = done[t]
        \/ done[t].status = "absent" /\ row'[t].status = "pending"
    BY <2>4, <2>5, EnqueueMoves
  <2>7. CASE t # job[w]
    BY <1>0, <2>6, <2>7 DEF MovesOn
  <2>8. CASE t = job[w]
    <3>1. /\ done[t].retries = row[t].retries
          /\ done[t].status \in {row[t].status, "completed"}
      BY <1>0, <2>1, <2>2, <2>3, <2>8, FlushMoves
    <3> HIDE DEF done
    <3> QED
      BY <1>0, <1>4, <2>6, <2>8, <3>1 DEF MovesOn
  <2> QED
    BY <2>7, <2>8
<1>5. ASSUME NEW w \in Workers, RequeueCommit(w) \/ \E retryable \in BOOLEAN : RecordCommit(w, retryable)
      PROVE  Good
  <2>1. PICK retryable \in BOOLEAN, delayed \in BOOLEAN : FailHeld(w, retryable, delayed)
    BY <1>5 DEF RequeueCommit, RecordCommit
  <2> QED
    BY <2>1, WorkerIsProc, FailMoves
<1>6. ASSUME NEW u \in Tasks, BackoffPasses(u) PROVE Good
  BY <1>0, <1>6 DEF BackoffPasses, Rows, MovesOn
<1>7. ASSUME NEW S, row' = EnqueuedRows(row, S) PROVE Good
  BY <1>0, <1>7, EnqueueMoves DEF MovesOn
<1>8. ASSUME NEW c \in Clients, NEW n \in Nodes, Delete(c, n) PROVE Good
  BY <1>0, <1>8 DEF Delete, Rows, NoRow, MovesOn
<1>9. ASSUME NEW p \in Procs, SettleCommit(p) PROVE Good
  BY <1>7, <1>9 DEF SettleCommit
<1>10. ASSUME NEW c \in Clients, NEW n \in Nodes, Upload(c, n) PROVE Good
  BY <1>7, <1>10 DEF Upload
<1> HIDE DEF Good
<1>11. Good
  BY <1>1, <1>2, <1>3, <1>4, <1>5, <1>6, <1>8, <1>9, <1>10
     DEF Good, Next, Run, Recover, Walk, Request, Fault, MarkLoad, HandleLoad, HandleRaise, RecordLoad,
         StaleWrite, RecoverLoad, ReapLoad, Beat, Return, DrainReturn, DatabaseError, Crash,
         DrainTimeout, Drop, SettleStop, SettleLock, LeaseExpires, vars, rowVars
<1> QED
  BY <1>11 DEF Good

(* A worker that works on a task did so before, or has just claimed it; and *)
(* it does not go back to before the begin.                                *)
LEMMA JobStep ==
  ASSUME TypeInv, [Next]_vars, NEW w \in Workers, pc'[w] \in Beating
  PROVE  \/ ClaimNext(w, job'[w]) /\ job'[w] \in Tasks
         \/ /\ pc[w] \in Beating /\ job'[w] = job[w]
            /\ pc'[w] \in Early => pc[w] \in Early
<1> DEFINE Kept == /\ pc[w] \in Beating /\ job'[w] = job[w]
                   /\ pc'[w] \in Early => pc[w] \in Early
<1>0. w \in Procs
  BY WorkerIsProc
<1>1. ASSUME NEW v \in Workers,
             MarkLoad(v) \/ MarkCommit(v) \/ HandleLoad(v) \/ RecordLoad(v)
      PROVE  Kept
  BY <1>0, <1>1 DEF MarkLoad, MarkCommit, HandleLoad, RecordLoad, GoIdle, TypeInv, ProcTypes,
     Beating, Early
<1>2. ASSUME NEW v \in Workers,
             \/ HandleCommit(v) \/ HandleRaise(v) \/ RecoverLoad(v) \/ ReapLoad(v)
             \/ RequeueCommit(v) \/ Return(v) \/ DrainReturn(v) \/ DrainTimeout(v)
             \/ \E retryable \in BOOLEAN : RecordCommit(v, retryable)
      PROVE  Kept
  BY <1>0, <1>2 DEF HandleCommit, HandleRaise, RecoverLoad, ReapLoad, RequeueCommit, Return,
     DrainReturn, DrainTimeout, RecordCommit, TypeInv, ProcTypes, Beating, Early
<1>3. ASSUME NEW v \in Workers, StaleWrite(v) \/ DatabaseError(v) \/ Crash(v) PROVE Kept
  BY <1>0, <1>3 DEF StaleWrite, DatabaseError, Crash, Drop, Retreat, TypeInv, ProcTypes, Beating
<1>4. ASSUME NEW v \in Workers, NEW t \in Tasks, ClaimNext(v, t)
      PROVE  Kept \/ (ClaimNext(w, job'[w]) /\ job'[w] \in Tasks)
  <2>1. CASE v # w
    BY <1>0, <1>4, <2>1 DEF ClaimNext, TypeInv, ProcTypes
  <2>2. CASE v = w
    <3>1. job'[w] = t
      BY <1>0, <1>4, <2>2 DEF ClaimNext, TypeInv, ProcTypes
    <3> QED
      BY <1>4, <2>2, <3>1
  <2> QED
    BY <2>1, <2>2
<1>5. ASSUME NEW p \in Procs, Walk(p) PROVE Kept
  BY <1>0, <1>5 DEF Walk, SettleStop, SettleLock, SettleCommit, TypeInv, ProcTypes, Beating
<1>6. ASSUME NEW c \in Clients, Request(c) PROVE Kept
  BY <1>0, <1>6 DEF Request, Upload, Delete, procVars, TypeInv, ProcTypes, Beating
<1>7. ASSUME \/ \E u \in Tasks : LeaseExpires(u) \/ BackoffPasses(u)
             \/ \E v \in Workers : Beat(v)
             \/ UNCHANGED vars
      PROVE  Kept
  BY <1>7 DEF LeaseExpires, BackoffPasses, Beat, vars, procVars
<1> QED
  BY <1>1, <1>2, <1>3, <1>4, <1>5, <1>6, <1>7 DEF Next, Run, Recover, Fault

(* Effects are the commits of handlers, starts their beginnings.           *)
LEMMA EffectsStep ==
  ASSUME TypeInv, [Next]_vars, NEW t \in Tasks
  PROVE  /\ effects[t] \in Nat /\ effects'[t] >= effects[t]
         /\ effects'[t] # effects[t] => \E w \in Workers : HandleCommit(w) /\ job[w] = t
         /\ \A w \in Workers : HandleCommit(w) /\ job[w] = t => effects'[t] > 0
<1>1. effects \in [Tasks -> Nat]
  BY DEF TypeInv, HistoryTypes
<1>2. ASSUME NEW w \in Workers, HandleCommit(w)
      PROVE  effects'[t] = IF job[w] = t THEN effects[t] + 1 ELSE effects[t]
  BY <1>1, <1>2 DEF HandleCommit
<1>3. CASE \E w \in Workers : HandleCommit(w)
  BY <1>1, <1>2, <1>3
<1>4. CASE ~ \E w \in Workers : HandleCommit(w)
  <2>1. effects' = effects
    BY <1>4 DEF Next, Run, Recover, Walk, Request, Fault, ClaimNext, MarkLoad, MarkCommit, HandleLoad,
       HandleRaise, RecordLoad, RecordCommit, StaleWrite, RecoverLoad, ReapLoad, RequeueCommit,
       Beat, Return, DrainReturn, DatabaseError, Crash, DrainTimeout, Drop, SettleStop, SettleLock,
       SettleCommit, Upload, Delete, LeaseExpires, BackoffPasses, vars, procVars, history
  <2> QED
    BY <1>1, <1>4, <2>1
<1> QED
  BY <1>3, <1>4

(* Only the handler's own transaction begins a task.                       *)
LEMMA StartsStep ==
  ASSUME [Next]_vars, ~ \E w \in Workers : HandleLoad(w)
  PROVE  starts' = starts
BY DEF Next, Run, Recover, Walk, Request, Fault, ClaimNext, MarkLoad, MarkCommit, HandleCommit,
   HandleRaise, RecordLoad, RecordCommit, StaleWrite, RecoverLoad, ReapLoad, RequeueCommit,
   Beat, Return, DrainReturn, DatabaseError, Crash, DrainTimeout, Drop, SettleStop, SettleLock,
   SettleCommit, Upload, Delete, LeaseExpires, BackoffPasses, vars, procVars, history

(* What is completed has been done, and whoever works on a task claimed it *)
(* when its dependencies were.                                             *)
DoneBefore ==
  /\ \A t \in Tasks : row[t].status = "completed" => effects[t] > 0
  /\ \A w \in Workers : pc[w] \in Beating => \A d \in Deps[job[w]] : effects[d] > 0

LEMMA DoneBeforeStep ==
  ASSUME TypeInv, DoneBefore, DependenciesFirst, [Next]_vars
  PROVE  DoneBefore' /\ DependenciesFirst'
<1>0. \A t \in Tasks : effects[t] > 0 => effects'[t] > 0
  BY EffectsStep
<1>1. ASSUME NEW t \in Tasks, row'[t].status = "completed" PROVE effects'[t] > 0
  BY <1>0, <1>1, RowMoves, EffectsStep DEF DoneBefore
<1>2. ASSUME NEW w \in Workers, pc'[w] \in Beating, NEW d \in Deps[job'[w]] PROVE effects'[d] > 0
  <2>1. CASE ClaimNext(w, job'[w]) /\ job'[w] \in Tasks
    <3>1. d \in Tasks /\ row[d].status = "completed"
      BY <1>2, <2>1, RowAssumption DEF ClaimNext, Claimable
    <3> QED
      BY <1>0, <3>1 DEF DoneBefore
  <2>2. CASE pc[w] \in Beating /\ job'[w] = job[w]
    <3>1. job[w] \in Tasks /\ d \in Tasks /\ effects[d] > 0
      BY <1>2, <2>2, RowAssumption DEF DoneBefore, TypeInv, ProcTypes, HasTask
    <3> QED
      BY <1>0, <3>1
  <2> QED
    BY <1>2, <2>1, <2>2, JobStep
<1>3. ASSUME NEW t \in Tasks, effects'[t] > 0, NEW d \in Deps[t] PROVE effects'[d] > 0
  <2>0. d \in Tasks
    BY <1>3, RowAssumption
  <2>1. CASE effects'[t] = effects[t]
    BY <1>0, <1>3, <2>0, <2>1 DEF DependenciesFirst
  <2>2. CASE effects'[t] # effects[t]
    <3>1. PICK w \in Workers : HandleCommit(w) /\ job[w] = t
      BY <2>2, EffectsStep
    <3>2. pc[w] \in Beating
      BY <3>1 DEF HandleCommit, Beating
    <3> QED
      BY <1>0, <1>3, <2>0, <3>1, <3>2 DEF DoneBefore
  <2> QED
    BY <2>1, <2>2
<1> QED
  BY <1>1, <1>2, <1>3 DEF DoneBefore, DependenciesFirst

(* No handler commits before what its task depends on has been done, in    *)
(* any deployment: also where two workers run one task, or a reaper's copy *)
(* takes a completed row back (claim_next's dependency gate, evaluated in  *)
(* the statement that claims).                                             *)
THEOREM DependenciesComeFirst == Spec => []DependenciesFirst
<1>1. Init => TypeInv /\ DoneBefore /\ DependenciesFirst
  <2> SUFFICES ASSUME Init PROVE DoneBefore /\ DependenciesFirst
    BY TypeInit
  <2>1. \A t \in Tasks : row[t].status # "completed" /\ effects[t] = 0
    BY DEF Init, AbsentRow
  <2>2. \A w \in Workers : pc[w] \notin Beating
    BY WorkerIsProc DEF Init, Beating
  <2> QED
    BY <2>1, <2>2 DEF DoneBefore, DependenciesFirst
<1>2. TypeInv /\ DoneBefore /\ DependenciesFirst /\ [Next]_vars =>
        TypeInv' /\ DoneBefore' /\ DependenciesFirst'
  BY TypeStep, DoneBeforeStep
<1> QED
  BY <1>1, <1>2, PTL DEF Spec

-----------------------------------------------------------------------------
(* How often a task has begun, and how many are about to begin it, is      *)
(* bounded by the claims its row has counted. Several may be: a reaper     *)
(* frees the claim of a worker that is only slow.                          *)
AboutTo(t) == {w \in Workers : pc[w] \in Early /\ job[w] = t}

StartsCounted ==
  \A t \in Tasks :
    /\ IsFiniteSet(AboutTo(t))
    /\ starts[t] + Cardinality(AboutTo(t)) <= Tries(row[t])

(* A claim counts, and nothing takes from the count.                       *)
LEMMA TriesGrow ==
  ASSUME TypeInv, [Next]_vars, NEW t \in Tasks
  PROVE  /\ Tries(row[t]) \in Nat /\ Tries(row'[t]) \in Nat
         /\ Tries(row'[t]) >= Tries(row[t])
         /\ \A w \in Workers : ClaimNext(w, t) => Tries(row'[t]) >= Tries(row[t]) + 1
<1>1. row[t] \in Rows /\ row[t].retries \in Nat /\ row'[t].retries \in Nat
  BY TypeStep, RowAssumption DEF TypeInv, RowTypes, Rows
<1>2. MovesOn(t)
  BY RowMoves
<1>3. ASSUME NEW w \in Workers, ClaimNext(w, t) PROVE Tries(row'[t]) >= Tries(row[t]) + 1
  <2>1. row'[t] = Claimed(row[t], w) /\ row[t].status \in {"pending", "failed"}
    BY <1>3 DEF ClaimNext, Claimable, Due, HasRetryLeft, TypeInv, RowTypes
  <2>2. /\ row'[t].status = "claimed"
        /\ row'[t].retries = IF row[t].status = "failed" THEN row[t].retries + 1 ELSE row[t].retries
    BY <1>1, <2>1 DEF Claimed, Rows
  <2> QED
    BY <1>1, <2>1, <2>2 DEF Tries
<1> QED
  BY <1>1, <1>2, <1>3 DEF MovesOn, Tries

(* Who is about to begin a task was, unless he has just claimed it.        *)
LEMMA AboutToStep ==
  ASSUME TypeInv, [Next]_vars, NEW t \in Tasks
  PROVE  \/ AboutTo(t)' \subseteq AboutTo(t)
         \/ \E w \in Workers : ClaimNext(w, t) /\ AboutTo(t)' \subseteq AboutTo(t) \cup {w}
<1>1. ASSUME NEW w \in AboutTo(t)', w \notin AboutTo(t) PROVE ClaimNext(w, t)
  BY <1>1, JobStep DEF AboutTo, Early, Beating
<1>2. ASSUME NEW v \in Workers, NEW w \in Workers, ClaimNext(v, t), ClaimNext(w, t) PROVE v = w
  BY <1>2, WorkerIsProc DEF ClaimNext, TypeInv, ProcTypes
<1> QED
  BY <1>1, <1>2 DEF AboutTo

(* A begin uses up the claim that was counted.                             *)
LEMMA BeginCounted ==
  ASSUME TypeInv, StartsCounted, NEW w \in Workers, HandleLoad(w), NEW t \in Tasks
  PROVE  /\ IsFiniteSet(AboutTo(t)')
         /\ starts'[t] + Cardinality(AboutTo(t)') <= Tries(row'[t])
<1>0. /\ w \in Procs /\ pc[w] = "marked" /\ job[w] \in Tasks /\ row' = row
      /\ starts \in [Tasks -> Nat]
      /\ pc'[w] \in {"idle", "handling"}
      /\ \A v \in Workers \ {w} : pc'[v] = pc[v] /\ job'[v] = job[v]
  BY WorkerIsProc
     DEF HandleLoad, GoIdle, rowVars, TypeInv, ProcTypes, HistoryTypes, HasTask, Beating
<1>1. AboutTo(t)' = AboutTo(t) \ {w}
  BY <1>0 DEF AboutTo, Early
<1>2. /\ IsFiniteSet(AboutTo(t)) /\ Cardinality(AboutTo(t)) \in Nat
      /\ IsFiniteSet(AboutTo(t)')
      /\ Cardinality(AboutTo(t)') =
           IF w \in AboutTo(t) THEN Cardinality(AboutTo(t)) - 1 ELSE Cardinality(AboutTo(t))
  BY <1>1, FS_CardinalityType, FS_RemoveElement DEF StartsCounted
<1>3. w \in AboutTo(t) <=> job[w] = t
  BY <1>0 DEF AboutTo, Early
<1>4. starts'[t] = starts[t] \/ (starts'[t] = starts[t] + 1 /\ job[w] = t)
  BY <1>0 DEF HandleLoad
<1>5. starts[t] \in Nat /\ starts[t] + Cardinality(AboutTo(t)) <= Tries(row[t]) /\ Tries(row[t]) \in Nat
  <2>1. row[t].retries \in Nat
    BY RowAssumption DEF TypeInv, RowTypes, Rows
  <2> QED
    BY <1>0, <2>1 DEF StartsCounted, Tries
<1> QED
  BY <1>0, <1>2, <1>3, <1>4, <1>5

(* Every other step only raises what the starts are compared with, or adds *)
(* one who is about to begin and the claim that counts him.                *)
LEMMA CountedStep ==
  ASSUME TypeInv, StartsCounted, [Next]_vars
  PROVE  StartsCounted'
<1> SUFFICES ASSUME NEW t \in Tasks
             PROVE  /\ IsFiniteSet(AboutTo(t)')
                    /\ starts'[t] + Cardinality(AboutTo(t)') <= Tries(row'[t])
  BY DEF StartsCounted
<1>1. CASE \E w \in Workers : HandleLoad(w)
  BY <1>1, BeginCounted
<1>2. CASE ~ \E w \in Workers : HandleLoad(w)
  <2>1. /\ starts' = starts /\ starts[t] \in Nat
        /\ IsFiniteSet(AboutTo(t)) /\ Cardinality(AboutTo(t)) \in Nat
        /\ starts[t] + Cardinality(AboutTo(t)) <= Tries(row[t])
    BY <1>2, StartsStep, FS_CardinalityType DEF StartsCounted, TypeInv, HistoryTypes
  <2>2. /\ Tries(row[t]) \in Nat /\ Tries(row'[t]) \in Nat /\ Tries(row'[t]) >= Tries(row[t])
        /\ \A w \in Workers : ClaimNext(w, t) => Tries(row'[t]) >= Tries(row[t]) + 1
    BY TriesGrow
  <2>3. CASE AboutTo(t)' \subseteq AboutTo(t)
    <3>1. /\ IsFiniteSet(AboutTo(t)') /\ Cardinality(AboutTo(t)') \in Nat
          /\ Cardinality(AboutTo(t)') <= Cardinality(AboutTo(t))
      BY <2>1, <2>3, FS_Subset, FS_CardinalityType
    <3> QED
      BY <2>1, <2>2, <3>1
  <2>4. ASSUME NEW w \in Workers, ClaimNext(w, t), AboutTo(t)' \subseteq AboutTo(t) \cup {w}
        PROVE  /\ IsFiniteSet(AboutTo(t)')
               /\ starts'[t] + Cardinality(AboutTo(t)') <= Tries(row'[t])
    <3>1. /\ IsFiniteSet(AboutTo(t) \cup {w})
          /\ Cardinality(AboutTo(t) \cup {w}) \in Nat
          /\ Cardinality(AboutTo(t) \cup {w}) <= Cardinality(AboutTo(t)) + 1
      <4>1. /\ IsFiniteSet(AboutTo(t) \cup {w})
            /\ Cardinality(AboutTo(t) \cup {w}) =
                 IF w \in AboutTo(t) THEN Cardinality(AboutTo(t)) ELSE Cardinality(AboutTo(t)) + 1
        BY <2>1, FS_AddElement
      <4> QED
        BY <2>1, <4>1
    <3>2. /\ IsFiniteSet(AboutTo(t)') /\ Cardinality(AboutTo(t)') \in Nat
          /\ Cardinality(AboutTo(t)') <= Cardinality(AboutTo(t) \cup {w})
      BY <2>4, <3>1, FS_Subset, FS_CardinalityType
    <3> QED
      BY <2>1, <2>2, <2>4, <3>1, <3>2
  <2> QED
    BY <2>3, <2>4, AboutToStep
<1> QED
  BY <1>1, <1>2

(* The retry cap bites on crashes too, in every deployment: a task begins  *)
(* at most MaxRetries + 1 times, whatever crashes, pauses and recoveries   *)
(* came between (claim_next counts the retry when it takes the claim, so a *)
(* worker that dies in the handler has already paid for its attempt).      *)
THEOREM CrashLoopsEnd == Spec => []CrashLoopBounded
<1>1. Init => TypeInv /\ StartsCounted
  <2> SUFFICES ASSUME Init, NEW t \in Tasks
               PROVE  /\ IsFiniteSet(AboutTo(t))
                      /\ starts[t] + Cardinality(AboutTo(t)) <= Tries(row[t])
    BY TypeInit DEF StartsCounted
  <2>1. AboutTo(t) = {}
    BY WorkerIsProc DEF Init, AboutTo, Early
  <2>2. starts[t] = 0 /\ Tries(row[t]) = 0
    BY DEF Init, AbsentRow, Tries
  <2> QED
    BY <2>1, <2>2, FS_EmptySet
<1>2. TypeInv /\ StartsCounted /\ [Next]_vars => TypeInv' /\ StartsCounted'
  BY TypeStep, CountedStep
<1>3. TypeInv /\ StartsCounted => CrashLoopBounded
  <2> SUFFICES ASSUME TypeInv, StartsCounted, NEW t \in Tasks PROVE starts[t] <= MaxRetries + 1
    BY DEF CrashLoopBounded
  <2>1. row[t].retries \in 0..MaxRetries /\ starts[t] \in Nat
    BY DEF TypeInv, RowTypes, HistoryTypes, Rows
  <2>2. Tries(row[t]) <= MaxRetries + 1 /\ Tries(row[t]) \in Nat
    BY <2>1, RowAssumption DEF Tries
  <2>3. Cardinality(AboutTo(t)) \in Nat /\ starts[t] + Cardinality(AboutTo(t)) <= Tries(row[t])
    BY FS_CardinalityType DEF StartsCounted
  <2> QED
    BY <2>1, <2>2, <2>3, RowAssumption
<1> QED
  BY <1>1, <1>2, <1>3, PTL DEF Spec

-----------------------------------------------------------------------------
(* Why a node is failed, and how its cause can end.                        *)
Causes(n) == {t \in Tasks \ Advisory : Scope[t] = n /\ FailedForGood(row[t])}

(* A final failure is not taken back, save by the deletion of its row.     *)
LEMMA CauseStays ==
  ASSUME row \in [Tasks -> Rows], NEW t \in Tasks, RetryStep(t), FailedForGood(row[t])
  PROVE  FailedForGood(row'[t]) \/ row'[t] = [row[t] EXCEPT !.status = "gone"]
<1>1. row[t] \in Rows /\ row[t].status = "failed"
  BY DEF FailedForGood
<1>2. row'[t] = [row[t] EXCEPT !.backoff = FALSE] => FailedForGood(row'[t])
  BY <1>1 DEF FailedForGood, HasRetryLeft, Rows
<1> QED
  BY <1>1, <1>2 DEF RetryStep, Reserving

(* And no row goes but with its node.                                      *)
LEMMA RowsGoWithNodes ==
  ASSUME SafeDeployment, TypeInv, Ownership, [Next]_vars, NEW t \in Tasks,
         row[t].status = "failed", row'[t].status = "gone"
  PROVE  settled'[Scope[t]] = "gone"
<1>0. Scope[t] \in Nodes /\ row[t] \in Rows
  BY RowAssumption DEF TypeInv, RowTypes
<1>1. CASE \E c \in Clients, n \in Nodes : Delete(c, n)
  BY <1>0, <1>1 DEF Delete
<1>2. ASSUME NEW p \in Procs, NEW retryable \in BOOLEAN, NEW delayed \in BOOLEAN,
             FailHeld(p, retryable, delayed),
             \A u \in Held(p) : loaded[p][u] = row[u]
      PROVE  FALSE
  <2>1. \A u \in Held(p) : Failed(row[u], retryable, delayed).status = "failed"
    BY WriteStatus DEF TypeInv, RowTypes, TxTypes
  <2> QED
    BY <1>0, <1>2, <2>1, FailHeldFresh
<1>3. ASSUME NEW w \in Workers, NEW retryable \in BOOLEAN, RecordCommit(w, retryable) PROVE FALSE
  <2>1. Held(w) = {job[w]} /\ row[job[w]].status # "gone" /\ pc[w] = "recording"
    BY <1>3 DEF RecordCommit, TypeInv, HasCopy, FailHeld, NoneGone
  <2>2. \A u \in Held(w) : loaded[w][u] = row[u]
    BY <2>1 DEF Ownership, FreshCopy
  <2> QED
    BY <1>2, <1>3, <2>2, WorkerIsProc DEF RecordCommit
<1>4. ASSUME NEW w \in Workers, RequeueCommit(w) PROVE FALSE
  <2>1. \A u \in Held(w) : loaded[w][u] = row[u]
    BY <1>4 DEF RequeueCommit, Ownership, FreshRecovery, FailHeld, NoneGone
  <2> QED
    BY <1>2, <1>4, <2>1, WorkerIsProc DEF RequeueCommit
<1>5. ASSUME NEW w \in Workers, MarkCommit(w) PROVE FALSE
  <2>1. row[job[w]].status = "gone" => row' = row
    BY <1>5 DEF MarkCommit, NoneGone
  <2>2. row[job[w]].status # "gone" => row' = [row EXCEPT ![job[w]].status = "running"]
    BY <1>5, MarkCommitRow
  <2> QED
    BY <1>0, <2>1, <2>2 DEF TypeInv, RowTypes, Rows
<1>6. ASSUME NEW w \in Workers, HandleCommit(w) PROVE FALSE
  <2>1. /\ row[job[w]].status = "running"
        /\ row' = EnqueuedRows([row EXCEPT ![job[w]] = Completed(@)], Spawned(job[w]))
    BY <1>6, HandleCommitRow
  <2> QED
    BY <1>0, <2>1 DEF EnqueuedRows, TypeInv, RowTypes
<1>7. ASSUME NEW w \in Workers, NEW u \in Tasks, ClaimNext(w, u) PROVE FALSE
  BY <1>0, <1>7, WriteStatus DEF ClaimNext, TypeInv, RowTypes
<1>8. ASSUME NEW u \in Tasks, BackoffPasses(u) PROVE FALSE
  BY <1>0, <1>8 DEF BackoffPasses, TypeInv, RowTypes, Rows
<1>9. ASSUME NEW S, row' = EnqueuedRows(row, S) PROVE FALSE
  BY <1>0, <1>9 DEF EnqueuedRows
<1>10. row' # row
  OBVIOUS
<1> QED
  BY <1>1, <1>3, <1>4, <1>5, <1>6, <1>7, <1>8, <1>9, <1>10
     DEF Next, Run, Recover, Walk, Request, Fault, MarkLoad, HandleLoad, HandleRaise, RecordLoad,
         StaleWrite, RecoverLoad, ReapLoad, Beat, Return, DrainReturn, DatabaseError, Crash,
         DrainTimeout, Drop, SettleStop, SettleLock, SettleCommit, Upload, LeaseExpires, vars, rowVars

(* Whoever fails a node has just failed a task of it for good.             *)
LEMMA FailureHasCause ==
  ASSUME TypeInv, NEW p \in Procs, NEW retryable \in BOOLEAN, NEW delayed \in BOOLEAN,
         FailHeld(p, retryable, delayed),
         \A t \in Held(p) : loaded[p][t] = row[t],
         NEW n \in Nodes, settled'[n] = "failed"
  PROVE  settled[n] = "failed" \/ Causes(n)' # {}
<1> DEFINE written == [t \in Held(p) |-> Failed(loaded[p][t], retryable, delayed)]
           dead == {Scope[t] : t \in {u \in Held(p) \ Advisory : FailedForGood(written[u])}}
<1>1. CASE n \notin dead
  BY <1>1 DEF FailHeld
<1>2. CASE n \in dead
  <2>1. PICK t \in Held(p) \ Advisory : Scope[t] = n /\ FailedForGood(written[t])
    BY <1>2
  <2>2. t \in Tasks /\ row'[t] = written[t]
    BY <2>1, FailHeldFresh DEF TypeInv, TxTypes
  <2> QED
    BY <2>1, <2>2 DEF Causes
<1> QED
  BY <1>1, <1>2

(* No other step fails a node.                                             *)
LEMMA FailedByFailure ==
  ASSUME SafeDeployment, TypeInv, Ownership, [Next]_vars, NEW n \in Nodes, settled'[n] = "failed"
  PROVE  settled[n] = "failed" \/ Causes(n)' # {}
<1>1. ASSUME NEW w \in Workers, NEW retryable \in BOOLEAN, RecordCommit(w, retryable)
      PROVE  settled[n] = "failed" \/ Causes(n)' # {}
  <2>1. Held(w) = {job[w]} /\ row[job[w]].status # "gone" /\ pc[w] = "recording"
    BY <1>1 DEF RecordCommit, TypeInv, HasCopy, FailHeld, NoneGone
  <2>2. \A u \in Held(w) : loaded[w][u] = row[u]
    BY <2>1 DEF Ownership, FreshCopy
  <2> QED
    BY <1>1, <2>2, FailureHasCause, WorkerIsProc DEF RecordCommit
<1>2. ASSUME NEW w \in Workers, RequeueCommit(w)
      PROVE  settled[n] = "failed" \/ Causes(n)' # {}
  <2>1. \A u \in Held(w) : loaded[w][u] = row[u]
    BY <1>2 DEF RequeueCommit, Ownership, FreshRecovery, FailHeld, NoneGone
  <2> QED
    BY <1>2, <2>1, FailureHasCause, WorkerIsProc DEF RequeueCommit
<1>3. ASSUME NEW w \in Workers, HandleCommit(w) PROVE settled[n] = "failed"
  BY <1>3 DEF HandleCommit, UnSettled, FlushSettled, BornAs
<1>4. ASSUME NEW p \in Procs, SettleCommit(p) PROVE settled[n] = "failed"
  BY <1>4 DEF SettleCommit, UnSettled, FlushSettled, TypeInv, RowTypes
<1>5. ASSUME NEW c \in Clients, NEW m \in Nodes, Upload(c, m) \/ Delete(c, m)
      PROVE  settled[n] = "failed"
  BY <1>5 DEF Upload, Delete, TypeInv, RowTypes
<1>6. settled' = settled => settled[n] = "failed"
  OBVIOUS
<1> QED
  BY <1>1, <1>2, <1>3, <1>4, <1>5, <1>6
     DEF Next, Run, Recover, Walk, Request, Fault, ClaimNext, MarkLoad, MarkCommit, HandleLoad,
         HandleRaise, RecordLoad, StaleWrite, RecoverLoad, ReapLoad, Beat, Return, DrainReturn,
         DatabaseError, Crash, DrainTimeout, Drop, SettleStop, SettleLock, LeaseExpires,
         BackoffPasses, vars, rowVars

(* A failed node always shows its cause: in a safe deployment a node is    *)
(* failed only while some task scoped to it that is not advisory has       *)
(* failed with no retry left (fail() writes both in one transaction, and   *)
(* nothing but the node's own deletion takes the row away).                *)
THEOREM FailuresAreExplained ==
  ASSUME SafeDeployment
  PROVE  Spec => []FailedHasCause
<1>1. Init => TypeInv /\ Ownership /\ FailedHasCause
  BY TypeInit, InitOwnership DEF Init, FailedHasCause
<1>2. TypeInv /\ Ownership /\ FailedHasCause /\ [Next]_vars => FailedHasCause'
  <2> SUFFICES ASSUME TypeInv, Ownership, FailedHasCause, [Next]_vars,
                      NEW n \in Nodes, settled'[n] = "failed"
               PROVE  Causes(n)' # {}
    BY DEF FailedHasCause, Causes
  <2>1. CASE settled[n] = "failed"
    <3>1. PICK t \in Tasks \ Advisory : Scope[t] = n /\ FailedForGood(row[t])
      BY <2>1 DEF FailedHasCause
    <3>2. row \in [Tasks -> Rows] /\ row[t] \in Rows
      BY DEF TypeInv, RowTypes
    <3>3. FailedForGood(row'[t]) \/ row'[t] = [row[t] EXCEPT !.status = "gone"]
      BY <3>1, <3>2, StepRefines, RetrySteps, CauseStays
    <3>4. row'[t] # [row[t] EXCEPT !.status = "gone"]
      BY <3>1, <3>2, RowsGoWithNodes DEF FailedForGood, Rows
    <3> QED
      BY <3>1, <3>3, <3>4 DEF Causes
  <2>2. CASE settled[n] # "failed"
    BY <2>2, FailedByFailure
  <2> QED
    BY <2>1, <2>2
<1>3. TypeInv /\ Ownership /\ [Next]_vars => TypeInv' /\ Ownership'
  BY TypeStep, OwnershipStep
<1> QED
  BY <1>1, <1>2, <1>3, PTL DEF Spec
=============================================================================
