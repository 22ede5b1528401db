------------------------ MODULE IngestQueueSettling -------------------------
(***************************************************************************)
(* What the settle walks promise. The row lock settle_node takes keeps     *)
(* everything a walk has read of its node true until it commits: nobody    *)
(* else settles it, enqueues on it, or makes or uploads a child of it.     *)
(***************************************************************************)
EXTENDS IngestQueueSafety, FiniteSetTheorems, WellFoundedInduction

Settling(p) == pc[p] = "settling"

(* A process is settling because it was, and has kept what it read, or     *)
(* because it has just locked its node; and it keeps its lock.             *)
LEMMA SettlerStep ==
  ASSUME TypeInv, [Next]_vars, NEW p \in Procs, Settling(p)'
  PROVE  \/ SettleLock(p)
         \/ /\ Settling(p)
            /\ at'[p] = at[p] /\ seen'[p] = seen[p] /\ plan'[p] = plan[p]
            /\ lock[at[p]] = p => lock'[at[p]] = p
<1>0. pc'[p] = "settling" /\ (Settling(p) => at[p] \in Nodes) /\ p # NoOne
  BY ProcessAssumption, NoOneAssumption DEF Settling, TypeInv, ProcTypes, HasNode, Procs
<1> DEFINE Kept == /\ Settling(p)
                   /\ at'[p] = at[p] /\ seen'[p] = seen[p] /\ plan'[p] = plan[p]
                   /\ lock[at[p]] = p => lock'[at[p]] = p
<1>1. ASSUME NEW w \in Workers,
             MarkLoad(w) \/ MarkCommit(w) \/ HandleLoad(w) \/ RecordLoad(w)
      PROVE  Kept
  BY <1>0, <1>1, WorkerIsProc
     DEF MarkLoad, MarkCommit, HandleLoad, RecordLoad, GoIdle, Load, EndTx, rowVars, Settling,
         TypeInv, ProcTypes, TxTypes
<1>2. ASSUME NEW w \in Workers,
             \/ HandleCommit(w) \/ HandleRaise(w) \/ RecoverLoad(w) \/ ReapLoad(w)
             \/ RequeueCommit(w) \/ Return(w) \/ DrainReturn(w) \/ DrainTimeout(w)
             \/ \E retryable \in BOOLEAN : RecordCommit(w, retryable)
      PROVE  Kept
  BY <1>0, <1>2, WorkerIsProc
     DEF HandleCommit, HandleRaise, RecoverLoad, ReapLoad, RequeueCommit, Return, DrainReturn,
         DrainTimeout, RecordCommit, Load, EndTx, rowVars, Settling, TypeInv, ProcTypes, TxTypes
<1>3. ASSUME NEW w \in Workers, StaleWrite(w) \/ DatabaseError(w) \/ Crash(w)
      PROVE  Kept
  <2>1. w \in Procs /\ \E phase \in {"boot", "idle", "down"} : Drop(w, phase)
    BY <1>3, WorkerIsProc DEF StaleWrite, DatabaseError, Crash, Retreat
  <2> QED
    BY <1>0, <2>1 DEF Drop, Unlock, EndTx, Settling, TypeInv, ProcTypes, TxTypes, RowTypes
<1>4. ASSUME NEW w \in Workers, NEW t \in Tasks, ClaimNext(w, t) PROVE Kept
  BY <1>0, <1>4, WorkerIsProc DEF ClaimNext, Settling, TypeInv, ProcTypes
<1>5. ASSUME NEW q \in Procs, SettleStop(q) PROVE Kept
  BY <1>0, <1>5 DEF SettleStop, rowVars, Settling, TypeInv, ProcTypes
<1>6. ASSUME NEW q \in Procs, SettleLock(q) PROVE SettleLock(p) \/ Kept
  <2>1. CASE q # p
    <3>1. /\ pc'[p] = pc[p] /\ at' = at /\ seen'[p] = seen[p] /\ plan'[p] = plan[p]
          /\ lock[at[q]] = NoOne /\ lock' = [lock EXCEPT ![at[q]] = q]
      BY <1>6, <2>1 DEF SettleLock, Unlocked, TypeInv, ProcTypes, TxTypes
    <3> QED
      BY <1>0, <3>1 DEF Settling
  <2> QED
    BY <1>6, <2>1
<1>7. ASSUME NEW q \in Procs, SettleCommit(q) PROVE Kept
  <2>1. q # p
    BY <1>0, <1>7 DEF SettleCommit, TypeInv, ProcTypes
  <2> QED
    BY <1>0, <1>7, <2>1 DEF SettleCommit, Unlock, EndTx, Settling, TypeInv, ProcTypes, TxTypes, RowTypes
<1>8. ASSUME NEW c \in Clients, NEW n \in Nodes, Upload(c, n) \/ Delete(c, n) PROVE Kept
  BY <1>0, <1>8 DEF Upload, Delete, procVars, Procs, Settling, TypeInv, ProcTypes
<1>9. ASSUME \/ \E t \in Tasks : LeaseExpires(t) \/ BackoffPasses(t)
             \/ \E w \in Workers : Beat(w)
             \/ UNCHANGED vars
      PROVE  Kept
  BY <1>0, <1>9 DEF LeaseExpires, BackoffPasses, Beat, vars, rowVars, procVars, Settling
<1> QED
  BY <1>1, <1>2, <1>3, <1>4, <1>5, <1>6, <1>7, <1>8, <1>9 DEF Next, Run, Recover, Fault, Walk, Request

-----------------------------------------------------------------------------
(* Rollups are enqueued by the walk that holds the lock, and by nobody     *)
(* else: handlers and uploads enqueue other tasks.                         *)
LEMMA RungLogged ==
  ASSUME TypeInv, [Next]_vars, NEW n \in Nodes, NEW t \in AllRungs(n), logged'[t] # logged[t]
  PROVE  \E p \in Procs : SettleCommit(p) /\ t \in plan[p] /\ logged'[t] = logged[t] + 1
<1>0. t \in Tasks /\ Scope[t] = n /\ Spawner[t] = NoOne
  BY RungAssumption
<1>1. ASSUME NEW p \in Procs, SettleCommit(p)
      PROVE  t \in plan[p] /\ logged'[t] = logged[t] + 1
  BY <1>0, <1>1 DEF SettleCommit, EnqueuedLog
<1>2. ASSUME NEW w \in Workers, HandleCommit(w) PROVE FALSE
  <2>1. t \notin Spawned(job[w])
    BY <1>0, <1>2, NoOneAssumption DEF HandleCommit, Spawned, TypeInv, ProcTypes, HasTask, Beating
  <2> QED
    BY <1>0, <1>2, <2>1 DEF HandleCommit, EnqueuedLog
<1>3. ASSUME NEW c \in Clients, NEW m \in Nodes, Upload(c, m) PROVE FALSE
  <2>1. t \notin QueuedOn(m)
    BY <1>0 DEF QueuedOn
  <2> QED
    BY <1>0, <1>3, <2>1 DEF Upload, EnqueuedLog
<1>4. logged' # logged
  OBVIOUS
<1> QED
  BY <1>1, <1>2, <1>3, <1>4
     DEF Next, Run, Recover, Walk, Request, Fault, ClaimNext, MarkLoad, MarkCommit, HandleLoad,
         HandleRaise, RecordLoad, RecordCommit, StaleWrite, RecoverLoad, ReapLoad, RequeueCommit,
         Beat, Return, DrainReturn, DatabaseError, Crash, DrainTimeout, Drop, SettleStop,
         SettleLock, Delete, LeaseExpires, BackoffPasses, vars, rowVars

(* A settling process holds its node, and what it plans is a rollup of the *)
(* node that the log does not have.                                        *)
HoldsNode ==
  \A p \in Procs : Settling(p) =>
    /\ lock[at[p]] = p
    /\ \A t \in plan[p] : t \in AllRungs(at[p]) /\ logged[t] = 0

(* What the planner offers is a rollup of the node.                        *)
LEMMA OfferedIsRung ==
  ASSUME TypeInv, NEW n \in Nodes
  PROVE  \A t \in Offered(n) : t \in AllRungs(n) /\ logged[t] = 0
<1>1. Cardinality(Children(n)) \in DOMAIN Rungs[n]
  BY RungAssumption DEF Children
<1> QED
  BY <1>1 DEF Offered, RungsOf, AllRungs

(* The lock serialises the settlers of a node.                             *)
LEMMA HoldsNodeStep ==
  ASSUME TypeInv, HoldsNode, [Next]_vars
  PROVE  HoldsNode'
<1> SUFFICES ASSUME NEW p \in Procs, Settling(p)'
             PROVE  /\ lock'[at'[p]] = p
                    /\ \A t \in plan'[p] : t \in AllRungs(at'[p]) /\ logged'[t] = 0
  BY DEF HoldsNode, AllRungs
<1>1. CASE SettleLock(p)
  <2>1. at[p] \in Nodes
    BY <1>1 DEF SettleLock, TypeInv, ProcTypes, HasNode
  <2>2. /\ at' = at /\ logged' = logged
        /\ lock'[at[p]] = p
        /\ plan'[p] = Planned(p, at[p])
    BY <1>1, <2>1 DEF SettleLock, TypeInv, RowTypes, ProcTypes
  <2> QED
    BY <2>1, <2>2, OfferedIsRung DEF Planned
<1>2. CASE ~SettleLock(p)
  <2>1. Settling(p) /\ at'[p] = at[p] /\ plan'[p] = plan[p] /\ lock'[at[p]] = p
    BY <1>2, SettlerStep DEF HoldsNode
  <2>2. at[p] \in Nodes
    BY <2>1 DEF Settling, TypeInv, ProcTypes, HasNode
  <2> SUFFICES ASSUME NEW t \in plan[p], logged'[t] # logged[t] PROVE FALSE
    BY <2>1 DEF HoldsNode
  <2>3. t \in AllRungs(at[p])
    BY <2>1 DEF HoldsNode
  <2>4. PICK q \in Procs : SettleCommit(q) /\ t \in plan[q]
    BY <2>2, <2>3, RungLogged
  <2>5. Settling(q) /\ q # p
    BY <2>4 DEF SettleCommit, Settling, TypeInv, ProcTypes
  <2>6. at[q] \in Nodes /\ t \in AllRungs(at[q])
    BY <2>4, <2>5 DEF HoldsNode, Settling, TypeInv, ProcTypes, HasNode
  <2>7. at[q] = at[p]
    BY <2>2, <2>3, <2>6, RungAssumption
  <2> QED
    BY <2>1, <2>5, <2>7 DEF HoldsNode
<1> QED
  BY <1>1, <1>2

(* A rollup is enqueued for a node at most once, in every deployment,      *)
(* however many walks meet at it (settle_node's FOR UPDATE before the      *)
(* attempt diff).                                                          *)
THEOREM OneRollup == Spec => []RollupOnce
<1>1. Init => TypeInv /\ HoldsNode /\ RollupOnce
  <2> SUFFICES ASSUME Init PROVE HoldsNode /\ RollupOnce
    BY TypeInit
  <2>1. HoldsNode
    BY DEF Init, HoldsNode, Settling
  <2>2. RollupOnce
    BY RungAssumption DEF Init, RollupOnce
  <2> QED
    BY <2>1, <2>2
<1>2. TypeInv /\ HoldsNode /\ RollupOnce /\ [Next]_vars => RollupOnce'
  <2> SUFFICES ASSUME TypeInv, HoldsNode, RollupOnce, [Next]_vars,
                      NEW n \in Nodes, NEW t \in AllRungs(n)
               PROVE  logged'[t] <= 1
    BY DEF RollupOnce, AllRungs
  <2>1. CASE logged'[t] = logged[t]
    BY <2>1 DEF RollupOnce
  <2>2. CASE logged'[t] # logged[t]
    <3>1. PICK p \in Procs : SettleCommit(p) /\ t \in plan[p] /\ logged'[t] = logged[t] + 1
      BY <2>2, RungLogged
    <3> QED
      BY <3>1 DEF HoldsNode, SettleCommit, Settling
  <2> QED
    BY <2>1, <2>2
<1>3. TypeInv /\ HoldsNode /\ [Next]_vars => TypeInv' /\ HoldsNode'
  BY TypeStep, HoldsNodeStep
<1> QED
  BY <1>1, <1>2, <1>3, PTL DEF Spec

-----------------------------------------------------------------------------
(* What the documents say of the tasks scoped to them. A document that is  *)
(* not there has no rows, one that a handler makes is there once the       *)
(* handler is done, and a settling process may still rely on what it read. *)
NoRowsYet ==
  \A n \in Nodes : settled[n] = "absent" =>
    \A t \in Tasks : Scope[t] = n => row[t].status = "absent"
NoRowsLeft ==
  \A n \in Nodes : settled[n] = "gone" =>
    \A t \in Tasks : Scope[t] = n => row[t].status \in NoRow
MakersDone ==
  \A n \in Nodes : Maker[n] # NoOne /\ settled[n] # "absent" =>
    row[Maker[n]].status \in {"completed", "gone"}
ReadsHold ==
  \A p \in Procs : Settling(p) =>
    /\ Exists(at[p]) /\ settled[at[p]] # "failed"
    /\ seen[p] = [m \in {at[p]} |-> settled[m]]
    /\ StructuringComplete(at[p])

Documents ==
  /\ HoldsNode /\ NoRowsYet /\ NoRowsLeft /\ MakersDone
  /\ PublishedOwesNothing /\ ReadsHold

QueueInv == TypeInv /\ Ownership /\ Documents

(* Nobody but its holder settles a node that is locked.                    *)
LEMMA OneSettler ==
  ASSUME TypeInv, HoldsNode, NEW p \in Procs, NEW q \in Procs,
         Settling(p), Settling(q), at[p] = at[q]
  PROVE  p = q
  BY DEF HoldsNode

(* Nor does anybody settle a node that is not locked.                      *)
LEMMA UnlockedUnsettling ==
  ASSUME TypeInv, HoldsNode, NEW p \in Procs, Settling(p)
  PROVE  at[p] \in Nodes /\ lock[at[p]] # NoOne
  BY ProcessAssumption, NoOneAssumption
     DEF HoldsNode, Settling, TypeInv, ProcTypes, HasNode, Procs

(* What a handler's commit finds: its own document is there and unsettled, *)
(* the nodes it is to make are not there yet.                              *)
LEMMA HandlerFinds ==
  ASSUME QueueInv, NEW w \in Workers, HandleCommit(w)
  PROVE  /\ job[w] \in Tasks /\ Scope[job[w]] \in Nodes /\ w \in Procs
         /\ row[job[w]].status = "running"
         /\ settled[Scope[job[w]]] \in {"in_flight", "failed"}
         /\ \A n \in Made(job[w]) : settled[n] = "absent"
         /\ \A s \in Spawned(job[w]) : Scope[s] = Scope[job[w]] \/ Scope[s] \in Made(job[w])
<1>1. job[w] \in Tasks /\ Scope[job[w]] \in Nodes /\ row[job[w]].status = "running" /\ w \in Procs
  BY HandleCommitRow, RowAssumption, WorkerIsProc
     DEF QueueInv, HandleCommit, TypeInv, ProcTypes, HasTask, Beating
<1>2. settled[Scope[job[w]]] \in {"in_flight", "failed"}
  <2>1. Unfinished(row[job[w]])
    BY <1>1 DEF Unfinished, Reserving
  <2> QED
    BY <1>1, <2>1
       DEF QueueInv, Documents, NoRowsYet, NoRowsLeft, PublishedOwesNothing, StructuringComplete,
           NoRow, NodeStates, TypeInv, RowTypes
<1>3. \A n \in Made(job[w]) : settled[n] = "absent"
  BY <1>1, NoOneAssumption DEF QueueInv, Documents, MakersDone, Made
<1>4. \A s \in Spawned(job[w]) : Scope[s] = Scope[job[w]] \/ Scope[s] \in Made(job[w])
  BY <1>1, HandlerAssumption, NoOneAssumption, RowAssumption DEF Spawned, Made
<1> QED
  BY <1>1, <1>2, <1>3, <1>4

(* What it leaves of a document.                                           *)
LEMMA HandlerLeaves ==
  ASSUME QueueInv, NEW w \in Workers, HandleCommit(w), NEW n \in Nodes
  PROVE  /\ n \in Made(job[w]) =>
              settled'[n] = BornAs(n, Spawned(job[w]))
         /\ n \notin Made(job[w]) =>
              \/ settled'[n] = settled[n]
              \/ n = Scope[job[w]] /\ settled'[n] = "in_flight"
<1> DEFINE t == job[w]
           nodes == [m \in Nodes |-> IF m \in Made(t) /\ settled[m] = "absent"
                       THEN BornAs(m, Spawned(t)) ELSE settled[m]]
<1>1. settled'[n] = IF n \in {Scope[s] : s \in Spawned(t)} /\ n \in DOMAIN seen[w]
                    THEN FlushSettled(nodes[n], seen[w][n], "in_flight") ELSE nodes[n]
  BY DEF HandleCommit, UnSettled
<1>2. nodes[n] = IF n \in Made(t) /\ settled[n] = "absent"
                 THEN BornAs(n, Spawned(t)) ELSE settled[n]
  OBVIOUS
<1>3. n \in {Scope[s] : s \in Spawned(t)} => BornAs(n, Spawned(t)) = "in_flight"
  BY DEF BornAs, Within
<1> HIDE DEF nodes, t
<1> QED
  BY <1>1, <1>2, <1>3, HandlerFinds DEF FlushSettled, BornAs, t

-----------------------------------------------------------------------------
(* How a document's `settled` may change.                                  *)
Born(n) ==
  /\ settled[n] = "absent"
  /\ \/ /\ settled'[n] = "in_flight" /\ n \in Uploads
        /\ Parent[n] # NoOne => Exists(Parent[n]) /\ lock[Parent[n]] = NoOne
     \/ \E w \in Workers :
          /\ HandleCommit(w) /\ n \in Made(job[w])
          /\ settled'[n] = BornAs(n, Spawned(job[w]))
Deleted(n) ==
  /\ Exists(n) /\ settled'[n] = "gone" /\ lock[n] = NoOne
  /\ \E c \in Clients, m \in Nodes : Delete(c, m) /\ n \in Descendants(m)
  /\ \A t \in Tasks : Scope[t] = n => row'[t].status \in NoRow
Undone(n) ==
  /\ settled'[n] \in {"failed", "in_flight"}
  /\ \E t \in Tasks : Scope[t] = n /\ row[t].status \in Reapable
Walked(n) ==
  \E p \in Procs :
    /\ SettleCommit(p) /\ at[p] = n
    /\ settled'[n] = IF plan[p] = {} THEN "settled" ELSE "in_flight"

(* A walk's commit changes its own node alone.                             *)
LEMMA WalkChanges ==
  ASSUME QueueInv, NEW p \in Procs, SettleCommit(p), NEW n \in Nodes
  PROVE  settled'[n] = IF n # at[p] THEN settled[n]
                       ELSE IF plan[p] = {} THEN "settled" ELSE "in_flight"
<1>1. /\ Settling(p) /\ at[p] \in Nodes
      /\ seen[p] = [m \in {at[p]} |-> settled[m]]
  BY UnlockedUnsettling DEF SettleCommit, Settling, QueueInv, Documents, ReadsHold
<1>2. CASE plan[p] = {}
  BY <1>1, <1>2 DEF SettleCommit, FlushSettled, QueueInv, TypeInv, RowTypes
<1>3. CASE plan[p] # {}
  <2>1. {Scope[t] : t \in plan[p]} = {at[p]}
    BY <1>1, <1>3, RungAssumption DEF QueueInv, Documents, HoldsNode
  <2>2. settled'[n] = IF n \in {at[p]} /\ n \in DOMAIN seen[p]
                      THEN FlushSettled(settled[n], seen[p][n], "in_flight") ELSE settled[n]
    BY <1>3, <2>1 DEF SettleCommit, UnSettled
  <2> QED
    BY <1>1, <1>3, <2>2 DEF FlushSettled
<1> QED
  BY <1>2, <1>3

(* These are all the ways.                                                 *)
LEMMA NodeStep ==
  ASSUME SafeDeployment, QueueInv, [Next]_vars, NEW n \in Nodes, settled'[n] # settled[n]
  PROVE  Born(n) \/ Deleted(n) \/ Undone(n) \/ Walked(n)
<1>1. ASSUME NEW w \in Workers, HandleCommit(w) PROVE Born(n) \/ Undone(n)
  <2>1. CASE n \in Made(job[w])
    BY <1>1, <2>1, HandlerFinds, HandlerLeaves DEF Born
  <2>2. CASE n \notin Made(job[w])
    BY <1>1, <2>2, HandlerFinds, HandlerLeaves DEF Undone, Reapable
  <2> QED
    BY <2>1, <2>2
<1>2. ASSUME NEW p \in Procs, NEW retryable \in BOOLEAN, NEW delayed \in BOOLEAN,
             FailHeld(p, retryable, delayed),
             \A t \in Held(p) : row[t].status \in Reapable
      PROVE  Undone(n)
  <2> DEFINE written == [t \in Held(p) |-> Failed(loaded[p][t], retryable, delayed)]
             dead == {Scope[t] : t \in {u \in Held(p) \ Advisory : FailedForGood(written[u])}}
  <2>1. n \in dead /\ settled'[n] = "failed"
    BY <1>2 DEF FailHeld, FlushSettled
  <2>2. \E t \in Held(p) : Scope[t] = n
    BY <2>1
  <2>3. Held(p) \subseteq Tasks
    BY DEF QueueInv, TypeInv, TxTypes
  <2> HIDE DEF written, dead
  <2> QED
    BY <1>2, <2>1, <2>2, <2>3 DEF Undone
<1>3. ASSUME NEW w \in Workers, NEW retryable \in BOOLEAN, RecordCommit(w, retryable)
      PROVE  Undone(n)
  <2>1. Held(w) = {job[w]} /\ row[job[w]].status # "gone" /\ pc[w] = "recording"
    BY <1>3 DEF RecordCommit, QueueInv, TypeInv, HasCopy, FailHeld, NoneGone
  <2>2. \A t \in Held(w) : row[t].status \in Reapable
    BY <2>1 DEF QueueInv, Ownership, HolderOwns, Beating, Reapable
  <2> QED
    BY <1>2, <1>3, <2>2, WorkerIsProc DEF RecordCommit
<1>4. ASSUME NEW w \in Workers, RequeueCommit(w) PROVE Undone(n)
  <2>1. \A t \in Held(w) : row[t].status \in Reapable
    BY <1>4 DEF RequeueCommit, QueueInv, Ownership, FreshRecovery, FailHeld, NoneGone
  <2> QED
    BY <1>2, <1>4, <2>1, WorkerIsProc DEF RequeueCommit
<1>5. ASSUME NEW p \in Procs, SettleCommit(p) PROVE Walked(n)
  BY <1>5, WalkChanges DEF Walked
<1>6. ASSUME NEW c \in Clients, NEW m \in Nodes, Upload(c, m) PROVE Born(n)
  BY <1>6 DEF Upload, Unlocked, Born, QueueInv, TypeInv, RowTypes
<1>7. ASSUME NEW c \in Clients, NEW m \in Nodes, Delete(c, m) PROVE Deleted(n)
  <2> DEFINE doomed == {k \in Descendants(m) : Exists(k)}
  <2>1. n \in doomed /\ Exists(n) /\ settled'[n] = "gone" /\ lock[n] = NoOne
    BY <1>7 DEF Delete, Unlocked
  <2>2. ASSUME NEW t \in Tasks, Scope[t] = n PROVE row'[t].status \in NoRow
    <3>1. row[t] \in Rows
      BY DEF QueueInv, TypeInv, RowTypes
    <3>2. row'[t] = IF row[t].status \notin NoRow THEN [row[t] EXCEPT !.status = "gone"] ELSE row[t]
      BY <1>7, <2>1, <2>2 DEF Delete
    <3> QED
      BY <3>1, <3>2 DEF Rows, NoRow
  <2> QED
    BY <1>7, <2>1, <2>2 DEF Deleted
<1>8. settled' # settled
  OBVIOUS
<1> QED
  BY <1>1, <1>3, <1>4, <1>5, <1>6, <1>7, <1>8
     DEF Next, Run, Recover, Walk, Request, Fault, ClaimNext, MarkLoad, MarkCommit, HandleLoad,
         HandleRaise, RecordLoad, StaleWrite, RecoverLoad, ReapLoad, Beat, Return, DrainReturn,
         DatabaseError, Crash, DrainTimeout, Drop, SettleStop, SettleLock, LeaseExpires,
         BackoffPasses, vars, rowVars

-----------------------------------------------------------------------------
(* Where a row may appear: on a document that is there afterwards, that is *)
(* not published, and that nobody goes on settling.                        *)
LandsWell(n) ==
  /\ settled'[n] \in {"in_flight", "failed"}
  /\ \A p \in Procs : Settling(p) /\ at[p] = n => ~Settling(p)'

(* What a handler's commit touches, nobody is settling.                    *)
LEMMA UnlockedLands ==
  ASSUME QueueInv, NEW n, lock[n] = NoOne \/ settled[n] = "absent",
         settled'[n] \in {"in_flight", "failed"}
  PROVE  LandsWell(n)
<1> SUFFICES ASSUME NEW p \in Procs, Settling(p), at[p] = n PROVE FALSE
  BY DEF LandsWell
<1> QED
  BY UnlockedUnsettling DEF QueueInv, Documents, ReadsHold, Exists, NodeStates

(* Rows appear only so.                                                    *)
LEMMA RowBirth ==
  ASSUME SafeDeployment, QueueInv, [Next]_vars, NEW t \in Tasks,
         row[t].status = "absent", row'[t].status # "absent"
  PROVE  LandsWell(Scope[t])
<1> DEFINE n == Scope[t]
<1>0. n \in Nodes /\ row[t] \in Rows /\ row'[t] # row[t]
  BY RowAssumption DEF QueueInv, TypeInv, RowTypes
<1>1. ASSUME NEW w \in Workers, HandleCommit(w) PROVE LandsWell(n)
  <2>1. /\ row[job[w]].status = "running"
        /\ row' = EnqueuedRows([row EXCEPT ![job[w]] = Completed(@)], Spawned(job[w]))
    BY <1>1, HandleCommitRow DEF QueueInv
  <2>2. t \in Spawned(job[w])
    BY <1>0, <2>1 DEF EnqueuedRows, QueueInv, TypeInv, RowTypes
  <2>3. lock[n] = NoOne
    BY <1>1, <2>2 DEF HandleCommit, Unlocked
  <2>4. settled'[n] \in {"in_flight", "failed"}
    <3>1. BornAs(n, Spawned(job[w])) = "in_flight"
      BY <2>2 DEF BornAs, Within
    <3> QED
      BY <1>0, <1>1, <2>2, <3>1, HandlerFinds, HandlerLeaves
  <2> QED
    BY <2>3, <2>4, UnlockedLands
<1>2. ASSUME NEW p \in Procs, SettleCommit(p) PROVE LandsWell(n)
  <2>1. t \in plan[p] /\ Settling(p)
    BY <1>0, <1>2 DEF SettleCommit, EnqueuedRows, Settling
  <2>2. at[p] = n /\ settled'[n] = "in_flight"
    BY <1>0, <1>2, <2>1, WalkChanges, UnlockedUnsettling, RungAssumption
       DEF QueueInv, Documents, HoldsNode
  <2>3. ~Settling(p)'
    BY <1>2 DEF SettleCommit, Settling, QueueInv, TypeInv, ProcTypes
  <2> QED
    BY <2>1, <2>2, <2>3, OneSettler DEF LandsWell, QueueInv, Documents
<1>3. ASSUME NEW c \in Clients, NEW m \in Nodes, Upload(c, m) PROVE LandsWell(n)
  <2>1. m = n
    BY <1>0, <1>3 DEF Upload, EnqueuedRows, QueuedOn
  <2>2. settled[n] = "absent" /\ settled'[n] = "in_flight"
    BY <1>0, <1>3, <2>1 DEF Upload, QueueInv, TypeInv, RowTypes
  <2> QED
    BY <2>2, UnlockedLands
<1>4. ASSUME NEW c \in Clients, NEW m \in Nodes, Delete(c, m) PROVE FALSE
  BY <1>0, <1>4 DEF Delete, NoRow
<1>5. ASSUME NEW p \in Procs, NEW retryable \in BOOLEAN, NEW delayed \in BOOLEAN,
             FailHeld(p, retryable, delayed),
             \A u \in Held(p) : row[u].status \in Reapable
      PROVE  FALSE
  BY <1>0, <1>5 DEF FailHeld, Reapable
<1>6. ASSUME NEW w \in Workers, NEW retryable \in BOOLEAN, RecordCommit(w, retryable) PROVE FALSE
  <2>1. Held(w) = {job[w]} /\ row[job[w]].status # "gone" /\ pc[w] = "recording"
    BY <1>6 DEF RecordCommit, QueueInv, TypeInv, HasCopy, FailHeld, NoneGone
  <2>2. \A u \in Held(w) : row[u].status \in Reapable
    BY <2>1 DEF QueueInv, Ownership, HolderOwns, Beating, Reapable
  <2> QED
    BY <1>5, <1>6, <2>2, WorkerIsProc DEF RecordCommit
<1>7. ASSUME NEW w \in Workers, RequeueCommit(w) PROVE FALSE
  <2>1. \A u \in Held(w) : row[u].status \in Reapable
    BY <1>7 DEF RequeueCommit, QueueInv, Ownership, FreshRecovery, FailHeld, NoneGone
  <2> QED
    BY <1>5, <1>7, <2>1, WorkerIsProc DEF RequeueCommit
<1>8. ASSUME NEW w \in Workers, MarkCommit(w) PROVE FALSE
  <2>1. row[job[w]].status = "gone" => row' = row
    BY <1>8 DEF MarkCommit, NoneGone
  <2>2. row[job[w]].status # "gone" =>
          row[job[w]].status = "claimed" /\ row' = [row EXCEPT ![job[w]].status = "running"]
    BY <1>8, MarkCommitRow DEF QueueInv
  <2> QED
    BY <1>0, <2>1, <2>2 DEF QueueInv, TypeInv, RowTypes
<1>9. ASSUME NEW w \in Workers, NEW u \in Tasks, ClaimNext(w, u) PROVE FALSE
  BY <1>0, <1>9 DEF ClaimNext, Claimable, Due, HasRetryLeft
<1>10. ASSUME NEW u \in Tasks, BackoffPasses(u) PROVE FALSE
  BY <1>0, <1>10 DEF BackoffPasses, Rows
<1>11. row' # row
  BY <1>0
<1> HIDE DEF n
<1>12. LandsWell(n)
  BY <1>1, <1>2, <1>3, <1>4, <1>6, <1>7, <1>8, <1>9, <1>10, <1>11
     DEF Next, Run, Recover, Walk, Request, Fault, MarkLoad, HandleLoad,
         HandleRaise, RecordLoad, StaleWrite, RecoverLoad, ReapLoad, Beat, Return, DrainReturn,
         DatabaseError, Crash, DrainTimeout, Drop, SettleStop, SettleLock, LeaseExpires, vars, rowVars
<1> QED
  BY <1>12 DEF n

(* A row that owes work owed it before, or has just appeared.              *)
LEMMA OwedBefore ==
  ASSUME SafeDeployment, QueueInv, [Next]_vars, NEW t \in Tasks, Unfinished(row'[t])
  PROVE  Unfinished(row[t]) \/ LandsWell(Scope[t])
<1>1. row[t] \in Rows /\ RetryStep(t)
  BY StepRefines, RetrySteps DEF QueueInv, TypeInv, RowTypes
<1>2. CASE row[t].status = "absent"
  <2>1. row'[t].status # "absent"
    BY DEF Unfinished, HasRetryLeft, Reserving
  <2> QED
    BY <1>2, <2>1, RowBirth
<1>3. CASE row[t].status # "absent"
  <2>1. row'[t] = [row[t] EXCEPT !.backoff = FALSE] => (Unfinished(row[t]) <=> Unfinished(row'[t]))
    BY <1>1 DEF Unfinished, HasRetryLeft, Rows
  <2>2. row'[t] # [row[t] EXCEPT !.status = "gone"]
    BY <1>1 DEF Unfinished, HasRetryLeft, Reserving, Rows
  <2> QED
    BY <1>1, <1>3, <2>1, <2>2 DEF RetryStep, Unfinished, FailedForGood
<1> QED
  BY <1>2, <1>3

(* A row that had nothing more to do still has not.                        *)
LEMMA DoneStays ==
  ASSUME SafeDeployment, QueueInv, [Next]_vars, NEW t \in Tasks
  PROVE  /\ row[t].status \in {"completed", "gone"} => row'[t].status \in {"completed", "gone"}
         /\ row[t].status \in NoRow => row'[t].status \in NoRow \/ LandsWell(Scope[t])
<1>1. row[t] \in Rows /\ RetryStep(t)
  BY StepRefines, RetrySteps DEF QueueInv, TypeInv, RowTypes
<1>2. /\ [row[t] EXCEPT !.backoff = FALSE].status = row[t].status
      /\ [row[t] EXCEPT !.status = "gone"].status = "gone"
  BY <1>1 DEF Rows
<1>3. /\ row[t].status \in {"completed", "gone"} => row'[t].status \in {"completed", "gone"}
      /\ row[t].status = "gone" => row'[t].status = "gone"
  BY <1>1, <1>2 DEF RetryStep, Reserving
<1>4. row[t].status \in NoRow => row'[t].status \in NoRow \/ LandsWell(Scope[t])
  <2>1. row[t].status = "absent" /\ row'[t].status # "absent" => LandsWell(Scope[t])
    BY RowBirth
  <2> QED
    BY <1>3, <2>1 DEF NoRow
<1> QED
  BY <1>3, <1>4

-----------------------------------------------------------------------------
(* Each part is kept.                                                      *)
LEMMA NoRowsYetStep ==
  ASSUME SafeDeployment, QueueInv, [Next]_vars
  PROVE  NoRowsYet'
<1> SUFFICES ASSUME NEW n \in Nodes, settled'[n] = "absent", NEW t \in Tasks, Scope[t] = n
             PROVE  row'[t].status = "absent"
  BY DEF NoRowsYet
<1>1. settled[n] = "absent"
  BY NodeStep DEF Born, Deleted, Undone, Walked
<1>2. row[t].status = "absent"
  BY <1>1 DEF QueueInv, Documents, NoRowsYet
<1> QED
  BY <1>2, RowBirth DEF LandsWell

(* No row is left on a deleted document, and none comes.                   *)
LEMMA NoRowsLeftStep ==
  ASSUME SafeDeployment, QueueInv, [Next]_vars
  PROVE  NoRowsLeft'
<1> SUFFICES ASSUME NEW n \in Nodes, settled'[n] = "gone", NEW t \in Tasks, Scope[t] = n
             PROVE  row'[t].status \in NoRow
  BY DEF NoRowsLeft
<1>1. CASE settled[n] = "gone"
  BY <1>1, DoneStays DEF QueueInv, Documents, NoRowsLeft, LandsWell
<1>2. CASE settled[n] # "gone"
  BY <1>2, NodeStep DEF Born, BornAs, Deleted, Undone, Walked
<1> QED
  BY <1>1, <1>2

(* A node a handler makes comes with the handler's end.                    *)
LEMMA MakersDoneStep ==
  ASSUME SafeDeployment, QueueInv, [Next]_vars
  PROVE  MakersDone'
<1> SUFFICES ASSUME NEW n \in Nodes, Maker[n] # NoOne, settled'[n] # "absent"
             PROVE  row'[Maker[n]].status \in {"completed", "gone"}
  BY DEF MakersDone
<1>0. Maker[n] \in Tasks
  BY WorkAssumption
<1>1. CASE settled[n] # "absent"
  BY <1>0, <1>1, DoneStays DEF QueueInv, Documents, MakersDone
<1>2. CASE settled[n] = "absent"
  <2>1. ~Undone(n)
    BY <1>2 DEF QueueInv, Documents, NoRowsYet, Undone, Reapable
  <2>2. ~Walked(n)
    BY <1>2 DEF QueueInv, Documents, ReadsHold, Walked, SettleCommit, Settling, Exists, NodeStates
  <2>3. ~Deleted(n)
    BY <1>2 DEF Deleted, Exists, NodeStates
  <2>4. CASE Born(n)
    <3>1. PICK w \in Workers : HandleCommit(w) /\ n \in Made(job[w])
      BY <2>4, HandlerAssumption DEF Born
    <3>2. Maker[n] = job[w]
      BY <3>1 DEF Made
    <3>3. /\ row[job[w]].status = "running"
          /\ row' = EnqueuedRows([row EXCEPT ![job[w]] = Completed(@)], Spawned(job[w]))
          /\ row[job[w]] \in Rows
      BY <1>0, <3>1, <3>2, HandleCommitRow DEF QueueInv, TypeInv, RowTypes
    <3>4. Completed(row[job[w]]).status = "completed"
      BY <3>3, WriteStatus
    <3>5. row'[job[w]] = Completed(row[job[w]])
      BY <1>0, <3>2, <3>3, <3>4 DEF EnqueuedRows, QueueInv, TypeInv, RowTypes
    <3> QED
      BY <3>2, <3>4, <3>5
  <2> QED
    BY <1>2, <2>1, <2>2, <2>3, <2>4, NodeStep
<1> QED
  BY <1>1, <1>2

(* What a published node owed it would have owed when it was published.    *)
LEMMA PublishedOwesNothingStep ==
  ASSUME SafeDeployment, QueueInv, [Next]_vars
  PROVE  PublishedOwesNothing'
<1> SUFFICES ASSUME NEW n \in Nodes, settled'[n] = "settled",
                    NEW t \in Tasks, Scope[t] = n, Unfinished(row'[t])
             PROVE  FALSE
  BY DEF PublishedOwesNothing, StructuringComplete
<1>1. Unfinished(row[t])
  BY OwedBefore DEF LandsWell
<1>2. CASE settled[n] = "settled"
  BY <1>1, <1>2 DEF QueueInv, Documents, PublishedOwesNothing, StructuringComplete
<1>3. CASE settled[n] # "settled"
  <2>1. ~Deleted(n) /\ ~Undone(n)
    BY DEF Deleted, Undone
  <2>2. ~Born(n)
    BY <1>1 DEF Born, QueueInv, Documents, NoRowsYet, Unfinished, HasRetryLeft, Reserving
  <2>3. ~Walked(n)
    BY <1>1 DEF Walked, SettleCommit, Settling, QueueInv, Documents, ReadsHold, StructuringComplete
  <2> QED
    BY <1>3, <2>1, <2>2, <2>3, NodeStep
<1> QED
  BY <1>2, <1>3

(* The lock keeps what was read of the node true.                          *)
LEMMA ReadsHoldStep ==
  ASSUME SafeDeployment, QueueInv, [Next]_vars
  PROVE  ReadsHold'
<1> SUFFICES ASSUME NEW p \in Procs, Settling(p)'
             PROVE  /\ settled'[at'[p]] \in {"in_flight", "settled"}
                    /\ seen'[p] = [m \in {at'[p]} |-> settled'[m]]
                    /\ \A t \in Tasks : Scope[t] = at'[p] => ~Unfinished(row'[t])
  BY DEF ReadsHold, Exists, NodeStates, StructuringComplete
<1>1. CASE SettleLock(p)
  <2>1. at[p] \in Nodes
    BY <1>1 DEF SettleLock, QueueInv, TypeInv, ProcTypes, HasNode
  <2>2. /\ at' = at /\ settled' = settled /\ row' = row
        /\ seen'[p] = [m \in {at[p]} |-> settled[m]]
    BY <1>1 DEF SettleLock, QueueInv, TypeInv, TxTypes
  <2> QED
    BY <1>1, <2>1, <2>2 DEF SettleLock, MaySettle, Exists, NodeStates, StructuringComplete
<1>2. CASE ~SettleLock(p)
  <2> DEFINE n == at[p]
  <2>1. Settling(p) /\ at'[p] = n /\ seen'[p] = seen[p]
    BY <1>2, SettlerStep DEF QueueInv
  <2>2. /\ n \in Nodes /\ lock[n] # NoOne
        /\ settled[n] \in {"in_flight", "settled"}
        /\ seen[p] = [m \in {n} |-> settled[m]]
        /\ \A t \in Tasks : Scope[t] = n => ~Unfinished(row[t])
    BY <2>1, UnlockedUnsettling
       DEF QueueInv, Documents, ReadsHold, Exists, NodeStates, StructuringComplete
  <2>3. settled'[n] = settled[n]
    <3>1. ~Born(n) /\ ~Deleted(n) /\ ~Undone(n)
      BY <2>2 DEF Born, Deleted, Undone, Unfinished, Reserving, Reapable
    <3>2. ASSUME NEW q \in Procs, SettleCommit(q), at[q] = n PROVE FALSE
      <4>1. Settling(q) /\ ~Settling(q)'
        BY <3>2 DEF SettleCommit, Settling, QueueInv, TypeInv, ProcTypes
      <4> QED
        BY <2>1, <3>2, <4>1, OneSettler DEF QueueInv, Documents
    <3> QED
      BY <2>2, <3>1, <3>2, NodeStep DEF Walked
  <2>4. ASSUME NEW t \in Tasks, Scope[t] = n, Unfinished(row'[t]) PROVE FALSE
    BY <2>1, <2>2, <2>4, OwedBefore DEF LandsWell
  <2> QED
    BY <2>1, <2>2, <2>3, <2>4
<1> QED
  BY <1>1, <1>2

(* The start, and every step.                                              *)
LEMMA QueueInvInit == Init => QueueInv
<1> SUFFICES ASSUME Init PROVE Documents
  BY TypeInit, InitOwnership DEF QueueInv
<1>1. \A p \in Procs : ~Settling(p)
  BY DEF Init, Settling
<1>2. \A n \in Nodes : n \notin Existing <=> settled[n] = "absent"
  BY DEF Init
<1>3. \A n \in Nodes : settled[n] # "gone"
  BY DEF Init
<1>4. \A t \in Tasks : t \notin Queued => row[t].status = "absent"
  BY DEF Init, AbsentRow
<1>5. NoRowsYet
  BY <1>2, <1>4, HandlerAssumption DEF NoRowsYet
<1>6. MakersDone
  BY <1>2, HandlerAssumption DEF MakersDone
<1>7. PublishedOwesNothing
  <2> SUFFICES ASSUME NEW n \in Nodes, settled[n] = "settled", NEW t \in Tasks, Scope[t] = n
               PROVE  ~Unfinished(row[t])
    BY DEF PublishedOwesNothing, StructuringComplete
  <2>1. t \notin Queued
    BY DEF Init, Within
  <2> QED
    BY <1>4, <2>1 DEF Unfinished, HasRetryLeft, Reserving
<1> QED
  BY <1>1, <1>3, <1>5, <1>6, <1>7 DEF Documents, HoldsNode, NoRowsLeft, ReadsHold

LEMMA QueueInvStep ==
  ASSUME SafeDeployment, QueueInv, [Next]_vars
  PROVE  QueueInv'
BY TypeStep, OwnershipStep, HoldsNodeStep, NoRowsYetStep, NoRowsLeftStep, MakersDoneStep,
   PublishedOwesNothingStep, ReadsHoldStep DEF QueueInv, Documents

(* Spec 2.1, for every tree, every number of workers, uploads, deletions   *)
(* and crashes, in a safe deployment: while a node is published no task    *)
(* scoped to it is pending, in somebody's hands or waiting for a retry.    *)
THEOREM NothingOwed ==
  ASSUME SafeDeployment
  PROVE  Spec => []PublishedOwesNothing
<1>1. QueueInv => PublishedOwesNothing
  BY DEF QueueInv, Documents
<1>2. QueueInv /\ [Next]_vars => QueueInv'
  BY QueueInvStep
<1> QED
  BY <1>1, <1>2, QueueInvInit, PTL DEF Spec

-----------------------------------------------------------------------------
(* The tree. A path is finite and ends at a root, so of any documents some *)
(* are lowest: an induction down the tree looks at these.                  *)
LEMMA LowestFirst ==
  ASSUME NEW B \in SUBSET Nodes, B # {}
  PROVE  \E n \in B : Parent[n] \notin B
<1> DEFINE T == {Path[n] : n \in B}
<1>1. T \subseteq FiniteSubsetsOf(Nodes) /\ T # {}
  BY TreeAssumption DEF FiniteSubsetsOf
<1>2. PICK x \in T : \A y \in T : ~(<<y, x>> \in StrictSubsetOrdering(Nodes))
  BY <1>1, WFMin, FS_StrictSubsetOrderingWellFounded
<1>3. \A y \in T : ~(y \subseteq x /\ y # x)
  BY <1>1, <1>2 DEF StrictSubsetOrdering, FiniteSubsetsOf
<1>4. PICK n \in B : x = Path[n]
  OBVIOUS
<1>5. ASSUME Parent[n] \in B PROVE FALSE
  <2>1. Path[n] = {Parent[n]} \cup Path[Parent[n]] /\ Parent[n] \notin Path[Parent[n]]
    BY <1>5, TreeAssumption, NoOneAssumption
  <2> QED
    BY <1>3, <1>4, <1>5, <2>1
<1> QED
  BY <1>5

(* What is above one's ancestor is above oneself.                          *)
LEMMA PathTransitive ==
  \A n \in Nodes : \A a \in Path[n] : a \in Nodes /\ Path[a] \subseteq Path[n]
<1> DEFINE B == {n \in Nodes : \E a \in Path[n] : ~(Path[a] \subseteq Path[n])}
<1>1. ASSUME B # {} PROVE FALSE
  <2>1. PICK n \in B : Parent[n] \notin B
    BY <1>1, LowestFirst
  <2>2. Parent[n] \in Nodes /\ Path[n] = {Parent[n]} \cup Path[Parent[n]]
    BY <2>1, TreeAssumption
  <2> QED
    BY <2>1, <2>2
<1> QED
  BY <1>1, TreeAssumption

LEMMA WithinTransitive ==
  ASSUME NEW n \in Nodes, NEW m \in Nodes, Parent[m] = n, NEW k \in Nodes, Within(k, m)
  PROVE  Within(k, n)
<1>1. n \in Path[m]
  BY TreeAssumption, NoOneAssumption
<1> QED
  BY <1>1, PathTransitive DEF Within

-----------------------------------------------------------------------------
(* Deployments in which no rollup is overtaken. Documents are uploaded and *)
(* deleted only below documents that are never rolled up (a library, say), *)
(* W; and no document that comes without work has a rollup.                *)
Outside(W) ==
  /\ \A m \in Uploads \cup Deletable : Parent[m] \in W \cup {NoOne}
  /\ \A n \in W : AllRungs(n) = {} /\ Parent[n] \in W \cup {NoOne}
SteadyRollups ==
  /\ \E W \in SUBSET Nodes : Outside(W)
  /\ \A n \in Nodes :
       Maker[n] # NoOne /\ (\A s \in Spawned(Maker[n]) : ~Within(Scope[s], n)) => AllRungs(n) = {}
  /\ \A n \in Existing : (\A t \in Queued : ~Within(Scope[t], n)) => AllRungs(n) = {}

(* A request walks, without a planner, only where there is no rollup.      *)
ClientsOutside(W) ==
  \A c \in Clients : pc[c] \in {"walking", "settling"} => at[c] \in W

(* What a settling process has read of the log and of the children is also *)
(* still true; and whoever is about to enqueue holds an unsettled node.    *)
PlansHold ==
  \A p \in Procs : Settling(p) =>
    /\ plan[p] = Planned(p, at[p])
    /\ plan[p] # {} => settled[at[p]] # "settled"
    /\ UnsettledChildren(at[p]) = {}

RollupInv(W) == QueueInv /\ ClientsOutside(W) /\ PublishedIsRolledUp /\ PlansHold

(* Nothing is offered where there is no rollup.                            *)
LEMMA NothingToOffer ==
  ASSUME TypeInv, NEW n \in Nodes, AllRungs(n) = {}
  PROVE  Offered(n) = {}
  BY OfferedIsRung

LEMMA NothingToOfferAfter ==
  ASSUME NEW n \in Nodes, AllRungs(n) = {}
  PROVE  Offered(n)' = {}
<1>1. Cardinality(Children(n)') \in DOMAIN Rungs[n]
  BY RungAssumption DEF Children
<1>2. RungsOf(n)' \in {Rungs[n][k] : k \in DOMAIN Rungs[n]}
  BY <1>1 DEF RungsOf
<1>3. {RungsOf(n)'[i] : i \in DOMAIN RungsOf(n)'} \in
        {{q[i] : i \in DOMAIN q} : q \in {Rungs[n][k] : k \in DOMAIN Rungs[n]}}
  BY <1>2
<1>4. {RungsOf(n)'[i] : i \in DOMAIN RungsOf(n)'} = {}
  BY <1>3 DEF AllRungs
<1>5. DOMAIN RungsOf(n)' = {}
  BY <1>4
<1> QED
  BY <1>5 DEF Offered

(* The offer depends on the children and on the log of the node's rungs.   *)
LEMMA SameOffer ==
  ASSUME NEW n \in Nodes, Children(n)' = Children(n),
         \A t \in AllRungs(n) : logged'[t] = logged[t]
  PROVE  Offered(n)' = Offered(n)
<1>1. RungsOf(n)' = RungsOf(n) /\ RungsOf(n) \in Seq(Tasks)
  BY WorkAssumption DEF RungsOf, Children
<1>2. \A i \in DOMAIN RungsOf(n) : RungsOf(n)[i] \in AllRungs(n)
  <2>1. Cardinality(Children(n)) \in DOMAIN Rungs[n]
    BY RungAssumption DEF Children
  <2>2. RungsOf(n) \in {Rungs[n][k] : k \in DOMAIN Rungs[n]}
    BY <2>1 DEF RungsOf
  <2>3. {RungsOf(n)[i] : i \in DOMAIN RungsOf(n)} \in
          {{q[i] : i \in DOMAIN q} : q \in {Rungs[n][k] : k \in DOMAIN Rungs[n]}}
    BY <2>2
  <2> QED
    BY <2>3 DEF AllRungs
<1>3. \A i \in DOMAIN RungsOf(n) : logged'[RungsOf(n)[i]] = logged[RungsOf(n)[i]]
  BY <1>2
<1>4. \A k \in DOMAIN RungsOf(n) : \A j \in 1..(k - 1) : j \in DOMAIN RungsOf(n)
  BY <1>1
<1> DEFINE rungs == RungsOf(n)
           fresh(k) == logged[rungs[k]] = 0 /\ \A j \in 1..(k - 1) : logged[rungs[j]] > 0
           freshAfter(k) == logged'[rungs[k]] = 0 /\ \A j \in 1..(k - 1) : logged'[rungs[j]] > 0
<1>5. Offered(n) = {rungs[i] : i \in {k \in DOMAIN rungs : fresh(k)}}
  BY DEF Offered
<1>6. Offered(n)' = {rungs[i] : i \in {k \in DOMAIN rungs : freshAfter(k)}}
  BY <1>1 DEF Offered
<1>7. \A k \in DOMAIN rungs : fresh(k) <=> freshAfter(k)
  BY <1>3, <1>4
<1> HIDE DEF rungs, fresh, freshAfter
<1> QED
  BY <1>5, <1>6, <1>7

(* A document that was not there and now is has been made or uploaded.     *)
LEMMA NewIsBorn ==
  ASSUME SafeDeployment, QueueInv, [Next]_vars, NEW m \in Nodes, ~Exists(m), Exists(m)'
  PROVE  Born(m)
<1>1. settled[m] \in NoRow /\ settled'[m] # settled[m] /\ settled'[m] \in NodeStates
  BY DEF Exists, QueueInv, TypeInv, RowTypes
<1>2. ~Deleted(m)
  BY DEF Deleted
<1>3. ~Undone(m)
  BY <1>1 DEF Undone, QueueInv, Documents, NoRowsYet, NoRowsLeft, NoRow, Reapable
<1>4. ~Walked(m)
  BY DEF Walked, SettleCommit, Settling, QueueInv, Documents, ReadsHold
<1> QED
  BY <1>1, <1>2, <1>3, <1>4, NodeStep

(* While nothing is running on a node, no child appears but by an upload.  *)
LEMMA NewChild ==
  ASSUME SafeDeployment, QueueInv, [Next]_vars, NEW n \in Nodes,
         Exists(n), StructuringComplete(n),
         NEW m \in Nodes, Parent[m] = n, ~Exists(m), Exists(m)'
  PROVE  m \in Uploads /\ lock[n] = NoOne
<1>1. Born(m)
  BY NewIsBorn
<1>2. ASSUME NEW w \in Workers, HandleCommit(w), m \in Made(job[w]) PROVE FALSE
  <2>1. Maker[m] = job[w] /\ job[w] # NoOne
    BY <1>2, HandlerFinds, NoOneAssumption DEF Made
  <2>2. CASE n = Scope[job[w]]
    BY <1>2, <2>2, HandlerFinds DEF StructuringComplete, Unfinished, Reserving
  <2>3. CASE Maker[n] = job[w]
    BY <1>2, <2>3, HandlerFinds DEF Made, Exists, NodeStates
  <2> QED
    BY <2>1, <2>2, <2>3, HandlerAssumption
<1> QED
  BY <1>1, <1>2, TreeAssumption, NoOneAssumption DEF Born

(* And none goes, but by its own deletion or with the node.                *)
LEMMA LostChild ==
  ASSUME SafeDeployment, QueueInv, [Next]_vars, NEW n \in Nodes, Exists(n), Exists(n)',
         NEW m \in Nodes, Parent[m] = n, Exists(m), ~Exists(m)'
  PROVE  m \in Deletable
<1>1. settled'[m] # settled[m] /\ settled'[m] \notin NodeStates
  BY DEF Exists
<1>2. Deleted(m)
  BY <1>1, NodeStep DEF Born, BornAs, Undone, Walked, NodeStates
<1>3. PICK c \in Clients, x \in Nodes : Delete(c, x) /\ m \in Descendants(x)
  BY <1>2 DEF Deleted
<1>4. CASE m = x
  BY <1>3, <1>4 DEF Delete
<1>5. CASE m # x
  <2>1. x = n \/ x \in Path[n]
    BY <1>3, <1>5, TreeAssumption, NoOneAssumption DEF Descendants, Within
  <2>2. settled'[n] = "gone"
    BY <1>3, <2>1 DEF Delete, Descendants, Within
  <2> QED
    BY <2>2 DEF Exists, NodeStates
<1> QED
  BY <1>4, <1>5

(* So where there are rollups, the children of a finished node stay.       *)
LEMMA ChildrenStay ==
  ASSUME SafeDeployment, QueueInv, [Next]_vars, NEW W \in SUBSET Nodes, Outside(W),
         NEW n \in Nodes, n \notin W, Exists(n), Exists(n)', StructuringComplete(n)
  PROVE  Children(n)' = Children(n)
<1>1. ASSUME NEW m \in Nodes, Parent[m] = n PROVE Exists(m) <=> Exists(m)'
  <2>1. m \notin Uploads \cup Deletable
    BY <1>1, NoOneAssumption DEF Outside
  <2> QED
    BY <1>1, <2>1, NewChild, LostChild
<1> QED
  BY <1>1 DEF Children

(* A rollup is logged by the one process that is settling its node.        *)
LEMMA RungLoggedThere ==
  ASSUME QueueInv, [Next]_vars, NEW n \in Nodes, NEW t \in AllRungs(n), logged'[t] # logged[t]
  PROVE  \E p \in Procs : /\ SettleCommit(p) /\ Settling(p) /\ ~Settling(p)'
                          /\ at[p] = n /\ t \in plan[p]
<1>1. PICK p \in Procs : SettleCommit(p) /\ t \in plan[p]
  BY RungLogged DEF QueueInv
<1>2. Settling(p) /\ ~Settling(p)'
  BY <1>1 DEF SettleCommit, Settling, QueueInv, TypeInv, ProcTypes
<1>3. at[p] \in Nodes /\ t \in AllRungs(at[p])
  BY <1>1, <1>2, UnlockedUnsettling DEF QueueInv, Documents, HoldsNode
<1> QED
  BY <1>1, <1>2, <1>3, RungAssumption

-----------------------------------------------------------------------------
(* Requests stay outside.                                                  *)
LEMMA ClientsOutsideStep ==
  ASSUME TypeInv, [Next]_vars, NEW W \in SUBSET Nodes, Outside(W), ClientsOutside(W)
  PROVE  ClientsOutside(W)'
<1> SUFFICES ASSUME NEW c \in Clients, pc'[c] \in {"walking", "settling"} PROVE at'[c] \in W
  BY DEF ClientsOutside
<1>0. c \in Procs /\ c \notin Workers
  BY ProcessAssumption DEF Procs
<1> DEFINE Kept == pc[c] \in {"walking", "settling"} /\ at'[c] = at[c]
<1>1. ASSUME NEW w \in Workers,
             \/ MarkLoad(w) \/ MarkCommit(w) \/ HandleLoad(w) \/ RecordLoad(w)
             \/ HandleCommit(w) \/ HandleRaise(w) \/ RecoverLoad(w) \/ ReapLoad(w)
             \/ RequeueCommit(w) \/ Return(w) \/ DrainReturn(w) \/ DrainTimeout(w)
             \/ StaleWrite(w) \/ DatabaseError(w) \/ Crash(w)
             \/ \E retryable \in BOOLEAN : RecordCommit(w, retryable)
             \/ \E t \in Tasks : ClaimNext(w, t)
      PROVE  Kept
  <2>1. /\ \E phase : pc' = [pc EXCEPT ![w] = phase]
        /\ at' = at \/ \E n : at' = [at EXCEPT ![w] = n]
    BY <1>1 DEF MarkLoad, MarkCommit, HandleLoad, RecordLoad, GoIdle, HandleCommit, HandleRaise,
       RecoverLoad, ReapLoad, RequeueCommit, Return, DrainReturn, DrainTimeout, StaleWrite,
       DatabaseError, Crash, Drop, RecordCommit, ClaimNext
  <2> QED
    BY <1>0, <2>1 DEF TypeInv, ProcTypes
<1>2. ASSUME NEW p \in Procs, Walk(p) PROVE at'[c] \in W
  <2>1. CASE p # c
    BY <1>0, <1>2, <2>1 DEF Walk, SettleStop, SettleLock, SettleCommit, TypeInv, ProcTypes, ClientsOutside
  <2>2. CASE p = c
    BY <1>0, <1>2, <2>2
       DEF Walk, SettleStop, SettleLock, SettleCommit, TypeInv, ProcTypes, ClientsOutside, Outside
  <2> QED
    BY <2>1, <2>2
<1>3. ASSUME NEW d \in Clients, NEW n \in Nodes, Upload(d, n) \/ Delete(d, n) PROVE at'[c] \in W
  <2>1. CASE Upload(d, n)
    BY <2>1 DEF Upload, procVars, ClientsOutside
  <2>2. CASE Delete(d, n) /\ d # c
    BY <1>0, <2>2 DEF Delete, TypeInv, ProcTypes, ClientsOutside
  <2>3. CASE Delete(d, n) /\ d = c
    BY <1>0, <2>3 DEF Delete, TypeInv, ProcTypes, Outside
  <2> QED
    BY <1>3, <2>1, <2>2, <2>3
<1>4. ASSUME \/ \E t \in Tasks : LeaseExpires(t) \/ BackoffPasses(t)
             \/ \E w \in Workers : Beat(w)
             \/ UNCHANGED vars
      PROVE  Kept
  BY <1>4 DEF LeaseExpires, BackoffPasses, Beat, vars, procVars
<1>5. Kept => at'[c] \in W
  BY DEF ClientsOutside
<1> HIDE DEF Kept
<1> QED
  BY <1>1, <1>2, <1>3, <1>4, <1>5 DEF Next, Run, Recover, Fault, Request

(* What is published was published with its rollup, and the rollup of a    *)
(* published node is not reopened.                                         *)
LEMMA RolledUpStep ==
  ASSUME SafeDeployment, SteadyRollups, NEW W \in SUBSET Nodes, Outside(W),
         RollupInv(W), [Next]_vars
  PROVE  PublishedIsRolledUp'
<1> SUFFICES ASSUME NEW n \in Nodes, settled'[n] = "settled" PROVE Offered(n)' = {}
  BY DEF PublishedIsRolledUp
<1>0. QueueInv /\ TypeInv'
  BY TypeStep DEF RollupInv, QueueInv
<1>1. AllRungs(n) = {} => Offered(n)' = {}
  BY NothingToOfferAfter
<1>2. CASE AllRungs(n) # {} /\ settled[n] = "settled"
  <2>1. n \notin W /\ Exists(n) /\ Exists(n)' /\ StructuringComplete(n)
    BY <1>0, <1>2 DEF Outside, Exists, NodeStates, QueueInv, Documents, PublishedOwesNothing
  <2>2. \A t \in AllRungs(n) : logged'[t] = logged[t]
    BY <1>0, <1>2, RungLoggedThere DEF RollupInv, PlansHold
  <2>3. Offered(n)' = Offered(n)
    BY <1>0, <2>1, <2>2, ChildrenStay, SameOffer
  <2> QED
    BY <1>2, <2>3 DEF RollupInv, PublishedIsRolledUp
<1>3. CASE AllRungs(n) # {} /\ settled[n] # "settled"
  <2>1. ~Deleted(n) /\ ~Undone(n)
    BY DEF Deleted, Undone
  <2>2. ~Born(n)
    <3>1. SUFFICES ASSUME NEW w \in Workers, HandleCommit(w), n \in Made(job[w]),
                          \A s \in Spawned(job[w]) : ~Within(Scope[s], n)
                   PROVE  FALSE
      BY DEF Born, BornAs
    <3>2. Maker[n] = job[w] /\ job[w] # NoOne
      BY <1>0, <3>1, HandlerFinds, NoOneAssumption DEF Made
    <3> QED
      BY <1>3, <3>1, <3>2 DEF SteadyRollups
  <2>3. PICK p \in Procs : SettleCommit(p) /\ at[p] = n /\ plan[p] = {}
    BY <1>0, <1>3, <2>1, <2>2, NodeStep DEF Walked
  <2>4. Settling(p) /\ n \notin W
    BY <1>3, <2>3 DEF SettleCommit, Settling, Outside
  <2>5. p \in Workers
    BY <2>3, <2>4 DEF RollupInv, ClientsOutside, Settling, Procs
  <2>6. Offered(n) = {}
    BY <2>3, <2>4, <2>5 DEF RollupInv, PlansHold, Planned
  <2>7. Exists(n) /\ Exists(n)' /\ StructuringComplete(n)
    BY <1>0, <2>3, <2>4 DEF QueueInv, Documents, ReadsHold, Exists, NodeStates
  <2>8. \A t \in AllRungs(n) : logged'[t] = logged[t]
    BY <1>0, <2>3, <2>4, RungLoggedThere, OneSettler DEF QueueInv, Documents
  <2> QED
    BY <1>0, <2>4, <2>6, <2>7, <2>8, ChildrenStay, SameOffer
<1> QED
  BY <1>1, <1>2, <1>3

(* What a settling process has read of its node's children is still true.  *)
LEMMA ChildrenStaySettled ==
  ASSUME SafeDeployment, QueueInv, PlansHold, [Next]_vars,
         NEW p \in Procs, Settling(p), Settling(p)', at'[p] = at[p]
  PROVE  UnsettledChildren(at[p])' = {}
<1> DEFINE n == at[p]
<1>1. /\ n \in Nodes /\ lock[n] # NoOne /\ Exists(n) /\ StructuringComplete(n)
      /\ UnsettledChildren(n) = {}
  BY UnlockedUnsettling DEF QueueInv, Documents, ReadsHold, PlansHold
<1> SUFFICES ASSUME NEW m \in Nodes, Parent[m] = n, Exists(m)', settled'[m] # "settled"
             PROVE  FALSE
  BY DEF UnsettledChildren, Children
<1>2. CASE ~Exists(m)
  BY <1>1, <1>2, NewChild
<1>3. CASE Exists(m)
  <2>1. settled[m] = "settled"
    BY <1>1, <1>3 DEF UnsettledChildren, Children
  <2>2. ~Born(m) /\ ~Deleted(m)
    BY <2>1 DEF Born, Deleted, Exists, NodeStates
  <2>3. ~Undone(m)
    BY <2>1 DEF Undone, QueueInv, Documents, PublishedOwesNothing, StructuringComplete, Unfinished,
       Reserving, Reapable
  <2>4. ~Walked(m)
    BY <2>1 DEF Walked, SettleCommit, Settling, PlansHold
  <2> QED
    BY <2>1, <2>2, <2>3, <2>4, NodeStep
<1> QED
  BY <1>2, <1>3

(* The offer of the node a process holds stays what it is.                 *)
LEMMA OfferStays ==
  ASSUME SafeDeployment, NEW W \in SUBSET Nodes, Outside(W), QueueInv, QueueInv', [Next]_vars,
         NEW p \in Procs, Settling(p), Settling(p)', at'[p] = at[p],
         NEW n \in Nodes, at[p] = n, Exists(n), StructuringComplete(n), settled'[n] = settled[n]
  PROVE  Offered(n)' = Offered(n)
<1>1. CASE n \in W
  <2>1. AllRungs(n) = {} /\ TypeInv
    BY <1>1 DEF Outside, QueueInv
  <2> QED
    BY <2>1, NothingToOffer, NothingToOfferAfter
<1>2. CASE n \notin W
  <2>1. \A t \in AllRungs(n) : logged'[t] = logged[t]
    BY RungLoggedThere, OneSettler DEF QueueInv, Documents
  <2>2. Exists(n)'
    BY DEF Exists
  <2> QED
    BY <1>2, <2>1, <2>2, ChildrenStay, SameOffer
<1> QED
  BY <1>1, <1>2

(* So is what it plans, and nobody publishes its node meanwhile.           *)
LEMMA PlansHoldStep ==
  ASSUME SafeDeployment, NEW W \in SUBSET Nodes, Outside(W), RollupInv(W), [Next]_vars
  PROVE  PlansHold'
<1> SUFFICES ASSUME NEW p \in Procs, Settling(p)'
             PROVE  /\ plan'[p] = Planned(p, at[p])' /\ at'[p] \in Nodes
                    /\ plan'[p] # {} => settled'[at'[p]] # "settled"
                    /\ UnsettledChildren(at[p])' = {}
  BY DEF PlansHold
<1>0. QueueInv /\ QueueInv'
  BY QueueInvStep DEF RollupInv
<1>1. CASE SettleLock(p)
  <2>1. at[p] \in Nodes
    BY <1>0, <1>1 DEF SettleLock, QueueInv, TypeInv, ProcTypes, HasNode
  <2>2. /\ at' = at /\ settled' = settled /\ logged' = logged
        /\ plan'[p] = Planned(p, at[p]) /\ UnsettledChildren(at[p]) = {}
    BY <1>0, <1>1 DEF SettleLock, MaySettle, QueueInv, TypeInv, ProcTypes
  <2>3. Children(at[p])' = Children(at[p])
    BY <2>2 DEF Children, Exists
  <2>4. Planned(p, at[p])' = Planned(p, at[p])
    BY <2>1, <2>2, <2>3, SameOffer DEF Planned
  <2>5. UnsettledChildren(at[p])' = UnsettledChildren(at[p])
    BY <2>2, <2>3 DEF UnsettledChildren
  <2>6. plan'[p] # {} => settled'[at'[p]] # "settled"
    BY <2>1, <2>2 DEF Planned, RollupInv, PublishedIsRolledUp
  <2> QED
    BY <2>1, <2>2, <2>4, <2>5, <2>6
<1>2. CASE ~SettleLock(p)
  <2> DEFINE n == at[p]
  <2>1. Settling(p) /\ at'[p] = n /\ seen'[p] = seen[p] /\ plan'[p] = plan[p]
    BY <1>0, <1>2, SettlerStep DEF QueueInv
  <2>2. n \in Nodes /\ Exists(n) /\ StructuringComplete(n) /\ settled'[n] = settled[n]
    <3>1. /\ n \in Nodes /\ Exists(n) /\ StructuringComplete(n)
          /\ seen[p] = [m \in {n} |-> settled[m]]
      BY <1>0, <2>1, UnlockedUnsettling DEF QueueInv, Documents, ReadsHold
    <3>2. seen'[p] = [m \in {n} |-> settled'[m]]
      BY <1>0, <2>1 DEF QueueInv, Documents, ReadsHold
    <3> QED
      BY <2>1, <3>1, <3>2
  <2>3. UnsettledChildren(n)' = {}
    BY <1>0, <2>1, ChildrenStaySettled DEF RollupInv
  <2>4. Offered(n)' = Offered(n)
    BY <1>0, <2>1, <2>2, OfferStays DEF RollupInv
  <2>5. Planned(p, n)' = Planned(p, n)
    BY <2>1, <2>4 DEF Planned
  <2> QED
    BY <2>1, <2>2, <2>3, <2>5 DEF RollupInv, PlansHold
<1> QED
  BY <1>1, <1>2

(* The start, and every step.                                              *)
LEMMA RollupInvInit ==
  ASSUME SteadyRollups, NEW W \in SUBSET Nodes, Init
  PROVE  RollupInv(W)
<1>1. QueueInv
  BY QueueInvInit
<1>2. \A p \in Procs : pc[p] \in {"boot", "idle"}
  BY DEF Init
<1>3. PublishedIsRolledUp
  <2> SUFFICES ASSUME NEW n \in Nodes, settled[n] = "settled" PROVE Offered(n) = {}
    BY DEF PublishedIsRolledUp
  <2>1. n \in Existing /\ \A t \in Queued : ~Within(Scope[t], n)
    BY DEF Init
  <2> QED
    BY <1>1, <2>1, NothingToOffer DEF SteadyRollups, QueueInv
<1> QED
  BY <1>1, <1>2, <1>3 DEF RollupInv, ClientsOutside, PlansHold, Settling, Procs

LEMMA RollupInvStep ==
  ASSUME SafeDeployment, SteadyRollups, NEW W \in SUBSET Nodes, Outside(W), RollupInv(W), [Next]_vars
  PROVE  RollupInv(W)'
BY QueueInvStep, ClientsOutsideStep, RolledUpStep, PlansHoldStep DEF RollupInv, QueueInv

(* What a walk publishes is finished in that very state.                   *)
LEMMA PublishesFinished ==
  ASSUME SafeDeployment, QueueInv, PlansHold, [Next]_vars, NEW n \in Nodes,
         settled[n] # "settled", settled[n] # "absent", settled'[n] = "settled"
  PROVE  StructuringComplete(n)' /\ UnsettledChildren(n)' = {}
<1>1. PICK p \in Procs : SettleCommit(p) /\ at[p] = n
  BY NodeStep DEF Born, Deleted, Undone, Walked
<1>2. Settling(p)
  BY <1>1 DEF SettleCommit, Settling
<1>3. StructuringComplete(n)'
  BY PublishedOwesNothingStep DEF PublishedOwesNothing
<1>4. UnsettledChildren(n)' = {}
  <2>1. ASSUME NEW m \in Nodes, Parent[m] = n PROVE settled'[m] = settled[m]
    <3>1. m # n
      BY <2>1, TreeAssumption, NoOneAssumption
    <3> QED
      BY <1>1, <3>1, WalkChanges
  <2>2. UnsettledChildren(n) = {}
    BY <1>1, <1>2 DEF PlansHold
  <2> QED
    BY <2>1, <2>2 DEF UnsettledChildren, Children, Exists
<1> QED
  BY <1>3, <1>4

(* A published node carries its whole rollup, in every safe deployment in  *)
(* which uploads and deletions stay outside of what is rolled up.          *)
THEOREM RollupsComplete ==
  ASSUME SafeDeployment, SteadyRollups
  PROVE  Spec => []PublishedIsRolledUp
<1>0. PICK W \in SUBSET Nodes : Outside(W)
  BY DEF SteadyRollups
<1>1. Init => RollupInv(W)
  BY RollupInvInit
<1>2. RollupInv(W) /\ [Next]_vars => RollupInv(W)'
  BY <1>0, RollupInvStep
<1>3. RollupInv(W) => PublishedIsRolledUp
  BY DEF RollupInv
<1> QED
  BY <1>1, <1>2, <1>3, PTL DEF Spec

(* A walk never publishes over unfinished work: in the state in which a    *)
(* node becomes settled its own tasks are done and its children settled,   *)
(* whatever was uploaded, deleted or finished since the walk looked, where *)
(* uploads and deletions stay outside of what is rolled up. (Where they do *)
(* not, a second walk may reopen a settled child while the first settles   *)
(* the parent.)                                                            *)
THEOREM WalksPublishFinished ==
  ASSUME SafeDeployment, SteadyRollups
  PROVE  Spec => SettlesOverFinished
<1>0. PICK W \in SUBSET Nodes : Outside(W)
  BY DEF SteadyRollups
<1>1. Init => RollupInv(W)
  BY RollupInvInit
<1>2. RollupInv(W) /\ [Next]_vars => RollupInv(W)'
  BY <1>0, RollupInvStep
<1>3. RollupInv(W) /\ [Next]_vars =>
        [\A n \in Nodes :
           settled[n] # "settled" /\ settled[n] # "absent" /\ settled'[n] = "settled" =>
             StructuringComplete(n)' /\ (UnsettledChildren(n) = {})']_vars
  BY PublishesFinished DEF RollupInv
<1> QED
  BY <1>1, <1>2, <1>3, PTL DEF Spec, SettlesOverFinished
-----------------------------------------------------------------------------
(* Down the tree. A document's parent is there as long as it is, and what  *)
(* is below a published document is published with it, except where the    *)
(* requests come and go.                                                   *)
ParentsThere == \A n \in Nodes : Exists(n) /\ Parent[n] # NoOne => Exists(Parent[n])
ChildrenSettled(W) ==
  \A n \in Nodes \ W : settled[n] = "settled" => UnsettledChildren(n) = {}

TreeInv(W) == RollupInv(W) /\ ParentsThere /\ ChildrenSettled(W)

(* A document leaves with all that is on it.                               *)
LEMMA LeavesWithChildren ==
  ASSUME SafeDeployment, QueueInv, [Next]_vars, NEW n \in Nodes, Exists(n), ~Exists(n)',
         NEW m \in Nodes, Parent[m] = n
  PROVE  ~Exists(m)'
<1>1. settled'[n] # settled[n] /\ settled'[n] \notin NodeStates
  BY DEF Exists
<1>2. Deleted(n)
  BY <1>1, NodeStep DEF Born, BornAs, Undone, Walked, NodeStates
<1>3. PICK c \in Clients, x \in Nodes : Delete(c, x) /\ n \in Descendants(x)
  BY <1>2 DEF Deleted
<1>4. m \in Descendants(x)
  BY <1>3, WithinTransitive, TreeAssumption, PathTransitive, NoOneAssumption DEF Descendants, Within
<1> QED
  BY <1>3, <1>4 DEF Delete, Exists, NodeStates

LEMMA ParentsThereStep ==
  ASSUME SafeDeployment, QueueInv, ParentsThere, [Next]_vars
  PROVE  ParentsThere'
<1> SUFFICES ASSUME NEW m \in Nodes, Exists(m)', Parent[m] # NoOne, ~Exists(Parent[m])'
             PROVE  FALSE
  BY DEF ParentsThere, Exists
<1>1. Parent[m] \in Nodes
  BY TreeAssumption
<1>2. ~Exists(Parent[m])
  BY <1>1, LeavesWithChildren
<1>3. Born(m)
  BY <1>2, NewIsBorn DEF ParentsThere
<1>4. PICK w \in Workers : HandleCommit(w) /\ m \in Made(job[w])
  BY <1>2, <1>3 DEF Born
<1>5. Maker[m] = job[w] /\ job[w] # NoOne
  BY <1>4, HandlerFinds, NoOneAssumption DEF Made
<1>6. Parent[m] # Scope[job[w]]
  BY <1>2, <1>4, HandlerFinds DEF Exists, NodeStates
<1>7. Parent[m] \in Made(job[w])
  BY <1>1, <1>5, <1>6, HandlerAssumption DEF Made
<1>8. settled'[Parent[m]] \in {"in_flight", "settled"}
  BY <1>1, <1>4, <1>7, HandlerLeaves DEF BornAs
<1> QED
  BY <1>8 DEF Exists, NodeStates

(* A child born to a published document, or left unfinished under one.     *)
LEMMA ChildrenSettledStep ==
  ASSUME SafeDeployment, NEW W \in SUBSET Nodes, Outside(W), TreeInv(W), [Next]_vars
  PROVE  ChildrenSettled(W)'
<1> SUFFICES ASSUME NEW n \in Nodes \ W, settled'[n] = "settled",
                    NEW m \in Nodes, Parent[m] = n, Exists(m)', settled'[m] # "settled"
             PROVE  FALSE
  BY DEF ChildrenSettled, UnsettledChildren, Children
<1>0. QueueInv /\ PlansHold /\ ParentsThere
  BY DEF TreeInv, RollupInv
<1>1. m \notin Uploads /\ n # NoOne /\ m # n
  BY NoOneAssumption, TreeAssumption DEF Outside
<1>2. CASE settled[n] = "settled" /\ ~Exists(m)
  <2>1. StructuringComplete(n) /\ Exists(n)
    BY <1>0, <1>2 DEF QueueInv, Documents, PublishedOwesNothing, Exists, NodeStates
  <2> QED
    BY <1>0, <1>1, <1>2, <2>1, NewChild
<1>3. CASE settled[n] = "settled" /\ Exists(m)
  <2>1. settled[m] = "settled"
    BY <1>3 DEF TreeInv, ChildrenSettled, UnsettledChildren, Children
  <2>2. ~Born(m) /\ ~Deleted(m)
    BY <2>1 DEF Born, Deleted, Exists, NodeStates
  <2>3. ~Undone(m)
    BY <1>0, <2>1 DEF Undone, QueueInv, Documents, PublishedOwesNothing, StructuringComplete,
       Unfinished, Reserving, Reapable
  <2>4. ~Walked(m)
    BY <1>0, <2>1 DEF Walked, SettleCommit, Settling, PlansHold
  <2> QED
    BY <1>0, <2>1, <2>2, <2>3, <2>4, NodeStep
<1>4. CASE settled[n] # "settled" /\ settled[n] # "absent"
  BY <1>0, <1>4, PublishesFinished DEF UnsettledChildren, Children
<1>5. CASE settled[n] = "absent"
  <2>1. Born(n)
    BY <1>0, <1>5, NewIsBorn DEF Exists, NodeStates
  <2>2. PICK w \in Workers : HandleCommit(w) /\ settled'[n] = BornAs(n, Spawned(job[w]))
    BY <2>1 DEF Born
  <2>3. ~Exists(m)
    BY <1>0, <1>1, <1>5 DEF ParentsThere, Exists, NodeStates
  <2>4. PICK v \in Workers : HandleCommit(v) /\ settled'[m] = BornAs(m, Spawned(job[v]))
    BY <1>0, <1>1, <2>3, NewIsBorn DEF Born
  <2>5. v = w
    BY <1>0, <2>2, <2>4, WorkerIsProc DEF HandleCommit, QueueInv, TypeInv, ProcTypes
  <2>6. PICK s \in Spawned(job[w]) : Within(Scope[s], m)
    BY <2>4, <2>5 DEF BornAs
  <2>7. Within(Scope[s], n)
    BY <2>6, WithinTransitive, RowAssumption DEF Spawned
  <2> QED
    BY <2>2, <2>6, <2>7 DEF BornAs
<1> QED
  BY <1>2, <1>3, <1>4, <1>5

LEMMA TreeInvInit ==
  ASSUME SteadyRollups, NEW W \in SUBSET Nodes, Init
  PROVE  TreeInv(W)
<1>1. \A n \in Nodes : Exists(n) <=> n \in Existing
  BY DEF Init, Exists, NodeStates
<1>2. ParentsThere
  BY <1>1, HandlerAssumption, TreeAssumption DEF ParentsThere
<1>3. ASSUME NEW n \in Nodes, settled[n] = "settled", NEW m \in Nodes, Parent[m] = n, Exists(m)
      PROVE  settled[m] = "settled"
  <2>1. \A t \in Queued : ~Within(Scope[t], n)
    BY <1>3 DEF Init
  <2>2. \A t \in Queued : ~Within(Scope[t], m)
    BY <1>3, <2>1, WithinTransitive, WorkAssumption, RowAssumption
  <2> QED
    BY <1>1, <1>3, <2>2 DEF Init
<1> QED
  BY <1>2, <1>3, RollupInvInit DEF TreeInv, ChildrenSettled, UnsettledChildren, Children

LEMMA TreeInvStep ==
  ASSUME SafeDeployment, SteadyRollups, NEW W \in SUBSET Nodes, Outside(W), TreeInv(W), [Next]_vars
  PROVE  TreeInv(W)'
<1>1. RollupInv(W)' /\ ParentsThere'
  BY RollupInvStep, ParentsThereStep DEF TreeInv, RollupInv
<1>2. ChildrenSettled(W)'
  BY ChildrenSettledStep
<1> QED
  BY <1>1, <1>2 DEF TreeInv

(* Where nothing is rolled up, nothing above is either.                    *)
LEMMA OutsideUpward ==
  ASSUME NEW W \in SUBSET Nodes, Outside(W)
  PROVE  \A n \in W : Path[n] \subseteq W
<1> DEFINE B == {n \in W : ~(Path[n] \subseteq W)}
<1>1. ASSUME B # {} PROVE FALSE
  <2>1. PICK n \in B : Parent[n] \notin B
    BY <1>1, LowestFirst
  <2>2. Parent[n] \in W /\ Path[n] = {Parent[n]} \cup Path[Parent[n]]
    BY <2>1, TreeAssumption DEF Outside
  <2> QED
    BY <2>1, <2>2
<1> QED
  BY <1>1

(* From the children to everything below: a document with no unsettled     *)
(* child has nothing unsettled below it. Otherwise the highest of what is  *)
(* unsettled there has a parent that is settled, and is its child.         *)
LEMMA AllTheWayDown ==
  ASSUME NEW W \in SUBSET Nodes, Outside(W), ParentsThere, ChildrenSettled(W),
         NEW n \in Nodes \ W, UnsettledChildren(n) = {},
         NEW k \in Nodes, n \in Path[k], Exists(k)
  PROVE  settled[k] = "settled"
<1> DEFINE B == {m \in Nodes : n \in Path[m] /\ Exists(m) /\ settled[m] # "settled"}
<1>1. ASSUME B # {} PROVE FALSE
  <2>1. PICK m \in B : Parent[m] \notin B
    BY <1>1, LowestFirst
  <2>2. Parent[m] \in Nodes /\ Path[m] = {Parent[m]} \cup Path[Parent[m]] /\ Parent[m] # NoOne
    BY <2>1, TreeAssumption, NoOneAssumption
  <2>3. Parent[m] # n
    BY <2>1 DEF UnsettledChildren, Children
  <2>4. n \in Path[Parent[m]]
    BY <2>1, <2>2, <2>3
  <2>5. settled[Parent[m]] = "settled"
    BY <2>1, <2>2, <2>4 DEF ParentsThere
  <2>6. Parent[m] \notin W
    BY <2>4, OutsideUpward
  <2> QED
    BY <2>1, <2>2, <2>5, <2>6 DEF ChildrenSettled, UnsettledChildren, Children
<1> QED
  BY <1>1

(* A document a walk may settle owes nothing, however deep.                *)
LEMMA NothingOwedBelow ==
  ASSUME NEW W \in SUBSET Nodes, Outside(W), TreeInv(W), NEW n \in Nodes \ W,
         StructuringComplete(n), UnsettledChildren(n) = {},
         NEW u \in Tasks, Within(Scope[u], n)
  PROVE  ~Unfinished(row[u])
<1>1. Scope[u] \in Nodes
  BY RowAssumption
<1>2. CASE Scope[u] = n
  BY <1>2 DEF StructuringComplete
<1>3. CASE n \in Path[Scope[u]] /\ Exists(Scope[u])
  <2>1. settled[Scope[u]] = "settled"
    BY <1>1, <1>3, AllTheWayDown DEF TreeInv
  <2> QED
    BY <1>1, <2>1
       DEF TreeInv, RollupInv, QueueInv, Documents, PublishedOwesNothing, StructuringComplete
<1>4. CASE ~Exists(Scope[u])
  <2>1. row[u].status \in NoRow
    BY <1>1, <1>4 DEF TreeInv, RollupInv, QueueInv, Documents, NoRowsYet, NoRowsLeft, TypeInv,
       RowTypes, Exists, NoRow
  <2> QED
    BY <2>1 DEF Unfinished, HasRetryLeft, Reserving, NoRow
<1> QED
  BY <1>2, <1>3, <1>4 DEF Within

(* The planner offers one rung at most, and that in its turn.              *)
LEMMA OfferInTurn ==
  ASSUME TypeInv, NEW n \in Nodes, NEW t \in Offered(n)
  PROVE  /\ Offered(n) = {t} /\ logged[t] = 0
         /\ \E i \in DOMAIN RungsOf(n) :
              /\ RungsOf(n)[i] = t
              /\ \A j \in 1..(i - 1) : /\ logged[RungsOf(n)[j]] > 0
                                       /\ RungsOf(n)[j] \in AllRungs(n)
<1> DEFINE rungs == RungsOf(n)
           fresh(k) == logged[rungs[k]] = 0 /\ \A j \in 1..(k - 1) : logged[rungs[j]] > 0
<1>1. rungs \in Seq(Tasks)
  BY WorkAssumption DEF RungsOf, Children
<1>2. \A i \in DOMAIN rungs : rungs[i] \in AllRungs(n)
  <2>1. Cardinality(Children(n)) \in DOMAIN Rungs[n]
    BY RungAssumption DEF Children
  <2>2. rungs \in {Rungs[n][k] : k \in DOMAIN Rungs[n]}
    BY <2>1 DEF RungsOf
  <2>3. {rungs[i] : i \in DOMAIN rungs} \in
          {{q[i] : i \in DOMAIN q} : q \in {Rungs[n][k] : k \in DOMAIN Rungs[n]}}
    BY <2>2
  <2> QED
    BY <2>3 DEF AllRungs
<1>3. Offered(n) = {rungs[i] : i \in {k \in DOMAIN rungs : fresh(k)}}
  BY DEF Offered
<1>4. \A k \in DOMAIN rungs : k \in Nat /\ \A j \in 1..(k - 1) : j \in DOMAIN rungs
  BY <1>1
<1> HIDE DEF rungs
<1>5. PICK i \in DOMAIN rungs : rungs[i] = t /\ fresh(i)
  BY <1>3
<1>6. ASSUME NEW k \in DOMAIN rungs, fresh(k) PROVE k = i
  <2>1. k \in Nat /\ i \in Nat /\ k > 0 /\ i > 0
    BY <1>1, <1>4
  <2>2. ~(k < i)
    BY <1>5, <1>6, <2>1
  <2>3. ~(i < k)
    BY <1>5, <1>6, <2>1
  <2> QED
    BY <2>1, <2>2, <2>3
<1>7. Offered(n) = {t}
  BY <1>3, <1>5, <1>6
<1>8. \A j \in 1..(i - 1) : logged[rungs[j]] > 0 /\ rungs[j] \in AllRungs(n)
  BY <1>2, <1>4, <1>5
<1> QED
  BY <1>5, <1>7, <1>8 DEF rungs

(* A rollup is enqueued only once its inputs are complete: nothing at or   *)
(* below its node owes work, however deep, whoever works there, fails      *)
(* or comes back meanwhile; and it is the rung the children call for, the  *)
(* rungs before it being in the log. In every safe deployment in which     *)
(* uploads and deletions stay outside of what is rolled up.                *)
THEOREM RollupsAfterInputs ==
  ASSUME SafeDeployment, SteadyRollups
  PROVE  Spec => RollupAfterInputs
<1>0. PICK W \in SUBSET Nodes : Outside(W)
  BY DEF SteadyRollups
<1>1. Init => TreeInv(W)
  BY TreeInvInit
<1>2. TreeInv(W) /\ [Next]_vars => TreeInv(W)'
  BY <1>0, TreeInvStep
<1> DEFINE InTurn(n, t) ==
      /\ \A u \in Tasks \ {t} : Within(Scope[u], n) => ~Unfinished(row'[u])
      /\ \E i \in DOMAIN RungsOf(n)' :
           /\ RungsOf(n)'[i] = t
           /\ \A j \in 1..(i - 1) : logged'[RungsOf(n)'[j]] = 1
<1>3. ASSUME TreeInv(W), RollupOnce, [Next]_vars,
             NEW n \in Nodes, NEW t \in AllRungs(n), logged'[t] # logged[t]
      PROVE  InTurn(n, t)
  <2>0. /\ QueueInv /\ TypeInv /\ PlansHold /\ n \notin W /\ t \in Tasks
        /\ logged \in [Tasks -> Nat]
    BY <1>0, <1>3, RungAssumption DEF TreeInv, RollupInv, QueueInv, Outside, TypeInv, RowTypes
  <2>1. PICK p \in Procs : SettleCommit(p) /\ Settling(p) /\ at[p] = n /\ t \in plan[p]
    BY <1>3, <2>0, RungLoggedThere
  <2>2. /\ plan[p] = Offered(n) /\ UnsettledChildren(n) = {}
        /\ Exists(n) /\ StructuringComplete(n)
    BY <2>0, <2>1 DEF PlansHold, Planned, QueueInv, Documents, ReadsHold
  <2>3. /\ plan[p] = {t} /\ logged[t] = 0
        /\ \E i \in DOMAIN RungsOf(n) :
             /\ RungsOf(n)[i] = t
             /\ \A j \in 1..(i - 1) : /\ logged[RungsOf(n)[j]] > 0
                                      /\ RungsOf(n)[j] \in AllRungs(n)
    BY <2>0, <2>1, <2>2, OfferInTurn
  <2>4. ASSUME NEW u \in Tasks \ {t}, Within(Scope[u], n) PROVE ~Unfinished(row'[u])
    <3>1. row'[u] = row[u]
      BY <2>1, <2>3, <2>4 DEF SettleCommit, EnqueuedRows
    <3> QED
      BY <1>0, <1>3, <2>0, <2>2, <2>4, <3>1, NothingOwedBelow
  <2>5. RungsOf(n)' = RungsOf(n)
    <3>1. Exists(n)'
      BY <2>0, <2>1, <2>3, WalkChanges DEF Exists, NodeStates
    <3>2. Children(n)' = Children(n)
      BY <1>0, <1>3, <2>0, <2>2, <3>1, ChildrenStay
    <3> QED
      BY <3>2 DEF RungsOf
  <2>6. ASSUME NEW r \in AllRungs(n), logged[r] > 0 PROVE logged'[r] = 1
    <3>1. r \in Tasks /\ r # t
      BY <2>0, <2>3, <2>6, RungAssumption
    <3>2. logged'[r] = logged[r]
      BY <2>1, <2>3, <3>1 DEF SettleCommit, EnqueuedLog
    <3>3. logged[r] <= 1
      BY <1>3, <2>6 DEF RollupOnce
    <3> QED
      BY <2>0, <2>6, <3>1, <3>2, <3>3
  <2> QED
    BY <2>3, <2>4, <2>5, <2>6
<1>4. TreeInv(W) /\ RollupOnce /\ [Next]_vars =>
        [\A n \in Nodes : \A t \in AllRungs(n) : logged'[t] # logged[t] => InTurn(n, t)]_vars
  BY <1>3
<1>5. Spec => []RollupOnce
  BY OneRollup
<1> QED
  BY <1>1, <1>2, <1>4, <1>5, PTL DEF Spec, RollupAfterInputs

(* What is published is finished all the way down: outside of where the    *)
(* requests come and go, everything below a settled document is settled.   *)
THEOREM FinishedAllTheWayDown ==
  ASSUME SafeDeployment, SteadyRollups, NEW W \in SUBSET Nodes, Outside(W)
  PROVE  Spec => [](\A n \in Nodes \ W : settled[n] = "settled" =>
                      \A m \in Descendants(n) : Exists(m) => settled[m] = "settled")
<1>1. Init => TreeInv(W)
  BY TreeInvInit
<1>2. TreeInv(W) /\ [Next]_vars => TreeInv(W)'
  BY TreeInvStep
<1>3. TreeInv(W) => \A n \in Nodes \ W : settled[n] = "settled" =>
                      \A m \in Descendants(n) : Exists(m) => settled[m] = "settled"
  BY AllTheWayDown DEF TreeInv, ChildrenSettled, Descendants, Within
<1> QED
  BY <1>1, <1>2, <1>3, PTL DEF Spec
=============================================================================
