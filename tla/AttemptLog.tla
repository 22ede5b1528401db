----------------------------- MODULE AttemptLog -----------------------------
(***************************************************************************)
(* The durable record of one document: the `attempts` evidence row, which  *)
(* every task scoped to the document writes when it is enqueued and when   *)
(* it ends, in the transaction that writes its task_queue row.             *)
(*                                                                         *)
(* An entry is enqueued `pending`. The end of a try replaces that entry;   *)
(* the end of a retry, which finds its predecessor's terminal entry, is    *)
(* appended. To append is one statement on the stored list. To replace is  *)
(* a read and, later in the same transaction, a write of the whole list;   *)
(* a transaction that wrote the row keeps it locked until it ends.         *)
(*                                                                         *)
(* The task rows take the steps of TaskLifecycle, which is what the queue  *)
(* implements wherever recovery touches only abandoned claims.             *)
(***************************************************************************)
EXTENDS TaskLifecycle, SequencesExt

CONSTANTS
  Queued,    \* tasks pending at the start
  Spawner,   \* [Tasks -> Tasks \cup {NoOne}], whose handler enqueues it
  Rung,      \* tasks the settle walk offers once nothing else is unfinished
  MaxFaults  \* bound: crashes of a behaviour

ASSUME LogAssumption ==
  /\ IsFiniteSet(Tasks)
  /\ Queued \subseteq Tasks
  /\ Rung \subseteq Tasks
  /\ Spawner \in [Tasks -> Tasks \cup {NoOne}]
  /\ \A s, t \in Tasks : Scope[s] = Scope[t]
  /\ MaxFaults \in Nat

VARIABLES
  log,     \* the stored list: the value of the `attempts` evidence row
  writer,  \* the worker whose open transaction has written the row
  pc,      \* per worker: phase
  held,    \* per worker: the tasks whose end its transaction will write
  read,    \* per worker: the list its transaction has read
  faults   \* bound counter

logVars == <<log, writer, pc, held, read, faults>>
vars == <<lifecycle, logVars>>

Phases == {"idle", "claimed", "running", "completing", "raised", "failing", "reaping", "down"}
Terminal == {"completed", "failed"}
Entries == [task : Tasks, status : {"pending"} \cup Terminal]
Entry(t, status) == [task |-> t, status |-> status]

-----------------------------------------------------------------------------
(* upsert_attempt.                                                         *)

(* Mutant: a task's last entry is replaced whether or not it is terminal.  *)
LiveOrNot(list, t) ==
  {i \in DOMAIN list : list[i].task = t /\ \A j \in DOMAIN list : j > i => list[j].task # t}

(* The task's last entry, when that entry is not terminal.                 *)
Live(list, t) ==
  {i \in DOMAIN list : /\ list[i] = Entry(t, "pending")
                       /\ \A j \in DOMAIN list : j > i => list[j].task # t}

(* Mutant: the outcome is appended beside the live entry.                  *)
AlwaysAppended(stored, base, t, status) == Append(stored, Entry(t, status))

(* Replace the live entry of the list that was read, or append to the      *)
(* list that is stored.                                                    *)
Upserted(stored, base, t, status) ==
  IF Live(base, t) = {} THEN Append(stored, Entry(t, status))
  ELSE [i \in DOMAIN base |-> IF i \in Live(base, t) THEN Entry(t, status) ELSE base[i]]

(* Several outcomes in one transaction: each reads what the last one wrote, *)
(* so that only the first can overwrite with a list read before.           *)
AllFailed(stored, base, S) ==
  LET first == CHOOSE t \in S : TRUE
      list == Upserted(stored, base, first, "failed")
      live == UNION {Live(list, t) : t \in S}
      late == {t \in S \ {first} : Live(list, t) = {}}
  IN  [i \in DOMAIN list |-> IF i \in live THEN Entry(list[i].task, "failed") ELSE list[i]]
        \o SetToSeq({Entry(t, "failed") : t \in late})

PendingEntries(S) == SetToSeq({Entry(t, "pending") : t \in S})

-----------------------------------------------------------------------------
Init ==
  /\ row = [t \in Tasks |-> IF t \in Queued THEN [AbsentRow EXCEPT !.status = "pending"]
                                            ELSE AbsentRow]
  /\ effects = [t \in Tasks |-> 0]
  /\ log = PendingEntries(Queued)
  /\ writer = NoOne
  /\ pc = [w \in Workers |-> "idle"]
  /\ held = [w \in Workers |-> {}]
  /\ read = [w \in Workers |-> <<>>]
  /\ faults = 0

Goto(w, phase, S, list) ==
  /\ pc' = [pc EXCEPT ![w] = phase]
  /\ held' = [held EXCEPT ![w] = S]
  /\ read' = [read EXCEPT ![w] = list]

EndTx(w, phase, S) == Goto(w, phase, S, <<>>) /\ writer' = IF writer = w THEN NoOne ELSE writer

ClaimNext(w, t) ==
  /\ pc[w] = "idle"
  /\ Claim(t, w)
  /\ Goto(w, "claimed", {t}, <<>>)
  /\ UNCHANGED <<log, writer, faults>>

MarkRunning(w, t) ==
  /\ pc[w] = "claimed" /\ held[w] = {t}
  /\ Start(t)
  /\ Goto(w, "running", {t}, <<>>)
  /\ UNCHANGED <<log, writer, faults>>

Spawned(t) == {s \in Tasks : Spawner[s] = t /\ row[s].status = "absent"}

(* The handler's last part: it enqueues its successors on the document,    *)
(* whose pending entries it appends and so locks the row; complete() then  *)
(* reads the list, with its own entries if there are any.                  *)
HandleRead(w, t) ==
  /\ pc[w] = "running" /\ held[w] = {t}
  /\ IF Spawned(t) = {} THEN UNCHANGED writer ELSE writer = NoOne /\ writer' = w
  /\ Goto(w, "completing", {t}, log \o PendingEntries(Spawned(t)))
  /\ UNCHANGED <<lifecycle, log, faults>>

(* complete() writes the list, and the transaction commits.                *)
HandleCommit(w, t) ==
  /\ pc[w] = "completing" /\ held[w] = {t}
  /\ writer \in {NoOne, w}
  /\ Complete(t, Spawned(t))
  /\ log' = Upserted(log \o PendingEntries(Spawned(t)), read[w], t, "completed")
  /\ EndTx(w, "idle", {})
  /\ UNCHANGED faults

(* The handler or its commit raises: everything it wrote is rolled back.   *)
HandleRaise(w, t) ==
  /\ pc[w] \in {"running", "completing"} /\ held[w] = {t}
  /\ EndTx(w, "raised", {t})
  /\ UNCHANGED <<lifecycle, log, faults>>

(* _record_failure, in a transaction of its own.                           *)
RecordRead(w, t) ==
  /\ pc[w] = "raised" /\ held[w] = {t}
  /\ Goto(w, "failing", {t}, log)
  /\ UNCHANGED <<lifecycle, log, writer, faults>>

RecordCommit(w, t, retryable) ==
  /\ pc[w] = "failing" /\ held[w] = {t}
  /\ writer = NoOne
  /\ Fail({t}, retryable, TRUE)
  /\ log' = Upserted(log, read[w], t, "failed")
  /\ EndTx(w, "idle", {})
  /\ UNCHANGED faults

Abandoned == {t \in Tasks : row[t].status \in Reapable /\ \A w \in Workers : t \notin held[w]}

(* requeue_expired_claims: all abandoned rows in one transaction, one      *)
(* reaper at a time.                                                       *)
ReapRead(w) ==
  /\ pc[w] = "idle"
  /\ \A v \in Workers : pc[v] # "reaping"
  /\ Abandoned # {}
  /\ Goto(w, "reaping", Abandoned, log)
  /\ UNCHANGED <<lifecycle, log, writer, faults>>

ReapCommit(w) ==
  /\ pc[w] = "reaping"
  /\ writer = NoOne
  /\ Fail(held[w], TRUE, FALSE)
  /\ log' = AllFailed(log, read[w], held[w])
  /\ EndTx(w, "idle", {})
  /\ UNCHANGED faults

Crash(w) ==
  /\ faults < MaxFaults
  /\ pc[w] # "down"
  /\ EndTx(w, "down", {})
  /\ faults' = faults + 1
  /\ UNCHANGED <<lifecycle, log>>

Return(w) ==
  /\ pc[w] = "down"
  /\ EndTx(w, "idle", {})
  /\ UNCHANGED <<lifecycle, log, faults>>

BackoffPasses(t) == BackoffEnds(t) /\ UNCHANGED logVars

(* The settle walk enqueues the next rung: nothing on the document is      *)
(* unfinished, and the new task's entry is appended.                       *)
Offer(t) ==
  /\ t \in Rung
  /\ row[t].status = "absent"
  /\ \A s \in Tasks : ~Unfinished(row[s])
  /\ writer = NoOne
  /\ Enqueue({t})
  /\ log' = Upserted(log, log, t, "pending")
  /\ UNCHANGED <<writer, pc, held, read, faults>>

Next ==
  \/ \E w \in Workers, t \in Tasks : ClaimNext(w, t) \/ MarkRunning(w, t)
  \/ \E w \in Workers, t \in Tasks : HandleRead(w, t) \/ HandleCommit(w, t) \/ HandleRaise(w, t)
  \/ \E w \in Workers, t \in Tasks : RecordRead(w, t)
  \/ \E w \in Workers, t \in Tasks, retryable \in BOOLEAN : RecordCommit(w, t, retryable)
  \/ \E w \in Workers : ReapRead(w) \/ ReapCommit(w) \/ Crash(w) \/ Return(w)
  \/ \E t \in Tasks : BackoffPasses(t) \/ Offer(t)

Spec == Init /\ [][Next]_vars

-----------------------------------------------------------------------------
(* The stored list holds entries of tasks that were enqueued, and whoever  *)
(* locks its row is about to end a task it holds.                          *)
TypeOK ==
  /\ row \in [Tasks -> Rows]
  /\ effects \in [Tasks -> Nat]
  /\ \A i \in DOMAIN log : log[i] \in Entries /\ row[log[i].task].status # "absent"
  /\ writer # NoOne => pc[writer] = "completing"
  /\ pc \in [Workers -> Phases]
  /\ held \in [Workers -> SUBSET Tasks]
  /\ \A w \in Workers : held[w] = {} <=> pc[w] \in {"idle", "down"}
  /\ faults \in 0..MaxFaults

EntriesOf(t) == {i \in DOMAIN log : log[i].task = t}
Outcome(t) == {log[i].status : i \in {j \in EntriesOf(t) : \A k \in EntriesOf(t) : k <= j}}

(* complete() and fail(): "the single thing that must not happen is one    *)
(* being written without the other". What the log says last of a task is   *)
(* how its last try ended, or that it has not ended one yet.               *)
LogMatchesRow ==
  \A t \in Tasks :
    Outcome(t) = IF row[t].status \in NoRow THEN {}
                 ELSE IF row[t].status \in Terminal THEN {row[t].status}
                 ELSE IF row[t].retries > 0 THEN {"failed"}
                 ELSE {"pending"}

(* One attempt is one entry: a task has an entry per try that ended, and   *)
(* one while its first try has not; a retry in progress has none yet.      *)
OneEntryPerAttempt ==
  \A t \in Tasks :
    Cardinality(EntriesOf(t)) =
      IF row[t].status \in NoRow THEN 0
      ELSE IF row[t].retries > 0 /\ row[t].status \in Reserving THEN row[t].retries
      ELSE row[t].retries + 1

(* Spec 5.6 and upsert_attempt: the record is durable. No writer loses or  *)
(* rewrites the terminal entry of another, or of an earlier try.           *)
HistoryKept ==
  [][\A i \in DOMAIN log : log[i].status \in Terminal =>
       i \in DOMAIN log' /\ log'[i] = log[i]]_vars
=============================================================================
