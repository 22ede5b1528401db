----------------------------- MODULE BatchQueue -----------------------------
(***************************************************************************)
(* The batch workers: the second consumer of the queue. A pass delivers    *)
(* what the provider has answered, then gathers claims, submits them as    *)
(* one batch and trades the claims for `batched`; from then on any worker  *)
(* may adopt the batch. Around them: the provider, the reaper of some      *)
(* ingest worker, crashes, and clients that delete documents.              *)
(*                                                                         *)
(* A transaction that only touches rows it has just loaded is one action;  *)
(* the delivery, which holds its copies across calls to the provider, is   *)
(* two. A direct ingest worker beside these is IngestQueue's subject.      *)
(***************************************************************************)
EXTENDS TaskLifecycle

CONSTANTS
  Batches,     \* batch ids the provider may issue
  GatherSize,  \* `gather_size`
  Other,       \* tasks that are not summarize:llm and carry no badge
  Shrinks,     \* tasks whose text may fit the window by the time they are gathered
  Replies,     \* of Answers, those the provider may give; "missing" is a request
               \* that its results leave out
  Deletable,   \* tasks whose document a client may delete
  MaxFaults    \* bound: crashes, provider and database errors, lapsed leases,
               \* deletions

ASSUME BatchAssumption ==
  /\ NoOne \notin Batches /\ Batches \subseteq Nat
  /\ GatherSize \in Nat \ {0}
  /\ Other \subseteq Tasks /\ Shrinks \subseteq Tasks /\ Deletable \subseteq Tasks
  /\ Replies \subseteq {"text", "refused", "transient", "missing"}
  /\ MaxFaults \in Nat

VARIABLES
  batchId,   \* task_queue.batch_id
  batch,     \* the provider: what it was sent, whether it is done, its answers
  pc,        \* per worker: where its pass is
  held,      \* gathered claims, beaten for until the submission is over
  todo,      \* of these, not prepared yet
  sheaf,     \* of these, prepared and waiting to be submitted
  botched,   \* of these, to be failed each in a transaction of its own
  polls,     \* `outstanding_batches`, not polled yet in this pass
  turn,      \* the batch being delivered or just submitted
  copy,      \* delivery: the parked rows as they were loaded
  debts,     \* `settle_after`: finished tasks whose settle walk is to come
  unwalked,  \* history: completed, and no settle walk since
  overrun,   \* history: a lease lapsed on a worker that was alive
  faults     \* bound counter

passVars == <<pc, held, todo, sheaf, botched, polls, turn, copy, debts>>
vars == <<lifecycle, batchId, batch, passVars, unwalked, overrun, faults>>

Phases == {"down", "idle", "polling", "applying", "applied",
           "preparing", "submitting", "parking", "submitted"}
NoRequests == [state |-> "none", requests |-> {}, answer |-> <<>>]
NoCopy == [t \in {} |-> AbsentRow]

Init ==
  /\ row = [t \in Tasks |-> [AbsentRow EXCEPT !.status = "pending"]]
  /\ effects = [t \in Tasks |-> 0]
  /\ batchId = [t \in Tasks |-> NoOne]
  /\ batch = [b \in Batches |-> NoRequests]
  /\ pc = [w \in Workers |-> "idle"]
  /\ held = [w \in Workers |-> {}]
  /\ todo = [w \in Workers |-> {}]
  /\ sheaf = [w \in Workers |-> {}]
  /\ botched = [w \in Workers |-> {}]
  /\ polls = [w \in Workers |-> {}]
  /\ turn = [w \in Workers |-> NoOne]
  /\ copy = [w \in Workers |-> NoCopy]
  /\ debts = [w \in Workers |-> {}]
  /\ unwalked = {}
  /\ overrun = FALSE
  /\ faults = 0

-----------------------------------------------------------------------------
Unused == {b \in Batches : batch[b].state = "none"}
Written(t, r) == row' = [row EXCEPT ![t] = r]
Gone(t) == row[t].status = "gone"
ParkedIn(b) == {t \in Parked : batchId[t] = b}

(* Mutant: what was prepared is kept on the worker, across the exception.   *)
LosePassKeepingSheaf(w, phase) ==
  /\ pc' = [pc EXCEPT ![w] = phase]
  /\ held' = [held EXCEPT ![w] = {}]
  /\ todo' = [todo EXCEPT ![w] = {}]
  /\ botched' = [botched EXCEPT ![w] = {}]
  /\ polls' = [polls EXCEPT ![w] = {}]
  /\ turn' = [turn EXCEPT ![w] = NoOne]
  /\ copy' = [copy EXCEPT ![w] = NoCopy]
  /\ debts' = [debts EXCEPT ![w] = {}]
  /\ UNCHANGED sheaf

(* The pass ends in an exception: the open transaction rolls back, the     *)
(* locals are lost, and what was gathered is left to the lease.            *)
LosePass(w, phase) ==
  /\ pc' = [pc EXCEPT ![w] = phase]
  /\ held' = [held EXCEPT ![w] = {}]
  /\ todo' = [todo EXCEPT ![w] = {}]
  /\ sheaf' = [sheaf EXCEPT ![w] = {}]
  /\ botched' = [botched EXCEPT ![w] = {}]
  /\ polls' = [polls EXCEPT ![w] = {}]
  /\ turn' = [turn EXCEPT ![w] = NoOne]
  /\ copy' = [copy EXCEPT ![w] = NoCopy]
  /\ debts' = [debts EXCEPT ![w] = {}]

-----------------------------------------------------------------------------
(* poll_once                                                               *)

(* Mutant: a worker polls only what it submitted itself, by its claims.    *)
OutstandingOfSubmitter(w) ==
  {b \in Batches : \E t \in ParkedIn(b) : row[t].owner = w}

(* outstanding_batches, whoever submitted them.                            *)
Outstanding(w) == {b \in Batches : ParkedIn(b) # {}}

PollStart(w) ==
  /\ pc[w] = "idle"
  /\ pc' = [pc EXCEPT ![w] = "polling"]
  /\ polls' = [polls EXCEPT ![w] = Outstanding(w)]
  /\ UNCHANGED <<lifecycle, batchId, batch, held, todo, sheaf, botched, turn, copy, debts,
                 unwalked, overrun, faults>>

(* Mutant: with_batch_lock always succeeds.                                *)
BatchLockFreeAlways(w, b) == TRUE

(* with_batch_lock: the lock lasts as long as the delivering transaction.  *)
BatchLockFree(w, b) == \A v \in Workers \ {w} : pc[v] = "applying" => turn[v] # b

(* The batch is another worker's, empty by now, or still being worked on.  *)
PollSkip(w, b) ==
  /\ pc[w] = "polling" /\ b \in polls[w]
  /\ BatchLockFree(w, b) => ParkedIn(b) = {} \/ batch[b].state = "working"
  /\ polls' = [polls EXCEPT ![w] = @ \ {b}]
  /\ UNCHANGED <<lifecycle, batchId, batch, pc, held, todo, sheaf, botched, turn, copy, debts,
                 unwalked, overrun, faults>>

(* It is ended or dead: its parked rows are loaded, under the batch lock.  *)
PollLoad(w, b) ==
  /\ pc[w] = "polling" /\ b \in polls[w]
  /\ BatchLockFree(w, b)
  /\ ParkedIn(b) # {} /\ batch[b].state \in {"ended", "dead"}
  /\ pc' = [pc EXCEPT ![w] = "applying"]
  /\ polls' = [polls EXCEPT ![w] = @ \ {b}]
  /\ turn' = [turn EXCEPT ![w] = b]
  /\ copy' = [copy EXCEPT ![w] = [t \in ParkedIn(b) |-> row[t]]]
  /\ UNCHANGED <<lifecycle, batchId, batch, held, todo, sheaf, botched, debts,
                 unwalked, overrun, faults>>

(* Which of the loaded rows the batch completes, and which it fails for    *)
(* another try. A dead batch fails them all for another try.               *)
Answered(w, kind) ==
  LET b == batch[turn[w]] IN
  IF b.state = "dead" THEN IF kind = "transient" THEN DOMAIN copy[w] ELSE {}
  ELSE {t \in DOMAIN copy[w] : b.answer[t] = kind}

(* The rest of poll_batch's transaction. A row that is gone cannot be      *)
(* written, and takes the whole batch's delivery down with it.             *)
DeliverBatch(w) ==
  LET done == Answered(w, "text")
      refused == Answered(w, "refused") \cup Answered(w, "transient")
      new(t) == IF t \in done THEN Completed(copy[w][t])
                ELSE Failed(copy[w][t], t \in Answered(w, "transient"), TRUE)
  IN  /\ pc[w] = "applying"
      /\ IF \E t \in done \cup refused : Gone(t)
         THEN LosePass(w, "idle") /\ UNCHANGED <<lifecycle, unwalked>>
         ELSE /\ row' = [t \in Tasks |-> IF t \in done \cup refused
                           THEN Flush(row[t], copy[w][t], new(t)) ELSE row[t]]
              /\ effects' = [t \in Tasks |-> IF t \in done THEN effects[t] + 1 ELSE effects[t]]
              /\ unwalked' = unwalked \cup done
              /\ debts' = [debts EXCEPT ![w] = done \cup refused]
              /\ pc' = [pc EXCEPT ![w] = IF done \cup refused = {} THEN "polling" ELSE "applied"]
              /\ turn' = [turn EXCEPT ![w] = NoOne]
              /\ copy' = [copy EXCEPT ![w] = NoCopy]
              /\ UNCHANGED <<held, todo, sheaf, botched, polls>>
      /\ UNCHANGED <<batchId, batch, overrun, faults>>

(* One settle walk; after the last, the pass goes on to the next batch or  *)
(* is over. It starts at the task's document and raises when that is gone, *)
(* which loses the walks still to come.                                    *)
Walk(w, t) ==
  /\ pc[w] \in {"applied", "submitted"} /\ t \in debts[w]
  /\ IF Gone(t)
     THEN LosePass(w, "idle") /\ UNCHANGED unwalked
     ELSE /\ debts' = [debts EXCEPT ![w] = @ \ {t}]
          /\ unwalked' = unwalked \ {t}
          /\ pc' = [pc EXCEPT ![w] = IF debts[w] # {t} THEN @
                                    ELSE IF @ = "applied" THEN "polling" ELSE "idle"]
          /\ UNCHANGED <<held, todo, sheaf, botched, polls, turn, copy>>
  /\ UNCHANGED <<lifecycle, batchId, batch, overrun, faults>>

-----------------------------------------------------------------------------
(* gather_and_submit                                                       *)

Gathering(w) == pc[w] = "polling" /\ polls[w] = {}

(* What claim_next offers. Bound: no worker starts to gather for a batch   *)
(* that Batches has no id left for.                                        *)
Offered(w) ==
  {t \in Tasks : /\ Claimable(row, t)
                 /\ Cardinality({v \in Workers \ {w} : held[v] # {}}) < Cardinality(Unused)}

(* One claim of _claim_batch, in a short transaction of its own.           *)
GatherClaim(w, t) ==
  /\ Gathering(w) /\ Cardinality(held[w]) < GatherSize
  /\ t \in Offered(w)
  /\ Written(t, Claimed(row[t], w))
  /\ held' = [held EXCEPT ![w] = @ \cup {t}]
  /\ todo' = [todo EXCEPT ![w] = @ \cup {t}]
  /\ UNCHANGED <<effects, batchId, batch, pc, sheaf, botched, polls, turn, copy, debts,
                 unwalked, overrun, faults>>

GatherDone(w) ==
  /\ Gathering(w)
  /\ Cardinality(held[w]) = GatherSize \/ Offered(w) = {}
  /\ pc' = [pc EXCEPT ![w] = IF held[w] = {} THEN "idle" ELSE "preparing"]
  /\ UNCHANGED <<lifecycle, batchId, batch, held, todo, sheaf, botched, polls, turn, copy,
                 debts, unwalked, overrun, faults>>

(* Mutant: the walk of a task finished without an LLM is forgotten.        *)
FinishedUnwalked(w, t) ==
  /\ Written(t, Completed(row[t]))
  /\ effects' = [effects EXCEPT ![t] = @ + 1]
  /\ unwalked' = unwalked \cup {t}
  /\ UNCHANGED <<sheaf, debts>>

(* prepare found that the text fits by now: the task is done without an LLM. *)
Finished(w, t) ==
  /\ Written(t, Completed(row[t]))
  /\ effects' = [effects EXCEPT ![t] = @ + 1]
  /\ unwalked' = unwalked \cup {t}
  /\ debts' = [debts EXCEPT ![w] = @ \cup {t}]
  /\ UNCHANGED sheaf

(* mark_running and prepare, with a request to send.                       *)
Requested(w, t) ==
  /\ Written(t, [row[t] EXCEPT !.status = "running"])
  /\ sheaf' = [sheaf EXCEPT ![w] = @ \cup {t}]
  /\ UNCHANGED <<effects, debts, unwalked>>

(* One gathered task: vanished, not ours to run, taken over meanwhile (the *)
(* ValueError of mark_running ends the pass), or prepared.                 *)
Prepare(w, t) ==
  /\ pc[w] = "preparing" /\ botched[w] = {} /\ t \in todo[w]
  /\ IF ~Gone(t) /\ t \notin Other /\ row[t].status # "claimed"
     THEN LosePass(w, "idle") /\ UNCHANGED <<lifecycle, unwalked>>
     ELSE /\ todo' = [todo EXCEPT ![w] = @ \ {t}]
          /\ UNCHANGED <<pc, held, botched, polls, turn, copy>>
          /\ CASE Gone(t) -> UNCHANGED <<lifecycle, sheaf, debts, unwalked>>
               [] ~Gone(t) /\ t \in Other ->
                    /\ Written(t, Failed(row[t], TRUE, TRUE))
                    /\ UNCHANGED <<effects, sheaf, debts, unwalked>>
               [] OTHER -> Requested(w, t) \/ (t \in Shrinks /\ Finished(w, t))
  /\ UNCHANGED <<batchId, batch, overrun, faults>>

(* prepare raises: rolled back, and failed in a fresh transaction.         *)
PrepareRaises(w, t) ==
  /\ pc[w] = "preparing" /\ botched[w] = {} /\ t \in todo[w] \ Other
  /\ row[t].status = "claimed"
  /\ faults < MaxFaults
  /\ faults' = faults + 1
  /\ todo' = [todo EXCEPT ![w] = @ \ {t}]
  /\ botched' = [botched EXCEPT ![w] = {t}]
  /\ UNCHANGED <<lifecycle, batchId, batch, pc, held, sheaf, polls, turn, copy, debts,
                 unwalked, overrun>>

(* _fail: the row as it is now, whatever its status.                       *)
RecordFailure(w, t, retryable) ==
  /\ t \in botched[w]
  /\ botched' = [botched EXCEPT ![w] = @ \ {t}]
  /\ IF Gone(t) THEN UNCHANGED row ELSE Written(t, Failed(row[t], retryable, TRUE))
  /\ UNCHANGED <<effects, batchId, batch, pc, held, todo, sheaf, polls, turn, copy, debts,
                 unwalked, overrun, faults>>

(* The submission is over, and the heartbeat with it.                      *)
Submitted(w) ==
  /\ pc' = [pc EXCEPT ![w] = IF debts[w] = {} THEN "idle" ELSE "submitted"]
  /\ held' = [held EXCEPT ![w] = {}]

(* Everything is prepared; there may be nothing to send.                   *)
PrepareDone(w) ==
  /\ pc[w] = "preparing" /\ todo[w] = {} /\ botched[w] = {}
  /\ IF sheaf[w] = {}
     THEN Submitted(w)
     ELSE /\ pc' = [pc EXCEPT ![w] = "submitting"]
          /\ UNCHANGED held
  /\ UNCHANGED <<lifecycle, batchId, batch, todo, sheaf, botched, polls, turn, copy, debts,
                 unwalked, overrun, faults>>

(* The provider takes the batch under an id it has not used before; which  *)
(* one makes no difference, for batches are polled in any order.           *)
Accepted(w, b) ==
  /\ b \in Unused /\ \A c \in Unused : b <= c
  /\ batch' = [batch EXCEPT ![b] = [state |-> "working", requests |-> sheaf[w], answer |-> <<>>]]

Submit(w, b) ==
  /\ pc[w] = "submitting"
  /\ Accepted(w, b)
  /\ pc' = [pc EXCEPT ![w] = "parking"]
  /\ turn' = [turn EXCEPT ![w] = b]
  /\ UNCHANGED <<lifecycle, batchId, held, todo, sheaf, botched, polls, copy, debts,
                 unwalked, overrun, faults>>

(* submit raises, before or after the provider took the batch: every task  *)
(* is failed, and the pass goes on as after a gather with nothing to send. *)
SubmitRaises(w, b, taken) ==
  /\ pc[w] = "submitting"
  /\ faults < MaxFaults
  /\ faults' = faults + 1
  /\ IF taken THEN Accepted(w, b) ELSE UNCHANGED batch
  /\ pc' = [pc EXCEPT ![w] = "preparing"]
  /\ botched' = [botched EXCEPT ![w] = sheaf[w]]
  /\ sheaf' = [sheaf EXCEPT ![w] = {}]
  /\ UNCHANGED <<lifecycle, batchId, held, todo, polls, turn, copy, debts, unwalked, overrun>>

(* Mutant: every parked row gets the new id, as by an UPDATE on the status. *)
ParkedUnderAll(w, found) ==
  [t \in Tasks |-> IF t \in found \cup Parked THEN turn[w] ELSE batchId[t]]

ParkedUnder(w, found) == [t \in Tasks |-> IF t \in found THEN turn[w] ELSE batchId[t]]

(* mark_batched's test: the status, and not whose claim it is.             *)
Markable(t) == row[t].status \in Reapable

(* mark_batched: all rows or none.                                         *)
MarkBatched(w) ==
  LET found == {t \in sheaf[w] : ~Gone(t)} IN
  /\ pc[w] = "parking"
  /\ IF \A t \in found : Markable(t)
     THEN /\ row' = [t \in Tasks |-> IF t \in found
                       THEN [row[t] EXCEPT !.status = "batched"] ELSE row[t]]
          /\ batchId' = ParkedUnder(w, found)
          /\ Submitted(w)
          /\ turn' = [turn EXCEPT ![w] = NoOne]
          /\ sheaf' = [sheaf EXCEPT ![w] = {}]
          /\ UNCHANGED <<todo, botched, polls, copy, debts>>
     ELSE LosePass(w, "idle") /\ UNCHANGED <<row, batchId>>
  /\ UNCHANGED <<effects, batch, unwalked, overrun, faults>>

-----------------------------------------------------------------------------
(* Faults, and everybody else.                                             *)

(* A provider call or a statement raises where nothing catches it.         *)
PassRaises(w) ==
  /\ pc[w] \notin {"down", "idle"}
  /\ faults < MaxFaults
  /\ faults' = faults + 1
  /\ LosePass(w, "idle")
  /\ UNCHANGED <<lifecycle, batchId, batch, unwalked, overrun>>

Crash(w) ==
  /\ pc[w] # "down"
  /\ faults < MaxFaults
  /\ faults' = faults + 1
  /\ LosePass(w, "down")
  /\ UNCHANGED <<lifecycle, batchId, batch, unwalked, overrun>>

Return(w) ==
  /\ pc[w] = "down"
  /\ pc' = [pc EXCEPT ![w] = "idle"]
  /\ UNCHANGED <<lifecycle, batchId, batch, held, todo, sheaf, botched, polls, turn, copy,
                 debts, unwalked, overrun, faults>>

(* The lease of a claim runs out and an ingest worker's reaper fails it.   *)
(* It lapses on a live worker only when its heartbeat thread falls behind. *)
Reap(t) ==
  LET beaten == \E w \in Workers : t \in held[w] IN
  /\ row[t].status \in Reapable
  /\ beaten => faults < MaxFaults
  /\ faults' = IF beaten THEN faults + 1 ELSE faults
  /\ overrun' = (overrun \/ beaten)
  /\ Written(t, Failed(row[t], TRUE, FALSE))
  /\ UNCHANGED <<effects, batchId, batch, passVars, unwalked>>

BackoffPasses(t) ==
  /\ BackoffEnds(t)
  /\ UNCHANGED <<batchId, batch, passVars, unwalked, overrun, faults>>

(* The provider finishes a batch, or gives it up as a whole.               *)
Answer(b, answers) ==
  /\ batch[b].state = "working"
  /\ batch' = [batch EXCEPT ![b] =
                 [state |-> "ended", requests |-> @.requests, answer |-> answers]]
  /\ UNCHANGED <<lifecycle, batchId, passVars, unwalked, overrun, faults>>

Die(b) ==
  /\ batch[b].state = "working"
  /\ faults < MaxFaults
  /\ faults' = faults + 1
  /\ batch' = [batch EXCEPT ![b].state = "dead"]
  /\ UNCHANGED <<lifecycle, batchId, passVars, unwalked, overrun>>

(* A client deletes a task's document. A delivery that already wrote the   *)
(* row is one action, so no row lock has to be waited for.                 *)
Delete(t) ==
  /\ t \in Deletable /\ ~Gone(t)
  /\ faults < MaxFaults
  /\ faults' = faults + 1
  /\ Cascade({u \in Tasks : Within(Scope[u], Scope[t]) /\ ~Gone(u)})
  /\ UNCHANGED <<batchId, batch, passVars, unwalked, overrun>>

-----------------------------------------------------------------------------
PollStep(w) ==
  \/ PollStart(w) \/ DeliverBatch(w)
  \/ \E b \in Batches : PollSkip(w, b) \/ PollLoad(w, b)
  \/ \E t \in Tasks : Walk(w, t)

GatherStep(w) ==
  \/ GatherDone(w) \/ PrepareDone(w) \/ MarkBatched(w)
  \/ \E t \in Tasks : GatherClaim(w, t) \/ Prepare(w, t)
  \/ \E t \in Tasks, retryable \in BOOLEAN : RecordFailure(w, t, retryable)
  \/ \E b \in Batches : Submit(w, b)

Provider(b) == \E answers \in [batch[b].requests -> Replies] : Answer(b, answers)

Next ==
  \/ \E w \in Workers : PollStep(w) \/ GatherStep(w) \/ PassRaises(w) \/ Crash(w) \/ Return(w)
  \/ \E w \in Workers, t \in Tasks : PrepareRaises(w, t)
  \/ \E w \in Workers, b \in Batches, taken \in BOOLEAN : SubmitRaises(w, b, taken)
  \/ \E t \in Tasks : Reap(t) \/ BackoffPasses(t) \/ Delete(t)
  \/ \E b \in Batches : Provider(b) \/ Die(b)

(* A worker that is up keeps running passes and the provider ends every    *)
(* batch, within a day by contract. Nobody owes a crashed worker's return. *)
Fairness ==
  /\ \A w \in Workers : WF_vars(PollStep(w) \/ GatherStep(w))
  /\ \A b \in Batches : WF_vars(Provider(b))

Spec == Init /\ [][Next]_vars
FairSpec == Spec /\ Fairness
-----------------------------------------------------------------------------
TypeOK ==
  /\ row \in [Tasks -> Rows]
  /\ effects \in [Tasks -> Nat]
  /\ batchId \in [Tasks -> Batches \cup {NoOne}]
  /\ \A b \in Batches :
       /\ batch[b].state \in {"none", "working", "ended", "dead"}
       /\ batch[b].requests \subseteq Tasks
       /\ batch[b].state = "ended" => batch[b].answer \in [batch[b].requests -> Replies]
  /\ pc \in [Workers -> Phases]
  /\ held \in [Workers -> SUBSET Tasks]
  /\ \A w \in Workers :
       /\ todo[w] \cup sheaf[w] \cup botched[w] \subseteq held[w]
       /\ pc[w] \in {"applying", "parking"} <=> turn[w] # NoOne
       /\ turn[w] \in Batches \cup {NoOne}
       /\ copy[w] \in [DOMAIN copy[w] -> Rows] /\ DOMAIN copy[w] \subseteq Tasks
  /\ polls \in [Workers -> SUBSET Batches]
  /\ debts \in [Workers -> SUBSET Tasks]
  /\ unwalked \subseteq Tasks
  /\ overrun \in BOOLEAN
  /\ faults \in 0..MaxFaults

(* mark_batched writes "the only thing that can ever poll these rows": a   *)
(* parked row names a batch the provider has, and that batch holds its     *)
(* request, also when another worker took the claim over in between.       *)
ParkedInItsBatch ==
  \A t \in Parked : batchId[t] \in Batches /\ t \in batch[batchId[t]].requests

(* with_batch_lock, the lease and the status tests together: a summary is  *)
(* stored once, in the step that completes its row, unless a lease lapsed  *)
(* on a worker that was alive.                                             *)
StoredOnce == overrun \/ WorkCommittedOnce

(* The accepted window is the only one: an answer is bought once per try.  *)
BoughtOncePerTry ==
  overrun \/ \A t \in Tasks :
    Cardinality({b \in Batches : t \in batch[b].requests}) <= row[t].retries + 1

(* Somebody still waits for what the provider does for t in batch b: the   *)
(* row is parked there, or a worker is about to park it.                   *)
Awaited(t, b) ==
  \/ row[t].status = "batched" /\ batchId[t] = b
  \/ /\ row[t].status \in Reapable
     /\ \E w \in Workers : pc[w] = "parking" /\ turn[w] = b /\ t \in sheaf[w]

(* A worker that dies, or raises, between the submission and mark_batched  *)
(* leaves a batch nobody will read, and the lease buys another. Each fault *)
(* wastes at most one batch that a task is in, and without one none is:    *)
(* submissions that fail after the provider took them, claims that are     *)
(* reaped and parked by somebody else, and deletions are all there is.     *)
OneWastePerFault ==
  \A t \in Tasks :
    Cardinality({b \in Batches : /\ batch[b].state = "working" /\ t \in batch[b].requests
                                 /\ ~Awaited(t, b)}) <= faults

(* settle_after: in a pass that nothing disturbed, a completed task is     *)
(* walked from, or is on the list of a worker that still will.             *)
WalksKept == faults = 0 => unwalked \subseteq UNION {debts[w] : w \in Workers}

(* "the tasks are terminal and the settle walk runs", also when all that   *)
(* happened is that somebody deleted another document.                     *)
AppliedIsWalked ==
  LET gone == {t \in Deletable : Gone(t)} IN
  faults = Cardinality(gone) => unwalked \ gone \subseteq UNION {debts[w] : w \in Workers}

(* The batch path keeps the queue's promise too: each of its steps is one  *)
(* legal step of the row as it is, as long as leases lapse on the dead.    *)
BatchLifecycle == LifecycleInit /\ [][overrun' \/ LifecycleNext]_lifecycle

(* Any worker may adopt a batch: while one is up, a parked row is not      *)
(* parked for good, unless the provider left its request out.              *)
ParkedIsReleased ==
  \A t \in Tasks :
    row[t].status = "batched" ~>
      \/ row[t].status # "batched"
      \/ \A w \in Workers : pc[w] = "down"
      \/ batch[batchId[t]].state = "ended" /\ batch[batchId[t]].answer[t] = "missing"
=============================================================================
