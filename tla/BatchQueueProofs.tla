-------------------------- MODULE BatchQueueProofs --------------------------
(***************************************************************************)
(* What the batch path promises, for any number of workers, tasks, batches *)
(* and faults.                                                             *)
(***************************************************************************)
EXTENDS BatchQueue, TaskLifecycleProofs, FiniteSetTheorems

-----------------------------------------------------------------------------
(* Types. TypeOK, and that variables which it describes value by value are *)
(* functions.                                                              *)

PassFits(w) ==
  /\ todo[w] \cup sheaf[w] \cup botched[w] \subseteq held[w]
  /\ pc[w] \in {"applying", "parking"} <=> turn[w] # NoOne
  /\ pc[w] \in {"submitting", "parking"} => todo[w] = {} /\ botched[w] = {}
  /\ copy[w] \in [DOMAIN copy[w] -> Rows] /\ DOMAIN copy[w] \subseteq Tasks

PassTypes ==
  /\ pc \in [Workers -> Phases]
  /\ held \in [Workers -> SUBSET Tasks]
  /\ todo \in [Workers -> SUBSET Tasks]
  /\ sheaf \in [Workers -> SUBSET Tasks]
  /\ botched \in [Workers -> SUBSET Tasks]
  /\ polls \in [Workers -> SUBSET Batches]
  /\ debts \in [Workers -> SUBSET Tasks]
  /\ turn \in [Workers -> Batches \cup {NoOne}]
  /\ copy = [w \in Workers |-> copy[w]]
  /\ \A w \in Workers : PassFits(w)

Batch(state, requests, answer) ==
  [state |-> state, requests |-> requests, answer |-> answer]

ProviderTypes ==
  /\ batch = [b \in Batches |-> Batch(batch[b].state, batch[b].requests, batch[b].answer)]
  /\ \A b \in Batches :
       /\ batch[b].state \in {"none", "working", "ended", "dead"}
       /\ batch[b].requests \subseteq Tasks
       /\ batch[b].state = "ended" => batch[b].answer \in [batch[b].requests -> Replies]

WorldTypes ==
  /\ row \in [Tasks -> Rows]
  /\ effects \in [Tasks -> Nat]
  /\ batchId \in [Tasks -> Batches \cup {NoOne}]
  /\ unwalked \subseteq Tasks
  /\ overrun \in BOOLEAN
  /\ faults \in 0..MaxFaults

AllTypes == PassTypes /\ ProviderTypes /\ WorldTypes

LEMMA NoCopyType == NoCopy \in [DOMAIN NoCopy -> Rows] /\ DOMAIN NoCopy = {}
  BY DEF NoCopy

LEMMA LosePassTypes ==
  ASSUME PassTypes, NEW w \in Workers, NEW phase \in {"idle", "down"}, LosePass(w, phase)
  PROVE  PassTypes'
  <1>1. phase \in Phases /\ phase \notin {"applying", "parking"}
    BY DEF Phases
  <1>2. NoOne \notin Batches
    BY BatchAssumption
  <1>3. /\ pc' \in [Workers -> Phases] /\ held' \in [Workers -> SUBSET Tasks]
        /\ todo' \in [Workers -> SUBSET Tasks] /\ sheaf' \in [Workers -> SUBSET Tasks]
        /\ botched' \in [Workers -> SUBSET Tasks] /\ polls' \in [Workers -> SUBSET Batches]
        /\ debts' \in [Workers -> SUBSET Tasks] /\ turn' \in [Workers -> Batches \cup {NoOne}]
        /\ copy' = [v \in Workers |-> copy'[v]]
    BY <1>1 DEF LosePass, PassTypes
  <1>4. ASSUME NEW v \in Workers PROVE PassFits(v)'
    <2>1. CASE v = w
      BY <1>1, <2>1, NoCopyType DEF LosePass, PassTypes, PassFits
    <2>2. CASE v # w
      BY <2>2 DEF LosePass, PassTypes, PassFits
    <2> QED  BY <2>1, <2>2
  <1> QED  BY <1>3, <1>4 DEF PassTypes

(* The provider's side keeps its types.                                    *)
LEMMA AcceptedTypes ==
  ASSUME AllTypes, NEW w \in Workers, NEW b \in Batches, Accepted(w, b)
  PROVE  /\ ProviderTypes'
         /\ batch' = [batch EXCEPT ![b] = Batch("working", sheaf[w], <<>>)]
  <1>1. batch' = [batch EXCEPT ![b] = Batch("working", sheaf[w], <<>>)]
    BY DEF Accepted, Batch
  <1>2. sheaf[w] \subseteq Tasks
    BY DEF AllTypes, PassTypes, PassFits
  <1>3. \A c \in Batches : batch'[c] = IF c = b THEN Batch("working", sheaf[w], <<>>) ELSE batch[c]
    BY <1>1 DEF AllTypes, ProviderTypes
  <1>4. batch' = [c \in Batches |-> Batch(batch'[c].state, batch'[c].requests, batch'[c].answer)]
    BY <1>1, <1>3 DEF AllTypes, ProviderTypes, Batch
  <1>5. \A c \in Batches :
          /\ batch'[c].state \in {"none", "working", "ended", "dead"}
          /\ batch'[c].requests \subseteq Tasks
          /\ batch'[c].state = "ended" => batch'[c].answer \in [batch'[c].requests -> Replies]
    <2> TAKE c \in Batches
    <2>1. CASE c = b
      <3>1. batch'[c] = Batch("working", sheaf[w], <<>>)
        BY <1>3, <2>1
      <3> QED  BY <1>2, <3>1 DEF Batch
    <2>2. CASE c # b
      BY <1>3, <2>2 DEF AllTypes, ProviderTypes
    <2> QED  BY <2>1, <2>2
  <1> QED  BY <1>1, <1>4, <1>5 DEF ProviderTypes

LEMMA AnswerTypes ==
  ASSUME AllTypes, NEW b \in Batches,
         \/ Die(b)
         \/ Provider(b)
  PROVE  /\ ProviderTypes'
         /\ batch[b].state = "working" /\ batch'[b].state \in {"ended", "dead"}
         /\ \A c \in Batches : /\ batch'[c].requests = batch[c].requests
                               /\ c # b => batch'[c] = batch[c]
  <1>0. batch[b] = Batch(batch[b].state, batch[b].requests, batch[b].answer)
    BY DEF AllTypes, ProviderTypes
  <1>1. \E state \in {"ended", "dead"} : \E answer :
          /\ batch' = [batch EXCEPT ![b] = Batch(state, batch[b].requests, answer)]
          /\ batch[b].state = "working"
          /\ state = "ended" => answer \in [batch[b].requests -> Replies]
    <2>1. CASE Die(b)
      <3>1. batch' = [batch EXCEPT ![b] = [batch[b] EXCEPT !.state = "dead"]]
            /\ batch[b].state = "working"
        BY <2>1 DEF Die
      <3>2. [batch[b] EXCEPT !.state = "dead"] = Batch("dead", batch[b].requests, batch[b].answer)
        BY <1>0 DEF Batch
      <3> QED  BY <3>1, <3>2
    <2>2. CASE Provider(b)
      <3>1. PICK answers \in [batch[b].requests -> Replies] : Answer(b, answers)
        BY <2>2 DEF Provider
      <3>2. batch' = [batch EXCEPT ![b] = Batch("ended", batch[b].requests, answers)]
            /\ batch[b].state = "working"
        BY <3>1 DEF Answer, Batch, AllTypes, ProviderTypes
      <3> QED  BY <3>2
    <2> QED  BY <2>1, <2>2
  <1>10. PICK state \in {"ended", "dead"} : \E answer :
          /\ batch' = [batch EXCEPT ![b] = Batch(state, batch[b].requests, answer)]
          /\ batch[b].state = "working"
          /\ state = "ended" => answer \in [batch[b].requests -> Replies]
    BY <1>1
  <1>2. PICK answer :
          /\ batch' = [batch EXCEPT ![b] = Batch(state, batch[b].requests, answer)]
          /\ batch[b].state = "working"
          /\ state = "ended" => answer \in [batch[b].requests -> Replies]
    BY <1>10
  <1>3. \A c \in Batches :
          batch'[c] = IF c = b THEN Batch(state, batch[b].requests, answer) ELSE batch[c]
    BY <1>2 DEF AllTypes, ProviderTypes
  <1>4. batch' = [c \in Batches |-> Batch(batch'[c].state, batch'[c].requests, batch'[c].answer)]
    BY <1>2, <1>3 DEF AllTypes, ProviderTypes, Batch
  <1>5. \A c \in Batches :
          /\ batch'[c].state \in {"none", "working", "ended", "dead"}
          /\ batch'[c].requests \subseteq Tasks
          /\ batch'[c].state = "ended" => batch'[c].answer \in [batch'[c].requests -> Replies]
    BY <1>2, <1>3 DEF AllTypes, ProviderTypes, Batch
  <1> QED  BY <1>2, <1>3, <1>4, <1>5 DEF ProviderTypes, Batch

(* A worker's own step, as far as the types of what it keeps go.           *)
LEMMA PassStepTypes ==
  ASSUME PassTypes, NEW w \in Workers,
         \/ PollStart(w) \/ GatherDone(w) \/ PrepareDone(w) \/ Return(w)
         \/ \E b \in Batches : PollSkip(w, b) \/ Submit(w, b)
         \/ \E b \in Batches, taken \in BOOLEAN : SubmitRaises(w, b, taken)
         \/ \E t \in Tasks : GatherClaim(w, t) \/ PrepareRaises(w, t)
         \/ \E t \in Tasks, retryable \in BOOLEAN : RecordFailure(w, t, retryable)
  PROVE  PassTypes'
  <1>0. NoOne \notin Batches
    BY BatchAssumption
  <1>1. CASE PollStart(w)
    BY <1>1 DEF PollStart, Outstanding, PassTypes, PassFits, Phases
  <1>2. CASE GatherDone(w)
    BY <1>2 DEF GatherDone, Gathering, PassTypes, PassFits, Phases
  <1>3. CASE PrepareDone(w)
    BY <1>3 DEF PrepareDone, Submitted, PassTypes, PassFits, Phases
  <1>4. CASE Return(w)
    BY <1>4 DEF Return, PassTypes, PassFits, Phases
  <1>5. CASE \E b \in Batches : PollSkip(w, b)
    BY <1>5 DEF PollSkip, PassTypes, PassFits
  <1>6. CASE \E b \in Batches : Submit(w, b)
    BY <1>0, <1>6 DEF Submit, PassTypes, PassFits, Phases
  <1>7. CASE \E b \in Batches, taken \in BOOLEAN : SubmitRaises(w, b, taken)
    BY <1>7 DEF SubmitRaises, PassTypes, PassFits, Phases
  <1>8. ASSUME NEW t \in Tasks, GatherClaim(w, t) PROVE PassTypes'
    <2>1. /\ held' = [held EXCEPT ![w] = @ \cup {t}] /\ todo' = [todo EXCEPT ![w] = @ \cup {t}]
          /\ UNCHANGED <<pc, sheaf, botched, polls, turn, copy, debts>> /\ pc[w] = "polling"
      BY <1>8 DEF GatherClaim, Gathering
    <2>2. ASSUME NEW v \in Workers PROVE PassFits(v)'
      BY <2>1 DEF PassTypes, PassFits
    <2> QED  BY <2>1, <2>2 DEF PassTypes
  <1>9. CASE \E t \in Tasks : PrepareRaises(w, t)
    BY <1>9 DEF PrepareRaises, PassTypes, PassFits
  <1>10. CASE \E t \in Tasks, retryable \in BOOLEAN : RecordFailure(w, t, retryable)
    BY <1>10 DEF RecordFailure, PassTypes, PassFits
  <1> QED  BY <1>1, <1>2, <1>3, <1>4, <1>5, <1>6, <1>7, <1>8, <1>9, <1>10

LEMMA PassStepOrLossTypes ==
  ASSUME AllTypes, NEW w \in Workers,
         \/ DeliverBatch(w) \/ MarkBatched(w) \/ PassRaises(w) \/ Crash(w)
         \/ \E b \in Batches : PollLoad(w, b)
         \/ \E t \in Tasks : Walk(w, t) \/ Prepare(w, t)
  PROVE  PassTypes'
  <1>0. NoOne \notin Batches /\ PassTypes
    BY BatchAssumption DEF AllTypes
  <1>1. CASE \E phase \in {"idle", "down"} : LosePass(w, phase)
    BY <1>0, <1>1, LosePassTypes
  <1>2. CASE DeliverBatch(w)
    <2> SUFFICES ASSUME ~LosePass(w, "idle") PROVE PassTypes'
      BY <1>1
    <2>1. /\ pc' \in [Workers -> Phases] /\ pc'[w] \notin {"applying", "parking"}
          /\ pc'[w] \notin {"submitting"} /\ \A v \in Workers \ {w} : pc'[v] = pc[v]
          /\ turn' = [turn EXCEPT ![w] = NoOne] /\ copy' = [copy EXCEPT ![w] = NoCopy]
          /\ UNCHANGED <<held, todo, sheaf, botched, polls>>
      BY <1>0, <1>2 DEF DeliverBatch, PassTypes, PassFits, Phases
    <2>2. debts' \in [Workers -> SUBSET Tasks]
      <3>1. Answered(w, "text") \cup Answered(w, "refused") \cup Answered(w, "transient")
              \subseteq Tasks
        BY <1>0 DEF Answered, PassTypes, PassFits
      <3>2. debts' = [debts EXCEPT ![w] = Answered(w, "text") \cup
                        (Answered(w, "refused") \cup Answered(w, "transient"))]
        BY <1>2 DEF DeliverBatch
      <3> QED  BY <1>0, <3>1, <3>2 DEF PassTypes
    <2>3. ASSUME NEW v \in Workers PROVE PassFits(v)'
      <3>1. CASE v = w
        BY <1>0, <2>1, <3>1, NoCopyType DEF PassTypes, PassFits, Phases
      <3>2. CASE v # w
        BY <1>0, <2>1, <3>2 DEF PassTypes, PassFits
      <3> QED  BY <3>1, <3>2
    <2> QED  BY <1>0, <2>1, <2>2, <2>3 DEF PassTypes
  <1>3. CASE MarkBatched(w)
    <2> SUFFICES ASSUME ~LosePass(w, "idle") PROVE PassTypes'
      BY <1>1
    <2>1. /\ pc' = [pc EXCEPT ![w] = IF debts[w] = {} THEN "idle" ELSE "submitted"]
          /\ held' = [held EXCEPT ![w] = {}] /\ turn' = [turn EXCEPT ![w] = NoOne]
          /\ sheaf' = [sheaf EXCEPT ![w] = {}]
          /\ UNCHANGED <<todo, botched, polls, copy, debts>> /\ pc[w] = "parking"
      BY <1>3 DEF MarkBatched, Submitted
    <2>2. ASSUME NEW v \in Workers PROVE PassFits(v)'
      <3>1. CASE v = w
        BY <1>0, <2>1, <3>1 DEF PassTypes, PassFits
      <3>2. CASE v # w
        BY <1>0, <2>1, <3>2 DEF PassTypes, PassFits
      <3> QED  BY <3>1, <3>2
    <2> QED  BY <1>0, <2>1, <2>2 DEF PassTypes, PassFits, Phases
  <1>4. CASE PassRaises(w) \/ Crash(w)
    BY <1>1, <1>4 DEF PassRaises, Crash
  <1>5. ASSUME NEW b \in Batches, PollLoad(w, b) PROVE PassTypes'
    <2> DEFINE loaded == [t \in ParkedIn(b) |-> row[t]]
    <2>1. loaded \in [DOMAIN loaded -> Rows] /\ DOMAIN loaded \subseteq Tasks
      BY DEF ParkedIn, Parked, AllTypes, WorldTypes
    <2>2. copy' = [copy EXCEPT ![w] = loaded]
      BY <1>5 DEF PollLoad
    <2> HIDE DEF loaded
    <2> QED  BY <1>0, <1>5, <2>1, <2>2 DEF PollLoad, PassTypes, PassFits, Phases
  <1>6. ASSUME NEW t \in Tasks, Walk(w, t) PROVE PassTypes'
    <2> SUFFICES ASSUME ~LosePass(w, "idle") PROVE PassTypes'
      BY <1>1
    <2>1. /\ debts' = [debts EXCEPT ![w] = @ \ {t}]
          /\ pc[w] \in {"applied", "submitted"}
          /\ \E phase \in {"applied", "submitted", "polling", "idle"} :
               pc' = [pc EXCEPT ![w] = phase]
          /\ UNCHANGED <<held, todo, sheaf, botched, polls, turn, copy>>
      BY <1>0, <1>6 DEF Walk, PassTypes, PassFits
    <2>2. ASSUME NEW v \in Workers PROVE PassFits(v)'
      BY <1>0, <2>1 DEF PassTypes, PassFits
    <2> QED  BY <1>0, <2>1, <2>2 DEF PassTypes, PassFits, Phases
  <1>7. ASSUME NEW t \in Tasks, Prepare(w, t) PROVE PassTypes'
    <2> SUFFICES ASSUME ~LosePass(w, "idle") PROVE PassTypes'
      BY <1>1
    <2>1. /\ t \in todo[w] /\ todo' = [todo EXCEPT ![w] = @ \ {t}]
          /\ UNCHANGED <<pc, held, botched, polls, turn, copy>>
      BY <1>7 DEF Prepare
    <2>2. sheaf' = sheaf \/ sheaf' = [sheaf EXCEPT ![w] = @ \cup {t}]
      BY <1>7 DEF Prepare, Requested, Finished
    <2>3. debts' = debts \/ debts' = [debts EXCEPT ![w] = @ \cup {t}]
      BY <1>7 DEF Prepare, Requested, Finished
    <2> QED  BY <1>0, <2>1, <2>2, <2>3 DEF PassTypes, PassFits
  <1> QED  BY <1>2, <1>3, <1>4, <1>5, <1>6, <1>7

(* What a delivery writes is made of the copies it holds.                  *)
LEMMA AnsweredIsLoaded ==
  ASSUME NEW w, NEW kind
  PROVE  Answered(w, kind) \subseteq DOMAIN copy[w]
  BY DEF Answered

LEMMA DeliveryTypes ==
  ASSUME AllTypes, NEW w \in Workers, DeliverBatch(w)
  PROVE  WorldTypes'
  <1> DEFINE done == Answered(w, "text")
             retried == Answered(w, "transient")
             refused == Answered(w, "refused") \cup retried
             new(t) == IF t \in done THEN Completed(copy[w][t])
                       ELSE Failed(copy[w][t], t \in retried, TRUE)
  <1>1. done \subseteq DOMAIN copy[w] /\ refused \subseteq DOMAIN copy[w]
        /\ DOMAIN copy[w] \subseteq Tasks /\ \A t \in DOMAIN copy[w] : copy[w][t] \in Rows
    BY AnsweredIsLoaded DEF AllTypes, PassTypes, PassFits
  <1>2. \A t \in DOMAIN copy[w] : new(t) \in Rows
    <2> TAKE t \in DOMAIN copy[w]
    <2>1. (t \in retried) \in BOOLEAN /\ TRUE \in BOOLEAN
      OBVIOUS
    <2>2. copy[w][t] \in Rows
      BY <1>1
    <2>3. Failed(copy[w][t], t \in retried, TRUE) \in Rows
      BY <2>1, <2>2, WriteTypes, Zenon
    <2>4. Completed(copy[w][t]) \in Rows
      BY <2>2, WriteTypes
    <2> QED  BY <2>3, <2>4
  <1>3. /\ \/ UNCHANGED <<row, effects, unwalked>>
           \/ /\ row' = [t \in Tasks |-> IF t \in done \cup refused
                           THEN Flush(row[t], copy[w][t], new(t)) ELSE row[t]]
              /\ effects' = [t \in Tasks |-> IF t \in done THEN effects[t] + 1 ELSE effects[t]]
              /\ unwalked' = unwalked \cup done
        /\ UNCHANGED <<batchId, overrun, faults>>
    BY DEF DeliverBatch, lifecycle
  <1> HIDE DEF done, refused, retried, new
  <1>4. row \in [Tasks -> Rows] /\ effects \in [Tasks -> Nat] /\ unwalked \subseteq Tasks
    BY DEF AllTypes, WorldTypes
  <1>5. row' \in [Tasks -> Rows]
    BY <1>1, <1>2, <1>3, <1>4, FlushType
  <1>6. effects' \in [Tasks -> Nat] /\ unwalked' \subseteq Tasks
    BY <1>1, <1>3, <1>4
  <1> QED  BY <1>3, <1>5, <1>6 DEF AllTypes, WorldTypes

LEMMA WrittenType ==
  ASSUME row \in [Tasks -> Rows], NEW t \in Tasks, NEW r \in Rows, Written(t, r)
  PROVE  row' \in [Tasks -> Rows]
  BY DEF Written

LEMMA WorldTypesKept ==
  ASSUME AllTypes, Next
  PROVE  WorldTypes'
  <1> DEFINE W == WorldTypes
  <1>0. row \in [Tasks -> Rows] /\ effects \in [Tasks -> Nat] /\ unwalked \subseteq Tasks
        /\ overrun \in BOOLEAN /\ faults \in 0..MaxFaults /\ MaxFaults \in Nat
        /\ batchId \in [Tasks -> Batches \cup {NoOne}]
    BY BatchAssumption DEF AllTypes, WorldTypes
  <1>f. ASSUME faults < MaxFaults PROVE faults + 1 \in 0..MaxFaults
    BY <1>0, <1>f
  <1>1. ASSUME NEW w \in Workers,
               \/ PollStart(w) \/ GatherDone(w) \/ PrepareDone(w) \/ PassRaises(w)
               \/ Crash(w) \/ Return(w)
               \/ \E b \in Batches : PollSkip(w, b) \/ PollLoad(w, b) \/ Submit(w, b)
               \/ \E b \in Batches, taken \in BOOLEAN : SubmitRaises(w, b, taken)
               \/ \E t \in Tasks : PrepareRaises(w, t)
        PROVE  WorldTypes'
    <2>1. UNCHANGED <<row, effects, batchId, unwalked, overrun>>
      BY <1>1 DEF PollStart, GatherDone, PrepareDone, PassRaises, Crash, Return, PollSkip,
                  PollLoad, Submit, SubmitRaises, PrepareRaises, lifecycle
    <2>2. faults' = faults \/ (faults < MaxFaults /\ faults' = faults + 1)
      BY <1>1 DEF PollStart, GatherDone, PrepareDone, PassRaises, Crash, Return, PollSkip,
                  PollLoad, Submit, SubmitRaises, PrepareRaises
    <2> QED  BY <1>0, <1>f, <2>1, <2>2 DEF WorldTypes
  <1>2. ASSUME NEW w \in Workers, NEW t \in Tasks, Walk(w, t) PROVE WorldTypes'
    BY <1>0, <1>2 DEF Walk, lifecycle, WorldTypes
  <1>3. ASSUME NEW w \in Workers, NEW t \in Tasks, GatherClaim(w, t) PROVE WorldTypes'
    <2>1. Due(row[t])
      BY <1>3 DEF GatherClaim, Offered, Claimable
    <2>2. Claimed(row[t], w) \in Rows
      BY <1>0, <2>1, WriteTypes
    <2> QED  BY <1>0, <1>3, <2>2, WrittenType DEF GatherClaim, WorldTypes
  <1>4. ASSUME NEW w \in Workers, NEW t \in Tasks, Prepare(w, t) PROVE WorldTypes'
    <2>1. /\ Completed(row[t]) \in Rows /\ Failed(row[t], TRUE, TRUE) \in Rows
          /\ [row[t] EXCEPT !.status = "running"] \in Rows
      BY <1>0, WriteTypes
    <2>2. /\ UNCHANGED <<batchId, overrun, faults>>
          /\ \/ UNCHANGED <<row, effects, unwalked>>
             \/ Written(t, Failed(row[t], TRUE, TRUE)) /\ UNCHANGED <<effects, unwalked>>
             \/ Requested(w, t) \/ Finished(w, t)
      BY <1>4 DEF Prepare, lifecycle
    <2>3. CASE Requested(w, t)
      BY <1>0, <2>1, <2>2, <2>3, WrittenType DEF Requested, WorldTypes
    <2>4. CASE Finished(w, t)
      <3>1. row' \in [Tasks -> Rows]
        BY <1>0, <2>1, <2>4, WrittenType DEF Finished
      <3>2. effects' \in [Tasks -> Nat] /\ unwalked' \subseteq Tasks
        BY <1>0, <2>4 DEF Finished
      <3> QED  BY <1>0, <2>2, <3>1, <3>2 DEF WorldTypes
    <2> QED  BY <1>0, <2>1, <2>2, <2>3, <2>4, WrittenType DEF WorldTypes
  <1>5. ASSUME NEW w \in Workers, NEW t \in Tasks, NEW retryable \in BOOLEAN,
               RecordFailure(w, t, retryable)
        PROVE  WorldTypes'
    <2>1. Failed(row[t], retryable, TRUE) \in Rows
      BY <1>0, WriteTypes
    <2> QED  BY <1>0, <1>5, <2>1, WrittenType DEF RecordFailure, WorldTypes
  <1>6. ASSUME NEW w \in Workers, MarkBatched(w) PROVE WorldTypes'
    <2>1. \A t \in Tasks : [row[t] EXCEPT !.status = "batched"] \in Rows
      BY <1>0, WriteTypes
    <2>2. row' \in [Tasks -> Rows]
      BY <1>0, <1>6, <2>1 DEF MarkBatched
    <2>3. turn[w] \in Batches \cup {NoOne}
      BY DEF AllTypes, PassTypes
    <2>4. batchId' \in [Tasks -> Batches \cup {NoOne}]
      BY <1>0, <1>6, <2>3 DEF MarkBatched, ParkedUnder
    <2> QED  BY <1>0, <1>6, <2>2, <2>4 DEF MarkBatched, WorldTypes
  <1>7. ASSUME NEW t \in Tasks, Reap(t) PROVE WorldTypes'
    <2>1. Failed(row[t], TRUE, FALSE) \in Rows
      BY <1>0, WriteTypes
    <2>2. row' \in [Tasks -> Rows]
      BY <1>0, <1>7, <2>1, WrittenType DEF Reap
    <2>3. faults' \in 0..MaxFaults /\ overrun' \in BOOLEAN
      BY <1>0, <1>f, <1>7 DEF Reap
    <2> QED  BY <1>0, <1>7, <2>2, <2>3 DEF Reap, WorldTypes
  <1>8. ASSUME NEW t \in Tasks, BackoffPasses(t) PROVE WorldTypes'
    <2>1. [row[t] EXCEPT !.backoff = FALSE] \in Rows
      BY <1>0, WriteTypes
    <2> QED  BY <1>0, <1>8, <2>1 DEF BackoffPasses, BackoffEnds, WorldTypes
  <1>9. ASSUME NEW t \in Tasks, Delete(t) PROVE WorldTypes'
    <2>1. \A u \in Tasks : [row[u] EXCEPT !.status = "gone"] \in Rows
      BY <1>0, WriteTypes
    <2>2. row' \in [Tasks -> Rows]
      BY <1>0, <1>9, <2>1 DEF Delete, Cascade
    <2> QED  BY <1>0, <1>f, <1>9, <2>2 DEF Delete, Cascade, WorldTypes
  <1>10. ASSUME NEW b \in Batches, Provider(b) \/ Die(b) PROVE WorldTypes'
    BY <1>0, <1>f, <1>10 DEF Provider, Answer, Die, lifecycle, WorldTypes
  <1>11. \A w \in Workers : DeliverBatch(w) => WorldTypes'
    BY DeliveryTypes
  <1> QED
    BY <1>1, <1>2, <1>3, <1>4, <1>5, <1>6, <1>7, <1>8, <1>9, <1>10, <1>11
       DEF Next, PollStep, GatherStep

(* Who changes the provider's batches.                                     *)
LEMMA BatchSteps ==
  ASSUME Next
  PROVE  \/ batch' = batch
         \/ \E w \in Workers, b \in Batches : Accepted(w, b)
         \/ \E b \in Batches : Provider(b) \/ Die(b)
  <1>1. ASSUME NEW w \in Workers, PollStep(w) \/ PassRaises(w) \/ Crash(w) \/ Return(w)
        PROVE  batch' = batch
    BY <1>1 DEF PollStep, PollStart, DeliverBatch, PollSkip, PollLoad, Walk,
                PassRaises, Crash, Return
  <1>2. ASSUME NEW w \in Workers, GatherStep(w)
        PROVE  batch' = batch \/ \E b \in Batches : Accepted(w, b)
    BY <1>2 DEF GatherStep, GatherDone, PrepareDone, MarkBatched, GatherClaim, Prepare,
                RecordFailure, Submit
  <1>3. ASSUME NEW w \in Workers, NEW t \in Tasks, PrepareRaises(w, t) PROVE batch' = batch
    BY <1>3 DEF PrepareRaises
  <1>4. ASSUME NEW w \in Workers, NEW b \in Batches, NEW taken \in BOOLEAN,
               SubmitRaises(w, b, taken)
        PROVE  batch' = batch \/ Accepted(w, b)
    BY <1>4 DEF SubmitRaises
  <1>5. ASSUME NEW t \in Tasks, Reap(t) \/ BackoffPasses(t) \/ Delete(t)
        PROVE  batch' = batch
    BY <1>5 DEF Reap, BackoffPasses, Delete
  <1> QED  BY <1>1, <1>2, <1>3, <1>4, <1>5 DEF Next

LEMMA ProviderTypesKept ==
  ASSUME AllTypes, Next
  PROVE  ProviderTypes'
  BY BatchSteps, AcceptedTypes, AnswerTypes DEF AllTypes, ProviderTypes

LEMMA PassTypesKept ==
  ASSUME AllTypes, Next
  PROVE  PassTypes'
  <1>1. CASE \/ \E t \in Tasks : Reap(t) \/ BackoffPasses(t) \/ Delete(t)
             \/ \E b \in Batches : Provider(b) \/ Die(b)
    <2>1. UNCHANGED passVars
      BY <1>1 DEF Reap, BackoffPasses, Delete, Provider, Answer, Die
    <2> QED  BY <2>1 DEF AllTypes, PassTypes, PassFits, passVars
  <1>2. CASE \/ \E w \in Workers : PollStep(w) \/ GatherStep(w) \/ PassRaises(w)
                                   \/ Crash(w) \/ Return(w)
             \/ \E w \in Workers, t \in Tasks : PrepareRaises(w, t)
             \/ \E w \in Workers, b \in Batches, taken \in BOOLEAN : SubmitRaises(w, b, taken)
    BY <1>2, PassStepTypes, PassStepOrLossTypes DEF AllTypes, PollStep, GatherStep
  <1> QED  BY <1>1, <1>2 DEF Next

LEMMA TypesKept == AllTypes /\ [Next]_vars => AllTypes'
  <1>1. AllTypes /\ UNCHANGED vars => AllTypes'
    BY DEF AllTypes, PassTypes, PassFits, ProviderTypes, WorldTypes, vars, passVars, lifecycle
  <1> QED  BY <1>1, PassTypesKept, ProviderTypesKept, WorldTypesKept DEF AllTypes

LEMMA TypesInit == Init => AllTypes
  <1> SUFFICES ASSUME Init PROVE AllTypes
    OBVIOUS
  <1>1. PassTypes
    BY NoCopyType DEF Init, PassTypes, PassFits, Phases
  <1>2. ProviderTypes
    BY DEF Init, ProviderTypes, Batch, NoRequests
  <1>3. WorldTypes
    <2>1. row \in [Tasks -> Rows] /\ effects \in [Tasks -> Nat]
      BY PendingType DEF Init
    <2>2. 0 \in 0..MaxFaults
      BY BatchAssumption
    <2> QED  BY <2>1, <2>2 DEF Init, WorldTypes
  <1> QED  BY <1>1, <1>2, <1>3 DEF AllTypes

(* Every variable stays in its set, and what a worker has in its hands is  *)
(* among what it beats for.                                                *)
THEOREM TypeCorrect == Spec => []TypeOK
  <1>1. AllTypes => TypeOK
    BY DEF AllTypes, PassTypes, PassFits, ProviderTypes, WorldTypes, TypeOK
  <1> QED  BY <1>1, TypesInit, TypesKept, PTL DEF Spec

-----------------------------------------------------------------------------
(* Parked rows can be polled.                                              *)

(* A batch's requests are fixed when the provider takes it.                *)
LEMMA BatchesStand ==
  ASSUME AllTypes, [Next]_vars, NEW b \in Batches
  PROVE  /\ batch[b].state # "none" =>
              batch'[b].state # "none" /\ batch'[b].requests = batch[b].requests
         /\ batch'[b].state = "none" => batch'[b] = batch[b]
  <1>1. ASSUME NEW w \in Workers, NEW c \in Batches, Accepted(w, c)
        PROVE  /\ batch[b].state # "none" =>
                    batch'[b].state # "none" /\ batch'[b].requests = batch[b].requests
               /\ batch'[b].state = "none" => batch'[b] = batch[b]
    <2>1. batch[c].state = "none"
      BY <1>1 DEF Accepted, Unused
    <2>2. batch' = [batch EXCEPT ![c] = Batch("working", sheaf[w], <<>>)]
      BY <1>1, AcceptedTypes
    <2>3. batch'[b] = IF b = c THEN Batch("working", sheaf[w], <<>>) ELSE batch[b]
      BY <2>2 DEF AllTypes, ProviderTypes
    <2> QED  BY <2>1, <2>3 DEF Batch
  <1>2. ASSUME NEW c \in Batches, Provider(c) \/ Die(c)
        PROVE  /\ batch[b].state # "none" =>
                    batch'[b].state # "none" /\ batch'[b].requests = batch[b].requests
               /\ batch'[b].state = "none" => batch'[b] = batch[b]
    BY <1>2, AnswerTypes
  <1> QED  BY <1>1, <1>2, BatchSteps DEF vars

(* A worker has a batch in its hands from its submission on, or from its   *)
(* loading the parked rows, and keeps what it has there.                   *)
Keeps(w) ==
  /\ pc'[w] = pc[w] /\ turn'[w] = turn[w]
  /\ sheaf'[w] = sheaf[w] /\ copy'[w] = copy[w]

LEMMA BatchInHand ==
  ASSUME AllTypes, [Next]_vars, NEW w \in Workers, pc'[w] \in {"applying", "parking"}
  PROVE  Keeps(w) \/ \E b \in Batches : Submit(w, b) \/ PollLoad(w, b)
  <1>0. pc \in [Workers -> Phases] /\ sheaf \in [Workers -> SUBSET Tasks]
        /\ turn \in [Workers -> Batches \cup {NoOne}] /\ copy = [v \in Workers |-> copy[v]]
    BY DEF AllTypes, PassTypes
  <1> USE DEF Keeps
  <1>1. CASE UNCHANGED passVars
    BY <1>1 DEF passVars
  <1>2. ASSUME NEW v \in Workers, NEW phase \in {"idle", "down"}, LosePass(v, phase)
        PROVE  Keeps(w)
    BY <1>0, <1>2 DEF LosePass
  <1>3. ASSUME NEW v \in Workers,
               \E phase \in Phases \ {"applying", "parking"} : pc' = [pc EXCEPT ![v] = phase],
               \A u \in Workers \ {v} :
                 sheaf'[u] = sheaf[u] /\ turn'[u] = turn[u] /\ copy'[u] = copy[u]
        PROVE  Keeps(w)
    BY <1>0, <1>3
  <1>4. ASSUME NEW v \in Workers, ~\E b \in Batches : PollLoad(w, b),
               PollStep(v) \/ PassRaises(v) \/ Crash(v) \/ Return(v)
        PROVE  Keeps(w)
    <2>1. CASE PassRaises(v) \/ Crash(v)
      BY <1>2, <2>1 DEF PassRaises, Crash
    <2>2. CASE PollStart(v) \/ Return(v)
      BY <1>3, <2>2 DEF PollStart, Return, Phases
    <2>3. CASE DeliverBatch(v)
      BY <1>0, <1>2, <1>3, <2>3 DEF DeliverBatch, Phases
    <2>4. CASE \E b \in Batches : PollSkip(v, b)
      BY <2>4 DEF PollSkip
    <2>5. CASE \E b \in Batches : PollLoad(v, b)
      BY <1>0, <1>4, <2>5 DEF PollLoad
    <2>6. CASE \E t \in Tasks : Walk(v, t)
      BY <1>0, <1>2, <1>3, <2>6 DEF Walk, Phases
    <2> QED  BY <1>4, <2>1, <2>2, <2>3, <2>4, <2>5, <2>6 DEF PollStep
  <1>5. ASSUME NEW v \in Workers, GatherStep(v), ~\E b \in Batches : Submit(w, b)
        PROVE  Keeps(w)
    <2>1. CASE GatherDone(v)
      BY <1>3, <2>1 DEF GatherDone, Phases
    <2>2. CASE PrepareDone(v)
      BY <1>0, <2>2 DEF PrepareDone, Submitted
    <2>3. CASE MarkBatched(v)
      <3>1. CASE LosePass(v, "idle")
        BY <1>2, <3>1
      <3>2. CASE ~LosePass(v, "idle")
        <4>1. /\ pc' = [pc EXCEPT ![v] = IF debts[v] = {} THEN "idle" ELSE "submitted"]
              /\ copy' = copy /\ turn' = [turn EXCEPT ![v] = NoOne]
              /\ sheaf' = [sheaf EXCEPT ![v] = {}]
          BY <2>3, <3>2 DEF MarkBatched, Submitted
        <4> QED  BY <1>0, <4>1
      <3> QED  BY <3>1, <3>2
    <2>4. CASE \E t \in Tasks : GatherClaim(v, t)
      BY <2>4 DEF GatherClaim
    <2>5. ASSUME NEW t \in Tasks, Prepare(v, t)
          PROVE  Keeps(w)
      <3>1. CASE LosePass(v, "idle")
        BY <1>2, <3>1
      <3>2. CASE ~LosePass(v, "idle")
        <4>1. pc[v] = "preparing" /\ pc' = pc /\ turn' = turn /\ copy' = copy
              /\ (sheaf' = sheaf \/ sheaf' = [sheaf EXCEPT ![v] = @ \cup {t}])
          BY <2>5, <3>2 DEF Prepare, Requested, Finished
        <4> QED  BY <1>0, <4>1
      <3> QED  BY <3>1, <3>2
    <2>6. CASE \E t \in Tasks, retryable \in BOOLEAN : RecordFailure(v, t, retryable)
      BY <2>6 DEF RecordFailure
    <2>7. ASSUME NEW b \in Batches, Submit(v, b)
          PROVE  Keeps(w)
      BY <1>0, <1>5, <2>7 DEF Submit
    <2> QED  BY <1>5, <2>1, <2>2, <2>3, <2>4, <2>5, <2>6, <2>7 DEF GatherStep
  <1>6. ASSUME NEW v \in Workers, NEW t \in Tasks, PrepareRaises(v, t)
        PROVE  Keeps(w)
    BY <1>6 DEF PrepareRaises
  <1>7. ASSUME NEW v \in Workers, NEW b \in Batches, NEW taken \in BOOLEAN,
               SubmitRaises(v, b, taken)
        PROVE  Keeps(w)
    BY <1>0, <1>7 DEF SubmitRaises
  <1>8. ASSUME \/ \E t \in Tasks : Reap(t) \/ BackoffPasses(t) \/ Delete(t)
               \/ \E b \in Batches : Provider(b) \/ Die(b)
               \/ UNCHANGED vars
        PROVE  UNCHANGED passVars
    BY <1>8 DEF Reap, BackoffPasses, Delete, Provider, Answer, Die, vars
  <1> QED  BY <1>1, <1>4, <1>5, <1>6, <1>7, <1>8 DEF Next

(* A row becomes parked by its worker's hand, and keeps its batch id.      *)
LEMMA ParkingOnRows ==
  ASSUME AllTypes, [Next]_vars, NEW t \in Tasks, row'[t].status = "batched"
  PROVE  \/ row[t].status = "batched" /\ batchId'[t] = batchId[t]
         \/ \E w \in Workers : pc[w] = "parking" /\ t \in sheaf[w] /\ batchId'[t] = turn[w]
  <1>0. row \in [Tasks -> Rows] /\ batchId \in [Tasks -> Batches \cup {NoOne}]
    BY DEF AllTypes, WorldTypes
  <1>1. ASSUME row' = row, batchId' = batchId
        PROVE  row[t].status = "batched" /\ batchId'[t] = batchId[t]
    BY <1>1
  <1>2. ASSUME NEW u \in Tasks, NEW r, Written(u, r),
               r.status = "batched" => row[u].status = "batched",
               batchId' = batchId
        PROVE  row[t].status = "batched" /\ batchId'[t] = batchId[t]
    BY <1>0, <1>2 DEF Written
  <1>3. ASSUME NEW w \in Workers, MarkBatched(w)
        PROVE  \/ row[t].status = "batched" /\ batchId'[t] = batchId[t]
               \/ pc[w] = "parking" /\ t \in sheaf[w] /\ batchId'[t] = turn[w]
    <2> DEFINE found == {u \in sheaf[w] : ~Gone(u)}
    <2>1. \/ UNCHANGED <<row, batchId>>
          \/ /\ pc[w] = "parking"
             /\ row' = [u \in Tasks |-> IF u \in found
                         THEN [row[u] EXCEPT !.status = "batched"] ELSE row[u]]
             /\ batchId' = [u \in Tasks |-> IF u \in found THEN turn[w] ELSE batchId[u]]
      BY <1>3 DEF MarkBatched, ParkedUnder
    <2>2. t \in found => t \in sheaf[w]
      OBVIOUS
    <2> HIDE DEF found
    <2> QED  BY <2>1, <2>2
  <1>4. ASSUME NEW w \in Workers, DeliverBatch(w)
        PROVE  row[t].status = "batched" /\ batchId'[t] = batchId[t]
    <2> DEFINE done == Answered(w, "text")
               retried == Answered(w, "transient")
               refused == Answered(w, "refused") \cup retried
               new(u) == IF u \in done THEN Completed(copy[w][u])
                         ELSE Failed(copy[w][u], u \in retried, TRUE)
    <2>1. /\ batchId' = batchId
          /\ \/ row' = row
             \/ row' = [u \in Tasks |-> IF u \in done \cup refused
                         THEN Flush(row[u], copy[w][u], new(u)) ELSE row[u]]
      BY <1>4 DEF DeliverBatch, lifecycle
    <2>2. t \in done \cup refused => copy[w][t] \in Rows
      BY AnsweredIsLoaded DEF AllTypes, PassTypes, PassFits
    <2>3. ASSUME t \in done \cup refused PROVE new(t).status \in {"completed", "failed"}
      <3>1. Failed(copy[w][t], t \in retried, TRUE).status = "failed"
        BY <2>2, <2>3 DEF Failed, Rows
      <3>2. Completed(copy[w][t]).status = "completed"
        BY <2>2, <2>3, WriteStatus
      <3> QED  BY <3>1, <3>2
    <2>4. ASSUME t \in done \cup refused
          PROVE  Flush(row[t], copy[w][t], new(t)).status \in {new(t).status, row[t].status}
      BY <1>0 DEF Flush, Rows
    <2> HIDE DEF done, refused, retried, new
    <2> QED  BY <2>1, <2>3, <2>4
  <1>5. ASSUME NEW u \in Tasks, Reap(u) PROVE row[t].status = "batched" /\ batchId'[t] = batchId[t]
    BY <1>0, <1>2, <1>5, WriteStatus DEF Reap
  <1>6. ASSUME NEW u \in Tasks, BackoffPasses(u)
        PROVE  row[t].status = "batched" /\ batchId'[t] = batchId[t]
    BY <1>0, <1>6, WriteStatus DEF BackoffPasses, BackoffEnds
  <1>7. ASSUME NEW u \in Tasks, Delete(u)
        PROVE  row[t].status = "batched" /\ batchId'[t] = batchId[t]
    BY <1>0, <1>7, WriteStatus DEF Delete, Cascade
  <1>8. ASSUME NEW w \in Workers, NEW u \in Tasks, GatherClaim(w, u)
        PROVE  row[t].status = "batched" /\ batchId'[t] = batchId[t]
    BY <1>0, <1>2, <1>8, WriteStatus DEF GatherClaim
  <1>9. ASSUME NEW w \in Workers, NEW u \in Tasks, Prepare(w, u)
        PROVE  row[t].status = "batched" /\ batchId'[t] = batchId[t]
    BY <1>0, <1>1, <1>2, <1>9, WriteStatus DEF Prepare, Requested, Finished, lifecycle
  <1>10. ASSUME NEW w \in Workers, NEW u \in Tasks, NEW retryable \in BOOLEAN,
                RecordFailure(w, u, retryable)
         PROVE  row[t].status = "batched" /\ batchId'[t] = batchId[t]
    <2>0. row[u] \in Rows
      BY <1>0
    <2>1. Failed(row[u], retryable, TRUE).status = "failed"
      BY <2>0 DEF Failed, Rows
    <2> QED  BY <1>1, <1>2, <1>10, <2>1 DEF RecordFailure
  <1>11. ASSUME NEW w \in Workers,
                \/ PollStart(w) \/ GatherDone(w) \/ PrepareDone(w) \/ PassRaises(w)
                \/ Crash(w) \/ Return(w)
                \/ \E b \in Batches : PollSkip(w, b) \/ PollLoad(w, b) \/ Submit(w, b)
                \/ \E b \in Batches, taken \in BOOLEAN : SubmitRaises(w, b, taken)
                \/ \E u \in Tasks : PrepareRaises(w, u) \/ Walk(w, u)
         PROVE  row' = row /\ batchId' = batchId
    BY <1>11 DEF PollStart, GatherDone, PrepareDone, PassRaises, Crash, Return, PollSkip,
                 PollLoad, Submit, SubmitRaises, PrepareRaises, Walk, lifecycle
  <1>12. ASSUME (\E b \in Batches : Provider(b) \/ Die(b)) \/ UNCHANGED vars
         PROVE  row' = row /\ batchId' = batchId
    BY <1>12 DEF Provider, Answer, Die, lifecycle, vars
  <1> QED
    BY <1>1, <1>3, <1>4, <1>5, <1>6, <1>7, <1>8, <1>9, <1>10, <1>11, <1>12
       DEF Next, PollStep, GatherStep

Addressed ==
  /\ \A b \in Batches : batch[b].state = "none" => batch[b].requests = {}
  /\ \A w \in Workers : pc[w] = "parking" =>
       batch[turn[w]].state # "none" /\ sheaf[w] \subseteq batch[turn[w]].requests
  /\ ParkedInItsBatch

LEMMA AddressedKept == AllTypes /\ Addressed /\ [Next]_vars => Addressed'
  <1> SUFFICES ASSUME AllTypes, Addressed, [Next]_vars PROVE Addressed'
    OBVIOUS
  <1>1. ASSUME NEW b \in Batches, batch'[b].state = "none" PROVE batch'[b].requests = {}
    BY <1>1, BatchesStand DEF Addressed
  <1>2. ASSUME NEW w \in Workers, pc'[w] = "parking"
        PROVE  batch'[turn'[w]].state # "none" /\ sheaf'[w] \subseteq batch'[turn'[w]].requests
    <2>1. CASE Keeps(w)
      <3>1. turn[w] \in Batches
        BY <1>2, <2>1 DEF Keeps, AllTypes, PassTypes, PassFits
      <3> QED  BY <1>2, <2>1, <3>1, BatchesStand DEF Keeps, Addressed
    <2>2. ASSUME NEW b \in Batches, Submit(w, b)
          PROVE  batch'[turn'[w]].state # "none" /\ sheaf'[w] \subseteq batch'[turn'[w]].requests
      <3>1. turn'[w] = b /\ sheaf'[w] = sheaf[w] /\ Accepted(w, b)
        BY <2>2 DEF Submit, AllTypes, PassTypes
      <3>2. batch' = [batch EXCEPT ![b] = Batch("working", sheaf[w], <<>>)]
        BY <3>1, AcceptedTypes
      <3>3. batch'[b] = Batch("working", sheaf[w], <<>>)
        BY <3>2 DEF AllTypes, ProviderTypes
      <3> QED  BY <3>1, <3>3 DEF Batch
    <2>3. \A b \in Batches : PollLoad(w, b) => pc'[w] = "applying"
      BY DEF PollLoad, AllTypes, PassTypes
    <2> QED  BY <1>2, <2>1, <2>2, <2>3, BatchInHand
  <1>3. ASSUME NEW t \in Tasks, row'[t].status = "batched"
        PROVE  batchId'[t] \in Batches /\ t \in batch'[batchId'[t]].requests
    <2>1. batchId'[t] \in Batches /\ t \in batch[batchId'[t]].requests
      <3>1. CASE row[t].status = "batched" /\ batchId'[t] = batchId[t]
        BY <3>1 DEF Addressed, ParkedInItsBatch, Parked
      <3>2. ASSUME NEW w \in Workers, pc[w] = "parking", t \in sheaf[w], batchId'[t] = turn[w]
            PROVE  batchId'[t] \in Batches /\ t \in batch[batchId'[t]].requests
        BY <3>2 DEF Addressed, AllTypes, PassTypes, PassFits
      <3> QED  BY <1>3, <3>1, <3>2, ParkingOnRows
    <2>2. batch[batchId'[t]].state # "none"
      BY <2>1 DEF Addressed
    <2> QED  BY <2>1, <2>2, BatchesStand
  <1> QED  BY <1>1, <1>2, <1>3 DEF Addressed, ParkedInItsBatch, Parked

(* A parked row names a batch that the provider has and that holds its     *)
(* request, whoever took the claim over before it was parked               *)
(* (mark_batched).                                                         *)
THEOREM ParkedCanBePolled == Spec => []ParkedInItsBatch
  <1>1. Init => Addressed
    BY DEF Init, NoRequests, Addressed, ParkedInItsBatch, Parked, AbsentRow
  <1> QED  BY <1>1, TypesInit, TypesKept, AddressedKept, PTL DEF Spec, Addressed

-----------------------------------------------------------------------------
(* Whose row it is.                                                        *)

(* What a worker has gathered is its own claim, in the status its list     *)
(* says; what it is about to deliver is as it was loaded. Deleted rows     *)
(* excepted.                                                               *)
HandsOf(w) ==
  /\ \A t \in todo[w] : Gone(t) \/ (row[t].status = "claimed" /\ row[t].owner = w)
  /\ \A t \in sheaf[w] : Gone(t) \/ (row[t].status = "running" /\ row[t].owner = w)
  /\ \A t \in botched[w] : Gone(t) \/ (row[t].status \in Reapable /\ row[t].owner = w)
  /\ todo[w] \cap sheaf[w] = {} /\ todo[w] \cap botched[w] = {}
  /\ sheaf[w] \cap botched[w] = {}
  /\ pc[w] = "applying" =>
       \A t \in DOMAIN copy[w] :
         \/ Gone(t)
         \/ row[t] = copy[w][t] /\ row[t].status = "batched" /\ batchId[t] = turn[w]

RowsSound ==
  \A t \in Tasks :
    row[t].status # "absent" /\ (row[t].backoff => row[t].status \in {"failed", "gone"})

Hands == RowsSound /\ \A w \in Workers : HandsOf(w)

(* No two workers deliver one batch.                                       *)
LocksHeld ==
  \A v, w \in Workers :
    v # w /\ pc[v] = "applying" /\ pc[w] = "applying" => turn[v] # turn[w]

LEMMA LocksKept == AllTypes /\ LocksHeld /\ [Next]_vars => LocksHeld'
  <1> SUFFICES ASSUME AllTypes, LocksHeld, [Next]_vars, NEW v \in Workers, NEW w \in Workers,
                      v # w, pc'[v] = "applying", pc'[w] = "applying"
               PROVE  turn'[v] # turn'[w]
    BY DEF LocksHeld
  <1>0. pc \in [Workers -> Phases] /\ turn \in [Workers -> Batches \cup {NoOne}]
    BY DEF AllTypes, PassTypes
  <1>1. \A u \in Workers, b \in Batches : ~(Submit(u, b) /\ pc'[u] = "applying")
    BY <1>0 DEF Submit
  <1>2. CASE Keeps(v) /\ Keeps(w)
    BY <1>2 DEF Keeps, LocksHeld
  <1>3. ASSUME NEW b \in Batches, PollLoad(v, b) PROVE turn'[v] # turn'[w]
    BY <1>0, <1>3 DEF PollLoad, BatchLockFree
  <1>4. ASSUME NEW b \in Batches, PollLoad(w, b) PROVE turn'[v] # turn'[w]
    BY <1>0, <1>4 DEF PollLoad, BatchLockFree
  <1> QED  BY <1>1, <1>2, <1>3, <1>4, BatchInHand

(* A step leaves what another worker has in its hands.                     *)
SameHands(v) ==
  /\ todo'[v] = todo[v] /\ sheaf'[v] = sheaf[v] /\ botched'[v] = botched[v]
  /\ pc'[v] = "applying" => pc[v] = "applying" /\ copy'[v] = copy[v] /\ turn'[v] = turn[v]

Avoids(v, t) ==
  /\ t \notin todo[v] /\ t \notin sheaf[v] /\ t \notin botched[v]
  /\ pc[v] = "applying" => t \notin DOMAIN copy[v]

RowKept(t) ==
  row'[t] = row[t] /\ (batchId'[t] = batchId[t] \/ row[t].status # "batched")

LEMMA HandsFrame ==
  ASSUME AllTypes, NEW v \in Workers, HandsOf(v), SameHands(v),
         \A t \in Tasks : RowKept(t) \/ Gone(t)' \/ Avoids(v, t)
  PROVE  HandsOf(v)'
  <1>0. /\ todo[v] \subseteq Tasks /\ sheaf[v] \subseteq Tasks /\ botched[v] \subseteq Tasks
        /\ DOMAIN copy[v] \subseteq Tasks
    BY DEF AllTypes, PassTypes, PassFits
  <1>1. ASSUME NEW t \in todo'[v]
        PROVE  Gone(t)' \/ (row'[t].status = "claimed" /\ row'[t].owner = v)
    <2>1. t \in Tasks /\ ~Avoids(v, t)
      BY <1>0 DEF SameHands, Avoids
    <2> QED  BY <2>1 DEF HandsOf, SameHands, RowKept, Gone
  <1>2. ASSUME NEW t \in sheaf'[v]
        PROVE  Gone(t)' \/ (row'[t].status = "running" /\ row'[t].owner = v)
    <2>1. t \in Tasks /\ ~Avoids(v, t)
      BY <1>0 DEF SameHands, Avoids
    <2> QED  BY <2>1 DEF HandsOf, SameHands, RowKept, Gone
  <1>3. ASSUME NEW t \in botched'[v]
        PROVE  Gone(t)' \/ (row'[t].status \in Reapable /\ row'[t].owner = v)
    <2>1. t \in Tasks /\ ~Avoids(v, t)
      BY <1>0 DEF SameHands, Avoids
    <2> QED  BY <2>1 DEF HandsOf, SameHands, RowKept, Gone
  <1>4. ASSUME pc'[v] = "applying", NEW t \in DOMAIN copy'[v]
        PROVE  \/ Gone(t)'
               \/ row'[t] = copy'[v][t] /\ row'[t].status = "batched" /\ batchId'[t] = turn'[v]
    <2>1. pc[v] = "applying" /\ copy'[v] = copy[v] /\ turn'[v] = turn[v]
      BY <1>4 DEF SameHands
    <2>2. t \in Tasks /\ ~Avoids(v, t)
      BY <1>0, <2>1 DEF Avoids
    <2> QED  BY <2>1, <2>2 DEF HandsOf, RowKept, Gone
  <1> QED  BY <1>1, <1>2, <1>3, <1>4 DEF HandsOf, SameHands

(* Whom a row is free of: of everybody, unless it is somebody's claim or   *)
(* parked.                                                                 *)
LEMMA FreeOf ==
  ASSUME AllTypes, NEW v \in Workers, HandsOf(v), NEW t \in Tasks,
         row[t].status \notin {"gone", "batched"},
         row[t].status \notin Reapable \/ row[t].owner # v \/ t \notin held[v]
  PROVE  Avoids(v, t)
  <1>1. t \notin held[v] => t \notin todo[v] /\ t \notin sheaf[v] /\ t \notin botched[v]
    BY DEF AllTypes, PassTypes, PassFits
  <1>2. {"claimed", "running"} \subseteq Reapable
    BY DEF Reapable
  <1> QED  BY <1>1, <1>2 DEF HandsOf, Gone, Avoids

(* A worker that lost its pass has nothing in its hands.                   *)
LEMMA LosePassHands ==
  ASSUME AllTypes, Hands, NEW w \in Workers, NEW phase \in {"idle", "down"}, LosePass(w, phase),
         UNCHANGED <<row, batchId>>
  PROVE  Hands'
  <1>1. RowsSound'
    BY DEF Hands, RowsSound
  <1>2. \A t \in Tasks : RowKept(t)
    BY DEF RowKept
  <1>3. ASSUME NEW v \in Workers PROVE HandsOf(v)'
    <2>1. CASE v = w
      BY <2>1 DEF LosePass, AllTypes, PassTypes, HandsOf
    <2>2. CASE v # w
      <3>1. SameHands(v)
        BY <2>2 DEF LosePass, AllTypes, PassTypes, SameHands
      <3> QED  BY <1>2, <3>1, HandsFrame DEF Hands
    <2> QED  BY <2>1, <2>2
  <1> QED  BY <1>1, <1>3 DEF Hands

(* A write to one row of a worker's own, or to one that is free: the row   *)
(* stays sound, and nobody else notices.                                   *)
LEMMA OwnWrite ==
  ASSUME AllTypes, Hands, NEW w \in Workers, NEW t \in Tasks, NEW r \in Rows, Written(t, r),
         batchId' = batchId,
         row[t].status \notin {"gone", "batched"},
         row[t].status \in Reapable => row[t].owner = w,
         r.status \notin {"absent"}, r.backoff => r.status \in {"failed", "gone"},
         \A v \in Workers \ {w} : SameHands(v)
  PROVE  RowsSound' /\ \A v \in Workers \ {w} : HandsOf(v)'
  <1>0. row \in [Tasks -> Rows]
    BY DEF AllTypes, WorldTypes
  <1>1. \A u \in Tasks : row'[u] = IF u = t THEN r ELSE row[u]
    BY <1>0 DEF Written
  <1>2. RowsSound'
    BY <1>1 DEF Hands, RowsSound
  <1>3. ASSUME NEW v \in Workers \ {w} PROVE HandsOf(v)'
    <2>1. Avoids(v, t)
      BY <1>3, FreeOf DEF Hands
    <2>2. \A u \in Tasks : RowKept(u) \/ Avoids(v, u)
      BY <1>1, <2>1 DEF RowKept
    <2> QED  BY <1>3, <2>2, HandsFrame DEF Hands
  <1> QED  BY <1>2, <1>3

(* The fields that the writes of a claim's life set and keep.              *)
LEMMA WriteFields ==
  ASSUME NEW r \in Rows
  PROVE  /\ \A w \in Workers : /\ Claimed(r, w).status = "claimed" /\ Claimed(r, w).owner = w
                               /\ ~Claimed(r, w).backoff
         /\ Completed(r).status = "completed" /\ Completed(r).backoff = r.backoff
         /\ [r EXCEPT !.status = "running"].status = "running"
         /\ [r EXCEPT !.status = "running"].owner = r.owner
         /\ [r EXCEPT !.status = "running"].backoff = r.backoff
         /\ [r EXCEPT !.status = "batched"].status = "batched"
         /\ [r EXCEPT !.status = "batched"].backoff = r.backoff
         /\ [r EXCEPT !.status = "gone"].status = "gone"
         /\ [r EXCEPT !.backoff = FALSE].status = r.status
         /\ ~[r EXCEPT !.backoff = FALSE].backoff
  BY DEF Rows, Claimed, Completed

LEMMA FailedFields ==
  ASSUME NEW r \in Rows, NEW retryable \in BOOLEAN, NEW delayed \in BOOLEAN
  PROVE  Failed(r, retryable, delayed) \in Rows /\ Failed(r, retryable, delayed).status = "failed"
  <1>1. Failed(r, retryable, delayed) \in Rows
    BY WriteTypes
  <1>2. Failed(r, retryable, delayed).status = "failed"
    BY DEF Failed, Rows
  <1> QED  BY <1>1, <1>2

LEMMA QuietHands ==
  ASSUME AllTypes, Hands, UNCHANGED <<row, batchId>>, \A v \in Workers : SameHands(v)
  PROVE  Hands'
  <1>1. \A t \in Tasks : RowKept(t)
    BY DEF RowKept
  <1>2. RowsSound'
    BY DEF Hands, RowsSound
  <1> QED  BY <1>1, <1>2, HandsFrame DEF Hands

LEMMA HandsQuietSteps ==
  ASSUME AllTypes, Hands, NEW w \in Workers,
         \/ PollStart(w) \/ GatherDone(w) \/ PrepareDone(w) \/ Return(w)
         \/ PassRaises(w) \/ Crash(w)
         \/ \E b \in Batches : PollSkip(w, b) \/ Submit(w, b)
         \/ \E t \in Tasks : Walk(w, t)
  PROVE  Hands'
  <1>0. pc \in [Workers -> Phases]
    BY DEF AllTypes, PassTypes
  <1>1. CASE PassRaises(w) \/ Crash(w)
    BY <1>1, LosePassHands DEF PassRaises, Crash, lifecycle
  <1>2. CASE \E t \in Tasks : Walk(w, t) /\ LosePass(w, "idle")
    BY <1>2, LosePassHands DEF Walk, lifecycle
  <1>3. CASE \/ PollStart(w) \/ GatherDone(w) \/ PrepareDone(w) \/ Return(w)
             \/ \E b \in Batches : PollSkip(w, b) \/ Submit(w, b)
             \/ \E t \in Tasks : Walk(w, t) /\ ~LosePass(w, "idle")
    <2>1. UNCHANGED <<row, batchId, todo, sheaf, botched, copy>>
      BY <1>3 DEF PollStart, GatherDone, PrepareDone, Return, PollSkip, Submit, Walk, lifecycle
    <2>2. ASSUME NEW v \in Workers, pc'[v] = "applying"
          PROVE  pc[v] = "applying" /\ turn'[v] = turn[v]
      <3>1. CASE PollStart(w) \/ GatherDone(w) \/ Return(w)
        BY <1>0, <2>2, <3>1 DEF PollStart, GatherDone, Return
      <3>2. CASE PrepareDone(w)
        BY <1>0, <2>2, <3>2 DEF PrepareDone, Submitted
      <3>3. CASE \E b \in Batches : PollSkip(w, b)
        BY <2>2, <3>3 DEF PollSkip
      <3>4. CASE \E b \in Batches : Submit(w, b)
        BY <1>0, <2>2, <3>4 DEF Submit, AllTypes, PassTypes
      <3>5. CASE \E t \in Tasks : Walk(w, t) /\ ~LosePass(w, "idle")
        BY <1>0, <2>2, <3>5 DEF Walk
      <3> QED  BY <1>3, <3>1, <3>2, <3>3, <3>4, <3>5
    <2>3. \A v \in Workers : SameHands(v)
      BY <2>1, <2>2 DEF SameHands
    <2> QED  BY <2>1, <2>3, QuietHands
  <1> QED  BY <1>1, <1>2, <1>3

(* Loading the parked rows under the batch lock, and the two ways in which *)
(* what was gathered is to be failed: the rows stay as they are.           *)
LEMMA HandsMoves ==
  ASSUME AllTypes, Hands, NEW w \in Workers,
         \/ \E b \in Batches : PollLoad(w, b)
         \/ \E t \in Tasks : PrepareRaises(w, t)
         \/ \E b \in Batches, taken \in BOOLEAN : SubmitRaises(w, b, taken)
  PROVE  Hands'
  <1>0. /\ pc \in [Workers -> Phases] /\ todo \in [Workers -> SUBSET Tasks]
        /\ sheaf \in [Workers -> SUBSET Tasks] /\ botched \in [Workers -> SUBSET Tasks]
        /\ turn \in [Workers -> Batches \cup {NoOne}] /\ copy = [v \in Workers |-> copy[v]]
        /\ HandsOf(w) /\ PassFits(w)
    BY DEF AllTypes, PassTypes, Hands
  <1>1. row' = row /\ batchId' = batchId
    BY DEF PollLoad, PrepareRaises, SubmitRaises, lifecycle
  <1>2. \A t \in Tasks : RowKept(t)
    BY <1>1 DEF RowKept
  <1>3. RowsSound'
    BY <1>1 DEF Hands, RowsSound
  <1>4. ASSUME NEW v \in Workers \ {w} PROVE HandsOf(v)'
    <2>1. SameHands(v)
      BY <1>0, <1>4 DEF PollLoad, PrepareRaises, SubmitRaises, SameHands
    <2> QED  BY <1>2, <2>1, HandsFrame DEF Hands
  <1>5. HandsOf(w)'
    <2>1. ASSUME NEW b \in Batches, PollLoad(w, b) PROVE HandsOf(w)'
      <3>1. /\ copy'[w] = [t \in ParkedIn(b) |-> row[t]] /\ turn'[w] = b
            /\ UNCHANGED <<todo, sheaf, botched>>
        BY <1>0, <2>1 DEF PollLoad
      <3>2. \A t \in ParkedIn(b) : row[t].status = "batched" /\ batchId[t] = b
        BY DEF ParkedIn, Parked
      <3> QED  BY <1>0, <1>1, <3>1, <3>2 DEF HandsOf, Gone
    <2>2. ASSUME NEW t \in Tasks, PrepareRaises(w, t) PROVE HandsOf(w)'
      <3>1. /\ todo'[w] = todo[w] \ {t} /\ botched'[w] = {t} /\ sheaf'[w] = sheaf[w]
            /\ pc'[w] = "preparing" /\ t \in todo[w]
        BY <1>0, <2>2 DEF PrepareRaises
      <3>2. Gone(t) \/ (row[t].status \in Reapable /\ row[t].owner = w)
        BY <1>0, <3>1 DEF HandsOf, Reapable
      <3> QED  BY <1>0, <1>1, <3>1, <3>2 DEF HandsOf, Gone
    <2>3. ASSUME NEW b \in Batches, NEW taken \in BOOLEAN, SubmitRaises(w, b, taken)
          PROVE  HandsOf(w)'
      <3>1. /\ todo'[w] = todo[w] /\ botched'[w] = sheaf[w] /\ sheaf'[w] = {}
            /\ pc'[w] = "preparing" /\ pc[w] = "submitting"
        BY <1>0, <2>3 DEF SubmitRaises
      <3>2. todo[w] = {}
        BY <1>0, <3>1 DEF PassFits
      <3>3. "running" \in Reapable
        BY DEF Reapable
      <3> QED  BY <1>0, <1>1, <3>1, <3>2, <3>3 DEF HandsOf, Gone
    <2> QED  BY <2>1, <2>2, <2>3
  <1> QED  BY <1>3, <1>4, <1>5 DEF Hands

LEMMA HandsClaim ==
  ASSUME AllTypes, Hands, NEW w \in Workers, NEW t \in Tasks, GatherClaim(w, t)
  PROVE  Hands'
  <1>0. /\ row \in [Tasks -> Rows] /\ todo \in [Workers -> SUBSET Tasks] /\ HandsOf(w)
        /\ todo[w] \cup sheaf[w] \cup botched[w] \subseteq Tasks
        /\ pc[w] = "polling"
    BY DEF AllTypes, WorldTypes, PassTypes, Hands, GatherClaim, Gathering
  <1>1. row[t].status \in {"pending", "failed"} /\ Due(row[t])
    BY DEF GatherClaim, Offered, Claimable, Due, HasRetryLeft
  <1>2. Claimed(row[t], w) \in Rows /\ Written(t, Claimed(row[t], w))
    BY <1>0, <1>1, WriteTypes DEF GatherClaim
  <1>3. /\ Claimed(row[t], w).status = "claimed" /\ Claimed(row[t], w).owner = w
        /\ ~Claimed(row[t], w).backoff
    BY <1>0, WriteFields
  <1>4. \A v \in Workers \ {w} : SameHands(v)
    BY <1>0 DEF GatherClaim, SameHands
  <1>5. row[t].status \notin Reapable /\ batchId' = batchId
    BY <1>1 DEF Reapable, GatherClaim
  <1>6. RowsSound' /\ \A v \in Workers \ {w} : HandsOf(v)'
    BY <1>1, <1>2, <1>3, <1>4, <1>5, OwnWrite
  <1>7. Avoids(w, t)
    BY <1>0, <1>1, <1>5, FreeOf
  <1>8. /\ \A u \in Tasks \ {t} : row'[u] = row[u]
        /\ row'[t] = Claimed(row[t], w)
        /\ todo'[w] = todo[w] \cup {t} /\ UNCHANGED <<sheaf, botched, pc>>
    BY <1>0, <1>2 DEF Written, GatherClaim
  <1>9. HandsOf(w)'
    BY <1>0, <1>3, <1>7, <1>8 DEF HandsOf, Avoids, Gone
  <1> QED  BY <1>6, <1>9 DEF Hands

LEMMA HandsPrepare ==
  ASSUME AllTypes, Hands, NEW w \in Workers, NEW t \in Tasks, Prepare(w, t)
  PROVE  Hands'
  <1>0. /\ row \in [Tasks -> Rows] /\ todo \in [Workers -> SUBSET Tasks] /\ HandsOf(w)
        /\ sheaf \in [Workers -> SUBSET Tasks]
        /\ todo[w] \cup sheaf[w] \cup botched[w] \subseteq Tasks
        /\ batchId' = batchId /\ pc[w] = "preparing" /\ t \in todo[w] /\ botched[w] = {}
        /\ row[t] \in Rows
    BY DEF AllTypes, WorldTypes, PassTypes, Hands, Prepare
  <1>1. CASE LosePass(w, "idle") /\ UNCHANGED lifecycle
    BY <1>0, <1>1, LosePassHands DEF lifecycle
  <1>2. ASSUME ~(LosePass(w, "idle") /\ UNCHANGED lifecycle) PROVE Hands'
    <2>1. /\ todo' = [todo EXCEPT ![w] = @ \ {t}] /\ UNCHANGED <<pc, botched, turn, copy>>
          /\ \/ Gone(t) /\ UNCHANGED <<lifecycle, sheaf>>
             \/ /\ ~Gone(t) /\ sheaf' = sheaf
                /\ \/ Written(t, Failed(row[t], TRUE, TRUE))
                   \/ Written(t, Completed(row[t]))
             \/ /\ ~Gone(t) /\ sheaf' = [sheaf EXCEPT ![w] = @ \cup {t}]
                /\ Written(t, [row[t] EXCEPT !.status = "running"])
      BY <1>2 DEF Prepare, Requested, Finished
    <2>2. \A v \in Workers \ {w} : SameHands(v)
      BY <1>0, <2>1 DEF SameHands
    <2>3. todo'[w] = todo[w] \ {t} /\ pc'[w] = "preparing" /\ botched'[w] = {}
      BY <1>0, <2>1
    <2>4. CASE Gone(t) /\ UNCHANGED <<lifecycle, sheaf>>
      <3>1. row' = row
        BY <2>4 DEF lifecycle
      <3>2. RowsSound' /\ \A u \in Tasks : RowKept(u)
        BY <1>0, <3>1 DEF Hands, RowsSound, RowKept
      <3>3. HandsOf(w)'
        BY <1>0, <2>3, <2>4, <3>1 DEF HandsOf, Gone
      <3> QED  BY <2>2, <3>2, <3>3, HandsFrame DEF Hands
    <2>5. ASSUME ~Gone(t)
          PROVE  /\ row[t].status = "claimed" /\ row[t].owner = w /\ ~row[t].backoff
                 /\ row[t].status \in Reapable
      BY <1>0, <2>5 DEF HandsOf, Hands, RowsSound, Reapable
    <2>6. ASSUME ~Gone(t), NEW r \in Rows, Written(t, r), sheaf' = sheaf,
                 r.status \in {"completed", "failed"}, r.backoff => r.status = "failed"
          PROVE  Hands'
      <3>1. RowsSound' /\ \A v \in Workers \ {w} : HandsOf(v)'
        BY <1>0, <2>2, <2>5, <2>6, OwnWrite
      <3>2. \A u \in Tasks \ {t} : row'[u] = row[u]
        BY <1>0, <2>6 DEF Written
      <3>3. t \notin sheaf[w]
        BY <1>0 DEF HandsOf
      <3>4. HandsOf(w)'
        BY <1>0, <2>3, <2>6, <3>2, <3>3 DEF HandsOf, Gone
      <3> QED  BY <3>1, <3>4 DEF Hands
    <2>7. ASSUME ~Gone(t), sheaf' = [sheaf EXCEPT ![w] = @ \cup {t}],
                 Written(t, [row[t] EXCEPT !.status = "running"])
          PROVE  Hands'
      <3> DEFINE r == [row[t] EXCEPT !.status = "running"]
      <3>1. r \in Rows /\ r.status = "running" /\ r.owner = w /\ ~r.backoff
        <4>1. r \in Rows
          BY <1>0, WriteTypes
        <4>2. r.status = "running" /\ r.owner = row[t].owner /\ r.backoff = row[t].backoff
          BY <1>0, WriteFields
        <4> QED  BY <2>5, <2>7, <4>1, <4>2
      <3> HIDE DEF r
      <3>2. Written(t, r)
        BY <2>7 DEF r
      <3>3. RowsSound' /\ \A v \in Workers \ {w} : HandsOf(v)'
        BY <1>0, <2>2, <2>5, <2>7, <3>1, <3>2, OwnWrite
      <3>4. row'[t] = r /\ \A u \in Tasks \ {t} : row'[u] = row[u]
        BY <1>0, <3>2 DEF Written
      <3>5. sheaf'[w] = sheaf[w] \cup {t}
        BY <1>0, <2>7
      <3>6. HandsOf(w)'
        BY <1>0, <2>3, <3>1, <3>4, <3>5 DEF HandsOf, Gone
      <3> QED  BY <3>3, <3>6 DEF Hands
    <2>8. /\ Failed(row[t], TRUE, TRUE) \in Rows
          /\ Failed(row[t], TRUE, TRUE).status = "failed"
          /\ Completed(row[t]) \in Rows /\ Completed(row[t]).status = "completed"
          /\ Completed(row[t]).backoff = row[t].backoff
      <3>1. Failed(row[t], TRUE, TRUE) \in Rows /\ Failed(row[t], TRUE, TRUE).status = "failed"
        BY <1>0, FailedFields
      <3>2. /\ Completed(row[t]) \in Rows /\ Completed(row[t]).status = "completed"
            /\ Completed(row[t]).backoff = row[t].backoff
        BY <1>0, WriteTypes, WriteFields
      <3> QED  BY <3>1, <3>2
    <2> QED  BY <2>1, <2>4, <2>5, <2>6, <2>7, <2>8
  <1> QED  BY <1>1, <1>2

LEMMA HandsFailure ==
  ASSUME AllTypes, Hands, NEW w \in Workers, NEW t \in Tasks, NEW retryable \in BOOLEAN,
         RecordFailure(w, t, retryable)
  PROVE  Hands'
  <1>0. /\ row \in [Tasks -> Rows] /\ HandsOf(w) /\ row[t] \in Rows
        /\ todo[w] \cup sheaf[w] \cup botched[w] \subseteq Tasks
        /\ batchId' = batchId /\ t \in botched[w] /\ UNCHANGED <<pc, todo, sheaf, turn, copy>>
        /\ botched' = [botched EXCEPT ![w] = @ \ {t}] /\ botched'[w] = botched[w] \ {t}
    BY DEF AllTypes, WorldTypes, PassTypes, Hands, RecordFailure
  <1>1. \A v \in Workers \ {w} : SameHands(v)
    BY <1>0 DEF SameHands, AllTypes, PassTypes
  <1>2. t \notin todo[w] /\ t \notin sheaf[w]
    BY <1>0 DEF HandsOf
  <1>3. CASE Gone(t)
    <2>1. row' = row
      BY <1>3 DEF RecordFailure
    <2>2. RowsSound' /\ \A u \in Tasks : RowKept(u)
      BY <1>0, <2>1 DEF Hands, RowsSound, RowKept
    <2>3. HandsOf(w)'
      BY <1>0, <1>3, <2>1 DEF HandsOf, Gone
    <2> QED  BY <1>1, <2>2, <2>3, HandsFrame DEF Hands
  <1>4. CASE ~Gone(t)
    <2> DEFINE r == Failed(row[t], retryable, TRUE)
    <2>1. r \in Rows /\ r.status = "failed"
      BY <1>0, FailedFields
    <2>2. Written(t, r)
      BY <1>4 DEF RecordFailure
    <2> HIDE DEF r
    <2>3. row[t].status \in Reapable /\ row[t].owner = w
      BY <1>0, <1>4 DEF HandsOf
    <2>4. RowsSound' /\ \A v \in Workers \ {w} : HandsOf(v)'
      BY <1>0, <1>1, <2>1, <2>2, <2>3, OwnWrite DEF Reapable
    <2>5. \A u \in Tasks \ {t} : row'[u] = row[u]
      BY <1>0, <2>2 DEF Written
    <2>6. HandsOf(w)'
      <3>1. (pc[w] = "applying" /\ t \in DOMAIN copy[w]) => row[t].status \in {"gone", "batched"}
        BY <1>0 DEF HandsOf, Gone
      <3>2. DOMAIN copy[w] \subseteq Tasks
        BY DEF AllTypes, PassTypes, PassFits
      <3> QED  BY <1>0, <1>2, <2>3, <2>5, <3>1, <3>2 DEF HandsOf, Gone, Reapable
    <2> QED  BY <2>4, <2>6 DEF Hands
  <1> QED  BY <1>3, <1>4

LEMMA HandsPark ==
  ASSUME AllTypes, Hands, NEW w \in Workers, MarkBatched(w)
  PROVE  Hands'
  <1> DEFINE found == {t \in sheaf[w] : ~Gone(t)}
  <1>0. /\ row \in [Tasks -> Rows] /\ HandsOf(w) /\ pc[w] = "parking" /\ PassFits(w)
        /\ sheaf[w] \subseteq Tasks
    BY DEF AllTypes, WorldTypes, PassTypes, Hands, MarkBatched
  <1>1. CASE LosePass(w, "idle") /\ UNCHANGED <<row, batchId>>
    BY <1>1, LosePassHands
  <1>2. CASE ~(LosePass(w, "idle") /\ UNCHANGED <<row, batchId>>)
    <2>1. /\ row' = [t \in Tasks |-> IF t \in found
                       THEN [row[t] EXCEPT !.status = "batched"] ELSE row[t]]
          /\ batchId' = [t \in Tasks |-> IF t \in found THEN turn[w] ELSE batchId[t]]
          /\ sheaf' = [sheaf EXCEPT ![w] = {}] /\ UNCHANGED <<todo, botched, copy>>
          /\ pc' = [pc EXCEPT ![w] = IF debts[w] = {} THEN "idle" ELSE "submitted"]
          /\ turn' = [turn EXCEPT ![w] = NoOne]
      BY <1>2 DEF MarkBatched, Submitted, ParkedUnder
    <2>2. \A t \in found : row[t].status = "running" /\ row[t].owner = w
      BY <1>0 DEF HandsOf
    <2>3. found \subseteq Tasks
      BY <1>0
    <2> HIDE DEF found
    <2>4. RowsSound'
      <3> SUFFICES ASSUME NEW t \in Tasks
                   PROVE  /\ row'[t].status # "absent"
                          /\ row'[t].backoff => row'[t].status \in {"failed", "gone"}
        BY DEF RowsSound
      <3>1. CASE t \in found
        <4>1. row'[t].status = "batched" /\ row'[t].backoff = row[t].backoff
          BY <1>0, <2>1, <3>1, WriteFields
        <4>2. ~row[t].backoff
          BY <2>2, <3>1 DEF Hands, RowsSound
        <4> QED  BY <4>1, <4>2
      <3>2. CASE t \notin found
        BY <2>1, <3>2 DEF Hands, RowsSound
      <3> QED  BY <3>1, <3>2
    <2>5. ASSUME NEW v \in Workers \ {w} PROVE HandsOf(v)'
      <3>1. SameHands(v)
        BY <2>1, <2>5 DEF SameHands, AllTypes, PassTypes
      <3>2. \A t \in found : Avoids(v, t)
        BY <2>2, <2>3, <2>5, FreeOf DEF Hands
      <3>3. \A t \in Tasks : RowKept(t) \/ Avoids(v, t)
        BY <2>1, <3>2 DEF RowKept
      <3> QED  BY <2>5, <3>1, <3>3, HandsFrame DEF Hands
    <2>6. HandsOf(w)'
      <3>1. todo[w] = {} /\ botched[w] = {}
        BY <1>0 DEF PassFits
      <3>2. pc'[w] # "applying" /\ sheaf'[w] = {} /\ todo'[w] = {} /\ botched'[w] = {}
        BY <2>1, <3>1 DEF AllTypes, PassTypes
      <3> QED  BY <3>2 DEF HandsOf
    <2> QED  BY <2>4, <2>5, <2>6 DEF Hands
  <1> QED  BY <1>1, <1>2

(* A delivery, while what it loaded is as it was: it completes and fails   *)
(* parked rows of its own batch.                                           *)
LEMMA DeliveryOnRows ==
  ASSUME AllTypes, NEW w \in Workers, HandsOf(w), DeliverBatch(w), ~LosePass(w, "idle")
  PROVE  LET done == Answered(w, "text")
             retried == Answered(w, "transient")
             refused == Answered(w, "refused") \cup retried
         IN  /\ \A t \in done \cup refused :
                  /\ t \in Tasks /\ ~Gone(t) /\ row[t] = copy[w][t] /\ row[t] \in Rows
                  /\ row[t].status = "batched" /\ batchId[t] = turn[w]
             /\ row' = [t \in Tasks |-> IF t \in done THEN Completed(row[t])
                          ELSE IF t \in refused THEN Failed(row[t], t \in retried, TRUE)
                          ELSE row[t]]
             /\ effects' = [t \in Tasks |-> IF t \in done THEN effects[t] + 1 ELSE effects[t]]
  <1> DEFINE done == Answered(w, "text")
             retried == Answered(w, "transient")
             refused == Answered(w, "refused") \cup retried
             new(t) == IF t \in done THEN Completed(copy[w][t])
                       ELSE Failed(copy[w][t], t \in retried, TRUE)
  <1>1. /\ \A t \in done \cup refused : ~Gone(t)
        /\ row' = [t \in Tasks |-> IF t \in done \cup refused
                     THEN Flush(row[t], copy[w][t], new(t)) ELSE row[t]]
        /\ effects' = [t \in Tasks |-> IF t \in done THEN effects[t] + 1 ELSE effects[t]]
        /\ pc[w] = "applying"
    BY DEF DeliverBatch
  <1>2. done \cup refused \subseteq DOMAIN copy[w] /\ DOMAIN copy[w] \subseteq Tasks
        /\ row \in [Tasks -> Rows]
    BY AnsweredIsLoaded DEF AllTypes, PassTypes, PassFits, WorldTypes
  <1>3. \A t \in done \cup refused :
          /\ t \in Tasks /\ ~Gone(t) /\ row[t] = copy[w][t] /\ row[t] \in Rows
          /\ row[t].status = "batched" /\ batchId[t] = turn[w]
    BY <1>1, <1>2 DEF HandsOf
  <1>4. ASSUME NEW t \in done \cup refused PROVE Flush(row[t], copy[w][t], new(t)) = new(t)
    <2>1. row[t] \in Rows /\ copy[w][t] = row[t]
      BY <1>3
    <2>2. new(t) \in Rows
      <3>1. (t \in retried) \in BOOLEAN /\ TRUE \in BOOLEAN
        OBVIOUS
      <3>2. Failed(copy[w][t], t \in retried, TRUE) \in Rows
        BY <2>1, <3>1, WriteTypes, Zenon
      <3>3. Completed(copy[w][t]) \in Rows
        BY <2>1, WriteTypes
      <3> QED  BY <3>2, <3>3
    <2> HIDE DEF new
    <2> QED  BY <2>1, <2>2, FlushFresh
  <1>5. ASSUME NEW t \in done PROVE new(t) = Completed(row[t])
    BY <1>3
  <1>6. ASSUME NEW t \in refused \ done PROVE new(t) = Failed(row[t], t \in retried, TRUE)
    BY <1>3
  <1> HIDE DEF new, done, retried, refused
  <1>7. \A t \in Tasks :
          row'[t] = IF t \in done THEN Completed(row[t])
                    ELSE IF t \in refused THEN Failed(row[t], t \in retried, TRUE)
                    ELSE row[t]
    BY <1>1, <1>4, <1>5, <1>6
  <1>8. row' = [t \in Tasks |-> IF t \in done THEN Completed(row[t])
                  ELSE IF t \in refused THEN Failed(row[t], t \in retried, TRUE)
                  ELSE row[t]]
    BY <1>1, <1>7
  <1> QED  BY <1>1, <1>3, <1>8 DEF done, retried, refused

LEMMA HandsDeliver ==
  ASSUME AllTypes, Hands, LocksHeld, NEW w \in Workers, DeliverBatch(w)
  PROVE  Hands'
  <1> DEFINE done == Answered(w, "text")
             retried == Answered(w, "transient")
             refused == Answered(w, "refused") \cup retried
  <1>0. /\ row \in [Tasks -> Rows] /\ HandsOf(w) /\ pc[w] = "applying"
        /\ batchId' = batchId /\ pc \in [Workers -> Phases]
        /\ turn \in [Workers -> Batches \cup {NoOne}] /\ copy = [v \in Workers |-> copy[v]]
    BY DEF AllTypes, WorldTypes, PassTypes, Hands, DeliverBatch
  <1>1. CASE LosePass(w, "idle") /\ UNCHANGED row
    BY <1>0, <1>1, LosePassHands
  <1>2. ASSUME ~LosePass(w, "idle") PROVE Hands'
    <2>1. /\ \A t \in done \cup refused :
               /\ t \in Tasks /\ ~Gone(t) /\ row[t] = copy[w][t] /\ row[t] \in Rows
               /\ row[t].status = "batched" /\ batchId[t] = turn[w]
          /\ row' = [t \in Tasks |-> IF t \in done THEN Completed(row[t])
                       ELSE IF t \in refused THEN Failed(row[t], t \in retried, TRUE)
                       ELSE row[t]]
      BY <1>0, <1>2, DeliveryOnRows
    <2>2. /\ UNCHANGED <<held, todo, sheaf, botched, polls>>
          /\ turn' = [turn EXCEPT ![w] = NoOne] /\ copy' = [copy EXCEPT ![w] = NoCopy]
          /\ \E phase \in {"polling", "applied"} : pc' = [pc EXCEPT ![w] = phase]
      BY <1>2 DEF DeliverBatch
    <2>3. ASSUME NEW t \in done \cup refused
          PROVE  row'[t].status \in {"completed", "failed"}
                 /\ (row'[t].backoff => row'[t].status = "failed")
      <3>1. t \in Tasks /\ row[t] \in Rows /\ row[t].status = "batched"
        BY <2>1
      <3>2. CASE t \in done
        <4>1. row'[t] = Completed(row[t])
          BY <2>1, <3>1, <3>2
        <4>2. ~row[t].backoff
          BY <3>1 DEF Hands, RowsSound
        <4> QED  BY <3>1, <4>1, <4>2, WriteFields
      <3>3. CASE t \notin done
        <4>1. row'[t] = Failed(row[t], t \in retried, TRUE)
          BY <2>1, <2>3, <3>1, <3>3
        <4>2. row'[t].status = "failed"
          BY <3>1, <4>1 DEF Failed, Rows
        <4> QED  BY <4>2
      <3> QED  BY <3>2, <3>3
    <2>4. \A t \in Tasks : t \notin done \cup refused => row'[t] = row[t]
      BY <2>1
    <2>5. RowsSound'
      BY <2>3, <2>4 DEF Hands, RowsSound
    <2>6. ASSUME NEW v \in Workers, NEW t \in done \cup refused
          PROVE  /\ t \notin todo[v] /\ t \notin sheaf[v] /\ t \notin botched[v]
                 /\ v # w => Avoids(v, t)
      <3>1. row[t].status = "batched" /\ batchId[t] = turn[w]
        BY <2>1
      <3>2. t \notin todo[v] /\ t \notin sheaf[v] /\ t \notin botched[v]
        BY <3>1 DEF Hands, HandsOf, Gone, Reapable
      <3>3. v # w /\ pc[v] = "applying" => t \notin DOMAIN copy[v]
        <4>1. v # w /\ pc[v] = "applying" => turn[v] # turn[w]
          BY <1>0 DEF LocksHeld
        <4> QED  BY <3>1, <4>1 DEF Hands, HandsOf, Gone
      <3> QED  BY <3>2, <3>3 DEF Avoids
    <2> HIDE DEF done, retried, refused
    <2>7. ASSUME NEW v \in Workers \ {w} PROVE HandsOf(v)'
      <3>1. SameHands(v)
        BY <1>0, <2>2, <2>7 DEF SameHands
      <3>2. \A t \in Tasks : RowKept(t) \/ Avoids(v, t)
        BY <1>0, <2>4, <2>6, <2>7 DEF RowKept
      <3> QED  BY <2>7, <3>1, <3>2, HandsFrame DEF Hands
    <2>8. HandsOf(w)'
      <3>1. \A t \in todo[w] \cup sheaf[w] \cup botched[w] : row'[t] = row[t]
        <4>1. todo[w] \cup sheaf[w] \cup botched[w] \subseteq Tasks
          BY DEF AllTypes, PassTypes
        <4> QED  BY <2>4, <2>6, <4>1
      <3>2. pc'[w] # "applying" /\ UNCHANGED <<todo, sheaf, botched>>
        BY <1>0, <2>2
      <3> QED  BY <1>0, <3>1, <3>2 DEF HandsOf, Gone
    <2> QED  BY <2>5, <2>7, <2>8 DEF Hands
  <1>3. LosePass(w, "idle") => UNCHANGED row
    <2>1. ASSUME LosePass(w, "idle"), ~UNCHANGED lifecycle PROVE FALSE
      <3>1. \E phase \in {"polling", "applied"} : pc' = [pc EXCEPT ![w] = phase]
        BY <2>1 DEF DeliverBatch
      <3>2. pc' = [pc EXCEPT ![w] = "idle"]
        BY <2>1 DEF LosePass
      <3> QED  BY <1>0, <3>1, <3>2
    <2> QED  BY <2>1 DEF lifecycle
  <1> QED  BY <1>1, <1>2, <1>3

(* What others than the workers do to rows.                                *)
LEMMA HandsOutside ==
  ASSUME AllTypes, Hands, NEW t \in Tasks,
         \/ Reap(t) /\ ~overrun'
         \/ BackoffPasses(t)
         \/ Delete(t)
  PROVE  Hands'
  <1>0. row \in [Tasks -> Rows] /\ row[t] \in Rows
    BY DEF AllTypes, WorldTypes
  <1>1. batchId' = batchId /\ UNCHANGED passVars
    BY DEF Reap, BackoffPasses, Delete
  <1>2. \A v \in Workers : SameHands(v)
    BY <1>1 DEF passVars, SameHands
  <1>3. CASE Reap(t) /\ ~overrun'
    <2>1. \A v \in Workers : t \notin held[v]
      BY <1>3 DEF Reap, AllTypes, WorldTypes
    <2>2. row[t].status \in Reapable /\ row[t].status \notin {"gone", "batched"}
      BY <1>3 DEF Reap, Reapable
    <2>3. \A v \in Workers : Avoids(v, t)
      BY <2>1, <2>2, FreeOf DEF Hands
    <2>4. Failed(row[t], TRUE, FALSE).status = "failed" /\ Written(t, Failed(row[t], TRUE, FALSE))
      BY <1>0, <1>3, FailedFields DEF Reap
    <2>5. row'[t].status = "failed" /\ \A u \in Tasks \ {t} : row'[u] = row[u]
      BY <1>0, <2>4 DEF Written
    <2>6. RowsSound'
      BY <2>5 DEF Hands, RowsSound
    <2>7. \A u \in Tasks \ {t} : RowKept(u)
      BY <1>1, <2>5 DEF RowKept
    <2> QED  BY <1>2, <2>3, <2>6, <2>7, HandsFrame DEF Hands
  <1>4. CASE BackoffPasses(t)
    <2>1. row[t].backoff /\ row' = [row EXCEPT ![t] = [row[t] EXCEPT !.backoff = FALSE]]
      BY <1>4 DEF BackoffPasses, BackoffEnds
    <2>2. row'[t].status = row[t].status /\ ~row'[t].backoff
          /\ \A u \in Tasks \ {t} : row'[u] = row[u]
      BY <1>0, <2>1, WriteFields
    <2>3. row[t].status \in {"failed", "gone"}
      BY <2>1 DEF Hands, RowsSound
    <2>4. Gone(t)' \/ \A v \in Workers : Avoids(v, t)
      BY <2>2, <2>3, FreeOf DEF Hands, Gone, Reapable
    <2>5. RowsSound'
      BY <2>2 DEF Hands, RowsSound
    <2>6. \A u \in Tasks \ {t} : RowKept(u)
      BY <1>1, <2>2 DEF RowKept
    <2>7. \A v \in Workers : \A u \in Tasks : RowKept(u) \/ Gone(u)' \/ Avoids(v, u)
      BY <2>4, <2>6
    <2> QED  BY <1>2, <2>5, <2>7, HandsFrame DEF Hands
  <1>5. CASE Delete(t)
    <2>1. \A u \in Tasks : row'[u] = row[u] \/ row'[u] = [row[u] EXCEPT !.status = "gone"]
      BY <1>5 DEF Delete, Cascade
    <2>2. \A u \in Tasks : row'[u] = row[u] \/ row'[u].status = "gone"
      <3>1. ASSUME NEW u \in Tasks, row'[u] = [row[u] EXCEPT !.status = "gone"]
            PROVE  row'[u].status = "gone"
        <4>1. row[u] \in Rows
          BY <1>0
        <4> QED  BY <3>1, <4>1, WriteFields
      <3> QED  BY <2>1, <3>1
    <2>3. RowsSound' /\ \A u \in Tasks : RowKept(u) \/ Gone(u)'
      BY <1>1, <2>2 DEF Hands, RowsSound, RowKept, Gone
    <2> QED  BY <1>2, <2>3, HandsFrame DEF Hands
  <1> QED  BY <1>3, <1>4, <1>5

LEMMA HandsKept ==
  AllTypes /\ Hands /\ LocksHeld /\ [Next]_vars /\ ~overrun' => Hands'
  <1> SUFFICES ASSUME AllTypes, Hands, LocksHeld, [Next]_vars, ~overrun' PROVE Hands'
    OBVIOUS
  <1>1. CASE (\E b \in Batches : Provider(b) \/ Die(b)) \/ UNCHANGED vars
    <2>1. UNCHANGED <<row, batchId, passVars>>
      BY <1>1 DEF Provider, Answer, Die, lifecycle, vars
    <2>2. \A v \in Workers : SameHands(v)
      BY <2>1 DEF passVars, SameHands
    <2> QED  BY <2>1, <2>2, QuietHands
  <1>2. ASSUME NEW w \in Workers, PollStep(w) \/ PassRaises(w) \/ Crash(w) \/ Return(w)
        PROVE  Hands'
    BY <1>2, HandsQuietSteps, HandsMoves, HandsDeliver DEF PollStep
  <1>3. ASSUME NEW w \in Workers, GatherStep(w) PROVE Hands'
    BY <1>3, HandsQuietSteps, HandsClaim, HandsPrepare, HandsFailure, HandsPark DEF GatherStep
  <1>4. ASSUME NEW w \in Workers, \/ \E t \in Tasks : PrepareRaises(w, t)
                                  \/ \E b \in Batches, taken \in BOOLEAN : SubmitRaises(w, b, taken)
        PROVE  Hands'
    BY <1>4, HandsMoves
  <1>5. ASSUME NEW t \in Tasks, Reap(t) \/ BackoffPasses(t) \/ Delete(t) PROVE Hands'
    BY <1>5, HandsOutside
  <1> QED  BY <1>1, <1>2, <1>3, <1>4, <1>5 DEF Next

-----------------------------------------------------------------------------
(* Every step is one of the lifecycle's.                                   *)

LEMMA NothingEnqueued == ASSUME row \in [Tasks -> Rows], NEW t \in Tasks
                         PROVE  EnqueuedRows([row EXCEPT ![t] = Completed(row[t])], {})
                                  = [row EXCEPT ![t] = Completed(row[t])]
  BY DEF EnqueuedRows

LEMMA FailsOne ==
  ASSUME row \in [Tasks -> Rows], NEW t \in Tasks, NEW retryable \in BOOLEAN,
         NEW delayed \in BOOLEAN, row[t].status \in Reapable,
         Written(t, Failed(row[t], retryable, delayed)), UNCHANGED effects
  PROVE  LifecycleNext
  <1>1. row' = [u \in Tasks |-> IF u \in {t} THEN Failed(row[u], retryable, delayed) ELSE row[u]]
    BY DEF Written
  <1>2. Fail({t}, retryable, delayed)
    BY <1>1 DEF Fail
  <1> QED  BY <1>2 DEF LifecycleNext

LEMMA PreparesOne ==
  ASSUME AllTypes, Hands, NEW w \in Workers, NEW t \in Tasks, Prepare(w, t)
  PROVE  LifecycleNext \/ UNCHANGED lifecycle
  <1>0. row \in [Tasks -> Rows] /\ effects \in [Tasks -> Nat] /\ t \in todo[w]
    BY DEF AllTypes, WorldTypes, Prepare
  <1>1. Gone(t) \/ row[t].status = "claimed"
    BY <1>0 DEF Hands, HandsOf
  <1>2. CASE Written(t, Failed(row[t], TRUE, TRUE)) /\ UNCHANGED effects /\ ~Gone(t)
    BY <1>0, <1>1, <1>2, FailsOne DEF Reapable
  <1>3. CASE Finished(w, t) /\ ~Gone(t)
    <2>1. Complete(t, {})
      BY <1>0, <1>1, <1>3, NothingEnqueued DEF Finished, Complete, Written, Reapable
    <2> QED  BY <2>1 DEF LifecycleNext
  <1>4. CASE Requested(w, t) /\ ~Gone(t)
    <2>1. Start(t)
      BY <1>0, <1>1, <1>4 DEF Requested, Start, Written
    <2> QED  BY <2>1 DEF LifecycleNext
  <1> QED  BY <1>2, <1>3, <1>4 DEF Prepare

LEMMA DeliversTogether ==
  ASSUME AllTypes, Hands, NEW w \in Workers, DeliverBatch(w)
  PROVE  LifecycleNext \/ UNCHANGED lifecycle
  <1> DEFINE done == Answered(w, "text")
             retried == Answered(w, "transient")
             refused == Answered(w, "refused") \cup retried
             again == [t \in refused |-> t \in retried]
  <1>1. CASE LosePass(w, "idle") /\ UNCHANGED lifecycle
    BY <1>1
  <1>2. ASSUME ~(LosePass(w, "idle") /\ UNCHANGED lifecycle) PROVE LifecycleNext
    <2>0. ~LosePass(w, "idle")
      <3>1. \E phase \in {"polling", "applied"} : pc' = [pc EXCEPT ![w] = phase]
        BY <1>2 DEF DeliverBatch
      <3>2. LosePass(w, "idle") => pc' = [pc EXCEPT ![w] = "idle"]
        BY DEF LosePass
      <3> QED  BY <3>1, <3>2 DEF AllTypes, PassTypes
    <2>1. /\ \A t \in done \cup refused :
               /\ t \in Tasks /\ ~Gone(t) /\ row[t] = copy[w][t] /\ row[t] \in Rows
               /\ row[t].status = "batched" /\ batchId[t] = turn[w]
          /\ row' = [t \in Tasks |-> IF t \in done THEN Completed(row[t])
                       ELSE IF t \in refused THEN Failed(row[t], t \in retried, TRUE)
                       ELSE row[t]]
          /\ effects' = [t \in Tasks |-> IF t \in done THEN effects[t] + 1 ELSE effects[t]]
      BY <2>0, DeliveryOnRows DEF Hands
    <2>2. done \cup refused \subseteq Parked
      BY <2>1 DEF Parked
    <2>3. again \in [refused -> BOOLEAN]
      OBVIOUS
    <2>4. \A t \in refused : again[t] = (t \in retried)
      OBVIOUS
    <2> HIDE DEF again, done, refused, retried
    <2>5. row' = [t \in Tasks |-> IF t \in done THEN Completed(row[t])
                    ELSE IF t \in refused THEN Failed(row[t], again[t], TRUE)
                    ELSE row[t]]
      BY <2>1, <2>4, Zenon
    <2>6. Deliver(done, refused, again, TRUE)
      BY <2>1, <2>2, <2>5 DEF Deliver
    <2>7. done \in SUBSET Parked /\ refused \in SUBSET Parked /\ TRUE \in BOOLEAN
      BY <2>2
    <2> QED  BY <2>3, <2>6, <2>7 DEF LifecycleNext
  <1> QED  BY <1>1, <1>2

LEMMA StepsAreLegal ==
  AllTypes /\ Hands /\ [Next]_vars => [overrun' \/ LifecycleNext]_lifecycle
  <1> SUFFICES ASSUME AllTypes, Hands, Next, ~overrun'
               PROVE  LifecycleNext \/ UNCHANGED lifecycle
    BY DEF vars
  <1>0. row \in [Tasks -> Rows] /\ effects \in [Tasks -> Nat]
    BY DEF AllTypes, WorldTypes
  <1>1. CASE \/ \E b \in Batches : Provider(b) \/ Die(b)
             \/ \E w \in Workers :
                  \/ PollStart(w) \/ GatherDone(w) \/ PrepareDone(w) \/ PassRaises(w)
                  \/ Crash(w) \/ Return(w)
                  \/ \E b \in Batches : PollSkip(w, b) \/ PollLoad(w, b) \/ Submit(w, b)
                  \/ \E b \in Batches, taken \in BOOLEAN : SubmitRaises(w, b, taken)
                  \/ \E u \in Tasks : PrepareRaises(w, u) \/ Walk(w, u)
    BY <1>1 DEF PollStart, GatherDone, PrepareDone, PassRaises, Crash, Return, PollSkip,
                PollLoad, Submit, SubmitRaises, PrepareRaises, Walk, Provider, Answer, Die
  <1>2. ASSUME NEW w \in Workers, NEW t \in Tasks, GatherClaim(w, t) PROVE LifecycleNext
    <2>1. Claim(t, w)
      BY <1>2 DEF GatherClaim, Offered, Written, Claim
    <2> QED  BY <2>1 DEF LifecycleNext
  <1>3. ASSUME NEW w \in Workers, NEW t \in Tasks, NEW retryable \in BOOLEAN,
               RecordFailure(w, t, retryable)
        PROVE  LifecycleNext \/ UNCHANGED lifecycle
    <2>1. Gone(t) \/ row[t].status \in Reapable
      BY <1>3 DEF RecordFailure, Hands, HandsOf
    <2>2. CASE Gone(t)
      BY <1>3, <2>2 DEF RecordFailure, lifecycle
    <2>3. CASE ~Gone(t)
      BY <1>0, <1>3, <2>1, <2>3, FailsOne DEF RecordFailure
    <2> QED  BY <2>2, <2>3
  <1>4. ASSUME NEW w \in Workers, MarkBatched(w) PROVE LifecycleNext \/ UNCHANGED lifecycle
    <2> DEFINE found == {t \in sheaf[w] : ~Gone(t)}
    <2>1. CASE UNCHANGED lifecycle
      BY <2>1
    <2>2. CASE ~UNCHANGED lifecycle
      <3>1. /\ \A t \in found : row[t].status \in Reapable
            /\ row' = [t \in Tasks |-> IF t \in found
                         THEN [row[t] EXCEPT !.status = "batched"] ELSE row[t]]
            /\ UNCHANGED effects
        BY <1>4, <2>2 DEF MarkBatched, Markable, lifecycle
      <3>2. found \in SUBSET Tasks
        BY DEF AllTypes, PassTypes
      <3> HIDE DEF found
      <3>3. Park(found)
        BY <3>1 DEF Park
      <3> QED  BY <3>2, <3>3 DEF LifecycleNext
    <2> QED  BY <2>1, <2>2
  <1>5. ASSUME NEW t \in Tasks, Reap(t) PROVE LifecycleNext
    BY <1>0, <1>5, FailsOne DEF Reap
  <1>6. ASSUME NEW t \in Tasks, BackoffPasses(t) PROVE LifecycleNext
    BY <1>6 DEF BackoffPasses, LifecycleNext
  <1>7. ASSUME NEW t \in Tasks, Delete(t) PROVE LifecycleNext
    <2> DEFINE S == {u \in Tasks : Within(Scope[u], Scope[t]) /\ ~Gone(u)}
    <2>1. Cascade(S) /\ S \in SUBSET Tasks
      BY <1>7 DEF Delete
    <2> HIDE DEF S
    <2> QED  BY <2>1 DEF LifecycleNext
  <1> QED
    BY <1>1, <1>2, <1>3, <1>4, <1>5, <1>6, <1>7, PreparesOne, DeliversTogether
       DEF Next, PollStep, GatherStep

LEMMA HandsInit == Init => Hands /\ LocksHeld /\ LifecycleInit
  <1> SUFFICES ASSUME Init PROVE Hands /\ LocksHeld /\ LifecycleInit
    OBVIOUS
  <1>1. \A t \in Tasks : row[t].status = "pending" /\ ~row[t].backoff
    BY PendingType DEF Init
  <1>2. RowsSound /\ LocksHeld
    BY <1>1 DEF Init, RowsSound, LocksHeld
  <1>3. \A w \in Workers : HandsOf(w)
    BY DEF Init, HandsOf
  <1>4. LifecycleInit
    BY DEF Init, LifecycleInit
  <1> QED  BY <1>2, <1>3, <1>4 DEF Hands

(* An overrun is not forgotten.                                            *)
LEMMA OverrunStays == AllTypes /\ overrun /\ [Next]_vars => overrun'
  <1> SUFFICES ASSUME overrun, [Next]_vars PROVE overrun'
    OBVIOUS
  <1>1. CASE \E t \in Tasks : Reap(t)
    BY <1>1 DEF Reap
  <1>2. ASSUME NEW w \in Workers, PollStep(w) \/ PassRaises(w) \/ Crash(w) \/ Return(w)
        PROVE  overrun' = overrun
    BY <1>2 DEF PollStep, PollStart, DeliverBatch, PollSkip, PollLoad, Walk,
                PassRaises, Crash, Return
  <1>3. ASSUME NEW w \in Workers, GatherStep(w) PROVE overrun' = overrun
    BY <1>3 DEF GatherStep, GatherDone, PrepareDone, MarkBatched, GatherClaim, Prepare,
                RecordFailure, Submit
  <1>4. ASSUME NEW w \in Workers, \/ \E t \in Tasks : PrepareRaises(w, t)
                                  \/ \E b \in Batches, taken \in BOOLEAN : SubmitRaises(w, b, taken)
        PROVE  overrun' = overrun
    BY <1>4 DEF PrepareRaises, SubmitRaises
  <1>5. ASSUME \/ \E t \in Tasks : BackoffPasses(t) \/ Delete(t)
               \/ \E b \in Batches : Provider(b) \/ Die(b)
               \/ UNCHANGED vars
        PROVE  overrun' = overrun
    BY <1>5 DEF BackoffPasses, Delete, Provider, Answer, Die, vars
  <1> QED  BY <1>1, <1>2, <1>3, <1>4, <1>5 DEF Next

InHands == AllTypes /\ LocksHeld /\ (overrun \/ Hands)

LEMMA InHandsKept == InHands /\ [Next]_vars => InHands'
  BY TypesKept, LocksKept, HandsKept, OverrunStays DEF InHands

(* As long as leases lapse on the dead only, each step of the batch path   *)
(* is one legal step of the rows as they are: nothing is written back from *)
(* a copy that has become stale (poll_batch, gather_and_submit).           *)
THEOREM BatchImplementsLifecycle == Spec => BatchLifecycle
  <1>1. InHands /\ [Next]_vars => [overrun' \/ LifecycleNext]_lifecycle
    <2>1. CASE overrun
      BY <2>1, OverrunStays DEF InHands
    <2>2. CASE ~overrun
      BY <2>2, StepsAreLegal DEF InHands
    <2> QED  BY <2>1, <2>2
  <1>2. Init => InHands /\ LifecycleInit
    BY TypesInit, HandsInit DEF InHands
  <1> QED  BY <1>1, <1>2, InHandsKept, PTL DEF Spec, BatchLifecycle

(* A summary is stored once, in the step that completes its row, however   *)
(* batches are adopted, refused and retried (with_batch_lock).             *)
THEOREM StoredAtMostOnce == Spec => []StoredOnce
  <1> DEFINE L == overrun \/ LInv
  <1>1. Init => InHands /\ L
    BY TypesInit, HandsInit, LInvInit DEF InHands
  <1>2. InHands /\ L /\ [Next]_vars => L'
    <2> SUFFICES ASSUME InHands, L, [Next]_vars, ~overrun' PROVE LInv'
      OBVIOUS
    <2>1. ~overrun /\ LInv
      BY OverrunStays DEF InHands
    <2>2. [LifecycleNext]_lifecycle
      BY <2>1, StepsAreLegal DEF InHands
    <2> QED  BY <2>1, <2>2, LInvStep
  <1>3. L => StoredOnce
    BY DEF LInv, StoredOnce
  <1> QED  BY <1>1, <1>2, <1>3, InHandsKept, PTL DEF Spec

-----------------------------------------------------------------------------
(* Passes that nothing disturbs.                                           *)

(* The provider is working on no request but those of the rows parked in   *)
(* the batch, and of the worker that is about to park them; and who is     *)
(* done with a pass owes no walk.                                          *)
Undisturbed ==
  /\ ~overrun /\ \A t \in Tasks : ~Gone(t)
  /\ \A w \in Workers : pc[w] = "applying" => batch[turn[w]].state \in {"ended", "dead"}
  /\ \A b \in Batches : batch[b].state = "working" =>
       \A t \in batch[b].requests :
         \/ row[t].status = "batched" /\ batchId[t] = b
         \/ \E w \in Workers : pc[w] = "parking" /\ turn[w] = b /\ t \in sheaf[w]
  /\ \A w \in Workers : pc[w] \in {"down", "idle", "polling", "applying"} => debts[w] = {}
  /\ \A t \in unwalked : \E w \in Workers : t \in debts[w]

QuietStep ==
  \/ \E w \in Workers : PollStep(w) \/ GatherStep(w) \/ Return(w)
  \/ \E t \in Tasks : (Reap(t) /\ overrun' = overrun) \/ BackoffPasses(t)
  \/ \E b \in Batches : Provider(b)

LEMMA FaultsCount ==
  ASSUME AllTypes, Next, faults' = 0
  PROVE  faults = 0 /\ QuietStep
  <1>0. faults \in Nat
    BY BatchAssumption DEF AllTypes, WorldTypes
  <1>1. \A w \in Workers : ~PassRaises(w) /\ ~Crash(w)
    BY <1>0 DEF PassRaises, Crash
  <1>2. \A w \in Workers, t \in Tasks : ~PrepareRaises(w, t)
    BY <1>0 DEF PrepareRaises
  <1>3. \A w \in Workers, b \in Batches, taken \in BOOLEAN : ~SubmitRaises(w, b, taken)
    BY <1>0 DEF SubmitRaises
  <1>4. \A t \in Tasks : ~Delete(t)
    BY <1>0 DEF Delete
  <1>5. \A b \in Batches : ~Die(b)
    BY <1>0 DEF Die
  <1>6. \A t \in Tasks : Reap(t) => faults = 0 /\ overrun' = overrun
    BY <1>0 DEF Reap, AllTypes, WorldTypes
  <1>7. ASSUME NEW w \in Workers, PollStep(w) \/ GatherStep(w) \/ Return(w)
        PROVE  faults' = faults
    BY <1>7 DEF PollStep, PollStart, DeliverBatch, PollSkip, PollLoad, Walk, GatherStep,
                GatherDone, PrepareDone, MarkBatched, GatherClaim, Prepare, RecordFailure,
                Submit, Return
  <1>8. ASSUME \/ \E t \in Tasks : BackoffPasses(t)
               \/ \E b \in Batches : Provider(b)
        PROVE  faults' = faults
    BY <1>8 DEF BackoffPasses, Provider, Answer
  <1> QED  BY <1>1, <1>2, <1>3, <1>4, <1>5, <1>6, <1>7, <1>8 DEF Next, QuietStep

(* Without a fault no pass is lost.                                        *)
LEMMA NoPassIsLost ==
  ASSUME AllTypes, Hands, Undisturbed, NEW w \in Workers
  PROVE  /\ DeliverBatch(w) =>
              \E done, refused \in SUBSET Tasks, phase \in {"polling", "applied"} :
                /\ unwalked' = unwalked \cup done
                /\ debts' = [debts EXCEPT ![w] = done \cup refused]
                /\ pc' = [pc EXCEPT ![w] = phase]
                /\ phase = "polling" => done \cup refused = {}
                /\ UNCHANGED <<sheaf, batch, overrun>>
                /\ turn' = [turn EXCEPT ![w] = NoOne]
         /\ \A t \in Tasks : Walk(w, t) =>
              /\ debts' = [debts EXCEPT ![w] = @ \ {t}]
              /\ unwalked' = unwalked \ {t}
              /\ pc[w] \in {"applied", "submitted"}
              /\ pc' = [pc EXCEPT ![w] = IF debts[w] # {t} THEN @
                                         ELSE IF @ = "applied" THEN "polling" ELSE "idle"]
              /\ UNCHANGED <<lifecycle, batchId, batch, overrun, sheaf, turn>>
         /\ \A t \in Tasks : Prepare(w, t) =>
              /\ pc[w] = "preparing" /\ row[t].status = "claimed"
              /\ UNCHANGED <<pc, turn, batch, batchId, overrun>>
              /\ \E r \in Rows : Written(t, r) /\ r.status \notin {"gone", "batched"}
              /\ sheaf' = sheaf \/ sheaf' = [sheaf EXCEPT ![w] = @ \cup {t}]
              /\ \/ UNCHANGED <<debts, unwalked>>
                 \/ /\ unwalked' = unwalked \cup {t}
                    /\ debts' = [debts EXCEPT ![w] = @ \cup {t}]
         /\ MarkBatched(w) =>
              /\ pc[w] = "parking"
              /\ row' = [t \in Tasks |-> IF t \in sheaf[w]
                           THEN [row[t] EXCEPT !.status = "batched"] ELSE row[t]]
              /\ batchId' = [t \in Tasks |-> IF t \in sheaf[w] THEN turn[w] ELSE batchId[t]]
              /\ pc' = [pc EXCEPT ![w] = IF debts[w] = {} THEN "idle" ELSE "submitted"]
              /\ turn' = [turn EXCEPT ![w] = NoOne]
              /\ sheaf' = [sheaf EXCEPT ![w] = {}]
              /\ UNCHANGED <<debts, unwalked, batch, overrun>>
  <1>0. /\ \A t \in Tasks : ~Gone(t)
        /\ todo[w] \cup sheaf[w] \subseteq Tasks /\ DOMAIN copy[w] \subseteq Tasks
        /\ row \in [Tasks -> Rows] /\ HandsOf(w)
    BY DEF AllTypes, PassTypes, PassFits, WorldTypes, Undisturbed, Hands
  <1>1. ASSUME DeliverBatch(w)
        PROVE  \E done, refused \in SUBSET Tasks, phase \in {"polling", "applied"} :
                /\ unwalked' = unwalked \cup done
                /\ debts' = [debts EXCEPT ![w] = done \cup refused]
                /\ pc' = [pc EXCEPT ![w] = phase]
                /\ phase = "polling" => done \cup refused = {}
                /\ UNCHANGED <<sheaf, batch, overrun>>
                /\ turn' = [turn EXCEPT ![w] = NoOne]
    <2> DEFINE done == Answered(w, "text")
               refused == Answered(w, "refused") \cup Answered(w, "transient")
               phase == IF done \cup refused = {} THEN "polling" ELSE "applied"
    <2>1. done \in SUBSET Tasks /\ refused \in SUBSET Tasks
      BY <1>0, AnsweredIsLoaded
    <2>2. /\ unwalked' = unwalked \cup done
          /\ debts' = [debts EXCEPT ![w] = done \cup refused]
          /\ pc' = [pc EXCEPT ![w] = phase]
          /\ UNCHANGED <<sheaf, batch, overrun>>
          /\ turn' = [turn EXCEPT ![w] = NoOne]
      BY <1>0, <1>1, <2>1 DEF DeliverBatch
    <2> HIDE DEF done, refused
    <2> QED  BY <2>1, <2>2
  <1>2. ASSUME NEW t \in Tasks, Walk(w, t)
        PROVE  /\ debts' = [debts EXCEPT ![w] = @ \ {t}]
               /\ unwalked' = unwalked \ {t}
               /\ pc[w] \in {"applied", "submitted"}
               /\ pc' = [pc EXCEPT ![w] = IF debts[w] # {t} THEN @
                                          ELSE IF @ = "applied" THEN "polling" ELSE "idle"]
               /\ UNCHANGED <<lifecycle, batchId, batch, overrun, sheaf, turn>>
    BY <1>0, <1>2 DEF Walk
  <1>3. ASSUME NEW t \in Tasks, Prepare(w, t)
        PROVE  /\ pc[w] = "preparing" /\ row[t].status = "claimed"
               /\ UNCHANGED <<pc, turn, batch, batchId, overrun>>
               /\ \E r \in Rows : Written(t, r) /\ r.status \notin {"gone", "batched"}
               /\ sheaf' = sheaf \/ sheaf' = [sheaf EXCEPT ![w] = @ \cup {t}]
               /\ \/ UNCHANGED <<debts, unwalked>>
                  \/ /\ unwalked' = unwalked \cup {t}
                     /\ debts' = [debts EXCEPT ![w] = @ \cup {t}]
    <2>1. row[t] \in Rows /\ ~Gone(t) /\ row[t].status = "claimed"
      BY <1>0, <1>3 DEF Prepare, HandsOf
    <2>2. /\ pc[w] = "preparing" /\ UNCHANGED <<pc, turn, batch, batchId, overrun>>
          /\ \/ Written(t, Failed(row[t], TRUE, TRUE)) /\ UNCHANGED <<sheaf, debts, unwalked>>
             \/ Requested(w, t)
             \/ Finished(w, t)
      BY <1>3, <2>1 DEF Prepare
    <2>3. /\ Failed(row[t], TRUE, TRUE) \in Rows /\ Failed(row[t], TRUE, TRUE).status = "failed"
          /\ Completed(row[t]) \in Rows /\ Completed(row[t]).status = "completed"
          /\ [row[t] EXCEPT !.status = "running"] \in Rows
          /\ [row[t] EXCEPT !.status = "running"].status = "running"
      BY <2>1, FailedFields, WriteFields, WriteTypes
    <2> QED  BY <2>1, <2>2, <2>3 DEF Requested, Finished
  <1>4. ASSUME MarkBatched(w)
        PROVE  /\ pc[w] = "parking"
               /\ row' = [t \in Tasks |-> IF t \in sheaf[w]
                            THEN [row[t] EXCEPT !.status = "batched"] ELSE row[t]]
               /\ batchId' = [t \in Tasks |-> IF t \in sheaf[w] THEN turn[w] ELSE batchId[t]]
               /\ pc' = [pc EXCEPT ![w] = IF debts[w] = {} THEN "idle" ELSE "submitted"]
               /\ turn' = [turn EXCEPT ![w] = NoOne]
               /\ sheaf' = [sheaf EXCEPT ![w] = {}]
               /\ UNCHANGED <<debts, unwalked, batch, overrun>>
    <2>1. {t \in sheaf[w] : ~Gone(t)} = sheaf[w] /\ \A t \in sheaf[w] : Markable(t)
      BY <1>0 DEF HandsOf, Markable, Reapable
    <2> QED  BY <1>4, <2>1 DEF MarkBatched, Submitted, ParkedUnder
  <1> QED  BY <1>1, <1>2, <1>3, <1>4

(* What becomes of rows: none goes, and a parked one stays where it is     *)
(* until its batch is delivered.                                           *)
LEMMA RowsUndisturbed ==
  ASSUME AllTypes, Hands, Undisturbed, QuietStep, NEW t \in Tasks
  PROVE  /\ ~Gone(t)'
         /\ row[t].status = "batched" =>
              \/ row'[t].status = "batched" /\ batchId'[t] = batchId[t]
              \/ \E w \in Workers : pc[w] = "applying" /\ turn[w] = batchId[t]
  <1> DEFINE Safe == /\ ~Gone(t)'
                     /\ row[t].status = "batched" =>
                          \/ row'[t].status = "batched" /\ batchId'[t] = batchId[t]
                          \/ \E w \in Workers : pc[w] = "applying" /\ turn[w] = batchId[t]
  <1>0. row \in [Tasks -> Rows] /\ \A u \in Tasks : row[u] \in Rows /\ ~Gone(u)
    BY DEF AllTypes, WorldTypes, Undisturbed
  <1>1. CASE UNCHANGED <<row, batchId>>
    BY <1>0, <1>1 DEF Gone
  <1>2. ASSUME NEW u \in Tasks, NEW r, Written(u, r), batchId' = batchId,
               row[u].status # "batched", r.status # "gone"
        PROVE  Safe
    BY <1>0, <1>2 DEF Written, Gone
  <1>3. ASSUME \/ \E w \in Workers :
                    \/ PollStart(w) \/ GatherDone(w) \/ PrepareDone(w) \/ Return(w)
                    \/ \E b \in Batches : PollSkip(w, b) \/ PollLoad(w, b) \/ Submit(w, b)
               \/ \E b \in Batches : Provider(b)
        PROVE  Safe
    BY <1>1, <1>3 DEF PollStart, GatherDone, PrepareDone, Return, PollSkip, PollLoad, Submit,
                      Provider, Answer, lifecycle
  <1>4. ASSUME NEW w \in Workers, NEW u \in Tasks, GatherClaim(w, u) PROVE Safe
    <2>1. row[u].status # "batched"
      BY <1>4 DEF GatherClaim, Offered, Claimable, Due, HasRetryLeft
    <2> QED  BY <1>0, <1>2, <1>4, <2>1, WriteFields DEF GatherClaim
  <1>5. ASSUME NEW w \in Workers, NEW u \in Tasks, Prepare(w, u) PROVE Safe
    <2>1. row[u].status = "claimed" /\ batchId' = batchId
          /\ \E r \in Rows : Written(u, r) /\ r.status \notin {"gone", "batched"}
      BY <1>5, NoPassIsLost
    <2> QED  BY <1>2, <2>1
  <1>6. ASSUME NEW w \in Workers, NEW u \in Tasks, NEW retryable \in BOOLEAN,
               RecordFailure(w, u, retryable)
        PROVE  Safe
    <2>1. row[u].status # "batched"
      BY <1>0, <1>6 DEF RecordFailure, Hands, HandsOf, Reapable
    <2>2. Failed(row[u], retryable, TRUE).status = "failed"
      BY <1>0, FailedFields
    <2> QED  BY <1>0, <1>2, <1>6, <2>1, <2>2 DEF RecordFailure
  <1>7. ASSUME NEW w \in Workers, MarkBatched(w) PROVE Safe
    <2>1. /\ row'[t] = IF t \in sheaf[w] THEN [row[t] EXCEPT !.status = "batched"] ELSE row[t]
          /\ batchId'[t] = IF t \in sheaf[w] THEN turn[w] ELSE batchId[t]
      BY <1>7, NoPassIsLost
    <2>2. t \in sheaf[w] => row[t].status = "running"
      BY <1>0 DEF Hands, HandsOf
    <2> QED  BY <1>0, <2>1, <2>2, WriteFields DEF Gone
  <1>8. ASSUME NEW w \in Workers, DeliverBatch(w) PROVE Safe
    <2> DEFINE done == Answered(w, "text")
               retried == Answered(w, "transient")
               refused == Answered(w, "refused") \cup retried
    <2>0. pc[w] = "applying" /\ batchId' = batchId /\ ~LosePass(w, "idle")
      <3>1. \E phase \in {"polling", "applied"} : pc' = [pc EXCEPT ![w] = phase]
        BY <1>8, NoPassIsLost
      <3> QED  BY <1>8, <3>1 DEF DeliverBatch, LosePass, AllTypes, PassTypes
    <2>1. /\ \A u \in done \cup refused : batchId[u] = turn[w]
          /\ row' = [u \in Tasks |-> IF u \in done THEN Completed(row[u])
                       ELSE IF u \in refused THEN Failed(row[u], u \in retried, TRUE)
                       ELSE row[u]]
      BY <1>8, <2>0, DeliveryOnRows DEF Hands
    <2>2. Completed(row[t]).status # "gone" /\ Failed(row[t], t \in retried, TRUE).status # "gone"
      <3>1. \A retryable \in BOOLEAN : Failed(row[t], retryable, TRUE).status = "failed"
        BY <1>0, FailedFields
      <3>2. (t \in retried) \in BOOLEAN
        OBVIOUS
      <3>3. Failed(row[t], t \in retried, TRUE).status = "failed"
        BY <3>1, <3>2, Zenon
      <3>4. Completed(row[t]).status = "completed"
        BY <1>0, WriteFields
      <3> QED  BY <3>3, <3>4
    <2> HIDE DEF done, retried, refused
    <2>3. CASE t \in done \cup refused
      BY <2>0, <2>1, <2>2, <2>3 DEF Gone
    <2>4. CASE t \notin done \cup refused
      BY <1>0, <2>0, <2>1, <2>4 DEF Gone
    <2> QED  BY <2>3, <2>4
  <1>9. ASSUME NEW u \in Tasks, Reap(u) PROVE Safe
    <2>1. row[u].status # "batched" /\ Failed(row[u], TRUE, FALSE).status = "failed"
      BY <1>0, <1>9, FailedFields DEF Reap, Reapable
    <2> QED  BY <1>2, <1>9, <2>1 DEF Reap
  <1>10. ASSUME NEW u \in Tasks, BackoffPasses(u) PROVE Safe
    <2>1. /\ row' = [row EXCEPT ![u] = [row[u] EXCEPT !.backoff = FALSE]]
          /\ row[u].status # "batched" /\ batchId' = batchId
      BY <1>10 DEF BackoffPasses, BackoffEnds, Hands, RowsSound
    <2>2. [row[u] EXCEPT !.backoff = FALSE].status # "gone"
      BY <1>0, WriteFields DEF Gone
    <2> QED  BY <1>2, <2>1, <2>2 DEF Written
  <1>11. ASSUME NEW w \in Workers, NEW u \in Tasks, Walk(w, u) PROVE Safe
    BY <1>1, <1>11, NoPassIsLost DEF lifecycle
  <1> QED
    BY <1>3, <1>4, <1>5, <1>6, <1>7, <1>8, <1>9, <1>10, <1>11
       DEF QuietStep, PollStep, GatherStep

(* Whose batch it is: a submission that nothing disturbs is parked.        *)
LEMMA ParkingUndisturbed ==
  ASSUME AllTypes, Hands, Undisturbed, QuietStep, NEW w \in Workers, NEW t \in Tasks,
         pc[w] = "parking", t \in sheaf[w]
  PROVE  \/ pc'[w] = "parking" /\ turn'[w] = turn[w] /\ t \in sheaf'[w]
         \/ row'[t].status = "batched" /\ batchId'[t] = turn[w]
  <1>0. pc \in [Workers -> Phases] /\ turn \in [Workers -> Batches \cup {NoOne}]
        /\ sheaf \in [Workers -> SUBSET Tasks] /\ row[t] \in Rows /\ botched[w] = {}
    BY DEF AllTypes, PassTypes, PassFits, WorldTypes
  <1>1. CASE MarkBatched(w)
    <2>1. row'[t] = [row[t] EXCEPT !.status = "batched"] /\ batchId'[t] = turn[w]
      BY <1>1, NoPassIsLost
    <2> QED  BY <1>0, <2>1, WriteFields
  <1> DEFINE Same(v) == pc'[v] = pc[v] /\ turn'[v] = turn[v] /\ sheaf'[v] = sheaf[v]
  <1>2. ASSUME NEW v \in Workers, PollStep(v) \/ Return(v) PROVE Same(w)
    <2>1. CASE PollStart(v) \/ Return(v) \/ \E b \in Batches : PollSkip(v, b) \/ PollLoad(v, b)
      BY <1>0, <2>1 DEF PollStart, Return, PollSkip, PollLoad
    <2>2. CASE DeliverBatch(v)
      <3>1. pc[v] = "applying"
        BY <2>2 DEF DeliverBatch
      <3>2. /\ \E phase \in {"polling", "applied"} : pc' = [pc EXCEPT ![v] = phase]
            /\ turn' = [turn EXCEPT ![v] = NoOne] /\ sheaf' = sheaf
        BY <2>2, NoPassIsLost
      <3> QED  BY <1>0, <3>1, <3>2
    <2>3. ASSUME NEW u \in Tasks, Walk(v, u) PROVE Same(w)
      <3>1. /\ pc[v] \in {"applied", "submitted"} /\ UNCHANGED <<sheaf, turn>>
            /\ \E phase \in Phases : pc' = [pc EXCEPT ![v] = phase]
        BY <1>0, <2>3, NoPassIsLost DEF Phases
      <3> QED  BY <1>0, <3>1
    <2> QED  BY <1>2, <2>1, <2>2, <2>3 DEF PollStep
  <1>3. ASSUME NEW v \in Workers, GatherStep(v), ~MarkBatched(w) PROVE Same(w)
    <2>1. CASE GatherDone(v) \/ (\E u \in Tasks : GatherClaim(v, u))
               \/ (\E u \in Tasks, retryable \in BOOLEAN : RecordFailure(v, u, retryable))
               \/ \E b \in Batches : Submit(v, b)
      BY <1>0, <2>1 DEF GatherDone, Gathering, GatherClaim, RecordFailure, Submit
    <2>2. CASE PrepareDone(v)
      BY <1>0, <2>2 DEF PrepareDone, Submitted
    <2>3. ASSUME NEW u \in Tasks, Prepare(v, u) PROVE Same(w)
      <3>1. /\ pc[v] = "preparing" /\ UNCHANGED <<pc, turn>>
            /\ sheaf' = sheaf \/ sheaf' = [sheaf EXCEPT ![v] = @ \cup {u}]
        BY <2>3, NoPassIsLost
      <3> QED  BY <1>0, <3>1
    <2>4. CASE MarkBatched(v)
      <3>1. /\ pc' = [pc EXCEPT ![v] = IF debts[v] = {} THEN "idle" ELSE "submitted"]
            /\ turn' = [turn EXCEPT ![v] = NoOne] /\ sheaf' = [sheaf EXCEPT ![v] = {}]
        BY <2>4, NoPassIsLost
      <3> QED  BY <1>0, <1>3, <2>4, <3>1
    <2> QED  BY <1>3, <2>1, <2>2, <2>3, <2>4 DEF GatherStep
  <1>4. ASSUME \/ \E u \in Tasks : Reap(u) \/ BackoffPasses(u)
               \/ \E b \in Batches : Provider(b)
        PROVE  Same(w)
    BY <1>4 DEF Reap, BackoffPasses, Provider, Answer, passVars
  <1> QED  BY <1>1, <1>2, <1>3, <1>4 DEF QuietStep

(* Which walks are owed, and by whom.                                      *)
LEMMA WalksUndisturbed ==
  ASSUME AllTypes, Hands, Undisturbed, QuietStep
  PROVE  /\ \A w \in Workers :
              pc'[w] \in {"down", "idle", "polling", "applying"} => debts'[w] = {}
         /\ \A t \in unwalked' : \E w \in Workers : t \in debts'[w]
  <1> DEFINE Resting == {"down", "idle", "polling", "applying"}
             Owed == /\ \A w \in Workers : pc'[w] \in Resting => debts'[w] = {}
                     /\ \A t \in unwalked' : \E w \in Workers : t \in debts'[w]
  <1>0. /\ pc \in [Workers -> Phases] /\ debts \in [Workers -> SUBSET Tasks]
        /\ \A w \in Workers : pc[w] \in Resting => debts[w] = {}
        /\ \A t \in unwalked : \E w \in Workers : t \in debts[w]
    BY DEF AllTypes, PassTypes, Undisturbed
  <1>1. ASSUME UNCHANGED <<debts, unwalked>>, NEW w \in Workers, NEW phase,
               pc' = [pc EXCEPT ![w] = phase], phase \in Resting => debts[w] = {}
        PROVE  Owed
    BY <1>0, <1>1
  <1>2. ASSUME UNCHANGED <<pc, debts, unwalked>> PROVE Owed
    BY <1>0, <1>2
  <1>3. ASSUME NEW w \in Workers, PollStep(w) \/ Return(w) PROVE Owed
    <2>1. CASE PollStart(w) \/ Return(w) \/ \E b \in Batches : PollLoad(w, b)
      BY <1>0, <1>1, <2>1 DEF PollStart, Return, PollLoad
    <2>2. CASE \E b \in Batches : PollSkip(w, b)
      BY <1>2, <2>2 DEF PollSkip
    <2>3. CASE DeliverBatch(w)
      <3>1. PICK done \in SUBSET Tasks, refused \in SUBSET Tasks, phase \in {"polling", "applied"} :
              /\ unwalked' = unwalked \cup done
              /\ debts' = [debts EXCEPT ![w] = done \cup refused]
              /\ pc' = [pc EXCEPT ![w] = phase]
              /\ phase = "polling" => done \cup refused = {}
        BY <2>3, NoPassIsLost
      <3>2. debts[w] = {}
        BY <1>0, <2>3 DEF DeliverBatch
      <3>3. \A v \in Workers : debts[v] \subseteq debts'[v] /\ done \subseteq debts'[w]
        BY <1>0, <3>1, <3>2
      <3>4. \A v \in Workers : pc'[v] \in Resting => debts'[v] = {}
        BY <1>0, <3>1
      <3> QED  BY <1>0, <3>1, <3>3, <3>4
    <2>4. ASSUME NEW t \in Tasks, Walk(w, t) PROVE Owed
      <3>1. /\ debts' = [debts EXCEPT ![w] = @ \ {t}]
            /\ unwalked' = unwalked \ {t}
            /\ pc[w] \in {"applied", "submitted"}
            /\ pc' = [pc EXCEPT ![w] = IF debts[w] # {t} THEN @
                                       ELSE IF @ = "applied" THEN "polling" ELSE "idle"]
        BY <2>4, NoPassIsLost
      <3>2. \A v \in Workers : pc'[v] \in Resting => debts'[v] = {}
        BY <1>0, <3>1
      <3>3. \A u \in unwalked' : \E v \in Workers : u \in debts'[v]
        BY <1>0, <3>1
      <3> QED  BY <3>2, <3>3
    <2> QED  BY <1>3, <2>1, <2>2, <2>3, <2>4 DEF PollStep
  <1>4. ASSUME NEW w \in Workers, GatherStep(w) PROVE Owed
    <2>1. CASE GatherDone(w) \/ \E b \in Batches : Submit(w, b)
      BY <1>0, <1>1, <2>1 DEF GatherDone, Gathering, Submit
    <2>2. CASE PrepareDone(w)
      <3>1. UNCHANGED <<debts, unwalked>>
            /\ \E phase \in {"idle", "submitted", "submitting"} :
                 pc' = [pc EXCEPT ![w] = phase] /\ (phase = "idle" => debts[w] = {})
        BY <2>2 DEF PrepareDone, Submitted
      <3> QED  BY <1>1, <3>1
    <2>3. CASE MarkBatched(w)
      <3>1. UNCHANGED <<debts, unwalked>>
            /\ pc' = [pc EXCEPT ![w] = IF debts[w] = {} THEN "idle" ELSE "submitted"]
        BY <2>3, NoPassIsLost
      <3> QED  BY <1>1, <3>1
    <2>4. CASE \/ \E t \in Tasks : GatherClaim(w, t)
               \/ \E t \in Tasks, retryable \in BOOLEAN : RecordFailure(w, t, retryable)
      BY <1>2, <2>4 DEF GatherClaim, RecordFailure
    <2>5. ASSUME NEW t \in Tasks, Prepare(w, t) PROVE Owed
      <3>1. /\ pc[w] = "preparing" /\ pc' = pc
            /\ \/ UNCHANGED <<debts, unwalked>>
               \/ /\ unwalked' = unwalked \cup {t}
                  /\ debts' = [debts EXCEPT ![w] = @ \cup {t}]
        BY <2>5, NoPassIsLost
      <3> QED  BY <1>0, <1>2, <3>1
    <2> QED  BY <1>4, <2>1, <2>2, <2>3, <2>4, <2>5 DEF GatherStep
  <1>5. ASSUME \/ \E t \in Tasks : Reap(t) \/ BackoffPasses(t)
               \/ \E b \in Batches : Provider(b)
        PROVE  Owed
    BY <1>2, <1>5 DEF Reap, BackoffPasses, Provider, Answer, passVars
  <1> QED  BY <1>3, <1>4, <1>5 DEF QuietStep

(* Who touches the provider's batches and the history of leases.           *)
LEMMA QuietOnBatches ==
  ASSUME QuietStep
  PROVE  /\ \/ batch' = batch
            \/ \E b \in Batches : Provider(b) \/ \E w \in Workers : Submit(w, b)
         /\ overrun' = overrun
  <1>1. ASSUME NEW w \in Workers, PollStep(w) \/ Return(w)
        PROVE  batch' = batch /\ overrun' = overrun
    BY <1>1 DEF PollStep, PollStart, DeliverBatch, PollSkip, PollLoad, Walk, Return
  <1>2. ASSUME NEW w \in Workers, GatherStep(w)
        PROVE  overrun' = overrun /\ (batch' = batch \/ \E b \in Batches : Submit(w, b))
    BY <1>2 DEF GatherStep, GatherDone, PrepareDone, MarkBatched, GatherClaim, Prepare,
                RecordFailure, Submit
  <1>3. ASSUME NEW t \in Tasks, (Reap(t) /\ overrun' = overrun) \/ BackoffPasses(t)
        PROVE  batch' = batch /\ overrun' = overrun
    BY <1>3 DEF Reap, BackoffPasses
  <1>4. ASSUME NEW b \in Batches, Provider(b) PROVE overrun' = overrun
    BY <1>4 DEF Provider, Answer
  <1> QED  BY <1>1, <1>2, <1>3, <1>4 DEF QuietStep

(* A batch that is being worked on was so before, or is submitted now.     *)
LEMMA BatchesUndisturbed ==
  ASSUME AllTypes, QuietStep, NEW b \in Batches, batch'[b].state = "working"
  PROVE  \/ batch'[b] = batch[b]
         \/ \E w \in Workers : Submit(w, b) /\ batch'[b].requests = sheaf[w]
  <1>1. ASSUME NEW w \in Workers, NEW c \in Batches, Submit(w, c)
        PROVE  batch'[b] = batch[b] \/ (b = c /\ batch'[b].requests = sheaf[w])
    <2>1. batch' = [batch EXCEPT ![c] = Batch("working", sheaf[w], <<>>)]
      BY <1>1, AcceptedTypes DEF Submit
    <2> QED  BY <2>1 DEF AllTypes, ProviderTypes, Batch
  <1>2. ASSUME NEW c \in Batches, Provider(c)
        PROVE  batch'[b] = batch[b]
    BY <1>2, AnswerTypes
  <1>3. CASE batch' = batch
    BY <1>3
  <1> QED  BY <1>1, <1>2, <1>3, QuietOnBatches

(* What has ended stays as it is.                                          *)
LEMMA EndedStands ==
  ASSUME AllTypes, QuietStep, NEW b \in Batches, batch[b].state \in {"ended", "dead"}
  PROVE  batch'[b] = batch[b]
  <1>1. ASSUME NEW w \in Workers, NEW c \in Batches, Submit(w, c)
        PROVE  batch'[b] = batch[b]
    <2>1. batch' = [batch EXCEPT ![c] = Batch("working", sheaf[w], <<>>)] /\ c # b
      BY <1>1, AcceptedTypes DEF Submit, Accepted, Unused
    <2> QED  BY <2>1 DEF AllTypes, ProviderTypes
  <1>2. ASSUME NEW c \in Batches, Provider(c)
        PROVE  batch'[b] = batch[b]
    BY <1>2, AnswerTypes
  <1> QED  BY <1>1, <1>2, QuietOnBatches

LEMMA UndisturbedKept ==
  ASSUME AllTypes, Hands, Undisturbed, [Next]_vars, QuietStep
  PROVE  Undisturbed'
  <1>1. ~overrun'
    BY QuietOnBatches DEF Undisturbed
  <1>2. ASSUME NEW w \in Workers, pc'[w] = "applying"
        PROVE  batch'[turn'[w]].state \in {"ended", "dead"}
    <2>1. CASE Keeps(w)
      <3>1. turn'[w] = turn[w] /\ turn[w] \in Batches
            /\ batch[turn[w]].state \in {"ended", "dead"}
        BY <1>2, <2>1 DEF Keeps, Undisturbed, AllTypes, PassTypes, PassFits
      <3>2. batch'[turn[w]] = batch[turn[w]]
        BY <3>1, EndedStands
      <3> QED  BY <3>1, <3>2
    <2>2. ASSUME NEW b \in Batches, PollLoad(w, b)
          PROVE  batch'[turn'[w]].state \in {"ended", "dead"}
      BY <2>2 DEF PollLoad, AllTypes, PassTypes
    <2>3. \A b \in Batches : Submit(w, b) => pc'[w] = "parking"
      BY DEF Submit, AllTypes, PassTypes
    <2> QED  BY <1>2, <2>1, <2>2, <2>3, BatchInHand
  <1>3. ASSUME NEW b \in Batches, batch'[b].state = "working", NEW t \in batch'[b].requests
        PROVE  \/ row'[t].status = "batched" /\ batchId'[t] = b
               \/ \E w \in Workers : pc'[w] = "parking" /\ turn'[w] = b /\ t \in sheaf'[w]
    <2>1. ASSUME NEW w \in Workers, Submit(w, b), batch'[b].requests = sheaf[w]
          PROVE  pc'[w] = "parking" /\ turn'[w] = b /\ t \in sheaf'[w]
      BY <1>3, <2>1 DEF Submit, AllTypes, PassTypes
    <2>2. CASE batch'[b] = batch[b]
      <3>0. t \in Tasks
        BY <1>3, <2>2 DEF AllTypes, ProviderTypes
      <3>1. CASE row[t].status = "batched" /\ batchId[t] = b
        <4>1. \A w \in Workers : pc[w] = "applying" => turn[w] # b
          BY <1>3, <2>2 DEF Undisturbed
        <4> QED  BY <3>0, <3>1, <4>1, RowsUndisturbed
      <3>2. ASSUME NEW w \in Workers, pc[w] = "parking", turn[w] = b, t \in sheaf[w]
            PROVE  \/ row'[t].status = "batched" /\ batchId'[t] = b
                   \/ pc'[w] = "parking" /\ turn'[w] = b /\ t \in sheaf'[w]
        BY <3>0, <3>2, ParkingUndisturbed
      <3> QED  BY <1>3, <2>2, <3>1, <3>2 DEF Undisturbed
    <2> QED  BY <1>3, <2>1, <2>2, BatchesUndisturbed
  <1> QED
    BY <1>1, <1>2, <1>3, RowsUndisturbed, WalksUndisturbed DEF Undisturbed

(* Every request that is being worked on is awaited.                       *)
LEMMA AllAwaited ==
  ASSUME AllTypes, Hands, Undisturbed, NEW b \in Batches, batch[b].state = "working",
         NEW t \in batch[b].requests
  PROVE  Awaited(t, b)
  <1>1. t \in Tasks /\ ~Gone(t)
    BY DEF AllTypes, ProviderTypes, Undisturbed
  <1>2. ASSUME NEW w \in Workers, t \in sheaf[w]
        PROVE  row[t].status \in Reapable
    BY <1>1, <1>2 DEF Hands, HandsOf, Reapable
  <1>3. \/ row[t].status = "batched" /\ batchId[t] = b
        \/ \E w \in Workers : pc[w] = "parking" /\ turn[w] = b /\ t \in sheaf[w]
    BY DEF Undisturbed
  <1> QED  BY <1>2, <1>3 DEF Awaited

Faultless == faults = 0 => Undisturbed

LEMMA FaultlessKept == InHands /\ Faultless /\ [Next]_vars => Faultless'
  <1> SUFFICES ASSUME InHands, Faultless, [Next]_vars, faults' = 0 PROVE Undisturbed'
    BY DEF Faultless
  <1>1. CASE Next
    <2>1. faults = 0 /\ QuietStep
      BY <1>1, FaultsCount DEF InHands
    <2>2. Undisturbed /\ Hands
      BY <2>1 DEF Faultless, InHands, Undisturbed
    <2> QED  BY <2>1, <2>2, UndisturbedKept DEF InHands
  <1>2. CASE UNCHANGED vars
    <2>1. Undisturbed
      BY <1>2 DEF Faultless, vars
    <2> QED  BY <1>2, <2>1 DEF Undisturbed, Gone, vars, lifecycle, passVars
  <1> QED  BY <1>1, <1>2

LEMMA FaultlessInit == Init => Faultless
  <1> SUFFICES ASSUME Init PROVE Undisturbed
    BY DEF Faultless
  <1>1. \A t \in Tasks : row[t].status = "pending"
    BY PendingType DEF Init
  <1> QED  BY <1>1 DEF Init, NoRequests, Undisturbed, Gone

(* Without a fault the provider works for nobody in vain: a request is     *)
(* submitted for a claim, and the claim is traded for its place in the     *)
(* batch, which nobody takes it out of (gather_and_submit, mark_batched).  *)
THEOREM NothingWasted == Spec => [](faults = 0 => OneWastePerFault)
  <1>1. InHands /\ Faultless => (faults = 0 => OneWastePerFault)
    <2> SUFFICES ASSUME InHands, Faultless, faults = 0 PROVE OneWastePerFault
      OBVIOUS
    <2> DEFINE Wasted(t) == {b \in Batches : /\ batch[b].state = "working"
                                            /\ t \in batch[b].requests /\ ~Awaited(t, b)}
    <2>1. \A t \in Tasks : Wasted(t) = {}
      BY AllAwaited DEF InHands, Faultless, Undisturbed
    <2>2. Cardinality({}) = 0
      BY FS_EmptySet
    <2>3. \A t \in Tasks : Cardinality(Wasted(t)) <= faults
      <3> TAKE t \in Tasks
      <3>1. Cardinality(Wasted(t)) = 0
        BY <2>1, <2>2, Zenon
      <3> HIDE DEF Wasted
      <3> QED  BY <3>1
    <2> QED  BY <2>3, Zenon DEF OneWastePerFault
  <1>2. Init => InHands
    BY TypesInit, HandsInit DEF InHands
  <1> QED  BY <1>1, <1>2, InHandsKept, FaultlessInit, FaultlessKept, PTL DEF Spec

(* Without a fault no walk is forgotten: a completed task is walked from,  *)
(* or is on the list of a worker that will (settle_after).                 *)
THEOREM NoWalkForgotten == Spec => []WalksKept
  <1>1. InHands /\ Faultless => WalksKept
    BY DEF InHands, Faultless, WalksKept, Undisturbed
  <1>2. Init => InHands
    BY TypesInit, HandsInit DEF InHands
  <1> QED  BY <1>1, <1>2, InHandsKept, FaultlessInit, FaultlessKept, PTL DEF Spec

-----------------------------------------------------------------------------
(* What is bought for a task, against the tries its row has counted.       *)

Bought(t) == {b \in Batches : t \in batch[b].requests}

(* Nothing was bought in this try: not yet claimed, or not yet submitted.  *)
Fresh(t) ==
  \/ row[t].status \in {"pending", "claimed"}
  \/ \E w \in Workers : t \in sheaf[w] /\ pc[w] # "parking"

Tried ==
  /\ \A v, w \in Workers : v # w => sheaf[v] \cap sheaf[w] = {}
  /\ \A t \in Tasks :
       /\ IsFiniteSet(Bought(t))
       /\ Cardinality(Bought(t)) <= row[t].retries + 1
       /\ Fresh(t) => Cardinality(Bought(t)) <= row[t].retries

LEMMA RetryFields ==
  ASSUME NEW r \in Rows
  PROVE  /\ \A w \in Workers : Claimed(r, w).retries = IF r.status = "failed" THEN r.retries + 1
                                                       ELSE r.retries
         /\ Completed(r).retries = r.retries
         /\ \A retryable, delayed \in BOOLEAN : Failed(r, retryable, delayed).retries = r.retries
         /\ \A status : [r EXCEPT !.status = status].retries = r.retries
         /\ [r EXCEPT !.backoff = FALSE].retries = r.retries
  BY DEF Rows, Claimed, Completed, Failed

(* A try is counted when a failed task is claimed, and never taken back.   *)
CountsTry(t) ==
  \/ /\ row'[t].retries = row[t].retries
     /\ row'[t].status \in {"pending", "claimed"} => row[t].status \in {"pending", "claimed"}
  \/ row'[t].retries = row[t].retries + 1

LEMMA TriesCounted ==
  ASSUME AllTypes, Hands, [Next]_vars, NEW t \in Tasks
  PROVE  CountsTry(t)
  <1>0. row \in [Tasks -> Rows] /\ row[t] \in Rows
    BY DEF AllTypes, WorldTypes
  <1>1. CASE row' = row
    BY <1>1 DEF CountsTry
  <1>2. ASSUME NEW u \in Tasks, NEW r, Written(u, r), r.retries = row[u].retries,
               r.status \in {"pending", "claimed"} => row[u].status \in {"pending", "claimed"}
        PROVE  CountsTry(t)
    BY <1>0, <1>2 DEF Written, CountsTry
  <1>3. ASSUME \/ \E b \in Batches : Provider(b) \/ Die(b)
               \/ \E w \in Workers :
                    \/ PollStart(w) \/ GatherDone(w) \/ PrepareDone(w) \/ PassRaises(w)
                    \/ Crash(w) \/ Return(w)
                    \/ \E b \in Batches : PollSkip(w, b) \/ PollLoad(w, b) \/ Submit(w, b)
                    \/ \E b \in Batches, taken \in BOOLEAN : SubmitRaises(w, b, taken)
                    \/ \E u \in Tasks : PrepareRaises(w, u) \/ Walk(w, u)
               \/ UNCHANGED vars
        PROVE  row' = row
    BY <1>3 DEF PollStart, GatherDone, PrepareDone, PassRaises, Crash, Return, PollSkip, PollLoad,
                Submit, SubmitRaises, PrepareRaises, Walk, Provider, Answer, Die, lifecycle, vars
  <1>4. ASSUME NEW w \in Workers, NEW u \in Tasks, GatherClaim(w, u) PROVE CountsTry(t)
    <2>1. /\ row[u].status \in {"pending", "failed"} /\ row[u] \in Rows
          /\ row'[t] = IF t = u THEN Claimed(row[u], w) ELSE row[t]
      BY <1>0, <1>4 DEF GatherClaim, Offered, Claimable, Due, HasRetryLeft, Written
    <2> QED  BY <2>1, RetryFields DEF CountsTry
  <1>5. ASSUME NEW u \in Tasks, NEW retryable \in BOOLEAN, NEW delayed \in BOOLEAN,
               Written(u, Failed(row[u], retryable, delayed))
        PROVE  CountsTry(t)
    <2>1. row[u] \in Rows
      BY <1>0
    <2>2. /\ Failed(row[u], retryable, delayed).retries = row[u].retries
          /\ Failed(row[u], retryable, delayed).status = "failed"
      BY <2>1, RetryFields, FailedFields
    <2> QED  BY <1>2, <1>5, <2>2
  <1>6. ASSUME NEW w \in Workers, NEW u \in Tasks, Prepare(w, u) PROVE CountsTry(t)
    <2>0. row[u] \in Rows
      BY <1>0
    <2>1. CASE Written(u, Failed(row[u], TRUE, TRUE))
      BY <1>5, <2>1
    <2>2. CASE Finished(w, u)
      <3>1. /\ Completed(row[u]).retries = row[u].retries /\ Completed(row[u]).status = "completed"
            /\ Written(u, Completed(row[u]))
        BY <2>0, <2>2, RetryFields, WriteFields DEF Finished
      <3> QED  BY <1>2, <3>1
    <2>3. CASE Requested(w, u)
      <3>1. /\ [row[u] EXCEPT !.status = "running"].retries = row[u].retries
            /\ [row[u] EXCEPT !.status = "running"].status = "running"
            /\ Written(u, [row[u] EXCEPT !.status = "running"])
        BY <2>0, <2>3, RetryFields, WriteFields DEF Requested
      <3> QED  BY <1>2, <3>1
    <2> QED  BY <1>1, <1>6, <2>1, <2>2, <2>3 DEF Prepare, lifecycle
  <1>7. ASSUME NEW w \in Workers, NEW u \in Tasks, NEW retryable \in BOOLEAN,
               RecordFailure(w, u, retryable)
        PROVE  CountsTry(t)
    BY <1>1, <1>5, <1>7 DEF RecordFailure
  <1>8. ASSUME NEW w \in Workers, MarkBatched(w) PROVE CountsTry(t)
    <2>1. row'[t] = row[t] \/ row'[t] = [row[t] EXCEPT !.status = "batched"]
      BY <1>8 DEF MarkBatched
    <2>2. /\ [row[t] EXCEPT !.status = "batched"].retries = row[t].retries
          /\ [row[t] EXCEPT !.status = "batched"].status = "batched"
      BY <1>0, RetryFields, WriteFields
    <2> QED  BY <2>1, <2>2 DEF CountsTry
  <1>9. ASSUME NEW w \in Workers, DeliverBatch(w) PROVE CountsTry(t)
    <2>1. CASE ~LosePass(w, "idle")
      <3>1. \/ row'[t] = row[t]
            \/ row'[t] = Completed(row[t])
            \/ \E retryable \in BOOLEAN : row'[t] = Failed(row[t], retryable, TRUE)
        <4> DEFINE done == Answered(w, "text")
                   retried == Answered(w, "transient")
                   refused == Answered(w, "refused") \cup retried
        <4>1. row' = [u \in Tasks |-> IF u \in done THEN Completed(row[u])
                        ELSE IF u \in refused THEN Failed(row[u], u \in retried, TRUE)
                        ELSE row[u]]
          BY <1>9, <2>1, DeliveryOnRows DEF Hands
        <4>2. (t \in retried) \in BOOLEAN
          OBVIOUS
        <4> HIDE DEF done, retried, refused
        <4> QED  BY <4>1, <4>2
      <3>2. Completed(row[t]).retries = row[t].retries /\ Completed(row[t]).status = "completed"
        BY <1>0, RetryFields, WriteFields
      <3>3. \A retryable \in BOOLEAN : /\ Failed(row[t], retryable, TRUE).retries = row[t].retries
                                       /\ Failed(row[t], retryable, TRUE).status = "failed"
        BY <1>0, RetryFields, FailedFields
      <3> QED  BY <3>1, <3>2, <3>3 DEF CountsTry
    <2>2. CASE LosePass(w, "idle")
      <3>1. ASSUME row' # row PROVE FALSE
        <4>1. \E phase \in {"polling", "applied"} : pc' = [pc EXCEPT ![w] = phase]
          BY <1>9, <3>1 DEF DeliverBatch, lifecycle
        <4>2. pc' = [pc EXCEPT ![w] = "idle"] /\ pc \in [Workers -> Phases]
          BY <2>2 DEF LosePass, AllTypes, PassTypes
        <4> QED  BY <4>1, <4>2
      <3> QED  BY <1>1, <3>1
    <2> QED  BY <2>1, <2>2
  <1>10. ASSUME NEW u \in Tasks, Reap(u) PROVE CountsTry(t)
    BY <1>5, <1>10 DEF Reap
  <1>11. ASSUME NEW u \in Tasks, BackoffPasses(u) PROVE CountsTry(t)
    <2>1. row'[t] = row[t] \/ row'[t] = [row[t] EXCEPT !.backoff = FALSE]
      BY <1>0, <1>11 DEF BackoffPasses, BackoffEnds
    <2>2. /\ [row[t] EXCEPT !.backoff = FALSE].retries = row[t].retries
          /\ [row[t] EXCEPT !.backoff = FALSE].status = row[t].status
      BY <1>0, RetryFields, WriteFields
    <2> QED  BY <2>1, <2>2 DEF CountsTry
  <1>12. ASSUME NEW u \in Tasks, Delete(u) PROVE CountsTry(t)
    <2>1. row'[t] = row[t] \/ row'[t] = [row[t] EXCEPT !.status = "gone"]
      BY <1>12 DEF Delete, Cascade
    <2>2. /\ [row[t] EXCEPT !.status = "gone"].retries = row[t].retries
          /\ [row[t] EXCEPT !.status = "gone"].status = "gone"
      BY <1>0, RetryFields, WriteFields
    <2> QED  BY <2>1, <2>2 DEF CountsTry
  <1> QED
    BY <1>1, <1>3, <1>4, <1>6, <1>7, <1>8, <1>9, <1>10, <1>11, <1>12
       DEF Next, PollStep, GatherStep

(* What was prepared leaves a worker's sheaf all at once.                  *)
LEMMA SheafSteps ==
  ASSUME AllTypes, Hands, [Next]_vars, NEW w \in Workers, NEW t \in sheaf'[w]
  PROVE  \/ t \in sheaf[w] /\ (pc[w] = "parking" => pc'[w] = "parking")
         \/ t \in Tasks /\ ~Gone(t) /\ row[t].status = "claimed" /\ row[t].owner = w
  <1> DEFINE Old == t \in sheaf[w] /\ (pc[w] = "parking" => pc'[w] = "parking")
             New == t \in Tasks /\ ~Gone(t) /\ row[t].status = "claimed" /\ row[t].owner = w
  <1>0. pc \in [Workers -> Phases] /\ sheaf \in [Workers -> SUBSET Tasks]
    BY DEF AllTypes, PassTypes
  <1>1. CASE pc' = pc /\ sheaf' = sheaf
    BY <1>1
  <1>2. ASSUME NEW v \in Workers, NEW phase, LosePass(v, phase) PROVE Old
    BY <1>0, <1>2 DEF LosePass
  <1>3. ASSUME NEW v \in Workers, NEW phase, pc' = [pc EXCEPT ![v] = phase], pc[v] # "parking",
               sheaf' = sheaf
        PROVE  Old
    BY <1>0, <1>3
  <1>4. ASSUME NEW v \in Workers, PollStep(v) \/ PassRaises(v) \/ Crash(v) \/ Return(v) PROVE Old
    BY <1>1, <1>2, <1>3, <1>4 DEF PollStep, PollStart, DeliverBatch, PollSkip, PollLoad, Walk,
                                  PassRaises, Crash, Return
  <1>5. ASSUME NEW v \in Workers, GatherStep(v) PROVE Old \/ New
    <2>1. CASE GatherDone(v) \/ \E b \in Batches : Submit(v, b)
      BY <1>3, <2>1 DEF GatherDone, Gathering, Submit
    <2>2. CASE PrepareDone(v)
      BY <1>3, <2>2 DEF PrepareDone, Submitted
    <2>3. CASE MarkBatched(v)
      <3>1. \/ LosePass(v, "idle")
            \/ sheaf' = [sheaf EXCEPT ![v] = {}]
               /\ pc' = [pc EXCEPT ![v] = IF debts[v] = {} THEN "idle" ELSE "submitted"]
        BY <2>3 DEF MarkBatched, Submitted
      <3> QED  BY <1>0, <1>2, <3>1
    <2>4. CASE \/ \E u \in Tasks : GatherClaim(v, u)
               \/ \E u \in Tasks, retryable \in BOOLEAN : RecordFailure(v, u, retryable)
      BY <1>1, <2>4 DEF GatherClaim, RecordFailure
    <2>5. ASSUME NEW u \in Tasks, Prepare(v, u), ~LosePass(v, "idle") PROVE Old \/ New
      <3>1. /\ pc' = pc /\ u \in todo[v]
            /\ sheaf' = sheaf \/ (~Gone(u) /\ sheaf' = [sheaf EXCEPT ![v] = @ \cup {u}])
        BY <2>5 DEF Prepare, Requested, Finished
      <3>2. ~Gone(u) => row[u].status = "claimed" /\ row[u].owner = v
        BY <3>1 DEF Hands, HandsOf
      <3> QED  BY <1>0, <3>1, <3>2
    <2> QED  BY <1>2, <1>5, <2>1, <2>2, <2>3, <2>4, <2>5 DEF GatherStep
  <1>6. ASSUME NEW v \in Workers, NEW u \in Tasks, PrepareRaises(v, u) PROVE Old
    BY <1>1, <1>6 DEF PrepareRaises
  <1>7. ASSUME NEW v \in Workers, NEW b \in Batches, NEW taken \in BOOLEAN,
               SubmitRaises(v, b, taken)
        PROVE  Old
    BY <1>0, <1>7 DEF SubmitRaises
  <1>8. ASSUME \/ \E u \in Tasks : Reap(u) \/ BackoffPasses(u) \/ Delete(u)
               \/ \E b \in Batches : Provider(b) \/ Die(b)
               \/ UNCHANGED vars
        PROVE  Old
    BY <1>1, <1>8 DEF Reap, BackoffPasses, Delete, Provider, Answer, Die, vars, passVars
  <1> QED  BY <1>4, <1>5, <1>6, <1>7, <1>8 DEF Next

(* A purchase is a submission's, raised or not, and it changes no row.     *)
Buys(w, b) ==
  /\ pc[w] = "submitting" /\ row' = row /\ Accepted(w, b)
  /\ \/ pc' = [pc EXCEPT ![w] = "parking"] /\ sheaf' = sheaf
     \/ sheaf' = [sheaf EXCEPT ![w] = {}]

LEMMA BoughtSteps ==
  ASSUME AllTypes, [Next]_vars, NEW t \in Tasks
  PROVE  \/ Bought(t)' \subseteq Bought(t)
         \/ \E w \in Workers, b \in Batches :
              Buys(w, b) /\ t \in sheaf[w] /\ Bought(t)' \subseteq Bought(t) \cup {b}
  <1>1. CASE batch' = batch
    BY <1>1 DEF Bought
  <1>2. ASSUME NEW b \in Batches, Provider(b) \/ Die(b) PROVE Bought(t)' = Bought(t)
    <2>1. \A c \in Batches : batch'[c].requests = batch[c].requests
      BY <1>2, AnswerTypes
    <2> QED  BY <2>1 DEF Bought
  <1>3. ASSUME NEW w \in Workers, NEW b \in Batches, Buys(w, b)
        PROVE  \/ Bought(t)' \subseteq Bought(t)
               \/ t \in sheaf[w] /\ Bought(t)' \subseteq Bought(t) \cup {b}
    <2>1. /\ batch' = [batch EXCEPT ![b] = Batch("working", sheaf[w], <<>>)]
      BY <1>3, AcceptedTypes DEF Buys
    <2>2. \A c \in Batches :
            batch'[c] = IF c = b THEN Batch("working", sheaf[w], <<>>) ELSE batch[c]
      BY <2>1 DEF AllTypes, ProviderTypes
    <2>3. batch'[b].requests = sheaf[w]
      BY <2>2 DEF Batch
    <2> QED  BY <2>2, <2>3 DEF Bought
  <1>4. ASSUME NEW w \in Workers, NEW b \in Batches,
               Submit(w, b) \/ \E taken \in BOOLEAN : SubmitRaises(w, b, taken)
        PROVE  batch' = batch \/ Buys(w, b)
    BY <1>4 DEF Submit, SubmitRaises, Buys, lifecycle
  <1>5. ASSUME NEW w \in Workers, PollStep(w) \/ PassRaises(w) \/ Crash(w) \/ Return(w)
        PROVE  batch' = batch
    BY <1>5 DEF PollStep, PollStart, DeliverBatch, PollSkip, PollLoad, Walk,
                PassRaises, Crash, Return
  <1>6. ASSUME NEW w \in Workers, GatherStep(w), ~\E b \in Batches : Submit(w, b)
        PROVE  batch' = batch
    BY <1>6 DEF GatherStep, GatherDone, PrepareDone, MarkBatched, GatherClaim, Prepare,
                RecordFailure
  <1>7. ASSUME \/ \E w \in Workers, u \in Tasks : PrepareRaises(w, u)
               \/ \E u \in Tasks : Reap(u) \/ BackoffPasses(u) \/ Delete(u)
               \/ UNCHANGED vars
        PROVE  batch' = batch
    BY <1>7 DEF PrepareRaises, Reap, BackoffPasses, Delete, vars
  <1> QED  BY <1>1, <1>2, <1>3, <1>4, <1>5, <1>6, <1>7 DEF Next

LEMMA TriedKept ==
  ASSUME AllTypes, Hands, Tried, [Next]_vars
  PROVE  Tried'
  <1>0. /\ row \in [Tasks -> Rows] /\ sheaf \in [Workers -> SUBSET Tasks]
        /\ pc \in [Workers -> Phases]
        /\ \A t \in Tasks : row[t].retries \in Nat
    BY RowAssumption DEF AllTypes, WorldTypes, PassTypes, Rows
  <1>1. ASSUME NEW w \in Workers, NEW t \in sheaf[w]
        PROVE  row[t].status \notin {"pending", "claimed"}
    BY <1>1 DEF Hands, HandsOf, Gone
  <1>2. ASSUME NEW v \in Workers, NEW w \in Workers, v # w, NEW t \in sheaf'[v] \cap sheaf'[w]
        PROVE  FALSE
    <2>1. /\ t \in sheaf[v] \/ (row[t].status = "claimed" /\ row[t].owner = v)
          /\ t \in sheaf[w] \/ (row[t].status = "claimed" /\ row[t].owner = w)
      BY <1>2, SheafSteps
    <2>2. t \notin sheaf[v] \/ t \notin sheaf[w]
      BY <1>2 DEF Tried
    <2> QED  BY <1>1, <1>2, <2>1, <2>2
  <1>3. ASSUME NEW t \in Tasks
        PROVE  /\ IsFiniteSet(Bought(t)')
               /\ Cardinality(Bought(t)') <= row'[t].retries + 1
               /\ Fresh(t)' => Cardinality(Bought(t)') <= row'[t].retries
    <2>0. /\ IsFiniteSet(Bought(t)) /\ Cardinality(Bought(t)) \in Nat
          /\ Cardinality(Bought(t)) <= row[t].retries + 1
          /\ Fresh(t) => Cardinality(Bought(t)) <= row[t].retries
      BY FS_CardinalityType DEF Tried
    <2>1. CASE Bought(t)' \subseteq Bought(t)
      <3>1. /\ IsFiniteSet(Bought(t)') /\ Cardinality(Bought(t)') \in Nat
            /\ Cardinality(Bought(t)') <= Cardinality(Bought(t))
        BY <2>0, <2>1, FS_Subset, FS_CardinalityType
      <3>2. CountsTry(t)
        BY TriesCounted
      <3>3. Fresh(t)' => Fresh(t) \/ row'[t].retries = row[t].retries + 1
        <4>1. ASSUME NEW w \in Workers, t \in sheaf'[w], pc'[w] # "parking" PROVE Fresh(t)
          BY <4>1, SheafSteps DEF Fresh
        <4> QED  BY <3>2, <4>1 DEF Fresh, CountsTry
      <3> QED  BY <1>0, <2>0, <3>1, <3>2, <3>3 DEF CountsTry
    <2>2. ASSUME NEW w \in Workers, NEW b \in Batches, Buys(w, b), t \in sheaf[w],
                 Bought(t)' \subseteq Bought(t) \cup {b}
          PROVE  /\ IsFiniteSet(Bought(t)') /\ ~Fresh(t)'
                 /\ Cardinality(Bought(t)') <= row'[t].retries + 1
      <3>1. Fresh(t) /\ row' = row
        BY <2>2 DEF Fresh, Buys
      <3>2. /\ IsFiniteSet(Bought(t) \cup {b})
            /\ Cardinality(Bought(t) \cup {b}) \in Nat
            /\ Cardinality(Bought(t) \cup {b}) <= Cardinality(Bought(t)) + 1
        <4>1. /\ IsFiniteSet(Bought(t) \cup {b})
              /\ Cardinality(Bought(t) \cup {b}) = IF b \in Bought(t) THEN Cardinality(Bought(t))
                                                   ELSE Cardinality(Bought(t)) + 1
          BY <2>0, FS_AddElement
        <4> QED  BY <2>0, <4>1
      <3>3. /\ IsFiniteSet(Bought(t)') /\ Cardinality(Bought(t)') \in Nat
            /\ Cardinality(Bought(t)') <= Cardinality(Bought(t) \cup {b})
        BY <2>2, <3>2, FS_Subset, FS_CardinalityType
      <3>4. \A v \in Workers \ {w} : t \notin sheaf'[v]
        <4>1. \A v \in Workers \ {w} : t \notin sheaf[v] /\ sheaf'[v] = sheaf[v]
          BY <1>0, <2>2 DEF Tried, Buys
        <4> QED  BY <4>1
      <3>5. t \notin sheaf'[w] \/ pc'[w] = "parking"
        BY <1>0, <2>2 DEF Buys
      <3>6. row'[t].status \notin {"pending", "claimed"}
        BY <1>1, <2>2, <3>1
      <3> QED  BY <1>0, <2>0, <3>1, <3>2, <3>3, <3>4, <3>5, <3>6 DEF Fresh
    <2> QED  BY <2>1, <2>2, BoughtSteps
  <1> QED  BY <1>2, <1>3 DEF Tried

LEMMA TriedInit == Init => Tried
  <1> SUFFICES ASSUME Init PROVE Tried
    OBVIOUS
  <1>1. \A t \in Tasks : row[t].retries \in Nat
    BY TypesInit, RowAssumption DEF AllTypes, WorldTypes, Rows
  <1>2. \A t \in Tasks : Bought(t) = {}
    BY DEF Init, NoRequests, Bought
  <1>3. \A w \in Workers : sheaf[w] = {}
    BY DEF Init
  <1>4. ASSUME NEW t \in Tasks
        PROVE  /\ IsFiniteSet(Bought(t)) /\ Cardinality(Bought(t)) <= row[t].retries
               /\ Cardinality(Bought(t)) <= row[t].retries + 1
    <2>1. IsFiniteSet(Bought(t)) /\ Cardinality(Bought(t)) = 0
      BY <1>2, FS_EmptySet, Zenon
    <2>2. row[t].retries \in Nat
      BY <1>1
    <2> QED  BY <2>1, <2>2
  <1> QED  BY <1>3, <1>4 DEF Tried

(* An answer is bought once per try: whoever loses a submission, before or *)
(* after the provider took it, leaves its tasks to another try.            *)
THEOREM OneAnswerPerTry == Spec => []BoughtOncePerTry
  <1> DEFINE T == overrun \/ Tried
  <1>1. InHands /\ T => BoughtOncePerTry
    BY DEF Tried, BoughtOncePerTry, Bought
  <1>2. Init => InHands /\ T
    BY TypesInit, HandsInit, TriedInit DEF InHands
  <1>3. InHands /\ T /\ [Next]_vars => T'
    <2> SUFFICES ASSUME InHands, T, [Next]_vars, ~overrun' PROVE Tried'
      OBVIOUS
    <2> QED  BY OverrunStays, TriedKept DEF InHands
  <1> QED  BY <1>1, <1>2, <1>3, InHandsKept, PTL DEF Spec
=============================================================================
