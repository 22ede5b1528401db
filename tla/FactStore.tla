----------------------------- MODULE FactStore -----------------------------
(***************************************************************************)
(* The triples table: facts that callers assert, retract, supersede and    *)
(* delete, and facts that SHACL rules derive from them.                    *)
(*                                                                         *)
(* A fact is what the unique keys of the table identify: subject,          *)
(* predicate and object. It has at most one row, and a row deleted and     *)
(* written again is another row, with another id; a row is therefore named *)
(* by its fact and its generation. Callers that retract or supersede first *)
(* load the row into their session, and write it later. A derivation run   *)
(* reads the asserted layer, maps what its rule concludes, deletes what    *)
(* the rule had written before, and inserts.                               *)
(***************************************************************************)
EXTENDS Naturals, FiniteSets

CONSTANTS
  Facts,         \* (subject, predicate, object)
  Rules,         \* rule identities, the values of derived_by
  Entails,       \* rule -> set of <<premise, conclusion>>
  Families,      \* sets of facts that go together with a document or predicate
  Callers,       \* request sessions
  Workers,       \* workers that run derive:rule
  NoOne,
  MaxGeneration, \* bound: how often one fact is written
  MaxRequests    \* bound: requests

ASSUME NoOneAssumption == NoOne \notin Rules /\ NoOne \notin Facts \X Nat
ASSUME EntailsAssumption == Entails \in [Rules -> SUBSET (Facts \X Facts)]
ASSUME FamiliesAssumption == Families \subseteq SUBSET Facts
ASSUME BoundAssumption == MaxGeneration \in Nat /\ MaxRequests \in Nat

VARIABLES
  row,        \* the table
  held,       \* per caller: the fact it loaded, or NoOne
  copy,       \* per caller: the row as its session loaded it
  phase,      \* per worker: idle, mapped or deleting
  rule,       \* per worker: the rule it runs
  candidates, \* per worker: what the rule concluded from the graph it read
  doomed,     \* per worker: the rows its DELETE statement saw
  requests,   \* how many requests were made, for the bound only
  \* History, for the properties only:
  origin,     \* per fact: the row that the present row was minted to supersede
  heir,       \* per fact: the row last minted to supersede the present row
  alone,      \* workers since whose read nobody else has written
  beside,     \* per worker: what runs of its rule concluded that were committed
              \* since its DELETE took its snapshot
  concluded,  \* per rule: what its last run concluded, and the runs beside it
  fresh       \* the rule whose undisturbed run was the last write, or NoOne

table == <<row>>
sessions == <<held, copy>>
runs == <<phase, rule, candidates, doomed>>
history == <<origin, heir, alone, beside, concluded, fresh>>
vars == <<table, sessions, runs, requests, history>>

-----------------------------------------------------------------------------
(* Rows.                                                                   *)

Names == Facts \X (0..MaxGeneration)

Rows == [state: {"absent", "live", "invalidated"}, derivedBy: Rules \cup {NoOne},
         invalidatedBy: Names \cup {NoOne}, generation: 0..MaxGeneration]

NeverWritten == [state |-> "absent", derivedBy |-> NoOne,
                 invalidatedBy |-> NoOne, generation |-> 0]

Present(f) == row[f].state # "absent"
NameOf(f) == <<f, row[f].generation>>
Stands(n) == Present(n[1]) /\ row[n[1]].generation = n[2]

(* The unique keys have no term for invalidated_at: a retracted fact keeps *)
(* its slot.                                                               *)
VacantWhenRetracted(f) == row[f].state # "live"
Vacant(f) == row[f].state = "absent"

Writable(f) == row[f].generation < MaxGeneration

Written(f, by) == [state |-> "live", derivedBy |-> by, invalidatedBy |-> NoOne,
                   generation |-> row[f].generation + 1]

(* A flush writes the columns that differ from the loaded copy:            *)
(* invalidated_at always does, invalidated_by only when its value is new.  *)
InvalidatedWhole(r, loaded, by) ==
  [r EXCEPT !.state = "invalidated", !.invalidatedBy = by]
InvalidatedLate(r, loaded, by) ==
  [r EXCEPT !.invalidatedBy = IF by = loaded.invalidatedBy THEN @ ELSE by]
Invalidated(r, loaded, by) ==
  [r EXCEPT !.state = "invalidated",
            !.invalidatedBy = IF by = loaded.invalidatedBy THEN @ ELSE by]

(* The table without the rows of S; invalidated_by is ON DELETE SET NULL.  *)
Without(S) ==
  [f \in Facts |->
     IF f \in S THEN [NeverWritten EXCEPT !.generation = row[f].generation]
     ELSE IF row[f].invalidatedBy \in {NameOf(g) : g \in S}
          THEN [row[f] EXCEPT !.invalidatedBy = NoOne] ELSE row[f]]

-----------------------------------------------------------------------------
Init ==
  /\ row = [f \in Facts |-> NeverWritten]
  /\ held = [c \in Callers |-> NoOne]
  /\ copy = [c \in Callers |-> NeverWritten]
  /\ phase = [w \in Workers |-> "idle"]
  /\ rule = [w \in Workers |-> NoOne]
  /\ candidates = [w \in Workers |-> {}]
  /\ doomed = [w \in Workers |-> {}]
  /\ requests = 0
  /\ origin = [f \in Facts |-> NoOne]
  /\ heir = [f \in Facts |-> NoOne]
  /\ alone = {} /\ fresh = NoOne
  /\ beside = [w \in Workers |-> {}]
  /\ concluded = [r \in Rules |-> {}]

Request == requests < MaxRequests /\ requests' = requests + 1

(* What every write of a caller does to the history.                       *)
Disturb ==
  /\ alone' = {} /\ fresh' = NoOne
  /\ UNCHANGED <<beside, concluded>>

-----------------------------------------------------------------------------
(* Callers.                                                                *)

(* POST and PUT /triples: a fact that has a row keeps it, whatever the     *)
(* row's state and whoever wrote it.                                       *)
AssertFact(f) ==
  /\ Request
  /\ Vacant(f) /\ Writable(f)
  /\ row' = [row EXCEPT ![f] = Written(f, NoOne)]
  /\ origin' = [origin EXCEPT ![f] = NoOne]
  /\ heir' = [heir EXCEPT ![f] = NoOne]
  /\ Disturb
  /\ UNCHANGED <<sessions, runs>>

(* The session's identity map keeps this copy until the request ends.      *)
Load(c, f) ==
  /\ Request
  /\ held[c] = NoOne /\ Present(f)
  /\ held' = [held EXCEPT ![c] = NameOf(f)]
  /\ copy' = [copy EXCEPT ![c] = row[f]]
  /\ UNCHANGED <<table, runs, history>>

Release(c) == held' = [held EXCEPT ![c] = NoOne] /\ copy' = [copy EXCEPT ![c] = NeverWritten]

(* 404, 409, an integrity error, a lost connection: nothing is written.    *)
GiveUp(c) ==
  /\ held[c] # NoOne
  /\ Release(c)
  /\ UNCHANGED <<table, runs, requests, history>>

(* SELECT FOR UPDATE waits for the row, and returns the copy the session   *)
(* already has: what is tested is the state it had when it was loaded.     *)
StillLive(c) == copy[c].state = "live"

(* From the lock to the commit everybody else waits for the row.           *)
Supersede(c, g) ==
  /\ held[c] # NoOne /\ Stands(held[c])
  /\ StillLive(c)
  /\ Vacant(g) /\ Writable(g)
  /\ LET f == held[c][1]
         minted == <<g, row[g].generation + 1>>
     IN  /\ row' = [row EXCEPT ![g] = Written(g, NoOne),
                               ![f] = Invalidated(row[f], copy[c], minted)]
         /\ origin' = [origin EXCEPT ![g] = held[c]]
         /\ heir' = [heir EXCEPT ![f] = minted, ![g] = NoOne]
  /\ Release(c)
  /\ Disturb
  /\ UNCHANGED <<runs, requests>>

(* No lock and no test of the state; an UPDATE of a deleted row raises.    *)
Invalidate(c, by) ==
  /\ held[c] # NoOne /\ Stands(held[c])
  /\ by # NoOne => Stands(by)
  /\ LET f == held[c][1]
     IN  /\ row' = [row EXCEPT ![f] = Invalidated(row[f], copy[c], by)]
         /\ heir' = [heir EXCEPT ![f] = IF by = copy[c].invalidatedBy THEN @ ELSE NoOne]
  /\ Release(c)
  /\ Disturb
  /\ UNCHANGED <<origin, runs, requests>>

(* One triple, or all that name a document or carry a predicate.           *)
Delete(S) ==
  /\ Request
  /\ \E f \in S : Present(f)
  /\ row' = Without({f \in S : Present(f)})
  /\ Disturb
  /\ UNCHANGED <<origin, heir, sessions, runs>>

-----------------------------------------------------------------------------
(* Derivation runs. The same rule may be asked for twice, and two tasks    *)
(* with different report nodes do not conflict.                            *)

(* The data graph: the asserted layer, less what was retracted.            *)
DataGraphOfAnyLayer == {f \in Facts : row[f].state = "live"}
DataGraph == {f \in Facts : row[f].state = "live" /\ row[f].derivedBy = NoOne}

(* One expansion, less what the graph held before it.                      *)
Expansion(r, graph) ==
  {f \in Facts : \E p \in graph : <<p, f>> \in Entails[r]} \ graph

RunRules(w, r) ==
  /\ phase[w] = "idle"
  /\ phase' = [phase EXCEPT ![w] = "mapped"]
  /\ rule' = [rule EXCEPT ![w] = r]
  /\ candidates' = [candidates EXCEPT ![w] = Expansion(r, DataGraph)]
  /\ alone' = alone \cup {w}
  /\ UNCHANGED <<doomed, table, sessions, requests, origin, heir, beside, concluded, fresh>>

(* What DELETE ... WHERE derived_by = :rule finds in its snapshot.         *)
OutputStillLive(r) ==
  {NameOf(f) : f \in {g \in Facts : row[g].state = "live" /\ row[g].derivedBy = r}}
Output(r) == {NameOf(f) : f \in {g \in Facts : Present(g) /\ row[g].derivedBy = r}}

DeleteOutput(w) ==
  /\ phase[w] = "mapped"
  /\ phase' = [phase EXCEPT ![w] = "deleting"]
  /\ doomed' = [doomed EXCEPT ![w] = Output(rule[w])]
  /\ UNCHANGED <<rule, candidates, table, sessions, requests, history>>

EndRun(w) ==
  /\ phase' = [phase EXCEPT ![w] = "idle"]
  /\ rule' = [rule EXCEPT ![w] = NoOne]
  /\ candidates' = [candidates EXCEPT ![w] = {}]
  /\ doomed' = [doomed EXCEPT ![w] = {}]

(* The rows of the snapshot that are still there go, and each candidate    *)
(* whose slot is then vacant is written; whoever wants one of these rows   *)
(* or slots waits for the commit.                                          *)
ApplyDerivation(w) ==
  /\ phase[w] = "deleting"
  /\ LET r == rule[w]
         gone == {f \in Facts : Present(f) /\ NameOf(f) \in doomed[w]}
         new == {f \in candidates[w] : f \in gone \/ Vacant(f)}
     IN  /\ \A f \in new : Writable(f)
         /\ row' = [f \in Facts |-> IF f \in new THEN Written(f, r) ELSE Without(gone)[f]]
         /\ origin' = [f \in Facts |-> IF f \in new THEN NoOne ELSE origin[f]]
         /\ heir' = [f \in Facts |-> IF f \in new THEN NoOne ELSE heir[f]]
         /\ concluded' = [concluded EXCEPT ![r] = candidates[w] \cup beside[w]]
         /\ beside' = [v \in Workers |->
                          IF v = w THEN {}
                          ELSE IF phase[v] = "deleting" /\ rule[v] = r
                               THEN beside[v] \cup candidates[w] ELSE beside[v]]
         /\ fresh' = IF w \in alone THEN r ELSE NoOne
  /\ alone' = {}
  /\ EndRun(w)
  /\ UNCHANGED <<sessions, requests>>

(* A term that cannot be stored, a slot taken in between, a crash: the     *)
(* transaction is rolled back and the task fails or is retried.            *)
AbandonRun(w) ==
  /\ phase[w] # "idle"
  /\ EndRun(w)
  /\ alone' = alone \ {w}
  /\ beside' = [beside EXCEPT ![w] = {}]
  /\ UNCHANGED <<table, sessions, requests, origin, heir, concluded, fresh>>

-----------------------------------------------------------------------------
CallerStep ==
  \/ \E f \in Facts : AssertFact(f) \/ Delete({f})
  \/ \E S \in Families : Delete(S)
  \/ \E c \in Callers :
       \/ \E f \in Facts : Load(c, f) \/ Supersede(c, f)
       \/ \E by \in {NameOf(f) : f \in Facts} \cup {NoOne} : Invalidate(c, by)
       \/ GiveUp(c)

WorkerStep ==
  \E w \in Workers :
    \/ \E r \in Rules : RunRules(w, r)
    \/ DeleteOutput(w) \/ ApplyDerivation(w) \/ AbandonRun(w)

Next == CallerStep \/ WorkerStep
Spec == Init /\ [][Next]_vars

-----------------------------------------------------------------------------
(* Types, and the shape of a row: only an invalidated row names another    *)
(* (triple.py invalidate_triple, supersede_triple and create_triple).      *)
TypeOK ==
  /\ row \in [Facts -> Rows]
  /\ held \in [Callers -> Names \cup {NoOne}]
  /\ copy \in [Callers -> Rows]
  /\ phase \in [Workers -> {"idle", "mapped", "deleting"}]
  /\ rule \in [Workers -> Rules \cup {NoOne}]
  /\ candidates \in [Workers -> SUBSET Facts]
  /\ doomed \in [Workers -> SUBSET Names]
  /\ requests \in 0..MaxRequests
  /\ \A f \in Facts : row[f].invalidatedBy # NoOne => row[f].state = "invalidated"

(* A fact that a caller asserted and that was then retracted or superseded *)
(* does not come back, neither through another assertion nor because a     *)
(* rule still concludes it: its row keeps the slot until it is deleted     *)
(* (upsert_triple, _existing).                                             *)
Retracted(f) == row[f].state = "invalidated" /\ row[f].derivedBy = NoOne
RetractionStands == [][\A f \in Facts : Retracted(f) => row'[f].state # "live"]_vars

(* Who superseded a row is not forgotten: the row names the successor last *)
(* minted for it as long as that exists, also when a retraction that was   *)
(* decided on an older copy is written later (supersede_triple against     *)
(* invalidate_triple).                                                     *)
HeirIsNamed ==
  \A f \in Facts :
    (Present(f) /\ heir[f] # NoOne /\ Stands(heir[f]))
      => row[f].state = "invalidated" /\ row[f].invalidatedBy = heir[f]

(* What carries a rule's identity was concluded by the last run of the     *)
(* rule, or by one that was committed beside it, after its DELETE had      *)
(* looked: however runs of one rule overlap, are cut off or tried again,   *)
(* and whatever became of its rows, nothing older stays, and the next run  *)
(* that has the rule to itself clears it all (apply_derivation: "WHERE     *)
(* derived_by = :rule is a complete description of one rule's output").    *)
OutputIsConcluded ==
  \A f \in Facts :
    (Present(f) /\ row[f].derivedBy \in Rules) => f \in concluded[row[f].derivedBy]

(* A run that nobody disturbed leaves exactly what its rule concludes from *)
(* the facts that are asserted now, live, less what others hold: it does   *)
(* not depend on what earlier runs left, on derived facts, or on what      *)
(* happened to its own rows meanwhile (run_derive_rule: a retry converges).*)
RunConverges ==
  fresh # NoOne =>
    \A f \in Facts :
      LET due == f \in Expansion(fresh, DataGraph)
          others == Present(f) /\ row[f].derivedBy # fresh
      IN  IF due /\ ~others THEN row[f].state = "live" /\ row[f].derivedBy = fresh
          ELSE Present(f) => row[f].derivedBy # fresh

(* The docstring of TripleService.supersede_triple: concurrent             *)
(* supersessions of one triple do not fork the version chain.              *)
OneSuccessor ==
  \A f, g \in Facts :
    (/\ row[f].state = "live" /\ row[g].state = "live"
     /\ origin[f] # NoOne /\ origin[f] = origin[g])
      => f = g
=============================================================================
