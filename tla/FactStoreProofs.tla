-------------------------- MODULE FactStoreProofs --------------------------
(***************************************************************************)
(* What FactStore's runs check on three facts, for any number of facts,    *)
(* rules, callers and workers. The argument rests on generations: a step   *)
(* that writes a row anew raises its generation, so that a name loaded or  *)
(* doomed earlier never comes to denote somebody else's row.               *)
(***************************************************************************)
EXTENDS FactStore, TLAPS

(* The history variables are of their types, and a copy has the shape of a *)
(* row.                                                                    *)
HistoryOK ==
  /\ origin \in [Facts -> Names \cup {NoOne}]
  /\ heir \in [Facts -> Names \cup {NoOne}]
  /\ alone \subseteq Workers
  /\ beside \in [Workers -> SUBSET Facts]
  /\ fresh \in Rules \cup {NoOne}
  /\ concluded \in [Rules -> SUBSET Facts]
  /\ \A c \in Callers : copy[c].invalidatedBy # NoOne => copy[c].state = "invalidated"
  /\ \A w \in Workers : phase[w] # "idle" => rule[w] \in Rules

Types == TypeOK /\ HistoryOK

-----------------------------------------------------------------------------
(* Operators.                                                              *)

LEMMA NoOneIsNoName == NoOne \notin Names /\ NoOne \notin Rules
  BY NoOneAssumption, BoundAssumption DEF Names

LEMMA NameIsName ==
  ASSUME TypeOK, NEW f \in Facts
  PROVE  /\ NameOf(f) \in Names
         /\ NameOf(f)[1] = f /\ NameOf(f)[2] = row[f].generation
         /\ row[f].generation \in 0..MaxGeneration
  BY DEF TypeOK, Rows, NameOf, Names

(* A row written anew is of its type, and a generation later.              *)
LEMMA WrittenIsRow ==
  ASSUME TypeOK, NEW f \in Facts, NEW by \in Rules \cup {NoOne}, Writable(f)
  PROVE  /\ Written(f, by) \in Rows
         /\ Written(f, by).state = "live"
         /\ Written(f, by).derivedBy = by
         /\ Written(f, by).invalidatedBy = NoOne
         /\ Written(f, by).generation = row[f].generation + 1
  <1>1. row[f].generation \in 0..MaxGeneration /\ row[f].generation < MaxGeneration
    BY NameIsName DEF Writable
  <1>2. row[f].generation + 1 \in 0..MaxGeneration
    BY <1>1, BoundAssumption
  <1> QED  BY <1>2 DEF Written, Rows

(* What a flush leaves of a row.                                           *)
LEMMA InvalidatedIsRow ==
  ASSUME NEW r \in Rows, NEW loaded \in Rows, NEW by \in Names \cup {NoOne}
  PROVE  /\ Invalidated(r, loaded, by) \in Rows
         /\ Invalidated(r, loaded, by).state = "invalidated"
         /\ Invalidated(r, loaded, by).derivedBy = r.derivedBy
         /\ Invalidated(r, loaded, by).generation = r.generation
         /\ by # loaded.invalidatedBy => Invalidated(r, loaded, by).invalidatedBy = by
         /\ by = loaded.invalidatedBy
              => Invalidated(r, loaded, by).invalidatedBy = r.invalidatedBy
  BY DEF Invalidated, Rows

(* The table after a deletion.                                             *)
LEMMA WithoutIsTable ==
  ASSUME TypeOK, NEW S \in SUBSET Facts
  PROVE  /\ Without(S) \in [Facts -> Rows]
         /\ \A f \in S : /\ Without(S)[f].state = "absent"
                         /\ Without(S)[f].derivedBy = NoOne
                         /\ Without(S)[f].invalidatedBy = NoOne
         /\ \A f \in Facts : Without(S)[f].generation = row[f].generation
         /\ \A f \in Facts \ S :
              /\ Without(S)[f].state = row[f].state
              /\ Without(S)[f].derivedBy = row[f].derivedBy
              /\ Without(S)[f].invalidatedBy =
                   IF row[f].invalidatedBy \in {NameOf(g) : g \in S}
                   THEN NoOne ELSE row[f].invalidatedBy
  <1>1. ASSUME NEW f \in S
        PROVE  /\ Without(S)[f] \in Rows /\ Without(S)[f].state = "absent"
               /\ Without(S)[f].derivedBy = NoOne
               /\ Without(S)[f].invalidatedBy = NoOne
               /\ Without(S)[f].generation = row[f].generation
    <2>1. Without(S)[f] = [NeverWritten EXCEPT !.generation = row[f].generation]
      BY <1>1 DEF Without
    <2> QED  BY <2>1, NameIsName DEF NeverWritten, Rows
  <1>2. ASSUME NEW f \in Facts \ S
        PROVE  /\ Without(S)[f] \in Rows
               /\ Without(S)[f].state = row[f].state
               /\ Without(S)[f].derivedBy = row[f].derivedBy
               /\ Without(S)[f].generation = row[f].generation
               /\ Without(S)[f].invalidatedBy =
                    IF row[f].invalidatedBy \in {NameOf(g) : g \in S}
                    THEN NoOne ELSE row[f].invalidatedBy
    <2>1. row[f] \in Rows
      BY DEF TypeOK
    <2>2. Without(S)[f] = IF row[f].invalidatedBy \in {NameOf(g) : g \in S}
                          THEN [row[f] EXCEPT !.invalidatedBy = NoOne] ELSE row[f]
      BY <1>2 DEF Without
    <2>3. CASE row[f].invalidatedBy \in {NameOf(g) : g \in S}
      BY <2>1, <2>2, <2>3 DEF Rows
    <2>4. CASE row[f].invalidatedBy \notin {NameOf(g) : g \in S}
      BY <2>1, <2>2, <2>4
    <2> QED  BY <2>3, <2>4
  <1>3. Without(S) \in [Facts -> Rows]
    BY <1>1, <1>2 DEF Without
  <1> QED  BY <1>1, <1>2, <1>3

-----------------------------------------------------------------------------
(* Types.                                                                  *)

(* A caller's write leaves the runs alone.                                 *)
LEMMA TypesKept == Types /\ [Next]_vars => Types'
  <1> SUFFICES ASSUME Types, [Next]_vars PROVE Types'
    OBVIOUS
  <1> USE DEF Types
  <1>0. TypeOK /\ HistoryOK /\ NoOne \notin Names
    BY NoOneIsNoName
  <1>1. NeverWritten \in Rows
    BY BoundAssumption DEF NeverWritten, Rows
  <1>r. ASSUME Request PROVE requests' \in 0..MaxRequests
    BY <1>r, BoundAssumption DEF Request, TypeOK
  <1>2. ASSUME NEW f \in Facts, AssertFact(f) PROVE Types'
    <2>1. Written(f, NoOne) \in Rows /\ Written(f, NoOne).invalidatedBy = NoOne
      BY <1>2, WrittenIsRow DEF AssertFact
    <2>2. row' \in [Facts -> Rows]
          /\ \A g \in Facts : row'[g].invalidatedBy # NoOne => row'[g].state = "invalidated"
      BY <1>2, <2>1 DEF AssertFact, TypeOK
    <2> QED
      BY <1>r, <1>2, <2>2 DEF AssertFact, Disturb, sessions, runs, TypeOK, HistoryOK
  <1>3. ASSUME NEW c \in Callers, NEW f \in Facts, Load(c, f) PROVE Types'
    <2>1. NameOf(f) \in Names /\ row[f] \in Rows
      BY NameIsName DEF TypeOK
    <2> QED
      BY <1>r, <1>3, <2>1 DEF Load, table, runs, history, TypeOK, HistoryOK
  <1>4. ASSUME NEW c \in Callers, GiveUp(c) PROVE Types'
    BY <1>1, <1>4 DEF GiveUp, Release, table, runs, history, TypeOK, HistoryOK, NeverWritten
  <1>5. ASSUME NEW c \in Callers, NEW g \in Facts, Supersede(c, g) PROVE Types'
    <2> DEFINE f == held[c][1]
               minted == <<g, row[g].generation + 1>>
    <2>1. held[c] \in Names /\ f \in Facts /\ copy[c] \in Rows /\ row[f] \in Rows
      BY <1>5 DEF Supersede, TypeOK, Names
    <2>2. row[g].generation + 1 \in 0..MaxGeneration
      BY <1>5, NameIsName, BoundAssumption DEF Supersede, Writable
    <2>3. minted \in Names
      BY <2>2 DEF Names
    <2>4. /\ Written(g, NoOne) \in Rows /\ Written(g, NoOne).invalidatedBy = NoOne
          /\ Invalidated(row[f], copy[c], minted) \in Rows
          /\ Invalidated(row[f], copy[c], minted).state = "invalidated"
      <3>1. Written(g, NoOne) \in Rows /\ Written(g, NoOne).invalidatedBy = NoOne
        BY <1>5, WrittenIsRow DEF Supersede
      <3> HIDE DEF minted, f
      <3> QED  BY <2>1, <2>3, <3>1, InvalidatedIsRow
    <2>5. row' \in [Facts -> Rows]
          /\ \A h \in Facts : row'[h].invalidatedBy # NoOne => row'[h].state = "invalidated"
      BY <1>5, <2>1, <2>4 DEF Supersede, TypeOK
    <2>6. held' \in [Callers -> Names \cup {NoOne}] /\ copy' \in [Callers -> Rows]
          /\ \A d \in Callers : copy'[d].invalidatedBy # NoOne => copy'[d].state = "invalidated"
      BY <1>1, <1>5 DEF Supersede, Release, TypeOK, HistoryOK, NeverWritten
    <2>7. origin' \in [Facts -> Names \cup {NoOne}] /\ heir' \in [Facts -> Names \cup {NoOne}]
      BY <1>5, <2>1, <2>3 DEF Supersede, HistoryOK
    <2> QED
      BY <1>5, <2>5, <2>6, <2>7 DEF Supersede, Disturb, runs, TypeOK, HistoryOK
  <1>6. ASSUME NEW c \in Callers, NEW by \in {NameOf(f) : f \in Facts} \cup {NoOne},
               Invalidate(c, by)
        PROVE  Types'
    <2> DEFINE f == held[c][1]
    <2>1. held[c] \in Names /\ f \in Facts /\ copy[c] \in Rows /\ row[f] \in Rows
      BY <1>6 DEF Invalidate, TypeOK, Names
    <2>2. by \in Names \cup {NoOne}
      BY NameIsName
    <2>3. /\ Invalidated(row[f], copy[c], by) \in Rows
          /\ Invalidated(row[f], copy[c], by).state = "invalidated"
      BY <2>1, <2>2, InvalidatedIsRow
    <2>4. row' \in [Facts -> Rows]
          /\ \A h \in Facts : row'[h].invalidatedBy # NoOne => row'[h].state = "invalidated"
      BY <1>6, <2>1, <2>3 DEF Invalidate, TypeOK
    <2>5. held' \in [Callers -> Names \cup {NoOne}] /\ copy' \in [Callers -> Rows]
          /\ \A d \in Callers : copy'[d].invalidatedBy # NoOne => copy'[d].state = "invalidated"
      BY <1>1, <1>6 DEF Invalidate, Release, TypeOK, HistoryOK, NeverWritten
    <2>6. heir' \in [Facts -> Names \cup {NoOne}]
      BY <1>6, <2>1 DEF Invalidate, HistoryOK
    <2> QED
      BY <1>6, <2>4, <2>5, <2>6 DEF Invalidate, Disturb, runs, TypeOK, HistoryOK
  <1>7. ASSUME NEW S \in SUBSET Facts, Delete(S) PROVE Types'
    <2>1. {f \in S : Present(f)} \in SUBSET Facts
      OBVIOUS
    <2>2. row' \in [Facts -> Rows]
          /\ \A h \in Facts : row'[h].invalidatedBy # NoOne => row'[h].state = "invalidated"
      BY <1>7, <2>1, WithoutIsTable DEF Delete, TypeOK
    <2> QED
      BY <1>r, <1>7, <2>2 DEF Delete, Disturb, sessions, runs, TypeOK, HistoryOK
  <1>8. ASSUME NEW w \in Workers, NEW r \in Rules, RunRules(w, r) PROVE Types'
    <2>1. Expansion(r, DataGraph) \in SUBSET Facts
      BY DEF Expansion
    <2> QED
      BY <1>8, <2>1 DEF RunRules, table, sessions, TypeOK, HistoryOK
  <1>9. ASSUME NEW w \in Workers, DeleteOutput(w) PROVE Types'
    <2>1. Output(rule[w]) \in SUBSET Names
      BY NameIsName DEF Output
    <2> QED
      BY <1>9, <2>1 DEF DeleteOutput, table, sessions, history, TypeOK, HistoryOK
  <1>10. ASSUME NEW w \in Workers, ApplyDerivation(w) PROVE Types'
    <2> DEFINE gone == {f \in Facts : Present(f) /\ NameOf(f) \in doomed[w]}
               new == {f \in candidates[w] : f \in gone \/ Vacant(f)}
    <2>1. rule[w] \in Rules /\ candidates[w] \in SUBSET Facts
      BY <1>10 DEF ApplyDerivation, TypeOK, HistoryOK
    <2>2. \A f \in new : f \in Facts /\ Written(f, rule[w]) \in Rows
                         /\ Written(f, rule[w]).invalidatedBy = NoOne
      BY <1>10, <2>1, WrittenIsRow DEF ApplyDerivation
    <2>3. /\ Without(gone) \in [Facts -> Rows]
          /\ \A h \in Facts : Without(gone)[h].invalidatedBy # NoOne
                                => Without(gone)[h].state = "invalidated"
      BY WithoutIsTable DEF TypeOK
    <2>4. row' = [f \in Facts |-> IF f \in new THEN Written(f, rule[w]) ELSE Without(gone)[f]]
      BY <1>10 DEF ApplyDerivation
    <2> HIDE DEF new, gone
    <2>5. row' \in [Facts -> Rows]
          /\ \A h \in Facts : row'[h].invalidatedBy # NoOne => row'[h].state = "invalidated"
      BY <2>2, <2>3, <2>4
    <2>6. /\ origin' \in [Facts -> Names \cup {NoOne}] /\ heir' \in [Facts -> Names \cup {NoOne}]
      BY <1>10 DEF ApplyDerivation, HistoryOK
    <2>7. /\ concluded' \in [Rules -> SUBSET Facts] /\ beside' \in [Workers -> SUBSET Facts]
          /\ fresh' \in Rules \cup {NoOne}
      BY <1>10, <2>1 DEF ApplyDerivation, HistoryOK
    <2> QED
      BY <1>10, <2>5, <2>6, <2>7 DEF ApplyDerivation, EndRun, sessions, TypeOK, HistoryOK
  <1>11. ASSUME NEW w \in Workers, AbandonRun(w) PROVE Types'
    BY <1>11 DEF AbandonRun, EndRun, table, sessions, TypeOK, HistoryOK
  <1>12. CASE UNCHANGED vars
    BY <1>12 DEF vars, table, sessions, runs, history, TypeOK, HistoryOK
  <1>13. CASE CallerStep
    BY <1>2, <1>3, <1>4, <1>5, <1>6, <1>7, <1>13, FamiliesAssumption DEF CallerStep
  <1>14. CASE WorkerStep
    BY <1>8, <1>9, <1>10, <1>11, <1>14 DEF WorkerStep
  <1> QED  BY <1>12, <1>13, <1>14 DEF Next

(* Every variable stays in its set, and only an invalidated row names the  *)
(* one that invalidated it.                                                *)
THEOREM TypeCorrect == Spec => []TypeOK
  <1>1. Init => Types
    BY BoundAssumption DEF Init, Types, TypeOK, HistoryOK, NeverWritten, Rows
  <1> QED  BY <1>1, TypesKept, PTL DEF Spec, Types

-----------------------------------------------------------------------------
(* What a step does to the table.                                          *)

(* ApplyDerivation, row by row.                                            *)
LEMMA DerivationOnRows ==
  ASSUME Types, NEW w \in Workers, ApplyDerivation(w), NEW f \in Facts
  PROVE  LET gone == Present(f) /\ NameOf(f) \in doomed[w]
             new == f \in candidates[w] /\ (gone \/ Vacant(f))
         IN  /\ new => /\ row'[f].state = "live" /\ row'[f].derivedBy = rule[w]
                       /\ row'[f].generation = row[f].generation + 1
                       /\ heir'[f] = NoOne
             /\ ~new => /\ row'[f].generation = row[f].generation
                        /\ heir'[f] = heir[f]
             /\ ~new /\ gone => row'[f].state = "absent"
             /\ ~new /\ ~gone =>
                  /\ row'[f].state = row[f].state /\ row'[f].derivedBy = row[f].derivedBy
                  /\ \/ row'[f].invalidatedBy = row[f].invalidatedBy
                     \/ \E g \in Facts : /\ row[f].invalidatedBy = NameOf(g)
                                         /\ Present(g) /\ NameOf(g) \in doomed[w]
  <1> DEFINE Gone == {g \in Facts : Present(g) /\ NameOf(g) \in doomed[w]}
             New == {g \in candidates[w] : g \in Gone \/ Vacant(g)}
  <1>1. row' = [g \in Facts |-> IF g \in New THEN Written(g, rule[w]) ELSE Without(Gone)[g]]
        /\ heir' = [g \in Facts |-> IF g \in New THEN NoOne ELSE heir[g]]
        /\ \A g \in New : Writable(g)
    BY DEF ApplyDerivation
  <1>2. rule[w] \in Rules
    BY DEF ApplyDerivation, Types, HistoryOK
  <1>3. Gone \in SUBSET Facts
    OBVIOUS
  <1>4. f \in Gone <=> Present(f) /\ NameOf(f) \in doomed[w]
    OBVIOUS
  <1>5. f \in New <=> f \in candidates[w] /\ (f \in Gone \/ Vacant(f))
    OBVIOUS
  <1>6. CASE f \in New
    <2>1. Writable(f)
      BY <1>1, <1>6
    <2>2. row'[f] = Written(f, rule[w]) /\ heir'[f] = NoOne
      BY <1>1, <1>6
    <2> HIDE DEF New, Gone
    <2>3. /\ row'[f].state = "live" /\ row'[f].derivedBy = rule[w]
          /\ row'[f].generation = row[f].generation + 1
      BY <1>2, <2>1, <2>2, WrittenIsRow DEF Types
    <2> QED  BY <1>4, <1>5, <1>6, <2>2, <2>3
  <1>7. CASE f \notin New
    <2>1. row'[f] = Without(Gone)[f] /\ heir'[f] = heir[f]
      BY <1>1, <1>7
    <2>2. \A g \in Gone : g \in Facts /\ Present(g) /\ NameOf(g) \in doomed[w]
      OBVIOUS
    <2> HIDE DEF New, Gone
    <2>3. row'[f].generation = row[f].generation
      BY <1>3, <2>1, WithoutIsTable DEF Types
    <2>4. f \in Gone => row'[f].state = "absent"
      BY <1>3, <2>1, WithoutIsTable DEF Types
    <2>5. f \notin Gone =>
            /\ row'[f].state = row[f].state /\ row'[f].derivedBy = row[f].derivedBy
            /\ row'[f].invalidatedBy =
                 IF row[f].invalidatedBy \in {NameOf(g) : g \in Gone}
                 THEN NoOne ELSE row[f].invalidatedBy
      BY <1>3, <2>1, WithoutIsTable DEF Types
    <2>6. f \notin Gone =>
            \/ row'[f].invalidatedBy = row[f].invalidatedBy
            \/ \E g \in Facts : /\ row[f].invalidatedBy = NameOf(g)
                                /\ Present(g) /\ NameOf(g) \in doomed[w]
      BY <2>2, <2>5
    <2> QED  BY <1>4, <1>5, <1>7, <2>1, <2>3, <2>4, <2>5, <2>6
  <1> QED  BY <1>6, <1>7

(* Delete, row by row.                                                     *)
LEMMA DeletionOnRows ==
  ASSUME Types, NEW S \in SUBSET Facts, Delete(S), NEW f \in Facts
  PROVE  /\ row'[f].generation = row[f].generation
         /\ f \in S => row'[f].state = "absent"
         /\ f \notin S =>
              /\ row'[f].state = row[f].state /\ row'[f].derivedBy = row[f].derivedBy
              /\ \/ row'[f].invalidatedBy = row[f].invalidatedBy
                 \/ \E g \in S : row[f].invalidatedBy = NameOf(g)
  <1> DEFINE Gone == {g \in S : Present(g)}
  <1>1. row' = Without(Gone) /\ Gone \in SUBSET Facts
    BY DEF Delete
  <1>2. \A g \in Gone : g \in S
    OBVIOUS
  <1>3. f \in S => f \in Gone \/ row[f].state = "absent"
    BY DEF Present
  <1>4. f \notin S => f \notin Gone
    OBVIOUS
  <1> HIDE DEF Gone
  <1>5. row'[f].generation = row[f].generation
    BY <1>1, WithoutIsTable DEF Types
  <1>6. f \in Gone => row'[f].state = "absent"
    BY <1>1, WithoutIsTable DEF Types
  <1>7. f \notin Gone =>
          /\ row'[f].state = row[f].state /\ row'[f].derivedBy = row[f].derivedBy
          /\ row'[f].invalidatedBy =
               IF row[f].invalidatedBy \in {NameOf(g) : g \in Gone}
               THEN NoOne ELSE row[f].invalidatedBy
    BY <1>1, WithoutIsTable DEF Types
  <1>8. f \notin Gone =>
          \/ row'[f].invalidatedBy = row[f].invalidatedBy
          \/ \E g \in S : row[f].invalidatedBy = NameOf(g)
    BY <1>2, <1>7
  <1> QED  BY <1>3, <1>4, <1>5, <1>6, <1>7, <1>8

(* A supersession, row by row.                                             *)
LEMMA SupersessionOnRows ==
  ASSUME Types, NEW c \in Callers, NEW g \in Facts, Supersede(c, g)
  PROVE  \E f \in Facts :
           /\ f = held[c][1] /\ f # g /\ NameOf(f) = held[c] /\ Present(f) /\ Vacant(g)
           /\ <<g, row[g].generation + 1>> \in Names
           /\ row'[g].state = "live" /\ row'[g].derivedBy = NoOne
           /\ row'[g].generation = row[g].generation + 1
           /\ row'[f].state = "invalidated"
           /\ row'[f].invalidatedBy = <<g, row[g].generation + 1>>
           /\ row'[f].derivedBy = row[f].derivedBy
           /\ row'[f].generation = row[f].generation
           /\ \A h \in Facts \ {f, g} : row'[h] = row[h]
  <1> DEFINE f == held[c][1]
             minted == <<g, row[g].generation + 1>>
  <1>1. held[c] \in Names /\ f \in Facts /\ copy[c] \in Rows /\ row \in [Facts -> Rows]
    BY DEF Supersede, Types, TypeOK, Names
  <1>2. Present(f) /\ row[f].generation = held[c][2] /\ Vacant(g) /\ Writable(g)
    BY DEF Supersede, Stands
  <1>3. f # g /\ NameOf(f) = held[c]
    BY <1>1, <1>2 DEF Present, Vacant, NameOf, Names
  <1>4. row[g].generation + 1 \in 0..MaxGeneration
    BY <1>2, NameIsName, BoundAssumption DEF Writable, Types
  <1>5. minted \in Names
    BY <1>4 DEF Names
  <1>6. copy[c].invalidatedBy = NoOne
    BY DEF Supersede, StillLive, Types, HistoryOK
  <1>7. minted # copy[c].invalidatedBy
    BY <1>5, <1>6, NoOneIsNoName
  <1>8. row' = [row EXCEPT ![g] = Written(g, NoOne),
                           ![f] = Invalidated(row[f], copy[c], minted)]
    BY DEF Supersede
  <1>9. /\ row'[g] = Written(g, NoOne)
        /\ row'[f] = Invalidated(row[f], copy[c], minted)
        /\ \A h \in Facts \ {f, g} : row'[h] = row[h]
    BY <1>1, <1>3, <1>8
  <1>10. /\ Written(g, NoOne).state = "live" /\ Written(g, NoOne).derivedBy = NoOne
         /\ Written(g, NoOne).generation = row[g].generation + 1
    BY <1>2, WrittenIsRow DEF Types
  <1> HIDE DEF f, minted
  <1>a. row[f] \in Rows /\ copy[c] \in Rows /\ minted \in Names \cup {NoOne}
    BY <1>1, <1>5
  <1>11. /\ row'[f].state = "invalidated" /\ row'[f].invalidatedBy = minted
         /\ row'[f].derivedBy = row[f].derivedBy
         /\ row'[f].generation = row[f].generation
    <2>1. LET r == Invalidated(row[f], copy[c], minted)
          IN  /\ r.state = "invalidated" /\ r.invalidatedBy = minted
              /\ r.derivedBy = row[f].derivedBy
              /\ r.generation = row[f].generation
      BY <1>a, <1>7, InvalidatedIsRow
    <2> QED  BY <1>9, <2>1
  <1> USE DEF f, minted
  <1> QED  BY <1>1, <1>2, <1>3, <1>5, <1>9, <1>10, <1>11

(* A retraction, row by row.                                               *)
LEMMA RetractionOnRows ==
  ASSUME Types, NEW c \in Callers, NEW by \in {NameOf(f) : f \in Facts} \cup {NoOne},
         Invalidate(c, by)
  PROVE  LET f == held[c][1]
         IN  /\ f \in Facts /\ Present(f)
             /\ row'[f].state = "invalidated"
             /\ row'[f].derivedBy = row[f].derivedBy
             /\ row'[f].generation = row[f].generation
             /\ by = copy[c].invalidatedBy => row'[f].invalidatedBy = row[f].invalidatedBy
             /\ \A h \in Facts \ {f} : row'[h] = row[h]
  <1> DEFINE f == held[c][1]
  <1>1. held[c] \in Names /\ f \in Facts /\ copy[c] \in Rows /\ row \in [Facts -> Rows]
        /\ by \in Names \cup {NoOne}
    BY NameIsName DEF Invalidate, Types, TypeOK, Names
  <1>2. Present(f)
    BY DEF Invalidate, Stands
  <1>3. row'[f] = Invalidated(row[f], copy[c], by)
        /\ \A h \in Facts \ {f} : row'[h] = row[h]
    BY <1>1 DEF Invalidate
  <1> HIDE DEF f
  <1>4. /\ row'[f].state = "invalidated"
        /\ row'[f].derivedBy = row[f].derivedBy
        /\ row'[f].generation = row[f].generation
        /\ by = copy[c].invalidatedBy => row'[f].invalidatedBy = row[f].invalidatedBy
    <2>1. row[f] \in Rows /\ copy[c] \in Rows /\ by \in Names \cup {NoOne}
      BY <1>1
    <2>2. LET r == Invalidated(row[f], copy[c], by)
          IN  /\ r.state = "invalidated"
              /\ r.derivedBy = row[f].derivedBy
              /\ r.generation = row[f].generation
              /\ by = copy[c].invalidatedBy => r.invalidatedBy = row[f].invalidatedBy
      BY <2>1, InvalidatedIsRow
    <2> QED  BY <1>3, <2>2
  <1> USE DEF f
  <1> QED  BY <1>1, <1>2, <1>3, <1>4

(* An assertion, row by row.                                               *)
LEMMA AssertionOnRows ==
  ASSUME Types, NEW f \in Facts, AssertFact(f)
  PROVE  /\ Vacant(f)
         /\ row'[f].state = "live" /\ row'[f].derivedBy = NoOne
         /\ row'[f].generation = row[f].generation + 1
         /\ \A h \in Facts \ {f} : row'[h] = row[h]
  <1>1. Vacant(f) /\ Writable(f) /\ row \in [Facts -> Rows]
    BY DEF AssertFact, Types, TypeOK
  <1>2. row'[f] = Written(f, NoOne) /\ \A h \in Facts \ {f} : row'[h] = row[h]
    BY <1>1 DEF AssertFact
  <1> QED  BY <1>1, <1>2, WrittenIsRow DEF Types

-----------------------------------------------------------------------------
(* Names do not come to denote another row.                                *)

(* The steps that leave the table alone.                                   *)
Silent ==
  \/ \E c \in Callers : GiveUp(c) \/ \E f \in Facts : Load(c, f)
  \/ \E w \in Workers : DeleteOutput(w) \/ AbandonRun(w) \/ \E r \in Rules : RunRules(w, r)

LEMMA SilentKeepsRows == Silent => row' = row /\ heir' = heir /\ origin' = origin
  BY DEF Silent, GiveUp, Load, DeleteOutput, AbandonRun, RunRules, table, history

(* Next, with the callers' writes and the runs' apart.                     *)
LEMMA StepKinds ==
  ASSUME [Next]_vars
  PROVE  \/ UNCHANGED vars
         \/ Silent
         \/ \E f \in Facts : AssertFact(f)
         \/ \E S \in SUBSET Facts : Delete(S)
         \/ \E c \in Callers, g \in Facts : Supersede(c, g)
         \/ \E c \in Callers, by \in {NameOf(f) : f \in Facts} \cup {NoOne} : Invalidate(c, by)
         \/ \E w \in Workers : ApplyDerivation(w)
  <1>1. \A f \in Facts : {f} \in SUBSET Facts
    OBVIOUS
  <1> QED  BY <1>1, FamiliesAssumption DEF Next, CallerStep, WorkerStep, Silent

(* A row's generation never falls, and a row that keeps it keeps its       *)
(* author, unless it is deleted.                                           *)
LEMMA Generations ==
  ASSUME Types, [Next]_vars, NEW f \in Facts
  PROVE  /\ row[f].generation \in Nat /\ row'[f].generation \in Nat
         /\ row[f].generation <= row'[f].generation
         /\ (Present(f)' /\ row'[f].generation = row[f].generation)
              => Present(f) /\ row'[f].derivedBy = row[f].derivedBy
         /\ ~Present(f) /\ Present(f)' => row'[f].generation = row[f].generation + 1
  <1>0. row[f].generation \in Nat /\ row'[f].generation \in Nat
    BY TypesKept, BoundAssumption DEF Types, TypeOK, Rows
  <1>1. CASE UNCHANGED vars \/ Silent
    BY <1>0, <1>1, SilentKeepsRows DEF vars, table, Present
  <1>2. CASE \E g \in Facts : AssertFact(g)
    BY <1>0, <1>2, AssertionOnRows DEF Present, Vacant
  <1>3. CASE \E S \in SUBSET Facts : Delete(S)
    BY <1>0, <1>3, DeletionOnRows DEF Present
  <1>4. ASSUME NEW c \in Callers, NEW g \in Facts, Supersede(c, g)
        PROVE  /\ row[f].generation <= row'[f].generation
               /\ (Present(f)' /\ row'[f].generation = row[f].generation)
                    => Present(f) /\ row'[f].derivedBy = row[f].derivedBy
               /\ ~Present(f) /\ Present(f)' => row'[f].generation = row[f].generation + 1
    <2>1. PICK h \in Facts :
            /\ h = held[c][1] /\ h # g /\ NameOf(h) = held[c] /\ Present(h) /\ Vacant(g)
            /\ <<g, row[g].generation + 1>> \in Names
            /\ row'[g].state = "live" /\ row'[g].derivedBy = NoOne
            /\ row'[g].generation = row[g].generation + 1
            /\ row'[h].state = "invalidated"
            /\ row'[h].invalidatedBy = <<g, row[g].generation + 1>>
            /\ row'[h].derivedBy = row[h].derivedBy
            /\ row'[h].generation = row[h].generation
            /\ \A k \in Facts \ {h, g} : row'[k] = row[k]
      BY <1>4, SupersessionOnRows
    <2>2. CASE f \notin {h, g}
      BY <1>0, <2>1, <2>2 DEF Present
    <2>3. CASE f \in {h, g}
      BY <1>0, <2>1, <2>3
    <2> QED  BY <2>2, <2>3
  <1>5. CASE \E c \in Callers, by \in {NameOf(g) : g \in Facts} \cup {NoOne} : Invalidate(c, by)
    BY <1>0, <1>5, RetractionOnRows DEF Present
  <1>6. CASE \E w \in Workers : ApplyDerivation(w)
    BY <1>0, <1>6, DerivationOnRows DEF Present, Vacant
  <1> QED  BY <1>0, <1>1, <1>2, <1>3, <1>4, <1>5, <1>6, StepKinds

(* What a run's DELETE saw was its rule's, and still is where it stands.   *)
DoomedIsDerived ==
  \A w \in Workers :
    /\ phase[w] # "deleting" => doomed[w] = {}
    /\ \A f \in Facts : \A n \in doomed[w] : n[1] = f => n[2] <= row[f].generation
    /\ \A f \in Facts : Present(f) /\ NameOf(f) \in doomed[w] => row[f].derivedBy = rule[w]

LEMMA DoomedKept == Types /\ DoomedIsDerived /\ [Next]_vars => DoomedIsDerived'
  <1> SUFFICES ASSUME Types, DoomedIsDerived, [Next]_vars, NEW w \in Workers
               PROVE  /\ phase'[w] # "deleting" => doomed'[w] = {}
                      /\ \A f \in Facts : \A n \in doomed'[w] :
                           n[1] = f => n[2] <= row'[f].generation
                      /\ \A f \in Facts : Present(f)' /\ NameOf(f)' \in doomed'[w]
                           => row'[f].derivedBy = rule'[w]
    BY DEF DoomedIsDerived
  <1>1. CASE doomed'[w] = {}
    BY <1>1
  <1>2. CASE doomed'[w] = doomed[w] /\ rule'[w] = rule[w]
             /\ (phase'[w] # "deleting" => phase[w] # "deleting")
    <2>1. ASSUME NEW f \in Facts, NEW n \in doomed[w], n[1] = f
          PROVE  n[2] <= row'[f].generation
      <3>1. n[2] <= row[f].generation /\ n \in Names
        BY <2>1 DEF DoomedIsDerived, Types, TypeOK
      <3>2. n[2] \in Nat
        BY <3>1, BoundAssumption DEF Names
      <3> QED  BY <3>1, <3>2, Generations
    <2>2. ASSUME NEW f \in Facts, Present(f)', NameOf(f)' \in doomed[w]
          PROVE  row'[f].derivedBy = rule[w]
      <3>1. NameOf(f)' = <<f, row'[f].generation>>
        BY DEF NameOf
      <3>2. row'[f].generation <= row[f].generation
        BY <2>2, <3>1 DEF DoomedIsDerived
      <3>3. row'[f].generation = row[f].generation
        BY <3>2, Generations
      <3>4. Present(f) /\ row'[f].derivedBy = row[f].derivedBy /\ NameOf(f) \in doomed[w]
        BY <2>2, <3>1, <3>3, Generations DEF NameOf
      <3> QED  BY <3>4 DEF DoomedIsDerived
    <2> QED  BY <1>2, <2>1, <2>2 DEF DoomedIsDerived
  <1>3. ASSUME DeleteOutput(w)
        PROVE  /\ phase'[w] = "deleting"
               /\ \A f \in Facts : \A n \in doomed'[w] :
                    n[1] = f => n[2] <= row'[f].generation
               /\ \A f \in Facts : Present(f)' /\ NameOf(f)' \in doomed'[w]
                    => row'[f].derivedBy = rule'[w]
    <2>1. row' = row /\ rule' = rule /\ phase'[w] = "deleting" /\ doomed'[w] = Output(rule[w])
      BY <1>3 DEF DeleteOutput, table, Types, TypeOK
    <2>2. \A n \in Output(rule[w]) :
            \E g \in Facts : n = <<g, row[g].generation>> /\ row[g].derivedBy = rule[w]
      BY DEF Output, NameOf
    <2>3. \A f \in Facts : row[f].generation \in Nat
      BY Generations
    <2> QED  BY <2>1, <2>2, <2>3 DEF NameOf
  <1>4. \/ doomed'[w] = {}
        \/ DeleteOutput(w)
        \/ /\ doomed'[w] = doomed[w] /\ rule'[w] = rule[w]
           /\ (phase'[w] # "deleting" => phase[w] # "deleting")
        \/ phase[w] # "deleting" /\ doomed'[w] = doomed[w]
    <2>1. CASE CallerStep \/ UNCHANGED vars
      BY <2>1 DEF CallerStep, AssertFact, Load, GiveUp, Supersede, Invalidate, Delete, runs, vars
    <2>2. CASE WorkerStep
      BY <2>2 DEF WorkerStep, RunRules, DeleteOutput, ApplyDerivation, AbandonRun, EndRun,
                  Types, TypeOK
    <2> QED  BY <2>1, <2>2 DEF Next
  <1>5. CASE phase[w] # "deleting" /\ doomed'[w] = doomed[w]
    BY <1>1, <1>5 DEF DoomedIsDerived
  <1> QED  BY <1>1, <1>2, <1>3, <1>4, <1>5

(* A fact that was asserted and then retracted or superseded is not live   *)
(* again before its row was deleted.                                       *)
THEOREM RetractionsStand == Spec => RetractionStands
  <1>1. Init => Types /\ DoomedIsDerived
    BY BoundAssumption
       DEF Init, Types, TypeOK, HistoryOK, NeverWritten, Rows, DoomedIsDerived
  <1>2. Types /\ DoomedIsDerived /\ [Next]_vars => (Types /\ DoomedIsDerived)'
    BY TypesKept, DoomedKept
  <1>3. Types /\ DoomedIsDerived /\ [Next]_vars
          => [\A f \in Facts : Retracted(f) => row'[f].state # "live"]_vars
    <2> SUFFICES ASSUME Types, DoomedIsDerived, [Next]_vars, NEW f \in Facts, Retracted(f),
                        ~UNCHANGED vars
                 PROVE  row'[f].state # "live"
      OBVIOUS
    <2>0. row[f].state = "invalidated" /\ row[f].derivedBy = NoOne
      BY DEF Retracted
    <2>1. CASE Silent
      BY <2>0, <2>1, SilentKeepsRows
    <2>2. CASE \E g \in Facts : AssertFact(g)
      BY <2>0, <2>2, AssertionOnRows DEF Vacant
    <2>3. CASE \E S \in SUBSET Facts : Delete(S)
      BY <2>0, <2>3, DeletionOnRows
    <2>4. CASE \E c \in Callers, g \in Facts : Supersede(c, g)
      BY <2>0, <2>4, SupersessionOnRows DEF Vacant
    <2>5. CASE \E c \in Callers, by \in {NameOf(g) : g \in Facts} \cup {NoOne} : Invalidate(c, by)
      BY <2>0, <2>5, RetractionOnRows
    <2>6. ASSUME NEW w \in Workers, ApplyDerivation(w) PROVE row'[f].state # "live"
      <3>1. rule[w] \in Rules
        BY <2>6 DEF ApplyDerivation, Types, HistoryOK
      <3>2. ~(Present(f) /\ NameOf(f) \in doomed[w])
        BY <2>0, <3>1, NoOneIsNoName DEF DoomedIsDerived
      <3> QED  BY <2>0, <2>6, <3>2, DerivationOnRows DEF Vacant
    <2> QED  BY <2>1, <2>2, <2>3, <2>4, <2>5, <2>6, StepKinds
  <1> QED  BY <1>1, <1>2, <1>3, PTL DEF Spec, RetractionStands

-----------------------------------------------------------------------------
(* Heirs.                                                                  *)

HeirIsPast ==
  \A f, g \in Facts :
    heir[f] # NoOne /\ heir[f][1] = g => heir[f][2] <= row[g].generation

HeirInv == HeirIsPast /\ HeirIsNamed

(* A name that stands after the step and did not stand before was made by  *)
(* this step.                                                              *)
LEMMA StandsAgo ==
  ASSUME Types, [Next]_vars
  PROVE  \A n \in Names :
           (/\ n[2] <= row[n[1]].generation
            /\ row'[n[1]].state # "absent" /\ row'[n[1]].generation = n[2])
             => Stands(n)
  <1> SUFFICES ASSUME NEW n \in Names, n[2] <= row[n[1]].generation,
                      row'[n[1]].state # "absent", row'[n[1]].generation = n[2]
               PROVE  Stands(n)
    OBVIOUS
  <1>1. n[1] \in Facts /\ n[2] \in Nat
    BY BoundAssumption DEF Names
  <1>2. row'[n[1]].generation = row[n[1]].generation
    BY <1>1, Generations
  <1> QED  BY <1>1, <1>2, Generations DEF Stands, Present

LEMMA HeirIsPastKept == Types /\ HeirIsPast /\ [Next]_vars => HeirIsPast'
  <1> SUFFICES ASSUME Types, HeirIsPast, [Next]_vars, NEW f \in Facts, NEW g \in Facts,
                      heir'[f] # NoOne, heir'[f][1] = g
               PROVE  heir'[f][2] <= row'[g].generation
    BY DEF HeirIsPast
  <1>0. heir \in [Facts -> Names \cup {NoOne}] /\ row[g].generation \in Nat
        /\ row'[g].generation \in Nat /\ row[g].generation <= row'[g].generation
    BY Generations DEF Types, HistoryOK
  <1>1. CASE heir'[f] = heir[f]
    <2>1. heir[f] \in Names /\ heir[f][2] <= row[g].generation
      BY <1>0, <1>1 DEF HeirIsPast
    <2>2. heir[f][2] \in Nat
      BY <2>1, BoundAssumption DEF Names
    <2> QED  BY <1>0, <1>1, <2>1, <2>2
  <1>2. ASSUME NEW c \in Callers, NEW h \in Facts, Supersede(c, h), heir'[f] # heir[f]
        PROVE  heir'[f] = <<h, row'[h].generation>>
    BY <1>0, <1>2, SupersessionOnRows DEF Supersede
  <1>3. \/ heir'[f] = heir[f] \/ heir'[f] = NoOne
        \/ \E c \in Callers, h \in Facts : Supersede(c, h) /\ heir'[f] # heir[f]
    <2>1. CASE UNCHANGED vars \/ Silent
      BY <2>1, SilentKeepsRows DEF vars, history
    <2>2. CASE \E h \in Facts : AssertFact(h)
      BY <1>0, <2>2 DEF AssertFact
    <2>3. CASE \E S \in SUBSET Facts : Delete(S)
      BY <2>3 DEF Delete
    <2>4. CASE \E c \in Callers, h \in Facts : Supersede(c, h)
      BY <2>4
    <2>5. CASE \E c \in Callers, by \in {NameOf(h) : h \in Facts} \cup {NoOne} : Invalidate(c, by)
      BY <1>0, <2>5 DEF Invalidate
    <2>6. CASE \E w \in Workers : ApplyDerivation(w)
      BY <2>6, DerivationOnRows
    <2> QED  BY <2>1, <2>2, <2>3, <2>4, <2>5, <2>6, StepKinds
  <1> QED  BY <1>0, <1>1, <1>2, <1>3

LEMMA HeirIsNamedKept == Types /\ HeirInv /\ [Next]_vars => HeirIsNamed'
  <1> SUFFICES ASSUME Types, HeirIsPast, HeirIsNamed, [Next]_vars, NEW f \in Facts,
                      Present(f)', heir'[f] # NoOne,
                      row'[heir'[f][1]].state # "absent",
                      row'[heir'[f][1]].generation = heir'[f][2]
               PROVE  row'[f].state = "invalidated" /\ row'[f].invalidatedBy = heir'[f]
    BY DEF HeirInv, HeirIsNamed, Stands, Present
  <1>0. heir \in [Facts -> Names \cup {NoOne}] /\ heir' \in [Facts -> Names \cup {NoOne}]
        /\ row \in [Facts -> Rows] /\ heir'[f] \in Names
    BY TypesKept DEF Types, TypeOK, HistoryOK
  <1>1. ASSUME heir'[f] = heir[f]
        PROVE  Stands(heir[f]) /\ heir[f] # NoOne
    <2>1. heir[f][1] \in Facts /\ heir[f] \in Names
      BY <1>0, <1>1 DEF Names
    <2>2. heir[f][2] <= row[heir[f][1]].generation
      BY <1>1, <2>1 DEF HeirIsPast
    <2> QED  BY <1>1, <2>1, <2>2, StandsAgo
  <1>2. ASSUME heir'[f] = heir[f], Present(f)
        PROVE  row[f].state = "invalidated" /\ row[f].invalidatedBy = heir[f]
    BY <1>1, <1>2 DEF HeirIsNamed
  <1>3. ASSUME NEW g \in Facts, heir'[f] = heir[f], Present(f), row[f].invalidatedBy = NameOf(g)
        PROVE  row'[g].generation = row[g].generation /\ Present(g)'
    <2>1. heir'[f] = NameOf(g)
      BY <1>2, <1>3
    <2> QED  BY <2>1 DEF Present, NameOf
  <1>4. CASE UNCHANGED vars \/ Silent
    BY <1>2, <1>4, SilentKeepsRows DEF vars, table, history, Present
  <1>5. ASSUME NEW g \in Facts, AssertFact(g)
        PROVE  row'[f].state = "invalidated" /\ row'[f].invalidatedBy = heir'[f]
    <2>1. f # g /\ heir'[f] = heir[f]
      BY <1>0, <1>5 DEF AssertFact
    <2>2. row'[f] = row[f]
      BY <1>5, <2>1, AssertionOnRows
    <2> QED  BY <1>2, <2>1, <2>2 DEF Present
  <1>6. ASSUME NEW S \in SUBSET Facts, Delete(S)
        PROVE  row'[f].state = "invalidated" /\ row'[f].invalidatedBy = heir'[f]
    <2>1. heir'[f] = heir[f]
      BY <1>6 DEF Delete
    <2>2. f \notin S /\ row'[f].state = row[f].state /\ Present(f)
      BY <1>6, DeletionOnRows DEF Present
    <2>3. ASSUME NEW g \in S, row[f].invalidatedBy = NameOf(g) PROVE FALSE
      <3>1. Present(g)'
        BY <1>3, <2>1, <2>2, <2>3
      <3> QED  BY <1>6, <3>1, DeletionOnRows DEF Present
    <2>4. row'[f].invalidatedBy = row[f].invalidatedBy
      BY <1>6, <2>2, <2>3, DeletionOnRows
    <2> QED  BY <1>2, <2>1, <2>2, <2>4
  <1>7. ASSUME NEW c \in Callers, NEW g \in Facts, Supersede(c, g)
        PROVE  row'[f].state = "invalidated" /\ row'[f].invalidatedBy = heir'[f]
    <2>1. PICK h \in Facts :
            /\ h = held[c][1] /\ h # g /\ NameOf(h) = held[c] /\ Present(h) /\ Vacant(g)
            /\ <<g, row[g].generation + 1>> \in Names
            /\ row'[g].state = "live" /\ row'[g].derivedBy = NoOne
            /\ row'[g].generation = row[g].generation + 1
            /\ row'[h].state = "invalidated"
            /\ row'[h].invalidatedBy = <<g, row[g].generation + 1>>
            /\ row'[h].derivedBy = row[h].derivedBy
            /\ row'[h].generation = row[h].generation
            /\ \A k \in Facts \ {h, g} : row'[k] = row[k]
      BY <1>7, SupersessionOnRows
    <2>2. heir' = [heir EXCEPT ![h] = <<g, row[g].generation + 1>>, ![g] = NoOne]
      BY <1>7, <2>1 DEF Supersede
    <2>3. CASE f = h
      BY <1>0, <2>1, <2>2, <2>3
    <2>4. CASE f # h
      <3>1. f # g /\ heir'[f] = heir[f]
        BY <1>0, <2>1, <2>2, <2>4
      <3>2. row'[f] = row[f]
        BY <2>1, <2>4, <3>1
      <3> QED  BY <1>2, <3>1, <3>2 DEF Present
    <2> QED  BY <2>3, <2>4
  <1>8. ASSUME NEW c \in Callers, NEW by \in {NameOf(g) : g \in Facts} \cup {NoOne},
               Invalidate(c, by)
        PROVE  row'[f].state = "invalidated" /\ row'[f].invalidatedBy = heir'[f]
    <2> DEFINE h == held[c][1]
    <2>1. heir' = [heir EXCEPT ![h] = IF by = copy[c].invalidatedBy THEN @ ELSE NoOne]
      BY <1>8 DEF Invalidate
    <2>2. heir'[f] = heir[f] /\ (f = h => by = copy[c].invalidatedBy)
      BY <1>0, <2>1
    <2>3. CASE f = h
      <3>1. Present(f) /\ row'[f].state = "invalidated"
            /\ row'[f].invalidatedBy = row[f].invalidatedBy
        BY <1>8, <2>2, <2>3, RetractionOnRows
      <3> QED  BY <1>2, <2>2, <3>1
    <2>4. CASE f # h
      <3>1. row'[f] = row[f]
        BY <1>8, <2>4, RetractionOnRows
      <3> QED  BY <1>2, <2>2, <3>1 DEF Present
    <2> QED  BY <2>3, <2>4
  <1>9. ASSUME NEW w \in Workers, ApplyDerivation(w)
        PROVE  row'[f].state = "invalidated" /\ row'[f].invalidatedBy = heir'[f]
    <2> DEFINE gone(h) == Present(h) /\ NameOf(h) \in doomed[w]
               new(h) == h \in candidates[w] /\ (gone(h) \/ Vacant(h))
    <2>1. ~new(f) /\ heir'[f] = heir[f]
      BY <1>9, DerivationOnRows
    <2>2. ~gone(f) /\ row'[f].state = row[f].state /\ Present(f)
      BY <1>9, <2>1, DerivationOnRows DEF Present
    <2>3. ASSUME NEW g \in Facts, row[f].invalidatedBy = NameOf(g), gone(g) PROVE FALSE
      <3>1. row'[g].generation = row[g].generation /\ Present(g)'
        BY <1>3, <2>1, <2>2, <2>3
      <3>2. row[g].generation \in Nat
        BY Generations
      <3>3. CASE new(g)
        <4>1. row'[g].generation = row[g].generation + 1
          BY <1>9, <3>3, DerivationOnRows
        <4> QED  BY <3>1, <3>2, <4>1
      <3>4. CASE ~new(g)
        <4>1. row'[g].state = "absent"
          BY <1>9, <2>3, <3>4, DerivationOnRows
        <4> QED  BY <3>1, <4>1 DEF Present
      <3> QED  BY <3>3, <3>4
    <2>4. row'[f].invalidatedBy = row[f].invalidatedBy
      BY <1>9, <2>1, <2>2, <2>3, DerivationOnRows
    <2> QED  BY <1>2, <2>1, <2>2, <2>4
  <1> QED  BY <1>4, <1>5, <1>6, <1>7, <1>8, <1>9, StepKinds

(* A superseded row names its successor, whatever stale retraction is      *)
(* written after.                                                          *)
THEOREM HeirsAreNamed == Spec => []HeirIsNamed
  <1>1. Init => Types /\ HeirInv
    BY BoundAssumption
       DEF Init, Types, TypeOK, HistoryOK, NeverWritten, Rows, HeirInv, HeirIsPast, HeirIsNamed
  <1>2. Types /\ HeirInv /\ [Next]_vars => (Types /\ HeirInv)'
    BY TypesKept, HeirIsPastKept, HeirIsNamedKept DEF HeirInv
  <1> QED  BY <1>1, <1>2, PTL DEF Spec, HeirInv

-----------------------------------------------------------------------------
(* What a rule's rows say of its last run.                                 *)

(* A step that is no run's: it leaves the runs as they are, and either the *)
(* table too, or it counts as a disturbance.                               *)
LEMMA CallerSteps ==
  ASSUME CallerStep \/ UNCHANGED vars
  PROVE  /\ UNCHANGED <<phase, rule, candidates, doomed, beside, concluded>>
         /\ \/ row' = row /\ alone' = alone /\ fresh' = fresh
            \/ alone' = {} /\ fresh' = NoOne
  BY DEF CallerStep, AssertFact, Load, GiveUp, Supersede, Invalidate, Delete, Disturb,
         table, history, runs, vars

(* Nobody but a run writes rows in a rule's name.                          *)
LEMMA OnlyRunsDerive ==
  ASSUME Types, CallerStep \/ UNCHANGED vars, NEW f \in Facts,
         Present(f)', row'[f].derivedBy \in Rules
  PROVE  Present(f) /\ row'[f].derivedBy = row[f].derivedBy /\ NameOf(f)' = NameOf(f)
  <1>0. [Next]_vars /\ row'[f].derivedBy # NoOne
    BY NoOneIsNoName DEF Next
  <1>1. row'[f].generation = row[f].generation
    <2>1. CASE UNCHANGED vars \/ \E c \in Callers : GiveUp(c) \/ \E g \in Facts : Load(c, g)
      BY <2>1, SilentKeepsRows DEF vars, table, Silent
    <2>2. CASE \E g \in Facts : AssertFact(g)
      BY <1>0, <2>2, AssertionOnRows
    <2>3. CASE \E S \in SUBSET Facts : Delete(S)
      BY <2>3, DeletionOnRows
    <2>4. CASE \E c \in Callers, g \in Facts : Supersede(c, g)
      BY <1>0, <2>4, SupersessionOnRows
    <2>5. CASE \E c \in Callers, by \in {NameOf(g) : g \in Facts} \cup {NoOne} : Invalidate(c, by)
      BY <2>5, RetractionOnRows
    <2>6. \A g \in Facts : {g} \in SUBSET Facts
      OBVIOUS
    <2> QED
      BY <2>1, <2>2, <2>3, <2>4, <2>5, <2>6, FamiliesAssumption DEF CallerStep
  <1> QED  BY <1>0, <1>1, Generations DEF NameOf

(* While a run is between its DELETE and its commit, what carries its      *)
(* rule's identity was seen by the DELETE, or was concluded by a run that  *)
(* was committed since.                                                    *)
SnapshotHolds ==
  \A w \in Workers : \A f \in Facts :
    phase[w] = "deleting" /\ Present(f) /\ row[f].derivedBy = rule[w]
      => NameOf(f) \in doomed[w] \/ f \in beside[w]

LEMMA OutputHas ==
  ASSUME NEW r, NEW f \in Facts, Present(f), row[f].derivedBy = r
  PROVE  NameOf(f) \in Output(r)
  BY DEF Output

LEMMA SnapshotHoldsKept == Types /\ SnapshotHolds /\ [Next]_vars => SnapshotHolds'
  <1> SUFFICES ASSUME Types, SnapshotHolds, [Next]_vars, NEW w \in Workers, NEW f \in Facts,
                      phase'[w] = "deleting", Present(f)', row'[f].derivedBy = rule'[w]
               PROVE  NameOf(f)' \in doomed'[w] \/ f \in beside'[w]
    BY DEF SnapshotHolds
  <1>0. phase \in [Workers -> {"idle", "mapped", "deleting"}]
        /\ rule \in [Workers -> Rules \cup {NoOne}] /\ beside \in [Workers -> SUBSET Facts]
        /\ doomed \in [Workers -> SUBSET Names]
        /\ \A u \in Workers : phase[u] # "idle" => rule[u] \in Rules
    BY DEF Types, TypeOK, HistoryOK
  <1>1. CASE CallerStep \/ UNCHANGED vars
    <2>1. UNCHANGED <<phase, rule, doomed, beside>>
      BY <1>1, CallerSteps
    <2>2. Present(f) /\ row'[f].derivedBy = row[f].derivedBy /\ NameOf(f)' = NameOf(f)
      BY <1>0, <1>1, <2>1, OnlyRunsDerive
    <2> QED  BY <2>1, <2>2 DEF SnapshotHolds
  <1>2. CASE \E u \in Workers : AbandonRun(u) \/ \E r \in Rules : RunRules(u, r)
    <2>1. /\ row' = row /\ phase[w] = "deleting" /\ rule'[w] = rule[w]
          /\ doomed'[w] = doomed[w] /\ beside'[w] = beside[w]
      BY <1>0, <1>2 DEF AbandonRun, EndRun, RunRules, table
    <2> QED  BY <2>1 DEF SnapshotHolds, Present, NameOf
  <1>3. ASSUME NEW u \in Workers, DeleteOutput(u)
        PROVE  NameOf(f)' \in doomed'[w] \/ f \in beside'[w]
    <2>1. /\ row' = row /\ rule' = rule /\ beside' = beside
          /\ phase' = [phase EXCEPT ![u] = "deleting"]
          /\ doomed' = [doomed EXCEPT ![u] = Output(rule[u])]
      BY <1>3 DEF DeleteOutput, table, history
    <2>2. Present(f) /\ row[f].derivedBy = rule[w] /\ NameOf(f)' = NameOf(f)
      BY <2>1 DEF Present, NameOf
    <2>3. CASE w = u
      BY <1>0, <2>1, <2>2, <2>3, OutputHas
    <2>4. CASE w # u
      BY <1>0, <2>1, <2>2, <2>4 DEF SnapshotHolds
    <2> QED  BY <2>3, <2>4
  <1>4. ASSUME NEW u \in Workers, ApplyDerivation(u)
        PROVE  NameOf(f)' \in doomed'[w] \/ f \in beside'[w]
    <2>1. /\ phase' = [phase EXCEPT ![u] = "idle"] /\ rule' = [rule EXCEPT ![u] = NoOne]
          /\ doomed' = [doomed EXCEPT ![u] = {}]
          /\ phase[u] = "deleting" /\ rule[u] \in Rules
      BY <1>0, <1>4 DEF ApplyDerivation, EndRun
    <2>2. w # u /\ phase[w] = "deleting" /\ rule'[w] = rule[w] /\ doomed'[w] = doomed[w]
      BY <1>0, <2>1
    <2>3. beside'[w] = IF rule[w] = rule[u] THEN beside[w] \cup candidates[u] ELSE beside[w]
      BY <1>4, <2>2 DEF ApplyDerivation
    <2>4. CASE rule[w] = rule[u] /\ f \in candidates[u]
      BY <2>3, <2>4
    <2>5. CASE ~(rule[w] = rule[u] /\ f \in candidates[u])
      <3>1. Present(f) /\ row[f].derivedBy = rule[w] /\ row'[f].generation = row[f].generation
        BY <1>4, <2>2, <2>5, DerivationOnRows DEF Present
      <3> QED  BY <2>2, <2>3, <3>1 DEF SnapshotHolds, NameOf
    <2> QED  BY <2>4, <2>5
  <1> QED  BY <1>1, <1>2, <1>3, <1>4 DEF Next, WorkerStep

LEMMA OutputKept ==
  Types /\ SnapshotHolds /\ OutputIsConcluded /\ [Next]_vars => OutputIsConcluded'
  <1> SUFFICES ASSUME Types, SnapshotHolds, OutputIsConcluded, [Next]_vars, NEW f \in Facts,
                      Present(f)', row'[f].derivedBy \in Rules
               PROVE  f \in concluded'[row'[f].derivedBy]
    BY DEF OutputIsConcluded
  <1>1. CASE CallerStep \/ UNCHANGED vars
    <2>1. Present(f) /\ row'[f].derivedBy = row[f].derivedBy
      BY <1>1, OnlyRunsDerive
    <2>2. concluded' = concluded
      BY <1>1, CallerSteps
    <2> QED  BY <2>1, <2>2 DEF OutputIsConcluded
  <1>2. CASE \E w \in Workers :
               DeleteOutput(w) \/ AbandonRun(w) \/ \E r \in Rules : RunRules(w, r)
    <2>1. row' = row /\ concluded' = concluded
      BY <1>2 DEF DeleteOutput, AbandonRun, RunRules, table, history
    <2> QED  BY <2>1 DEF OutputIsConcluded, Present
  <1>3. ASSUME NEW w \in Workers, ApplyDerivation(w)
        PROVE  f \in concluded'[row'[f].derivedBy]
    <2> DEFINE d == row'[f].derivedBy
    <2>1. /\ phase[w] = "deleting" /\ rule[w] \in Rules
          /\ concluded' = [concluded EXCEPT ![rule[w]] = candidates[w] \cup beside[w]]
          /\ concluded \in [Rules -> SUBSET Facts]
      BY <1>3 DEF ApplyDerivation, Types, HistoryOK
    <2>2. CASE d = rule[w]
      <3>1. Present(f) /\ row[f].derivedBy = rule[w] /\ NameOf(f) \notin doomed[w]
              => f \in beside[w]
        BY <2>1 DEF SnapshotHolds
      <3>2. f \in candidates[w] \/ f \in beside[w]
        BY <1>3, <2>2, <3>1, DerivationOnRows DEF Present
      <3> QED  BY <2>1, <2>2, <3>2
    <2>3. CASE d # rule[w]
      <3>1. Present(f) /\ row[f].derivedBy = d
        BY <1>3, <2>3, DerivationOnRows DEF Present
      <3>2. f \in concluded[d]
        BY <3>1 DEF OutputIsConcluded
      <3> QED  BY <2>1, <2>3, <3>2
    <2> QED  BY <2>2, <2>3
  <1> QED  BY <1>1, <1>2, <1>3 DEF Next, WorkerStep

(* What carries a rule's identity was concluded by its last run or by one  *)
(* committed beside it, however callers and other runs, of this rule and   *)
(* of others, interleave with it (apply_derivation).                       *)
THEOREM OutputsAreConcluded == Spec => []OutputIsConcluded
  <1>1. Init => Types /\ SnapshotHolds /\ OutputIsConcluded
    BY BoundAssumption
       DEF Init, Types, TypeOK, HistoryOK, NeverWritten, Rows, SnapshotHolds, OutputIsConcluded,
           Present
  <1> QED  BY <1>1, TypesKept, SnapshotHoldsKept, OutputKept, PTL DEF Spec

-----------------------------------------------------------------------------
(* Undisturbed runs.                                                       *)

(* While nobody else writes, what a run concluded and what it is about to  *)
(* delete are what it would read now.                                      *)
UpToDate ==
  \A w \in alone :
    /\ phase[w] # "idle" /\ candidates[w] = Expansion(rule[w], DataGraph)
    /\ phase[w] = "deleting" => doomed[w] = Output(rule[w])

LEMMA UpToDateKept == Types /\ UpToDate /\ [Next]_vars => UpToDate'
  <1> SUFFICES ASSUME Types, UpToDate, [Next]_vars, NEW w \in alone'
               PROVE  /\ phase'[w] # "idle"
                      /\ candidates'[w] = Expansion(rule[w], DataGraph)'
                      /\ phase'[w] = "deleting" => doomed'[w] = Output(rule[w])'
    BY DEF UpToDate
  <1>0. phase \in [Workers -> {"idle", "mapped", "deleting"}]
        /\ rule \in [Workers -> Rules \cup {NoOne}] /\ alone \subseteq Workers
        /\ candidates \in [Workers -> SUBSET Facts] /\ doomed \in [Workers -> SUBSET Names]
    BY DEF Types, TypeOK, HistoryOK
  <1>1. row' = row
    <2>1. CASE CallerStep \/ UNCHANGED vars
      BY <2>1, CallerSteps
    <2>2. CASE WorkerStep
      BY <2>2 DEF WorkerStep, RunRules, DeleteOutput, ApplyDerivation, AbandonRun, table
    <2> QED  BY <2>1, <2>2 DEF Next
  <1>2. /\ Expansion(rule[w], DataGraph)' = Expansion(rule'[w], DataGraph)
        /\ Output(rule[w])' = Output(rule'[w])
    BY <1>1 DEF Expansion, DataGraph, Output, Present, NameOf
  <1> DEFINE Fine(u) == /\ phase'[u] # "idle"
                        /\ candidates'[u] = Expansion(rule'[u], DataGraph)
                        /\ phase'[u] = "deleting" => doomed'[u] = Output(rule'[u])
  <1>3. ASSUME w \in alone, phase'[w] = phase[w], rule'[w] = rule[w],
               candidates'[w] = candidates[w], doomed'[w] = doomed[w]
        PROVE  Fine(w)
    BY <1>3 DEF UpToDate
  <1>4. ASSUME CallerStep \/ UNCHANGED vars PROVE Fine(w)
    <2>1. w \in alone /\ UNCHANGED <<phase, rule, candidates, doomed>>
      BY <1>4, CallerSteps
    <2> QED  BY <1>3, <2>1
  <1>5. ASSUME NEW u \in Workers, NEW r \in Rules, RunRules(u, r) PROVE Fine(w)
    <2>1. CASE w = u
      BY <1>0, <1>5, <2>1 DEF RunRules
    <2>2. CASE w # u
      BY <1>0, <1>3, <1>5, <2>2 DEF RunRules
    <2> QED  BY <2>1, <2>2
  <1>6. ASSUME NEW u \in Workers, DeleteOutput(u) PROVE Fine(w)
    <2>1. w \in alone /\ rule' = rule /\ candidates' = candidates
      BY <1>6 DEF DeleteOutput, history
    <2>2. CASE w = u
      BY <1>0, <1>6, <2>1, <2>2 DEF DeleteOutput, UpToDate
    <2>3. CASE w # u
      BY <1>0, <1>3, <1>6, <2>1, <2>3 DEF DeleteOutput
    <2> QED  BY <2>2, <2>3
  <1>7. ASSUME NEW u \in Workers, ApplyDerivation(u) PROVE FALSE
    BY <1>7 DEF ApplyDerivation
  <1>8. ASSUME NEW u \in Workers, AbandonRun(u) PROVE Fine(w)
    <2>1. w \in alone /\ w # u
      BY <1>8 DEF AbandonRun
    <2> QED  BY <1>0, <1>3, <1>8, <2>1 DEF AbandonRun, EndRun
  <1>9. Fine(w)
    BY <1>4, <1>5, <1>6, <1>7, <1>8 DEF Next, WorkerStep
  <1> QED  BY <1>2, <1>9

(* An undisturbed run's commit, which replaces the whole of its rule's     *)
(* output, does not change what the rule reads.                            *)
LEMMA DerivationConverges ==
  ASSUME Types, UpToDate, NEW w \in alone, ApplyDerivation(w), NEW f \in Facts
  PROVE  /\ DataGraph' = DataGraph
         /\ f \in Expansion(rule[w], DataGraph) /\ ~(Present(f)' /\ row'[f].derivedBy # rule[w])
              => row'[f].state = "live" /\ row'[f].derivedBy = rule[w]
         /\ (f \notin Expansion(rule[w], DataGraph) \/ (Present(f)' /\ row'[f].derivedBy # rule[w]))
              => (Present(f)' => row'[f].derivedBy # rule[w])
  <1>0. /\ w \in Workers /\ phase[w] = "deleting" /\ rule[w] \in Rules /\ rule[w] # NoOne
        /\ candidates[w] = Expansion(rule[w], DataGraph) /\ doomed[w] = Output(rule[w])
    BY NoOneIsNoName DEF UpToDate, ApplyDerivation, Types, HistoryOK
  <1>1. \A h \in Facts : Present(h) /\ row[h].derivedBy = rule[w] => NameOf(h) \in doomed[w]
    BY <1>0, OutputHas
  <1>2. \A h \in Facts : Present(h) /\ NameOf(h) \in doomed[w] => row[h].derivedBy = rule[w]
    BY <1>0 DEF Output, NameOf
  <1>3. ASSUME NEW h \in Facts
        PROVE  row'[h].state = "live" /\ row'[h].derivedBy = NoOne
                 <=> row[h].state = "live" /\ row[h].derivedBy = NoOne
    BY <1>0, <1>1, <1>2, DerivationOnRows DEF Present, Vacant
  <1>4. DataGraph' = DataGraph
    BY <1>3 DEF DataGraph
  <1>5. CASE f \in candidates[w]
    <2>1. CASE Vacant(f) \/ NameOf(f) \in doomed[w]
      BY <1>0, <1>4, <1>5, <2>1, DerivationOnRows DEF Present, Vacant
    <2>2. CASE ~Vacant(f) /\ NameOf(f) \notin doomed[w]
      BY <1>0, <1>1, <1>4, <2>2, DerivationOnRows DEF Present, Vacant
    <2> QED  BY <2>1, <2>2
  <1>6. CASE f \notin candidates[w]
    <2>1. Present(f)' => row'[f].derivedBy # rule[w]
      BY <1>0, <1>1, <1>6, DerivationOnRows DEF Present
    <2> QED  BY <1>0, <1>4, <1>6, <2>1
  <1> QED  BY <1>4, <1>5, <1>6

LEMMA ConvergenceKept ==
  Types /\ UpToDate /\ RunConverges /\ [Next]_vars => RunConverges'
  <1> SUFFICES ASSUME Types, UpToDate, RunConverges, [Next]_vars, fresh' # NoOne
               PROVE  RunConverges'
    BY DEF RunConverges
  <1>1. ASSUME row' = row, fresh' = fresh PROVE RunConverges'
    BY <1>1 DEF RunConverges, Expansion, DataGraph, Present
  <1>2. CASE CallerStep \/ UNCHANGED vars
    BY <1>1, <1>2, CallerSteps
  <1>3. CASE \E w \in Workers :
               DeleteOutput(w) \/ AbandonRun(w) \/ \E r \in Rules : RunRules(w, r)
    BY <1>1, <1>3 DEF DeleteOutput, AbandonRun, RunRules, table, history
  <1>4. ASSUME NEW w \in Workers, ApplyDerivation(w) PROVE RunConverges'
    <2>1. w \in alone /\ fresh' = rule[w]
      BY <1>4 DEF ApplyDerivation
    <2>2. \A f \in Facts :
            /\ DataGraph' = DataGraph
            /\ f \in Expansion(rule[w], DataGraph)
                 /\ ~(Present(f)' /\ row'[f].derivedBy # rule[w])
                 => row'[f].state = "live" /\ row'[f].derivedBy = rule[w]
            /\ (\/ f \notin Expansion(rule[w], DataGraph)
                \/ Present(f)' /\ row'[f].derivedBy # rule[w])
                 => (Present(f)' => row'[f].derivedBy # rule[w])
      BY <1>4, <2>1, DerivationConverges
    <2>3. \A f \in Facts :
            f \in Expansion(fresh, DataGraph)' <=> f \in Expansion(rule[w], DataGraph)
      BY <2>1, <2>2 DEF Expansion
    <2> QED  BY <2>1, <2>2, <2>3 DEF RunConverges
  <1> QED  BY <1>2, <1>3, <1>4 DEF Next, WorkerStep

(* A run that nobody disturbed leaves exactly what its rule concludes now, *)
(* whatever earlier runs left and whatever other rules derived             *)
(* (run_derive_rule).                                                      *)
THEOREM RunsConverge == Spec => []RunConverges
  <1>1. Init => Types /\ UpToDate /\ RunConverges
    BY BoundAssumption
       DEF Init, Types, TypeOK, HistoryOK, NeverWritten, Rows, UpToDate, RunConverges
  <1> QED  BY <1>1, TypesKept, UpToDateKept, ConvergenceKept, PTL DEF Spec
=============================================================================
