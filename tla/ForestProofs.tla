---------------------------- MODULE ForestProofs ----------------------------
(***************************************************************************)
(* For every set of nodes: growing, moving and pruning keep a forest a     *)
(* forest. Together with DocumentTree's MovesAsForest: as long as no       *)
(* misleading overlap has happened, `documents.path` is one.               *)
(***************************************************************************)
EXTENDS Forest, TLAPS

(* The parts of IsForest, each with a name.                                *)
Types == here \subseteq Nodes /\ above \in [Nodes -> SUBSET Nodes]
NotItself == \A n \in here : n \notin above[n]
AllThere == \A n \in here : above[n] \subseteq here
Transitive == \A n \in here : \A m \in above[n] : above[m] \subseteq above[n]
OneLine == \A n \in here : \A m, k \in above[n] : m = k \/ m \in above[k] \/ k \in above[m]

(* IsForest is the conjunction of its parts.                               *)
LEMMA Parts == IsForest <=> Types /\ NotItself /\ AllThere /\ Transitive /\ OneLine
BY DEF IsForest, Types, NotItself, AllThere, Transitive, OneLine

(* A leaf below a node of a forest makes a larger forest.                  *)
LEMMA GrowKeeps ==
  ASSUME IsForest, NEW n \in Nodes, NEW p \in Nodes \cup {NoOne}, Grow(n, p)
  PROVE  IsForest'
<1>1. Types /\ NotItself /\ AllThere /\ Transitive /\ OneLine
  BY Parts
<1>2. /\ n \notin here /\ here' = here \cup {n}
      /\ above' = [above EXCEPT ![n] = Chain(p)]
      /\ p \in Nodes => p \in here
  BY DEF Grow
<1>3. Chain(p) \subseteq here /\ n \notin Chain(p)
  BY <1>1, <1>2 DEF Chain, Types, AllThere
<1>4. \A d \in here : above'[d] = above[d]
  BY <1>1, <1>2 DEF Types
<1>5. above'[n] = Chain(p)
  BY <1>1, <1>2 DEF Types
<1>6. \A m \in Chain(p) : above[m] \subseteq Chain(p)
  BY <1>1, <1>2 DEF Chain, Transitive
<1>7. \A m, k \in Chain(p) : m = k \/ m \in above[k] \/ k \in above[m]
  BY <1>1, <1>2 DEF Chain, OneLine
<1>8. Types'
  BY <1>1, <1>2, <1>3 DEF Types
<1>9. NotItself' /\ AllThere'
  BY <1>1, <1>2, <1>3, <1>4, <1>5 DEF NotItself, AllThere
<1>10. Transitive'
  <2>1. SUFFICES ASSUME NEW d \in here', NEW m \in above'[d]
                 PROVE  above'[m] \subseteq above'[d]
    BY DEF Transitive
  <2>2. m \in here
    BY <2>1, <1>1, <1>2, <1>3, <1>4, <1>5 DEF AllThere
  <2>3. QED
    BY <2>1, <2>2, <1>1, <1>2, <1>4, <1>5, <1>6 DEF Transitive
<1>11. OneLine'
  <2>1. SUFFICES ASSUME NEW d \in here', NEW m \in above'[d], NEW k \in above'[d]
                 PROVE  m = k \/ m \in above'[k] \/ k \in above'[m]
    BY DEF OneLine
  <2>2. m \in here /\ k \in here
    BY <2>1, <1>1, <1>2, <1>3, <1>4, <1>5 DEF AllThere
  <2>3. QED
    BY <2>1, <2>2, <1>1, <1>2, <1>4, <1>5, <1>7 DEF OneLine
<1>12. QED
  BY <1>8, <1>9, <1>10, <1>11, Parts DEF IsForest, Types, NotItself, AllThere, Transitive, OneLine

(* Moving a whole subtree below a node outside of it keeps the forest.     *)
LEMMA MoveKeeps ==
  ASSUME IsForest, NEW n \in Nodes, NEW p \in Nodes, Move(n, p)
  PROVE  IsForest'
<1> DEFINE Moved == Below(n) \cup {n}
<1>1. Types /\ NotItself /\ AllThere /\ Transitive /\ OneLine
  BY Parts
<1>2. /\ n \in here /\ p \in here \ Moved /\ here' = here
      /\ above' = [d \in Nodes |-> IF d \in Moved THEN (above[d] \ above[n]) \cup Chain(p)
                                   ELSE above[d]]
  BY DEF Move
<1>3. Chain(p) = above[p] \cup {p}
  BY DEF Chain
<1>4. Chain(p) \subseteq here /\ Chain(p) \cap Moved = {}
  <2>1. Chain(p) \subseteq here
    BY <1>1, <1>2, <1>3 DEF AllThere
  <2>2. \A m \in above[p] : m # n /\ n \notin above[m]
    BY <1>1, <1>2 DEF Below, Transitive
  <2>3. QED
    BY <1>2, <1>3, <2>1, <2>2 DEF Below
<1>5. \A d \in here \ Moved : above'[d] = above[d] /\ above[d] \cap Moved = {}
  <2>1. \A d \in here \ Moved : above'[d] = above[d]
    BY <1>1, <1>2 DEF Types
  <2>2. \A d \in here \ Moved : \A m \in above[d] : m # n /\ n \notin above[m]
    BY <1>1, <1>2 DEF Below, Transitive
  <2>3. QED
    BY <2>1, <2>2 DEF Below
<1>6. \A d \in Moved : d \in here /\ above'[d] = (above[d] \ above[n]) \cup Chain(p)
  BY <1>1, <1>2 DEF Types, Below
(* What of a moved node's ancestors it keeps is moved with it.              *)
<1>7. \A d \in Moved : \A m \in above[d] \ above[n] : m \in Moved
  BY <1>1, <1>2 DEF Below, AllThere, OneLine
<1>8. Types'
  BY <1>1, <1>2, <1>4 DEF Types
<1>9. NotItself' /\ AllThere'
  BY <1>1, <1>2, <1>4, <1>5, <1>6 DEF NotItself, AllThere
<1>10. Transitive'
  <2>1. SUFFICES ASSUME NEW d \in here', NEW m \in above'[d]
                 PROVE  above'[m] \subseteq above'[d]
    BY DEF Transitive
  <2>2. CASE d \notin Moved
    <3>1. m \in above[d] /\ m \in here \ Moved
      BY <2>1, <2>2, <1>1, <1>2, <1>5 DEF AllThere
    <3>2. QED
      BY <3>1, <2>1, <2>2, <1>1, <1>2, <1>5 DEF Transitive
  <2>3. CASE d \in Moved /\ m \in Chain(p)
    <3>1. m \in here \ Moved /\ above'[m] = above[m]
      BY <2>3, <1>4, <1>5
    <3>2. above[m] \subseteq Chain(p)
      BY <2>3, <1>1, <1>2, <1>3 DEF Transitive
    <3>3. QED
      BY <3>1, <3>2, <2>3, <1>6
  <2>4. CASE d \in Moved /\ m \in above[d] \ above[n]
    <3>1. m \in Moved /\ above'[m] = (above[m] \ above[n]) \cup Chain(p)
      BY <2>4, <1>6, <1>7
    <3>2. above[m] \subseteq above[d]
      BY <2>4, <1>1, <1>6 DEF Transitive
    <3>3. QED
      BY <3>1, <3>2, <2>4, <1>6
  <2>5. QED
    BY <2>1, <2>2, <2>3, <2>4, <1>2, <1>6
<1>11. OneLine'
  <2>1. SUFFICES ASSUME NEW d \in here', NEW m \in above'[d], NEW k \in above'[d]
                 PROVE  m = k \/ m \in above'[k] \/ k \in above'[m]
    BY DEF OneLine
  <2>2. CASE d \notin Moved
    <3>1. {m, k} \subseteq above[d] /\ {m, k} \subseteq here \ Moved
      BY <2>1, <2>2, <1>1, <1>2, <1>5 DEF AllThere
    <3>2. QED
      BY <3>1, <2>2, <2>1, <1>1, <1>2, <1>5 DEF OneLine
  <2>3. CASE d \in Moved
    <3>1. /\ d \in here
          /\ \A x \in {m, k} : x \in above[d] \ above[n] \/ x \in Chain(p)
      BY <2>1, <2>3, <1>6
    <3>2. \A x \in above[d] \ above[n] : x \in Moved /\ Chain(p) \subseteq above'[x]
      BY <2>3, <1>6, <1>7
    <3>3. CASE {m, k} \subseteq above[d] \ above[n]
      <4>1. m = k \/ m \in above[k] \/ k \in above[m]
        BY <3>1, <3>3, <1>1 DEF OneLine
      <4>2. QED
        BY <4>1, <3>2, <3>3, <1>6
    <3>4. CASE {m, k} \subseteq Chain(p)
      <4>1. m = k \/ m \in above[k] \/ k \in above[m]
        BY <3>4, <1>1, <1>2, <1>3 DEF OneLine
      <4>2. above'[m] = above[m] /\ above'[k] = above[k]
        BY <3>4, <1>4, <1>5
      <4>3. QED
        BY <4>1, <4>2
    <3>5. CASE m \in above[d] \ above[n] /\ k \in Chain(p)
      BY <3>2, <3>5
    <3>6. CASE k \in above[d] \ above[n] /\ m \in Chain(p)
      BY <3>2, <3>6
    <3>7. QED
      BY <3>1, <3>3, <3>4, <3>5, <3>6
  <2>4. QED
    BY <2>2, <2>3
<1>12. QED
  BY <1>8, <1>9, <1>10, <1>11, Parts DEF IsForest, Types, NotItself, AllThere, Transitive, OneLine

(* Taking a whole subtree away leaves a forest.                            *)
LEMMA PruneKeeps ==
  ASSUME IsForest, NEW n \in Nodes, Prune(n)
  PROVE  IsForest'
<1>1. Types /\ NotItself /\ AllThere /\ Transitive /\ OneLine
  BY Parts
<1>2. /\ here' = here \ ({n} \cup Below(n))
      /\ above' = [d \in Nodes |-> IF d \in here' THEN above[d] ELSE {}]
  BY DEF Prune
<1>3. \A d \in here' : d \in here /\ above'[d] = above[d] /\ above[d] \subseteq here'
  <2>1. \A d \in here' : d \in here /\ above'[d] = above[d]
    BY <1>1, <1>2 DEF Types
  <2>2. \A d \in here' : \A m \in above[d] : m \in here /\ m # n /\ n \notin above[m]
    BY <1>1, <1>2 DEF Below, AllThere, Transitive
  <2>3. QED
    BY <2>1, <2>2, <1>2 DEF Below
<1>4. Types'
  BY <1>1, <1>2 DEF Types
<1>5. NotItself' /\ AllThere'
  BY <1>1, <1>3 DEF NotItself, AllThere
<1>6. Transitive'
  BY <1>1, <1>3 DEF Transitive
<1>7. OneLine'
  BY <1>1, <1>3 DEF OneLine
<1>8. QED
  BY <1>4, <1>5, <1>6, <1>7, Parts DEF IsForest, Types, NotItself, AllThere, Transitive, OneLine

(* The abstract tree is a forest for ever.                                 *)
THEOREM ForestStaysOne == ForestSpec => []IsForest
<1>1. ForestInit => IsForest
  BY DEF ForestInit
<1>2. IsForest /\ [ForestNext]_<<here, above>> => IsForest'
  <2>1. SUFFICES ASSUME IsForest, [ForestNext]_<<here, above>> PROVE IsForest'
    OBVIOUS
  <2>2. CASE UNCHANGED <<here, above>>
    BY <2>1, <2>2 DEF IsForest
  <2>3. CASE ForestNext
    BY <2>1, <2>3, GrowKeeps, MoveKeeps, PruneKeeps DEF ForestNext
  <2>4. QED
    BY <2>1, <2>2, <2>3
<1>3. QED
  BY <1>1, <1>2, PTL DEF ForestSpec
=============================================================================
