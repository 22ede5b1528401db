------------------------------- MODULE Forest -------------------------------
(***************************************************************************)
(* What the document tree promises: nodes come into being below a node     *)
(* that is there, a subtree moves as one, never below itself, and a        *)
(* subtree goes as one. A node is known by the set of its ancestors, which *)
(* is what `documents.path` stores and every subtree query reads.          *)
(***************************************************************************)
CONSTANTS
  Nodes,
  NoOne   \* no node: what a root is below

VARIABLES
  here,   \* the nodes there are
  above   \* [Nodes -> SUBSET Nodes], their ancestors

Below(n) == {d \in here : n \in above[d]}
Chain(p) == IF p \in Nodes THEN above[p] \cup {p} ELSE {}

(* No node is its own ancestor, an ancestor's ancestors are ancestors, and *)
(* the ancestors of a node lie on one line.                                *)
IsForest ==
  /\ here \subseteq Nodes
  /\ above \in [Nodes -> SUBSET Nodes]
  /\ \A n \in here :
       /\ n \notin above[n]
       /\ above[n] \subseteq here
       /\ \A m \in above[n] : above[m] \subseteq above[n]
       /\ \A m, k \in above[n] : m = k \/ m \in above[k] \/ k \in above[m]

(* Any forest will do for a start.                                         *)
ForestInit == IsForest

Grow(n, p) ==
  /\ n \in Nodes \ here
  /\ p \in Nodes => p \in here
  /\ here' = here \cup {n}
  /\ above' = [above EXCEPT ![n] = Chain(p)]

Move(n, p) ==
  /\ n \in here /\ p \in here \ ({n} \cup Below(n))
  /\ above' = [d \in Nodes |-> IF d \in Below(n) \cup {n}
                               THEN (above[d] \ above[n]) \cup Chain(p) ELSE above[d]]
  /\ UNCHANGED here

Prune(n) ==
  /\ n \in here
  /\ here' = here \ ({n} \cup Below(n))
  /\ above' = [d \in Nodes |-> IF d \in here' THEN above[d] ELSE {}]

ForestNext ==
  \/ \E n \in Nodes, p \in Nodes \cup {NoOne} : Grow(n, p)
  \/ \E n, p \in Nodes : Move(n, p)
  \/ \E n \in Nodes : Prune(n)

ForestSpec == ForestInit /\ [][ForestNext]_<<here, above>>
=============================================================================
