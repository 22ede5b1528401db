------------------------- MODULE DocumentTreeProofs -------------------------
(***************************************************************************)
(* For every tree, every number of sessions and every mix of moves: the    *)
(* types, the foreign key, and the lock of a childless move. Until a       *)
(* misleading overlap is committed, the paths are the chains of ancestors, *)
(* and the table behaves as the abstract forest. When all moves are        *)
(* childless, the tree has no cycle, however many sessions overlap and     *)
(* whatever paths went stale: past the start, the proof never looks at     *)
(* them.                                                                   *)
(***************************************************************************)
EXTENDS DocumentTree, TLAPS, SequenceTheorems, WellFoundedInduction

MoveKinds == {"move", "childless"}

(* A row about to be inserted is nobody else's business yet.               *)
Unborn(s) ==
  pc[s] = "inserting" =>
    /\ kind[s] = "create" /\ node[s] \notin here \cup gone
    /\ \A o \in Sessions \ {s} : node[o] # node[s]

(* A move has loaded two different nodes.                                  *)
Loaded(s) ==
  /\ pc[s] = "writing" => kind[s] \in MoveKinds
  /\ kind[s] \in MoveKinds =>
       /\ pc[s] # "idle"
       /\ {node[s], target[s]} \subseteq DOMAIN copy[s] /\ node[s] # target[s]
       /\ kind[s] = "move" => "move" \in Moves

(* The strengthening of the foreign key and of the lock.                   *)
IInv ==
  /\ TypeOK
  /\ copy = [s \in Sessions |-> copy[s]]
  /\ \A s \in Sessions : Unborn(s) /\ Loaded(s)
  /\ \A s \in Sessions : kind[s] = "childless" => Children(node[s]) = {}
  /\ NoDanglingParent

(* The beginning of a session and its end keep the types.                  *)
LEMMA BeginTypes ==
  ASSUME TypeOK, NEW s \in Sessions, NEW k \in Kinds, NEW n \in Nodes,
         NEW p \in Nodes \cup {NoOne}, NEW phase \in {"inserting", "loaded"},
         Begin(s, phase, k, n, p)
  PROVE  /\ pc' \in [Sessions -> {"idle", "inserting", "loaded", "writing"}]
         /\ kind' \in [Sessions -> Kinds]
         /\ node' \in [Sessions -> Nodes \cup {NoOne}]
         /\ target' \in [Sessions -> Nodes \cup {NoOne}]
         /\ \A o \in Sessions : pc'[o] # "idle" => node'[o] \in Nodes
         /\ pc'[s] = phase /\ kind'[s] = k /\ node'[s] = n /\ target'[s] = p
         /\ \A o \in Sessions \ {s} : /\ pc'[o] = pc[o] /\ kind'[o] = kind[o]
                                      /\ node'[o] = node[o] /\ target'[o] = target[o]
BY DEF TypeOK, Begin

LEMMA EndTypes ==
  ASSUME TypeOK, copy = [o \in Sessions |-> copy[o]], NEW s \in Sessions, EndTx(s)
  PROVE  /\ pc' \in [Sessions -> {"idle", "inserting", "loaded", "writing"}]
         /\ kind' \in [Sessions -> Kinds]
         /\ node' \in [Sessions -> Nodes \cup {NoOne}]
         /\ target' \in [Sessions -> Nodes \cup {NoOne}]
         /\ \A o \in Sessions : pc'[o] # "idle" => node'[o] \in Nodes
         /\ copy' = [o \in Sessions |-> copy'[o]]
         /\ \A o \in Sessions : /\ DOMAIN copy'[o] \subseteq Nodes
                                /\ \A m \in DOMAIN copy'[o] : copy'[o][m] \in Seq(Nodes)
         /\ fresh' \in [Sessions -> Seq(Nodes)]
         /\ pc'[s] = "idle" /\ kind'[s] = "create" /\ node'[s] = NoOne
         /\ \A o \in Sessions \ {s} : /\ pc'[o] = pc[o] /\ kind'[o] = kind[o]
                                      /\ node'[o] = node[o] /\ target'[o] = target[o]
                                      /\ copy'[o] = copy[o]
<1>1. DOMAIN NoCopy = {}
  BY DEF NoCopy
<1>2. \A o \in Sessions : copy'[o] = IF o = s THEN NoCopy ELSE copy[o]
  BY DEF EndTx
<1>3. /\ copy' = [o \in Sessions |-> copy'[o]]
      /\ \A o \in Sessions : /\ DOMAIN copy'[o] \subseteq Nodes
                             /\ \A m \in DOMAIN copy'[o] : copy'[o][m] \in Seq(Nodes)
  BY <1>1, <1>2 DEF EndTx, TypeOK
<1>4. fresh' \in [Sessions -> Seq(Nodes)]
  <2>1. <<>> \in Seq(Nodes)
    OBVIOUS
  <2>2. QED
    BY <2>1 DEF EndTx, TypeOK
<1>5. QED
  BY <1>2, <1>3, <1>4, SessionAssumption DEF EndTx, TypeOK, Kinds

(* What the commit records is of its type too.                             *)
LEMMA CommitTypes ==
  ASSUME TypeOK, NEW s \in Sessions, Commit(s)
  PROVE  dirty' \in [Sessions -> SUBSET Kinds] /\ disturbed' \in BOOLEAN
<1>1. dirty' \in [Sessions -> SUBSET Kinds]
  BY DEF Commit, TypeOK
<1>2. disturbed' \in BOOLEAN
  BY Zenon DEF Commit, TypeOK
<1>3. QED
  BY <1>1, <1>2

(* A path is a path of nodes.                                              *)
LEMMA PathBelowType ==
  ASSUME TypeOK, NEW p \in Nodes \cup {NoOne}
  PROVE  PathBelow(p) \in Seq(Nodes)
BY DEF TypeOK, PathBelow

LEMMA RewrittenType ==
  ASSUME IInv, NEW s \in Sessions, kind[s] \in MoveKinds
  PROVE  /\ DOMAIN Rewritten(s) \subseteq Nodes
         /\ \A d \in DOMAIN Rewritten(s) : Rewritten(s)[d] \in Seq(Nodes)
<1> DEFINE n == node[s]
           p == target[s]
           old == Append(copy[s][n], n)
           new == Append(Append(copy[s][p], p), n)
           Has(d) == Len(copy[s][d]) >= Len(old) /\ SubSeq(copy[s][d], 1, Len(old)) = old
           D == {m \in DOMAIN copy[s] \ {n} : Has(m)}
<1>1. /\ DOMAIN copy[s] \subseteq Nodes /\ n \in DOMAIN copy[s] /\ p \in DOMAIN copy[s]
      /\ \A m \in DOMAIN copy[s] : copy[s][m] \in Seq(Nodes)
  BY DEF IInv, TypeOK, Loaded
<1>2. Rewritten(s) = [d \in D |-> new \o SubSeq(copy[s][d], Len(old) + 1, Len(copy[s][d]))]
  BY DEF Rewritten
<1>3. old \in Seq(Nodes) /\ new \in Seq(Nodes)
  BY <1>1
<1> HIDE DEF old, new
<1>4. ASSUME NEW d \in D
      PROVE  new \o SubSeq(copy[s][d], Len(old) + 1, Len(copy[s][d])) \in Seq(Nodes)
  <2>1. copy[s][d] \in Seq(Nodes) /\ Len(old) + 1 \in Nat /\ Len(old) + 1 >= 1
    BY <1>1, <1>3
  <2>2. SubSeq(copy[s][d], Len(old) + 1, Len(copy[s][d])) \in Seq(Nodes)
    BY <2>1
  <2>3. QED
    BY <2>2, <1>3
<1>5. D \subseteq Nodes
  BY <1>1
<1>6. QED
  BY <1>2, <1>4, <1>5

(* The start.                                                              *)
LEMMA InitHolds == Init => IInv
<1> SUFFICES ASSUME Init PROVE IInv
  OBVIOUS
<1>1. path \in [Nodes -> Seq(Nodes)] /\ \A n \in here : path[n] \in Seq(here)
  <2>1. \A n \in DOMAIN Grown : Grown[n] \in Seq(DOMAIN Grown) /\ Grown[n] \in Seq(Nodes)
    BY GrownAssumption
  <2>2. <<>> \in Seq(Nodes)
    OBVIOUS
  <2>3. /\ here = DOMAIN Grown
        /\ path = [n \in Nodes |-> IF n \in here THEN Grown[n] ELSE <<>>]
    BY DEF Init
  <2>4. \A n \in Nodes : path[n] \in Seq(Nodes)
    BY <2>1, <2>2, <2>3
  <2>5. \A n \in here : path[n] \in Seq(here)
    BY <2>1, <2>3, GrownAssumption
  <2>6. QED
    BY <2>3, <2>4, <2>5
<1>2. \A n \in Nodes : path[n] # <<>> => n \in here /\ Last(path[n]) \in here
  <2>1. SUFFICES ASSUME NEW n \in Nodes, path[n] # <<>>
                 PROVE  n \in here /\ Last(path[n]) \in here
    OBVIOUS
  <2>2. n \in here
    BY <2>1 DEF Init
  <2>3. QED
    BY <2>1, <2>2, <1>1 DEF Last
<1>3. parent \in [Nodes -> Nodes \cup {NoOne}] /\ NoDanglingParent
  BY <1>1, <1>2, GrownAssumption DEF Init, NoDanglingParent
<1>4. DOMAIN NoCopy = {} /\ <<>> \in Seq(Nodes)
  BY DEF NoCopy
<1>5. TypeOK
  <2>1. here \cup gone \subseteq Nodes /\ here \cap gone = {}
    BY GrownAssumption DEF Init
  <2>2. /\ pc \in [Sessions -> {"idle", "inserting", "loaded", "writing"}]
        /\ kind \in [Sessions -> Kinds]
        /\ node \in [Sessions -> Nodes \cup {NoOne}]
        /\ target \in [Sessions -> Nodes \cup {NoOne}]
        /\ \A s \in Sessions : pc[s] = "idle"
        /\ dirty \in [Sessions -> SUBSET Kinds]
    BY DEF Init, Kinds
  <2>3. \A s \in Sessions : DOMAIN copy[s] = {}
    BY <1>4 DEF Init
  <2>4. fresh \in [Sessions -> Seq(Nodes)]
    BY <1>4 DEF Init
  <2>5. disturbed \in BOOLEAN /\ moves \in 0..MaxMoves
    <3>1. disturbed \in BOOLEAN
      BY Zenon DEF Init
    <3>2. moves \in 0..MaxMoves
      BY SessionAssumption DEF Init
    <3>3. QED
      BY <3>1, <3>2
  <2>6. QED
    BY <1>1, <1>3, <2>1, <2>2, <2>3, <2>4, <2>5 DEF TypeOK
<1>6. QED
  BY <1>3, <1>5 DEF Init, IInv, Unborn, Loaded, MoveKinds

(* create                                                                  *)
LEMMA CreateInsertKeeps ==
  ASSUME IInv, NEW s \in Sessions, NEW n \in Nodes, NEW p \in Nodes \cup {NoOne},
         CreateInsert(s, n, p)
  PROVE  IInv'
<1>1. TypeOK
  BY DEF IInv
<1>2. /\ Begin(s, "inserting", "create", n, p) /\ "create" \in Kinds
      /\ n \notin here \cup gone /\ \A o \in Sessions : node[o] # n
      /\ fresh' = [fresh EXCEPT ![s] = PathBelow(p)]
      /\ UNCHANGED <<tree, copy, dirty, disturbed, moves>>
  BY DEF CreateInsert, Kinds
<1>3. TypeOK'
  <2>1. fresh' \in [Sessions -> Seq(Nodes)]
    BY <1>1, <1>2, PathBelowType DEF TypeOK
  <2>2. QED
    BY <1>1, <1>2, <2>1, BeginTypes DEF TypeOK, tree
<1>4. \A o \in Sessions : (Unborn(o) /\ Loaded(o))'
  <2>1. \A o \in Sessions : Unborn(o) /\ Loaded(o)
    BY DEF IInv
  <2>2. pc[s] = "idle"
    BY <1>2 DEF Begin
  <2>3. \A o \in Sessions \ {s} : Unborn(o)'
    BY <1>1, <1>2, <2>1, BeginTypes DEF Unborn, tree
  <2>4. Unborn(s)'
    BY <1>1, <1>2, BeginTypes DEF Unborn, tree
  <2>5. \A o \in Sessions : Loaded(o)'
    BY <1>1, <1>2, <2>1, BeginTypes DEF Loaded, MoveKinds
  <2>6. QED
    BY <2>3, <2>4, <2>5
<1>5. QED
  BY <1>1, <1>2, <1>3, <1>4, BeginTypes DEF IInv, tree, Children, NoDanglingParent

(* For a commit, all of IInv but what it says of the tree.                 *)
LEMMA CommitKeeps ==
  ASSUME IInv, NEW s \in Sessions, Commit(s),
         here' \cup gone' \subseteq Nodes, here' \cap gone' = {},
         parent' \in [Nodes -> Nodes \cup {NoOne}], path' \in [Nodes -> Seq(Nodes)],
         moves' = moves, here' \subseteq here \cup {node[s]}, pc[s] # "idle",
         pc[s] = "inserting" \/ here' \subseteq here, gone' \subseteq gone \cup here
  PROVE  /\ TypeOK'
         /\ copy' = [o \in Sessions |-> copy'[o]]
         /\ \A o \in Sessions : (Unborn(o) /\ Loaded(o))'
         /\ kind'[s] = "create"
         /\ \A o \in Sessions \ {s} : kind'[o] = kind[o] /\ node'[o] = node[o]
<1>1. TypeOK /\ copy = [o \in Sessions |-> copy[o]] /\ EndTx(s)
  BY DEF IInv, Commit
<1>2. TypeOK'
  BY <1>1, EndTypes, CommitTypes DEF TypeOK
<1>3. \A o \in Sessions : Unborn(o) /\ Loaded(o)
  BY DEF IInv
<1>4. \A o \in Sessions : Loaded(o)'
  <2>1. Loaded(s)'
    BY <1>1, EndTypes DEF Loaded, MoveKinds
  <2>2. ASSUME NEW o \in Sessions \ {s} PROVE Loaded(o)'
    <3>1. /\ pc'[o] = pc[o] /\ kind'[o] = kind[o] /\ node'[o] = node[o]
          /\ target'[o] = target[o] /\ copy'[o] = copy[o]
      BY <1>1, EndTypes
    <3>2. QED
      BY <1>3, <3>1 DEF Loaded
  <2>3. QED
    BY <2>1, <2>2
<1>5. \A o \in Sessions \ {s} : Unborn(o)'
  <2>1. SUFFICES ASSUME NEW o \in Sessions \ {s}, pc'[o] = "inserting" PROVE Unborn(o)'
    BY DEF Unborn
  <2>2. /\ pc[o] = "inserting" /\ kind'[o] = kind[o] /\ node'[o] = node[o]
        /\ node[o] \in Nodes
    BY <1>1, <2>1, EndTypes DEF TypeOK
  <2>3. node[o] \notin here \cup gone /\ \A q \in Sessions \ {o} : node[q] # node[o]
    BY <1>3, <2>2 DEF Unborn
  <2>4. node[o] \notin here' \cup gone'
    BY <2>3
  <2>5. \A q \in Sessions \ {o} : node'[q] # node'[o]
    BY <1>1, <2>2, <2>3, EndTypes, SessionAssumption
  <2>6. QED
    BY <1>3, <2>2, <2>4, <2>5 DEF Unborn
<1>6. Unborn(s)'
  BY <1>1, EndTypes DEF Unborn
<1>7. QED
  BY <1>1, <1>2, <1>4, <1>5, <1>6, EndTypes

LEMMA CreateCommitKeeps ==
  ASSUME IInv, NEW s \in Sessions, CreateCommit(s)
  PROVE  IInv'
<1> DEFINE n == node[s]
           p == target[s]
<1>1. TypeOK /\ NoDanglingParent /\ Unborn(s)
  BY DEF IInv
<1>2. /\ pc[s] = "inserting" /\ Commit(s)
      /\ p # NoOne => p \in here /\ ShareFree(s, p)
      /\ here' = here \cup {n}
      /\ parent' = [parent EXCEPT ![n] = p]
      /\ path' = [path EXCEPT ![n] = fresh[s]]
      /\ UNCHANGED <<gone, moves>>
  BY DEF CreateCommit
<1>3. n \in Nodes \ (here \cup gone) /\ p \in Nodes \cup {NoOne}
  BY <1>1, <1>2 DEF TypeOK, Unborn
<1>4. parent' \in [Nodes -> Nodes \cup {NoOne}] /\ path' \in [Nodes -> Seq(Nodes)]
  BY <1>1, <1>2, <1>3 DEF TypeOK
<1>5. /\ here' \cup gone' \subseteq Nodes /\ here' \cap gone' = {}
  BY <1>1, <1>2, <1>3 DEF TypeOK
<1>6. /\ TypeOK'
      /\ copy' = [o \in Sessions |-> copy'[o]]
      /\ \A o \in Sessions : (Unborn(o) /\ Loaded(o))'
      /\ kind'[s] = "create"
      /\ \A o \in Sessions \ {s} : kind'[o] = kind[o] /\ node'[o] = node[o]
  BY <1>2, <1>4, <1>5, CommitKeeps
<1>7. NoDanglingParent'
  BY <1>1, <1>2, <1>3 DEF NoDanglingParent, TypeOK
(* A locked row is nobody's new parent: the insert waits for its share.    *)
<1>8. ASSUME NEW o \in Sessions, kind'[o] = "childless" PROVE Children(node[o])' = {}
  <2>1. o # s /\ kind[o] = "childless" /\ node'[o] = node[o] /\ pc[o] # "idle"
    BY <1>6, <1>8 DEF IInv, Loaded, MoveKinds
  <2>2. p # node[o]
    <3>1. node[o] \in Nodes /\ node[o] \in HoldsForUpdate(o)
      BY <1>1, <2>1 DEF TypeOK, HoldsForUpdate
    <3>2. QED
      BY <1>2, <2>1, <3>1, SessionAssumption DEF ShareFree
  <2>3. Children(node[o]) = {}
    BY <2>1 DEF IInv
  <2>4. QED
    BY <1>1, <1>2, <1>3, <2>1, <2>2, <2>3 DEF Children, TypeOK
<1>9. QED
  BY <1>6, <1>7, <1>8 DEF IInv

(* reparent                                                                *)
LEMMA MoveLoadKeeps ==
  ASSUME IInv, NEW s \in Sessions, NEW k \in MoveKinds, NEW n \in Nodes, NEW p \in Nodes,
         MoveLoad(s, k, n, p), k = "move" => "move" \in Moves,
         k = "childless" => Children(n) = {}
  PROVE  IInv'
<1> DEFINE D == {n, p} \cup {d \in here : n \in On(path[d])}
<1>1. TypeOK /\ NoDanglingParent
  BY DEF IInv
<1>2. /\ Begin(s, "loaded", k, n, p) /\ k \in Kinds /\ pc[s] = "idle"
      /\ {n, p} \subseteq here /\ p # n
      /\ copy' = [copy EXCEPT ![s] = [m \in D |-> path[m]]]
      /\ moves < MaxMoves /\ moves' = moves + 1
      /\ UNCHANGED <<tree, fresh, dirty, disturbed>>
  BY DEF MoveLoad, NoCycle, Begin, Kinds, MoveKinds
<1>3. D \subseteq Nodes
  BY <1>1 DEF TypeOK
<1>4. /\ copy' = [o \in Sessions |-> copy'[o]]
      /\ copy'[s] = [m \in D |-> path[m]]
      /\ \A o \in Sessions \ {s} : copy'[o] = copy[o]
  BY <1>2 DEF IInv
<1>5. TypeOK'
  <2>1. \A o \in Sessions : /\ DOMAIN copy'[o] \subseteq Nodes
                            /\ \A m \in DOMAIN copy'[o] : copy'[o][m] \in Seq(Nodes)
    BY <1>1, <1>3, <1>4 DEF TypeOK
  <2>2. moves' \in 0..MaxMoves
    BY <1>1, <1>2, SessionAssumption DEF TypeOK
  <2>3. QED
    BY <1>1, <1>2, <2>1, <2>2, BeginTypes DEF TypeOK, tree
<1>6. /\ pc'[s] = "loaded" /\ kind'[s] = k /\ node'[s] = n /\ target'[s] = p
      /\ \A o \in Sessions \ {s} : /\ pc'[o] = pc[o] /\ kind'[o] = kind[o]
                                   /\ node'[o] = node[o] /\ target'[o] = target[o]
  BY <1>1, <1>2, BeginTypes
<1>7. \A o \in Sessions : (Unborn(o) /\ Loaded(o))'
  <2>1. \A o \in Sessions : Unborn(o) /\ Loaded(o)
    BY DEF IInv
  <2>2. Unborn(s)' /\ Loaded(s)'
    BY <1>2, <1>4, <1>6 DEF Unborn, Loaded
  <2>3. ASSUME NEW o \in Sessions \ {s} PROVE Unborn(o)' /\ Loaded(o)'
    BY <2>1, <1>2, <1>4, <1>6 DEF Unborn, Loaded, tree
  <2>4. QED
    BY <2>2, <2>3
<1>8. QED
  BY <1>1, <1>2, <1>4, <1>5, <1>6, <1>7 DEF IInv, tree, Children, NoDanglingParent

LEMMA MoveWriteKeeps ==
  ASSUME IInv, NEW s \in Sessions, MoveWrite(s)
  PROVE  IInv'
<1>1. /\ TypeOK /\ Unborn(s) /\ Loaded(s)
      /\ pc[s] = "loaded" /\ kind[s] \in MoveKinds
      /\ pc' = [pc EXCEPT ![s] = "writing"]
      /\ fresh' = [fresh EXCEPT ![s] = PathBelow(target[s])]
      /\ UNCHANGED <<tree, kind, node, target, copy, dirty, disturbed, moves>>
  BY DEF MoveWrite, IInv, MoveKinds
<1>2. fresh' \in [Sessions -> Seq(Nodes)]
  BY <1>1, PathBelowType DEF TypeOK
<1>3. TypeOK'
  BY <1>1, <1>2 DEF TypeOK, tree
<1>4. \A o \in Sessions : (Unborn(o) /\ Loaded(o))'
  BY <1>1 DEF IInv, TypeOK, Unborn, Loaded, tree
<1>5. QED
  BY <1>1, <1>3, <1>4 DEF IInv, tree, Children, NoDanglingParent

LEMMA MoveCommitKeeps ==
  ASSUME IInv, NEW s \in Sessions, MoveCommit(s)
  PROVE  IInv'
<1> DEFINE n == node[s]
           p == target[s]
           D == DOMAIN Rewritten(s)
<1>1. TypeOK /\ NoDanglingParent /\ Loaded(s)
  BY DEF IInv
<1>2. /\ pc[s] = "writing" /\ Commit(s)
      /\ p \in here /\ ShareFree(s, p)
      /\ parent' = [parent EXCEPT ![n] = p]
      /\ path' = [m \in Nodes |-> IF m = n THEN fresh[s]
                                  ELSE IF m \in D THEN Rewritten(s)[m] ELSE path[m]]
      /\ UNCHANGED <<here, gone, moves>>
  BY DEF MoveCommit
<1>3. kind[s] \in MoveKinds /\ n \in Nodes /\ p \in Nodes /\ n # p
  BY <1>1, <1>2 DEF TypeOK, Loaded
<1>4. parent' \in [Nodes -> Nodes \cup {NoOne}] /\ path' \in [Nodes -> Seq(Nodes)]
  BY <1>1, <1>2, <1>3, RewrittenType DEF TypeOK
<1>5. /\ TypeOK'
      /\ copy' = [o \in Sessions |-> copy'[o]]
      /\ \A o \in Sessions : (Unborn(o) /\ Loaded(o))'
      /\ kind'[s] = "create"
      /\ \A o \in Sessions \ {s} : kind'[o] = kind[o] /\ node'[o] = node[o]
  <2>1. /\ here' \cup gone' \subseteq Nodes /\ here' \cap gone' = {}
        /\ here' = here /\ gone' = gone /\ pc[s] # "idle"
    BY <1>1, <1>2 DEF TypeOK
  <2>2. QED
    BY <1>2, <1>4, <2>1, CommitKeeps
<1>6. NoDanglingParent'
  BY <1>1, <1>2, <1>3 DEF NoDanglingParent, TypeOK
<1>7. ASSUME NEW o \in Sessions, kind'[o] = "childless" PROVE Children(node[o])' = {}
  <2>1. o # s /\ kind[o] = "childless" /\ node'[o] = node[o] /\ pc[o] # "idle"
    BY <1>5, <1>7 DEF IInv, Loaded, MoveKinds
  <2>2. p # node[o]
    <3>1. node[o] \in HoldsForUpdate(o)
      BY <2>1 DEF HoldsForUpdate
    <3>2. QED
      BY <1>2, <2>1, <3>1 DEF ShareFree
  <2>3. Children(node[o]) = {}
    BY <2>1 DEF IInv
  <2>4. QED
    BY <1>1, <1>2, <1>3, <2>1, <2>2, <2>3 DEF Children, TypeOK
<1>8. QED
  BY <1>5, <1>6, <1>7 DEF IInv

(* delete                                                                  *)
LEMMA DeleteLoadKeeps ==
  ASSUME IInv, NEW s \in Sessions, NEW n \in Nodes, DeleteLoad(s, n)
  PROVE  IInv'
<1>1. TypeOK /\ NoDanglingParent
  BY DEF IInv
<1>2. /\ Begin(s, "loaded", "delete", n, NoOne) /\ "delete" \in Kinds /\ pc[s] = "idle"
      /\ n \in here /\ Subtree(n) \subseteq here
      /\ copy' = [copy EXCEPT ![s] = [m \in Subtree(n) |-> path[m]]]
      /\ UNCHANGED <<tree, fresh, dirty, disturbed, moves>>
  BY DEF DeleteLoad, Begin, Kinds, Subtree
<1>3. /\ copy' = [o \in Sessions |-> copy'[o]]
      /\ copy'[s] = [m \in Subtree(n) |-> path[m]]
      /\ \A o \in Sessions \ {s} : copy'[o] = copy[o]
  BY <1>2 DEF IInv
<1>4. TypeOK'
  <2>1. \A o \in Sessions : /\ DOMAIN copy'[o] \subseteq Nodes
                            /\ \A m \in DOMAIN copy'[o] : copy'[o][m] \in Seq(Nodes)
    BY <1>1, <1>2, <1>3 DEF TypeOK
  <2>2. QED
    BY <1>1, <1>2, <2>1, BeginTypes DEF TypeOK, tree
<1>5. /\ pc'[s] = "loaded" /\ kind'[s] = "delete" /\ node'[s] = n
      /\ \A o \in Sessions \ {s} : /\ pc'[o] = pc[o] /\ kind'[o] = kind[o]
                                   /\ node'[o] = node[o] /\ target'[o] = target[o]
  BY <1>1, <1>2, BeginTypes
<1>6. \A o \in Sessions : (Unborn(o) /\ Loaded(o))'
  <2>1. \A o \in Sessions : Unborn(o) /\ Loaded(o)
    BY DEF IInv
  <2>2. Unborn(s)' /\ Loaded(s)'
    BY <1>5 DEF Unborn, Loaded, MoveKinds
  <2>3. ASSUME NEW o \in Sessions \ {s} PROVE Unborn(o)' /\ Loaded(o)'
    BY <2>1, <1>2, <1>3, <1>5 DEF Unborn, Loaded, tree
  <2>4. QED
    BY <2>2, <2>3
<1>7. QED
  BY <1>1, <1>2, <1>3, <1>4, <1>5, <1>6 DEF IInv, tree, Children, NoDanglingParent

LEMMA DeleteCommitKeeps ==
  ASSUME IInv, NEW s \in Sessions, DeleteCommit(s)
  PROVE  IInv'
<1> DEFINE D == DOMAIN copy[s] \cap here
<1>1. TypeOK /\ NoDanglingParent
  BY DEF IInv
<1>2. /\ pc[s] = "loaded" /\ Commit(s)
      /\ here' = here \ D /\ gone' = gone \cup D /\ moves' = moves
      /\ SetNull(D)
  BY DEF DeleteCommit
<1>3. parent' = [c \in Nodes |-> IF c \in here \ D /\ parent[c] \in D THEN NoOne ELSE parent[c]]
  BY <1>2 DEF SetNull
<1>4. parent' \in [Nodes -> Nodes \cup {NoOne}] /\ path' \in [Nodes -> Seq(Nodes)]
  <2>1. <<>> \in Seq(Nodes)
    OBVIOUS
  <2>2. path' \in [Nodes -> Seq(Nodes)]
    BY <1>1, <1>2, <2>1 DEF SetNull, TypeOK
  <2>3. QED
    BY <1>1, <1>3, <2>2 DEF TypeOK
<1>5. /\ TypeOK'
      /\ copy' = [o \in Sessions |-> copy'[o]]
      /\ \A o \in Sessions : (Unborn(o) /\ Loaded(o))'
      /\ kind'[s] = "create"
      /\ \A o \in Sessions \ {s} : kind'[o] = kind[o] /\ node'[o] = node[o]
  <2>1. /\ here' \cup gone' \subseteq Nodes /\ here' \cap gone' = {}
        /\ here' \subseteq here /\ gone' \subseteq gone \cup here
    BY <1>1, <1>2 DEF TypeOK
  <2>2. QED
    BY <1>2, <1>4, <2>1, CommitKeeps
<1>6. NoDanglingParent'
  BY <1>1, <1>2, <1>3 DEF NoDanglingParent, TypeOK
<1>7. ASSUME NEW o \in Sessions, kind'[o] = "childless" PROVE Children(node[o])' = {}
  <2>1. o # s /\ kind[o] = "childless" /\ node'[o] = node[o]
    BY <1>5, <1>7
  <2>2. Children(node[o]) = {} /\ node[o] \in Nodes
    BY <2>1, <1>1 DEF IInv, Loaded, MoveKinds, TypeOK
  <2>3. QED
    BY <1>1, <1>2, <1>3, <2>1, <2>2, SessionAssumption DEF Children, TypeOK
<1>8. QED
  BY <1>5, <1>6, <1>7 DEF IInv

LEMMA AbortKeeps ==
  ASSUME IInv, NEW s \in Sessions, Abort(s)
  PROVE  IInv'
<1>1. /\ TypeOK /\ copy = [o \in Sessions |-> copy[o]] /\ NoDanglingParent
      /\ EndTx(s) /\ dirty' = [dirty EXCEPT ![s] = {}]
      /\ UNCHANGED <<tree, disturbed, moves>>
  BY DEF IInv, Abort
<1>2. TypeOK'
  BY <1>1, EndTypes DEF TypeOK, tree
<1>3. \A o \in Sessions : (Unborn(o) /\ Loaded(o))'
  <2>1. \A o \in Sessions : Unborn(o) /\ Loaded(o)
    BY DEF IInv
  <2>2. Unborn(s)' /\ Loaded(s)'
    BY <1>1, EndTypes DEF Unborn, Loaded, MoveKinds
  <2>3. ASSUME NEW o \in Sessions \ {s} PROVE Unborn(o)' /\ Loaded(o)'
    <3>1. /\ pc'[o] = pc[o] /\ kind'[o] = kind[o] /\ node'[o] = node[o]
          /\ target'[o] = target[o] /\ copy'[o] = copy[o]
      BY <1>1, EndTypes
    <3>2. \A q \in Sessions : node'[q] = node[q] \/ node'[q] = NoOne
      BY <1>1, EndTypes
    <3>3. pc[o] = "inserting" => node[o] \in Nodes
      BY <1>1 DEF TypeOK
    <3>4. QED
      BY <1>1, <2>1, <3>1, <3>2, <3>3, SessionAssumption DEF Unborn, Loaded, tree
  <2>4. QED
    BY <2>2, <2>3
<1>4. ASSUME NEW o \in Sessions, kind'[o] = "childless" PROVE Children(node[o])' = {}
  <2>1. kind[o] = "childless" /\ node'[o] = node[o]
    BY <1>1, <1>4, EndTypes
  <2>2. QED
    BY <1>1, <2>1 DEF IInv, Children, tree
<1>5. QED
  BY <1>1, <1>2, <1>3, <1>4, EndTypes DEF IInv, NoDanglingParent, tree

(* Every action keeps the invariant.                                       *)
LEMMA StepKeeps == IInv /\ [Next]_vars => IInv'
<1> SUFFICES ASSUME IInv, [Next]_vars PROVE IInv'
  OBVIOUS
<1>1. CASE UNCHANGED vars
  BY <1>1 DEF vars, tree, session, IInv, TypeOK, Unborn, Loaded, Children, NoDanglingParent
<1>2. CASE Next
  <2>1. PICK s \in Sessions :
          \/ CreateCommit(s) \/ MoveWrite(s) \/ MoveCommit(s) \/ DeleteCommit(s) \/ Abort(s)
          \/ \E n \in Nodes, p \in Nodes \cup {NoOne} : CreateInsert(s, n, p)
          \/ \E n, p \in Nodes : MoveStart(s, n, p) \/ ChildlessStart(s, n, p)
          \/ \E n \in Nodes : DeleteLoad(s, n)
    BY <1>2 DEF Next
  <2>2. CASE \E n, p \in Nodes : MoveStart(s, n, p)
    <3>1. PICK n, p \in Nodes : MoveStart(s, n, p)
      BY <2>2
    <3>2. MoveLoad(s, "move", n, p) /\ "move" \in Moves /\ "move" \in MoveKinds
      BY <3>1 DEF MoveStart, MoveKinds
    <3>3. QED
      BY <3>2, MoveLoadKeeps
  <2>3. CASE \E n, p \in Nodes : ChildlessStart(s, n, p)
    <3>1. PICK n, p \in Nodes : ChildlessStart(s, n, p)
      BY <2>3
    <3>2. /\ MoveLoad(s, "childless", n, p) /\ Children(n) = {}
          /\ "childless" \in MoveKinds
      BY <3>1 DEF ChildlessStart, RefuseIfPopulated, MoveKinds
    <3>3. QED
      BY <3>2, MoveLoadKeeps
  <2>4. QED
    BY <2>1, <2>2, <2>3, CreateCommitKeeps, MoveWriteKeeps, MoveCommitKeeps,
       DeleteCommitKeeps, AbortKeeps, CreateInsertKeeps, DeleteLoadKeeps
<1>3. QED
  BY <1>1, <1>2

LEMMA InvariantHolds == Spec => []IInv
BY InitHolds, StepKeeps, PTL DEF Spec

(* Whatever overlaps, each variable keeps its type.                        *)
THEOREM TypeCorrect == Spec => []TypeOK
<1>1. IInv => TypeOK
  BY DEF IInv
<1>2. QED
  BY <1>1, InvariantHolds, PTL

(* The foreign key with ON DELETE SET NULL: a parent_id never names a row  *)
(* that is not there, by the shares that inserts and moves wait for.       *)
THEOREM ParentsAreThere == Spec => []NoDanglingParent
<1>1. IInv => NoDanglingParent
  BY DEF IInv
<1>2. QED
  BY <1>1, InvariantHolds, PTL

(* _refuse_if_populated: no interleaving moves a node that has children.   *)
THEOREM PopulatedStay == Spec => NoPopulatedMove
<1>1. IInv /\ [Next]_vars =>
        [\A s \in Sessions : kind[s] = "childless" /\ MoveCommit(s) => Children(node[s]) = {}]_vars
  BY DEF IInv
<1>2. QED
  BY <1>1, InvariantHolds, PTL DEF Spec, NoPopulatedMove

-----------------------------------------------------------------------------
(* Trees whose paths are chains of ancestors.                              *)

(* The nodes below n, by their paths, and the same with n itself.          *)
Beneath(n) == {d \in here : n \in On(path[d])}
Branch(n) == {d \in here : d = n} \cup Beneath(n)

(* Each node on a path is there and has for its path what is before it.    *)
Chained ==
  \A n \in here : \A i \in 1..Len(path[n]) :
    /\ path[n][i] \in here /\ Len(path[path[n][i]]) = i - 1
    /\ \A j \in 1..(i - 1) : path[path[n][i]][j] = path[n][j]

(* parent_id names the last node of path.                                  *)
ParentIsLast ==
  \A n \in here : parent[n] = IF Len(path[n]) = 0 THEN NoOne ELSE path[n][Len(path[n])]

(* Of ranked elements, one has the least rank.                             *)
LEMMA LeastRank ==
  ASSUME NEW S, S # {}, NEW rank, \A x \in S : rank[x] \in Nat
  PROVE  \E x \in S : \A y \in S : rank[x] <= rank[y]
<1> DEFINE T == {rank[x] : x \in S}
<1>1. T \subseteq Nat /\ T # {}
  OBVIOUS
<1> HIDE DEF T
<1>2. PICK r \in T : \A q \in T : ~ (<<q, r>> \in OpToRel(<, Nat))
  BY <1>1, WFMin, NatLessThanWellFounded
<1>3. \A q \in T : ~ (q < r)
  BY <1>1, <1>2 DEF OpToRel
<1>4. QED
  BY <1>1, <1>3 DEF T

(* Of some nodes, one has the shortest path.                               *)
LEMMA Shallowest ==
  ASSUME TypeOK, NEW S, S \subseteq Nodes, S # {}
  PROVE  \E n \in S : \A m \in S : Len(path[n]) <= Len(path[m])
<1> DEFINE depth == [n \in S |-> Len(path[n])]
<1>1. \A n \in S : depth[n] = Len(path[n]) /\ depth[n] \in Nat
  BY DEF TypeOK
<1> HIDE DEF depth
<1>2. \E n \in S : \A m \in S : depth[n] <= depth[m]
  BY <1>1, LeastRank
<1>3. QED
  BY <1>1, <1>2

(* What Chained says of one place of one path.                             *)
LEMMA OnPath ==
  ASSUME TypeOK, Chained, NEW n \in here, NEW m \in On(path[n])
  PROVE  /\ m \in here /\ Len(path[m]) < Len(path[n])
         /\ path[n][Len(path[m]) + 1] = m
         /\ Len(path[m]) \in Nat /\ Len(path[n]) \in Nat
         /\ \A j \in 1..Len(path[m]) : path[m][j] = path[n][j]
<1>1. PICK i \in 1..Len(path[n]) : path[n][i] = m
  BY DEF On
<1>2. n \in Nodes /\ Len(path[n]) \in Nat
  BY DEF TypeOK
<1>3. m \in here /\ Len(path[m]) = i - 1 /\ \A j \in 1..(i - 1) : path[m][j] = path[n][j]
  BY <1>1 DEF Chained
<1>4. QED
  BY <1>1, <1>2, <1>3

(* A node is not above itself; what is above what is above is above; and   *)
(* what is above one node lies on one line.                                *)
LEMMA ChainedIsForest ==
  ASSUME TypeOK, Chained, NEW n \in here
  PROVE  /\ n \notin On(path[n])
         /\ On(path[n]) \subseteq here
         /\ \A m \in On(path[n]) : On(path[m]) \subseteq On(path[n])
         /\ \A m, k \in On(path[n]) : m = k \/ m \in On(path[k]) \/ k \in On(path[m])
<1>1. n \notin On(path[n])
  <2>1. SUFFICES ASSUME n \in On(path[n]) PROVE FALSE
    OBVIOUS
  <2>2. Len(path[n]) < Len(path[n]) /\ Len(path[n]) \in Nat
    BY <2>1, OnPath
  <2>3. QED
    BY <2>2
<1>2. On(path[n]) \subseteq here
  BY OnPath
<1>3. ASSUME NEW m \in On(path[n]), NEW k \in On(path[m])
      PROVE  k \in On(path[n])
  <2>1. /\ Len(path[m]) < Len(path[n]) /\ Len(path[m]) \in Nat /\ Len(path[n]) \in Nat
        /\ \A j \in 1..Len(path[m]) : path[m][j] = path[n][j]
    BY OnPath
  <2>2. PICK i \in 1..Len(path[m]) : path[m][i] = k
    BY DEF On
  <2>3. i \in 1..Len(path[n]) /\ path[n][i] = k
    BY <2>1, <2>2
  <2>4. QED
    BY <2>3 DEF On
<1>4. ASSUME NEW m \in On(path[n]), NEW k \in On(path[n]), Len(path[m]) < Len(path[k])
      PROVE  m \in On(path[k])
  <2>1. path[n][Len(path[m]) + 1] = m /\ Len(path[m]) \in Nat
    BY OnPath
  <2>2. Len(path[k]) \in Nat /\ \A j \in 1..Len(path[k]) : path[k][j] = path[n][j]
    BY OnPath
  <2>3. Len(path[m]) + 1 \in 1..Len(path[k])
    BY <1>4, <2>1, <2>2
  <2>4. path[k][Len(path[m]) + 1] = m
    BY <2>1, <2>2, <2>3
  <2>5. QED
    BY <2>3, <2>4 DEF On
<1>5. ASSUME NEW m \in On(path[n]), NEW k \in On(path[n]), Len(path[m]) = Len(path[k])
      PROVE  m = k
  <2>1. path[n][Len(path[m]) + 1] = m /\ path[n][Len(path[k]) + 1] = k
    BY OnPath
  <2>2. QED
    BY <2>1, <1>5
<1>6. \A m \in On(path[n]) : Len(path[m]) \in Nat
  BY OnPath
<1>7. ASSUME NEW m \in On(path[n]), NEW k \in On(path[n])
      PROVE  m = k \/ m \in On(path[k]) \/ k \in On(path[m])
  <2>1. \/ Len(path[m]) < Len(path[k]) \/ Len(path[m]) = Len(path[k])
        \/ Len(path[k]) < Len(path[m])
    BY <1>6
  <2>2. QED
    BY <2>1, <1>4, <1>5
<1>8. QED
  BY <1>1, <1>2, <1>3, <1>7

(* Then a path is its parent's path and the parent.                        *)
LEMMA PathOfParent ==
  ASSUME TypeOK, Chained, ParentIsLast, NEW n \in here
  PROVE  path[n] = PathBelow(parent[n])
<1>1. n \in Nodes /\ path[n] \in Seq(Nodes) /\ Len(path[n]) \in Nat
  BY DEF TypeOK
<1>2. CASE Len(path[n]) = 0
  <2>1. parent[n] = NoOne /\ path[n] = <<>>
    BY <1>1, <1>2 DEF ParentIsLast
  <2>2. QED
    BY <2>1 DEF PathBelow
<1>3. CASE Len(path[n]) # 0
  <2> DEFINE l == Len(path[n])
  <2>1. l \in 1..Len(path[n]) /\ parent[n] = path[n][l]
    BY <1>1, <1>3 DEF ParentIsLast
  <2>2. /\ parent[n] \in here /\ Len(path[parent[n]]) = l - 1
        /\ \A j \in 1..(l - 1) : path[parent[n]][j] = path[n][j]
    BY <2>1 DEF Chained
  <2>3. parent[n] \in Nodes /\ parent[n] # NoOne /\ path[parent[n]] \in Seq(Nodes)
    BY <2>2, SessionAssumption DEF TypeOK
  <2>4. /\ Append(path[parent[n]], parent[n]) \in Seq(Nodes)
        /\ Len(Append(path[parent[n]], parent[n])) = l
        /\ \A j \in 1..l : Append(path[parent[n]], parent[n])[j] = path[n][j]
    BY <1>1, <1>3, <2>1, <2>2, <2>3
  <2>5. path[n] = Append(path[parent[n]], parent[n])
    BY <1>1, <2>4, SeqEqual
  <2>6. QED
    BY <2>3, <2>5 DEF PathBelow
<1>4. QED
  BY <1>2, <1>3

(* And climbing ends: of a set of nodes, a shallowest has its parent       *)
(* outside.                                                                *)
LEMMA ChainedIsAcyclic ==
  ASSUME TypeOK, Chained, ParentIsLast
  PROVE  Acyclic
<1>1. SUFFICES ASSUME NEW S \in SUBSET here, S # {} PROVE \E n \in S : parent[n] \notin S
  BY DEF Acyclic
<1>2. S \subseteq Nodes
  BY DEF TypeOK
<1>3. PICK n \in S : \A m \in S : Len(path[n]) <= Len(path[m])
  BY <1>1, <1>2, Shallowest
<1>4. n \in here /\ Len(path[n]) \in Nat
  BY <1>2 DEF TypeOK
<1>5. CASE Len(path[n]) = 0
  BY <1>2, <1>4, <1>5, SessionAssumption DEF ParentIsLast
<1>6. CASE Len(path[n]) # 0
  <2>1. Len(path[n]) \in 1..Len(path[n]) /\ parent[n] = path[n][Len(path[n])]
    BY <1>4, <1>6 DEF ParentIsLast
  <2>2. Len(path[parent[n]]) = Len(path[n]) - 1
    BY <1>4, <2>1 DEF Chained
  <2>3. parent[n] \notin S
    BY <1>3, <1>4, <2>2
  <2>4. QED
    BY <2>3
<1>7. QED
  BY <1>5, <1>6

(* The cascade's set, by parent_id, is the branch, by path.                *)
LEMMA SubtreeIsBranch ==
  ASSUME TypeOK, Chained, ParentIsLast, NEW n \in here
  PROVE  Subtree(n) = Branch(n)
<1>1. /\ Branch(n) \subseteq here /\ n \in Branch(n)
      /\ \A d \in Branch(n) : d = n \/ n \in On(path[d])
  BY DEF Branch, Beneath
<1>2. ASSUME NEW c \in here, parent[c] \in Branch(n) PROVE c \in Branch(n)
  <2>1. c \in Nodes /\ Len(path[c]) \in Nat
    BY DEF TypeOK
  <2>2. Len(path[c]) # 0
    BY <1>1, <1>2, SessionAssumption DEF ParentIsLast, TypeOK
  <2>3. parent[c] \in On(path[c])
    BY <2>1, <2>2 DEF ParentIsLast, On
  <2>4. n \in On(path[c])
    BY <1>1, <1>2, <2>3, ChainedIsForest
  <2>5. QED
    BY <2>4 DEF Branch, Beneath
<1>3. Subtree(n) \subseteq Branch(n)
  BY <1>1, <1>2 DEF Subtree
<1>4. ASSUME NEW S \in SUBSET here, n \in S, \A c \in here : parent[c] \in S => c \in S
      PROVE  Branch(n) \subseteq S
  <2>1. SUFFICES ASSUME Branch(n) \ S # {} PROVE FALSE
    OBVIOUS
  <2>2. Branch(n) \ S \subseteq Nodes
    BY <1>1 DEF TypeOK
  <2>3. PICK d \in Branch(n) \ S : \A m \in Branch(n) \ S : Len(path[d]) <= Len(path[m])
    BY <2>1, <2>2, Shallowest
  <2>4. d \in here /\ n \in On(path[d]) /\ Len(path[d]) \in Nat
    BY <1>1, <1>4, <2>2, <2>3 DEF TypeOK
  <2>5. PICK i \in 1..Len(path[d]) : path[d][i] = n
    BY <2>4 DEF On
  <2>6. Len(path[d]) \in 1..Len(path[d]) /\ parent[d] = path[d][Len(path[d])]
    BY <2>4, <2>5 DEF ParentIsLast
  <2>7. /\ parent[d] \in here /\ Len(path[parent[d]]) = Len(path[d]) - 1
        /\ \A j \in 1..(Len(path[d]) - 1) : path[parent[d]][j] = path[d][j]
    <3> DEFINE l == Len(path[d])
    <3>1. l \in 1..Len(path[d]) /\ parent[d] = path[d][l]
      BY <2>6
    <3>2. /\ path[d][l] \in here /\ Len(path[path[d][l]]) = l - 1
          /\ \A j \in 1..(l - 1) : path[path[d][l]][j] = path[d][j]
      BY <2>4, <3>1 DEF Chained
    <3>3. QED
      BY <3>1, <3>2
  <2>8. parent[d] \in Branch(n)
    <3>1. CASE i = Len(path[d])
      BY <1>1, <2>5, <2>6, <3>1
    <3>2. CASE i # Len(path[d])
      <4>1. i \in 1..Len(path[parent[d]]) /\ path[parent[d]][i] = n
        BY <2>4, <2>5, <2>7, <3>2
      <4>2. n \in On(path[parent[d]])
        BY <4>1 DEF On
      <4>3. QED
        BY <2>7, <4>2 DEF Branch, Beneath
    <3>3. QED
      BY <3>1, <3>2
  <2>9. parent[d] \in S
    BY <2>3, <2>4, <2>7, <2>8
  <2>10. QED
    BY <1>4, <2>3, <2>4, <2>9
<1>5. Branch(n) \subseteq Subtree(n)
  BY <1>1, <1>4 DEF Subtree
<1>6. QED
  BY <1>3, <1>5

(* A leaf, with its parent's path and the parent for its own.              *)
LEMMA GrownIsChained ==
  ASSUME TypeOK, Chained, ParentIsLast, NEW n \in Nodes \ here, NEW p \in here \cup {NoOne},
         here' = here \cup {n}, parent' = [parent EXCEPT ![n] = p],
         path' = [path EXCEPT ![n] = PathBelow(p)]
  PROVE  (Chained /\ ParentIsLast)'
<1>1. /\ \A d \in here : d \in Nodes /\ path'[d] = path[d] /\ parent'[d] = parent[d]
      /\ path'[n] = PathBelow(p) /\ parent'[n] = p /\ here \subseteq Nodes
  BY DEF TypeOK
<1>2. ASSUME NEW d \in here, NEW i \in 1..Len(path'[d])
      PROVE  /\ path'[d][i] \in here' /\ Len(path'[path'[d][i]]) = i - 1
             /\ \A j \in 1..(i - 1) : path'[path'[d][i]][j] = path'[d][j]
  <2>1. /\ path[d][i] \in here /\ Len(path[path[d][i]]) = i - 1
        /\ \A j \in 1..(i - 1) : path[path[d][i]][j] = path[d][j]
    BY <1>1, <1>2 DEF Chained
  <2>2. QED
    BY <1>1, <2>1
<1>3. CASE p = NoOne
  <2>1. path'[n] = <<>> /\ Len(path'[n]) = 0
    BY <1>1, <1>3 DEF PathBelow
  <2>2. Chained'
    <3>1. SUFFICES ASSUME NEW d \in here', NEW i \in 1..Len(path'[d])
                 PROVE  /\ path'[d][i] \in here' /\ Len(path'[path'[d][i]]) = i - 1
                        /\ \A j \in 1..(i - 1) : path'[path'[d][i]][j] = path'[d][j]
      BY DEF Chained
    <3>2. d \in here
      BY <2>1
    <3>3. QED
      BY <1>2, <3>2
  <2>3. ParentIsLast'
    BY <1>1, <1>3, <2>1 DEF ParentIsLast
  <2>4. QED
    BY <2>2, <2>3
<1>4. CASE p # NoOne
  <2>1. p \in here /\ p \in Nodes /\ path[p] \in Seq(Nodes) /\ path'[p] = path[p]
    BY <1>1, <1>4 DEF TypeOK
  <2>2. path'[n] = Append(path[p], p)
    BY <1>1, <1>4 DEF PathBelow
  <2>3. /\ Len(path[p]) \in Nat /\ Len(path'[n]) = Len(path[p]) + 1
        /\ \A j \in 1..Len(path[p]) : path'[n][j] = path[p][j]
        /\ path'[n][Len(path[p]) + 1] = p
    BY <2>1, <2>2
  <2>4. ASSUME NEW i \in 1..Len(path'[n])
        PROVE  /\ path'[n][i] \in here' /\ Len(path'[path'[n][i]]) = i - 1
               /\ \A j \in 1..(i - 1) : path'[path'[n][i]][j] = path'[n][j]
    <3>1. CASE i = Len(path[p]) + 1
      BY <1>1, <2>1, <2>3, <3>1
    <3>2. CASE i # Len(path[p]) + 1
      <4>1. i \in 1..Len(path[p])
        BY <2>3, <2>4, <3>2
      <4>2. /\ path[p][i] \in here /\ Len(path[path[p][i]]) = i - 1
            /\ \A j \in 1..(i - 1) : path[path[p][i]][j] = path[p][j]
        BY <2>1, <4>1 DEF Chained
      <4>3. \A j \in 1..(i - 1) : j \in 1..Len(path[p])
        BY <2>3, <4>1
      <4>4. QED
        BY <1>1, <2>3, <4>1, <4>2, <4>3
    <3>3. QED
      BY <3>1, <3>2
  <2>5. Chained'
    <3>1. SUFFICES ASSUME NEW d \in here', NEW i \in 1..Len(path'[d])
                 PROVE  /\ path'[d][i] \in here' /\ Len(path'[path'[d][i]]) = i - 1
                        /\ \A j \in 1..(i - 1) : path'[path'[d][i]][j] = path'[d][j]
      BY DEF Chained
    <3>2. CASE d = n
      BY <3>1, <3>2, <2>4
    <3>3. CASE d # n
      <4>1. d \in here
        BY <3>3
      <4>2. QED
        BY <4>1, <1>2
    <3>4. QED
      BY <3>2, <3>3
  <2>6. ParentIsLast'
    <3>1. Len(path'[n]) # 0 /\ parent'[n] = path'[n][Len(path'[n])]
      BY <1>1, <2>3
    <3>2. \A d \in here : parent'[d] = IF Len(path'[d]) = 0 THEN NoOne ELSE path'[d][Len(path'[d])]
      BY <1>1 DEF ParentIsLast
    <3>3. QED
      BY <3>1, <3>2 DEF ParentIsLast
  <2>7. QED
    BY <2>5, <2>6
<1>5. QED
  BY <1>3, <1>4

(* A branch taken away.                                                    *)
LEMMA PrunedIsChained ==
  ASSUME TypeOK, Chained, ParentIsLast, NEW n, here' = here \ Branch(n),
         \A d \in here' : path'[d] = path[d] /\ parent'[d] = parent[d]
  PROVE  (Chained /\ ParentIsLast)'
<1>1. ASSUME NEW d \in here', NEW i \in 1..Len(path[d])
      PROVE  /\ path[d][i] \in here' /\ Len(path[path[d][i]]) = i - 1
             /\ \A j \in 1..(i - 1) : path[path[d][i]][j] = path[d][j]
  <2>1. /\ path[d][i] \in here /\ Len(path[path[d][i]]) = i - 1
        /\ \A j \in 1..(i - 1) : path[path[d][i]][j] = path[d][j]
    BY <1>1 DEF Chained
  <2>2. path[d][i] \in On(path[d]) /\ d \in here
    BY DEF On
  <2>3. n \notin On(path[d])
    BY <2>2 DEF Branch, Beneath
  <2>4. path[d][i] # n /\ n \notin On(path[path[d][i]])
    BY <2>2, <2>3, ChainedIsForest
  <2>5. QED
    BY <2>1, <2>4 DEF Branch, Beneath
<1>2. Chained'
  <2>1. SUFFICES ASSUME NEW d \in here', NEW i \in 1..Len(path'[d])
                 PROVE  /\ path'[d][i] \in here' /\ Len(path'[path'[d][i]]) = i - 1
                        /\ \A j \in 1..(i - 1) : path'[path'[d][i]][j] = path'[d][j]
    BY DEF Chained
  <2>2. d \in here' /\ path'[d] = path[d] /\ i \in 1..Len(path[d])
    BY <2>1
  <2>3. path[d][i] \in here' /\ path'[path[d][i]] = path[path[d][i]]
    BY <1>1, <2>2
  <2>4. QED
    BY <1>1, <2>2, <2>3
<1>3. ParentIsLast'
  BY DEF ParentIsLast
<1>4. QED
  BY <1>2, <1>3

(* A branch below n put below p: the path of d, from n on, comes after the *)
(* path of p and p.                                                        *)
Carried(d, n, p) ==
  /\ Len(path'[d]) = Len(path[p]) + 1 + (Len(path[d]) - Len(path[n]))
  /\ \A j \in 1..Len(path[p]) : path'[d][j] = path[p][j]
  /\ path'[d][Len(path[p]) + 1] = p
  /\ \A k \in 1..(Len(path[d]) - Len(path[n])) :
       path'[d][Len(path[p]) + 1 + k] = path[d][Len(path[n]) + k]

(* Where n stands in the path of a node of its branch.                     *)
LEMMA InBranch ==
  ASSUME TypeOK, Chained, NEW n \in here, NEW d \in Branch(n)
  PROVE  /\ d \in here /\ d \in Nodes /\ Len(path[d]) \in Nat /\ Len(path[n]) \in Nat
         /\ Len(path[n]) <= Len(path[d])
         /\ d # n => Len(path[n]) < Len(path[d]) /\ path[d][Len(path[n]) + 1] = n
         /\ \A j \in 1..Len(path[n]) : path[d][j] = path[n][j]
<1>1. d \in here /\ (d = n \/ n \in On(path[d]))
  BY DEF Branch, Beneath
<1>2. d \in Nodes /\ n \in Nodes /\ Len(path[d]) \in Nat /\ Len(path[n]) \in Nat
  BY <1>1 DEF TypeOK
<1>3. CASE d = n
  BY <1>1, <1>2, <1>3
<1>4. CASE n \in On(path[d])
  <2>1. /\ Len(path[n]) < Len(path[d]) /\ path[d][Len(path[n]) + 1] = n
        /\ \A j \in 1..Len(path[n]) : path[n][j] = path[d][j]
    BY <1>1, <1>4, OnPath
  <2>2. QED
    BY <1>1, <1>2, <2>1
<1>5. QED
  BY <1>1, <1>3, <1>4

(* What stands after n in such a path is of the branch too.                *)
LEMMA AfterInBranch ==
  ASSUME TypeOK, Chained, NEW n \in here, NEW d \in Branch(n),
         NEW k \in 1..(Len(path[d]) - Len(path[n]))
  PROVE  /\ path[d][Len(path[n]) + k] \in Branch(n)
         /\ Len(path[path[d][Len(path[n]) + k]]) = Len(path[n]) + k - 1
         /\ \A j \in 1..(Len(path[n]) + k - 1) :
              path[path[d][Len(path[n]) + k]][j] = path[d][j]
<1> DEFINE ln == Len(path[n])
           i == ln + k
           m == path[d][i]
<1>1. /\ d \in here /\ Len(path[d]) \in Nat /\ ln \in Nat
      /\ d # n => ln < Len(path[d]) /\ path[d][ln + 1] = n
  BY InBranch
<1>2. i \in 1..Len(path[d]) /\ i - 1 = ln + k - 1 /\ d # n
  BY <1>1
<1>3. m \in here /\ Len(path[m]) = i - 1 /\ \A j \in 1..(i - 1) : path[m][j] = path[d][j]
  <2> HIDE DEF i
  <2>1. QED
    BY <1>1, <1>2 DEF Chained
<1>4. m \in Branch(n)
  <2>1. CASE k = 1
    BY <1>1, <1>2, <1>3, <2>1 DEF Branch
  <2>2. CASE k # 1
    <3>1. ln + 1 \in 1..(i - 1) /\ ln + 1 \in 1..Len(path[m])
      BY <1>1, <1>3, <2>2
    <3>2. path[m][ln + 1] = n
      BY <1>1, <1>2, <1>3, <3>1
    <3>3. n \in On(path[m])
      BY <3>1, <3>2 DEF On
    <3>4. QED
      BY <1>3, <3>3 DEF Branch, Beneath
  <2>3. QED
    BY <2>1, <2>2
<1>5. QED
  BY <1>2, <1>3, <1>4

(* What is above a node outside of a branch is outside of it.              *)
LEMMA OutsideBranch ==
  ASSUME TypeOK, Chained, NEW n, NEW d \in here \ Branch(n), NEW m \in On(path[d])
  PROVE  m \in here \ Branch(n)
<1>1. m \in here
  BY ChainedIsForest
<1>2. n \notin On(path[d])
  BY DEF Branch, Beneath
<1>3. m # n /\ n \notin On(path[m])
  BY <1>2, ChainedIsForest
<1>4. QED
  BY <1>1, <1>3 DEF Branch, Beneath

LEMMA MovedIsChained ==
  ASSUME TypeOK, Chained, ParentIsLast, NEW n \in here, NEW p \in here, p \notin Branch(n),
         here' = here, parent' = [parent EXCEPT ![n] = p],
         \A d \in here \ Branch(n) : path'[d] = path[d],
         \A d \in Branch(n) : Carried(d, n, p)
  PROVE  (Chained /\ ParentIsLast)'
<1> DEFINE lp == Len(path[p])
           ln == Len(path[n])
<1>1. lp \in Nat /\ ln \in Nat /\ n \in Nodes /\ here \subseteq Nodes
  BY DEF TypeOK
<1>2. ASSUME NEW d \in here \ Branch(n), NEW i \in 1..Len(path[d])
      PROVE  /\ path[d][i] \in here' /\ Len(path'[path[d][i]]) = i - 1
             /\ \A j \in 1..(i - 1) : path'[path[d][i]][j] = path[d][j]
  <2>1. /\ path[d][i] \in here /\ Len(path[path[d][i]]) = i - 1
        /\ \A j \in 1..(i - 1) : path[path[d][i]][j] = path[d][j]
    BY <1>2 DEF Chained
  <2>2. path[d][i] \in here \ Branch(n)
    <3>1. path[d][i] \in On(path[d])
      BY DEF On
    <3>2. QED
      BY <3>1, OutsideBranch
  <2>3. QED
    BY <2>1, <2>2
<1>3. ASSUME NEW d \in Branch(n), NEW i \in 1..Len(path'[d])
      PROVE  /\ path'[d][i] \in here' /\ Len(path'[path'[d][i]]) = i - 1
             /\ \A j \in 1..(i - 1) : path'[path'[d][i]][j] = path'[d][j]
  <2> DEFINE rest == Len(path[d]) - ln
  <2>1. /\ rest \in Nat /\ Len(path'[d]) = lp + 1 + rest
        /\ \A j \in 1..lp : path'[d][j] = path[p][j]
        /\ path'[d][lp + 1] = p
        /\ \A k \in 1..rest : path'[d][lp + 1 + k] = path[d][ln + k]
    <3>1. Carried(d, n, p)
      OBVIOUS
    <3>2. Len(path[d]) \in Nat /\ ln <= Len(path[d])
      BY InBranch
    <3>3. QED
      BY <1>1, <3>1, <3>2 DEF Carried
  <2>6. rest \in Nat /\ Len(path'[d]) = lp + 1 + rest /\ i \in 1..(lp + 1 + rest)
    BY <2>1
  <2> HIDE DEF rest
  <2>2. CASE i \in 1..lp
    <3>1. /\ path[p][i] \in here' /\ Len(path'[path[p][i]]) = i - 1
          /\ \A j \in 1..(i - 1) : path'[path[p][i]][j] = path[p][j]
      BY <1>2, <2>2
    <3>2. \A j \in 1..(i - 1) : j \in 1..lp
      BY <1>1, <2>2
    <3>3. QED
      BY <2>1, <2>2, <3>1, <3>2
  <2>3. CASE i = lp + 1
    <3>1. path'[d][i] = p /\ path'[p] = path[p] /\ i - 1 = lp
      BY <1>1, <2>1, <2>3
    <3>2. QED
      BY <2>1, <3>1
  <2>4. CASE i > lp + 1
    <3> DEFINE k == i - (lp + 1)
    <3>1. k \in 1..rest /\ i = lp + 1 + k
      <4> HIDE DEF lp
      <4>1. QED
        BY <1>1, <2>6, <2>4
    <3> HIDE DEF k
    <3>2. PICK m : m = path[d][ln + k]
      OBVIOUS
    <3>3. path'[d][i] = m
      BY <2>1, <3>1, <3>2
    <3>4. /\ m \in Branch(n) /\ Len(path[m]) = ln + k - 1
          /\ \A j \in 1..(ln + k - 1) : path[m][j] = path[d][j]
      BY <3>1, <3>2, AfterInBranch DEF rest
    <3>5. /\ m \in here
          /\ Len(path'[m]) = lp + 1 + (Len(path[m]) - ln)
          /\ \A j \in 1..lp : path'[m][j] = path[p][j]
          /\ path'[m][lp + 1] = p
          /\ \A q \in 1..(Len(path[m]) - ln) : path'[m][lp + 1 + q] = path[m][ln + q]
      BY <3>4, InBranch DEF Carried
    <3>6. Len(path[m]) - ln = k - 1 /\ Len(path'[m]) = i - 1
      <4>1. /\ Len(path[m]) = ln + k - 1
            /\ Len(path'[m]) = lp + 1 + (Len(path[m]) - ln)
        BY <3>4, <3>5
      <4> HIDE DEF lp, ln
      <4>2. QED
        BY <1>1, <2>6, <3>1, <4>1
    <3>7. ASSUME NEW j \in 1..(i - 1) PROVE path'[m][j] = path'[d][j]
      <4>1. CASE j <= lp + 1
        <5>1. j \in 1..lp \/ j = lp + 1
          BY <1>1, <4>1
        <5>2. QED
          BY <5>1, <2>1, <3>5
      <4>2. CASE j > lp + 1
        <5> DEFINE q == j - (lp + 1)
        <5>1. q \in 1..(k - 1) /\ j = lp + 1 + q /\ q \in 1..rest
          <6> HIDE DEF lp
          <6>1. QED
            BY <1>1, <2>6, <3>1, <4>2
        <5> HIDE DEF q
        <5>2. path'[m][j] = path[m][ln + q] /\ path'[d][j] = path[d][ln + q]
          BY <2>1, <3>5, <3>6, <5>1
        <5>3. ln + q \in 1..(ln + k - 1)
          BY <1>1, <3>1, <5>1
        <5>4. QED
          BY <3>4, <5>2, <5>3
      <4>3. QED
        BY <1>1, <4>1, <4>2
    <3>8. QED
      BY <3>3, <3>5, <3>6, <3>7
  <2>5. QED
    BY <1>1, <2>1, <2>2, <2>3, <2>4
<1>4. Branch(n) \subseteq here /\ n \in Branch(n)
  BY DEF Branch, Beneath
<1>5. Chained'
  <2>1. SUFFICES ASSUME NEW d \in here', NEW i \in 1..Len(path'[d])
                 PROVE  /\ path'[d][i] \in here' /\ Len(path'[path'[d][i]]) = i - 1
                        /\ \A j \in 1..(i - 1) : path'[path'[d][i]][j] = path'[d][j]
    BY DEF Chained
  <2>2. CASE d \in Branch(n)
    BY <1>3, <2>2
  <2>3. CASE d \notin Branch(n)
    <3>1. d \in here \ Branch(n) /\ path'[d] = path[d] /\ i \in 1..Len(path[d])
      BY <2>1, <2>3
    <3>2. QED
      BY <1>2, <3>1
  <2>4. QED
    BY <2>2, <2>3
<1>6. ASSUME NEW d \in here'
      PROVE  parent'[d] = IF Len(path'[d]) = 0 THEN NoOne ELSE path'[d][Len(path'[d])]
  <2>1. CASE d \notin Branch(n)
    <3>1. parent'[d] = parent[d] /\ path'[d] = path[d] /\ d \in here
      BY <1>1, <1>4, <2>1 DEF TypeOK
    <3>2. QED
      BY <3>1 DEF ParentIsLast
  <2>2. CASE d \in Branch(n)
    <3> DEFINE rest == Len(path[d]) - ln
    <3>1. /\ d \in Nodes /\ rest \in Nat /\ Len(path[d]) = ln + rest /\ (d # n => rest # 0)
          /\ (d = n => rest = 0)
      BY <1>1, <2>2, InBranch
    <3>2. /\ Len(path'[d]) = lp + 1 + rest
          /\ path'[d][lp + 1] = p
          /\ \A k \in 1..rest : path'[d][lp + 1 + k] = path[d][ln + k]
      BY <2>2 DEF Carried
    <3> HIDE DEF rest
    <3>3. CASE d = n
      <4>1. parent'[d] = p
        BY <1>1, <3>3 DEF TypeOK
      <4>2. Len(path'[d]) = lp + 1 /\ Len(path'[d]) # 0
        BY <1>1, <3>1, <3>2, <3>3
      <4>3. QED
        BY <3>2, <4>1, <4>2
    <3>4. CASE d # n
      <4>1. parent'[d] = parent[d] /\ rest \in 1..rest /\ Len(path[d]) # 0
        BY <1>1, <3>1, <3>4 DEF TypeOK
      <4>2. parent[d] = path[d][ln + rest]
        BY <3>1, <4>1, <1>4, <2>2 DEF ParentIsLast
      <4>3. path'[d][lp + 1 + rest] = path[d][ln + rest] /\ Len(path'[d]) # 0
        <5>1. Len(path'[d]) = lp + 1 + rest
          BY <3>2
        <5>2. Len(path'[d]) # 0
          BY <1>1, <3>1, <5>1
        <5>3. QED
          BY <3>2, <4>1, <5>2
      <4>4. QED
        BY <3>2, <4>1, <4>2, <4>3
    <3>5. QED
      BY <3>3, <3>4
  <2>3. QED
    BY <2>1, <2>2
<1>7. QED
  BY <1>5, <1>6 DEF ParentIsLast

(* And above each of a moved branch are what was above it in the branch,   *)
(* p and what is above p.                                                  *)
LEMMA AboveCarried ==
  ASSUME TypeOK, Chained, NEW n \in here, NEW p \in here, NEW d \in Branch(n),
         Carried(d, n, p)
  PROVE  On(path'[d]) = (On(path[d]) \ On(path[n])) \cup On(path[p]) \cup {p}
<1> DEFINE lp == Len(path[p])
           ln == Len(path[n])
           rest == Len(path[d]) - ln
<1>1. /\ lp \in Nat /\ ln \in Nat /\ rest \in Nat /\ Len(path[d]) = ln + rest /\ d \in here
      /\ \A j \in 1..ln : path[d][j] = path[n][j]
  <2>1. lp \in Nat
    BY DEF TypeOK
  <2>2. QED
    BY <2>1, InBranch
<1>2. /\ Len(path'[d]) = lp + 1 + rest
      /\ \A j \in 1..lp : path'[d][j] = path[p][j]
      /\ path'[d][lp + 1] = p
      /\ \A k \in 1..rest : path'[d][lp + 1 + k] = path[d][ln + k]
  BY DEF Carried
<1>9. Len(path'[d]) = lp + 1 + rest /\ lp \in Nat /\ rest \in Nat
  BY <1>1, <1>2
<1> HIDE DEF rest, lp
<1>3. ASSUME NEW m \in On(path[d]) \ On(path[n])
      PROVE  \E k \in 1..rest : path[d][ln + k] = m
  <2>1. PICK i \in 1..Len(path[d]) : path[d][i] = m
    BY DEF On
  <2>2. i \notin 1..ln
    BY <1>1, <2>1 DEF On
  <2>3. i - ln \in 1..rest /\ ln + (i - ln) = i
    BY <1>1, <2>1, <2>2
  <2>4. QED
    BY <2>1, <2>3
<1>4. ASSUME NEW k \in 1..rest PROVE path[d][ln + k] \in On(path[d]) \ On(path[n])
  <2>1. ln + k \in 1..Len(path[d])
    BY <1>1
  <2>2. path[d][ln + k] \in Branch(n)
    BY AfterInBranch DEF rest
  <2>3. \A m \in On(path[n]) : m # n /\ n \notin On(path[m])
    BY ChainedIsForest
  <2>4. path[d][ln + k] \notin On(path[n])
    BY <2>2, <2>3 DEF Branch, Beneath
  <2>5. QED
    BY <2>1, <2>4 DEF On
<1>5. On(path'[d]) \subseteq (On(path[d]) \ On(path[n])) \cup On(path[p]) \cup {p}
  <2>1. SUFFICES ASSUME NEW i \in 1..Len(path'[d])
                 PROVE  path'[d][i] \in (On(path[d]) \ On(path[n])) \cup On(path[p]) \cup {p}
    BY DEF On
  <2>2. CASE i \in 1..lp
    BY <1>2, <2>2 DEF On, lp
  <2>3. CASE i = lp + 1
    BY <1>2, <2>3
  <2>4. CASE i > lp + 1
    <3>1. i - (lp + 1) \in 1..rest /\ i = lp + 1 + (i - (lp + 1))
      BY <1>9, <2>4
    <3>2. PICK k \in 1..rest : i = lp + 1 + k
      BY <3>1
    <3>3. QED
      BY <1>2, <1>4, <3>2
  <2>5. QED
    BY <1>9, <2>2, <2>3, <2>4
<1>6. On(path[d]) \ On(path[n]) \subseteq On(path'[d])
  <2>1. SUFFICES ASSUME NEW k \in 1..rest PROVE path[d][ln + k] \in On(path'[d])
    BY <1>3
  <2>2. lp + 1 + k \in 1..Len(path'[d])
    BY <1>9
  <2>3. QED
    BY <1>2, <2>2 DEF On
<1>7. On(path[p]) \cup {p} \subseteq On(path'[d])
  <2>1. lp + 1 \in 1..Len(path'[d]) /\ \A j \in 1..lp : j \in 1..Len(path'[d])
    BY <1>9
  <2>2. QED
    BY <1>2, <2>1 DEF On, lp
<1>8. QED
  BY <1>5, <1>6, <1>7

(* A path that begins with another and its node passes that node, and      *)
(* conversely.                                                             *)
LEMMA PrefixIsAbove ==
  ASSUME TypeOK, Chained, NEW n \in here, NEW d \in here
  PROVE  (/\ Len(path[d]) >= Len(Append(path[n], n))
          /\ SubSeq(path[d], 1, Len(Append(path[n], n))) = Append(path[n], n))
         <=> n \in On(path[d])
<1> DEFINE ln == Len(path[n])
           old == Append(path[n], n)
<1>1. /\ n \in Nodes /\ path[n] \in Seq(Nodes) /\ path[d] \in Seq(Nodes)
      /\ ln \in Nat /\ Len(path[d]) \in Nat
  BY DEF TypeOK
<1>2. /\ old \in Seq(Nodes) /\ Len(old) = ln + 1 /\ old[ln + 1] = n
      /\ \A j \in 1..ln : old[j] = path[n][j]
  BY <1>1
<1> HIDE DEF old
<1>3. ASSUME Len(path[d]) >= Len(old), SubSeq(path[d], 1, Len(old)) = old
      PROVE  n \in On(path[d])
  <2>1. ln + 1 \in 1..Len(path[d]) /\ ln + 1 \in 1..Len(old)
    BY <1>1, <1>2, <1>3
  <2>2. SubSeq(path[d], 1, Len(old))[ln + 1] = path[d][ln + 1]
    BY <1>1, <1>2, <1>3, <2>1
  <2>3. path[d][ln + 1] = n
    BY <1>2, <1>3, <2>2
  <2>4. QED
    BY <2>1, <2>3 DEF On
<1>4. ASSUME n \in On(path[d])
      PROVE  Len(path[d]) >= Len(old) /\ SubSeq(path[d], 1, Len(old)) = old
  <2>1. /\ ln < Len(path[d]) /\ path[d][ln + 1] = n
        /\ \A j \in 1..ln : path[n][j] = path[d][j]
    BY <1>4, OnPath
  <2>2. Len(path[d]) >= ln + 1
    BY <1>1, <2>1
  <2>3. /\ SubSeq(path[d], 1, ln + 1) \in Seq(Nodes)
        /\ Len(SubSeq(path[d], 1, ln + 1)) = ln + 1
        /\ \A j \in 1..(ln + 1) : SubSeq(path[d], 1, ln + 1)[j] = path[d][j]
    BY <1>1, <2>2
  <2>4. \A j \in 1..(ln + 1) : path[d][j] = old[j]
    BY <1>1, <1>2, <2>1
  <2>5. SubSeq(path[d], 1, ln + 1) = old
    BY <1>2, <2>3, <2>4, SeqEqual
  <2>6. QED
    BY <1>2, <2>2, <2>5
<1>5. QED
  BY <1>3, <1>4 DEF old

(* The new prefix before what follows the old one.                         *)
LEMMA NewPrefix ==
  ASSUME TypeOK, Chained, NEW n \in here, NEW p \in here, NEW d \in Beneath(n),
         path'[d] = Append(Append(path[p], p), n)
                      \o SubSeq(path[d], Len(Append(path[n], n)) + 1, Len(path[d]))
  PROVE  Carried(d, n, p)
<1> DEFINE ln == Len(path[n])
           lp == Len(path[p])
           ld == Len(path[d])
           new == Append(Append(path[p], p), n)
           tail == SubSeq(path[d], ln + 2, ld)
<1>1. /\ n \in Nodes /\ p \in Nodes /\ d \in here
      /\ path[n] \in Seq(Nodes) /\ path[d] \in Seq(Nodes) /\ path[p] \in Seq(Nodes)
      /\ ln \in Nat /\ lp \in Nat /\ ld \in Nat
  BY DEF TypeOK, Beneath
<1>2. ln < ld /\ path[d][ln + 1] = n
  BY OnPath DEF Beneath
<1>3. Len(Append(path[n], n)) + 1 = ln + 2
  BY <1>1
<1>4. /\ new \in Seq(Nodes) /\ Len(new) = lp + 2 /\ new[lp + 1] = p /\ new[lp + 2] = n
      /\ \A j \in 1..lp : new[j] = path[p][j]
  <2> DEFINE q == Append(path[p], p)
  <2>1. q \in Seq(Nodes) /\ Len(q) = lp + 1 /\ q[lp + 1] = p /\ \A j \in 1..lp : q[j] = path[p][j]
    BY <1>1
  <2> HIDE DEF q
  <2>2. /\ Append(q, n) \in Seq(Nodes) /\ Len(Append(q, n)) = lp + 2
        /\ Append(q, n)[lp + 2] = n /\ \A j \in 1..(lp + 1) : Append(q, n)[j] = q[j]
    BY <1>1, <2>1
  <2>3. QED
    BY <1>1, <2>1, <2>2 DEF q
<1>5. /\ tail \in Seq(Nodes) /\ Len(tail) = ld - ln - 1
      /\ \A i \in 1..(ld - ln - 1) : tail[i] = path[d][ln + 1 + i]
  <2> HIDE DEF ln, ld
  <2>1. ln + 2 \in Int /\ ld \in Int /\ ln + 2 >= 1 /\ ln + 2 <= ld + 1
    BY <1>1, <1>2
  <2>2. \A i \in (ln + 2)..ld : path[d][i] \in Nodes
    BY <1>1 DEF ld
  <2>3. /\ tail \in Seq(Nodes) /\ Len(tail) = IF ln + 2 <= ld THEN ld - (ln + 2) + 1 ELSE 0
        /\ \A i \in 1..(ld - (ln + 2) + 1) : tail[i] = path[d][(ln + 2) + i - 1]
    BY <2>1, <2>2, SubSeqProperties
  <2>4. ld - (ln + 2) + 1 = ld - ln - 1 /\ Len(tail) = ld - ln - 1
    BY <1>1, <1>2, <2>3
  <2>5. ASSUME NEW i \in 1..(ld - ln - 1) PROVE tail[i] = path[d][ln + 1 + i]
    <3>1. (ln + 2) + i - 1 = ln + 1 + i
      BY <1>1
    <3>2. QED
      BY <2>3, <2>4, <3>1
  <2>6. QED
    BY <2>3, <2>4, <2>5
<1>6. path'[d] = new \o tail
  BY <1>3
<1> HIDE DEF new, tail
<1>7. /\ Len(path'[d]) = lp + 1 + (ld - ln)
      /\ \A i \in 1..(lp + 2) : path'[d][i] = new[i]
      /\ \A i \in 1..(ld - ln - 1) : path'[d][lp + 2 + i] = tail[i]
  <2>1. /\ Len(new \o tail) = Len(new) + Len(tail)
        /\ \A i \in 1..(Len(new) + Len(tail)) :
             (new \o tail)[i] = IF i <= Len(new) THEN new[i] ELSE tail[i - Len(new)]
    BY <1>4, <1>5, ConcatProperties
  <2> HIDE DEF lp, ln, ld
  <2>2. Len(new) = lp + 2 /\ Len(tail) = ld - ln - 1
    BY <1>4, <1>5
  <2>3. ASSUME NEW i \in 1..(lp + 2) PROVE (new \o tail)[i] = new[i]
    BY <1>1, <1>2, <2>1, <2>2
  <2>4. ASSUME NEW i \in 1..(ld - ln - 1) PROVE (new \o tail)[lp + 2 + i] = tail[i]
    <3>1. lp + 2 + i \in 1..(Len(new) + Len(tail)) /\ ~(lp + 2 + i <= Len(new))
      BY <1>1, <1>2, <2>2
    <3>2. (lp + 2 + i) - Len(new) = i
      BY <1>1, <2>2
    <3>3. QED
      BY <2>1, <3>1, <3>2
  <2>5. Len(new \o tail) = lp + 1 + (ld - ln)
    BY <1>1, <2>1, <2>2
  <2>6. QED
    BY <1>6, <2>3, <2>4, <2>5
<1>8. ASSUME NEW k \in 1..(ld - ln) PROVE path'[d][lp + 1 + k] = path[d][ln + k]
  <2>1. CASE k = 1
    <3>1. lp + 2 \in 1..(lp + 2) /\ lp + 1 + k = lp + 2 /\ ln + k = ln + 1
      BY <1>1, <2>1
    <3>2. QED
      BY <1>2, <1>4, <1>7, <3>1
  <2>2. CASE k # 1
    <3> DEFINE i == k - 1
    <3>1. i \in 1..(ld - ln - 1) /\ lp + 1 + k = lp + 2 + i /\ ln + k = ln + 1 + i
      <4> HIDE DEF lp, ln, ld
      <4>1. QED
        BY <1>1, <1>2, <2>2
    <3> HIDE DEF i
    <3>2. path'[d][lp + 2 + i] = tail[i] /\ tail[i] = path[d][ln + 1 + i]
      BY <1>5, <1>7, <3>1
    <3>3. QED
      BY <3>1, <3>2
  <2>3. QED
    BY <2>1, <2>2
<1>9. \A j \in 1..lp : path'[d][j] = path[p][j]
  <2>1. ASSUME NEW j \in 1..lp PROVE j \in 1..(lp + 2)
    BY <1>1
  <2>2. QED
    BY <1>4, <1>7, <2>1
<1>10. path'[d][lp + 1] = p
  <2>1. lp + 1 \in 1..(lp + 2)
    BY <1>1
  <2>2. QED
    BY <1>4, <1>7, <2>1
<1>11. QED
  BY <1>7, <1>8, <1>9, <1>10 DEF Carried

(* Nothing but the path of p and p.                                        *)
LEMMA NewRootOfBranch ==
  ASSUME TypeOK, NEW n \in here, NEW p \in here, path'[n] = PathBelow(p)
  PROVE  Carried(n, n, p)
<1>1. p \in Nodes /\ p # NoOne /\ path[p] \in Seq(Nodes) /\ Len(path[n]) \in Nat
  BY SessionAssumption DEF TypeOK
<1>2. path'[n] = Append(path[p], p)
  BY <1>1 DEF PathBelow
<1>3. /\ Len(path[p]) \in Nat /\ Len(path'[n]) = Len(path[p]) + 1
      /\ \A j \in 1..Len(path[p]) : path'[n][j] = path[p][j]
      /\ path'[n][Len(path[p]) + 1] = p
  BY <1>1, <1>2
<1>4. Len(path[n]) - Len(path[n]) = 0
  BY <1>1
<1>5. QED
  BY <1>1, <1>3, <1>4 DEF Carried

(* What a session knows is of rows that are there, or were: a row under    *)
(* its lock still is.                                                      *)
Known(s) ==
  /\ DOMAIN copy[s] \subseteq here \cup gone
  /\ target[s] \in here \cup gone \cup {NoOne}
  /\ pc[s] = "writing" \/ kind[s] = "childless" => node[s] \in here

(* What may still be relied upon of what a session read, by the kinds of   *)
(* write committed since: the path below the target, as long as nothing    *)
(* was moved; the copies and the cycle check of a move, as long as nothing *)
(* was moved, and that they are all of the branch, as long as nothing was  *)
(* created; that the rows to delete are a branch, or what is left of it,   *)
(* as long as rows were only deleted.                                      *)
Trusted(s) ==
  /\ pc[s] = "inserting" /\ dirty[s] \cap MoveKinds = {} /\ target[s] \in here \cup {NoOne} =>
       fresh[s] = PathBelow(target[s])
  /\ kind[s] \in MoveKinds /\ dirty[s] \cap MoveKinds = {} =>
       /\ \A m \in DOMAIN copy[s] \cap here : copy[s][m] = path[m]
       /\ node[s] \notin On(copy[s][target[s]])
       /\ pc[s] = "writing" /\ target[s] \in here => fresh[s] = PathBelow(target[s])
       /\ kind[s] = "move" /\ "create" \notin dirty[s] => Beneath(node[s]) \subseteq DOMAIN copy[s]
  /\ kind[s] = "delete" /\ pc[s] = "loaded" /\ dirty[s] \subseteq {"delete"} =>
       DOMAIN copy[s] \cap here = Branch(node[s])

(* The strengthening of PathIsChain.                                       *)
ChainInv ==
  /\ IInv
  /\ \A s \in Sessions : Known(s)
  /\ ~disturbed => Chained /\ ParentIsLast /\ \A s \in Sessions : Trusted(s)

LEMMA InitChained == Init => ChainInv
<1> SUFFICES ASSUME Init PROVE ChainInv
  OBVIOUS
<1>1. IInv
  BY InitHolds
<1>2. /\ here = DOMAIN Grown /\ here \subseteq Nodes
      /\ \A n \in here : path[n] = Grown[n] /\ Grown[n] \in Seq(here) /\ Len(path[n]) \in Nat
  BY GrownAssumption DEF Init
<1>3. Chained
  <2>1. SUFFICES ASSUME NEW n \in here, NEW i \in 1..Len(path[n])
                 PROVE  /\ path[n][i] \in here /\ Len(path[path[n][i]]) = i - 1
                        /\ \A j \in 1..(i - 1) : path[path[n][i]][j] = path[n][j]
    BY DEF Chained
  <2>2. /\ path[n] \in Seq(here) /\ Len(path[n]) \in Nat
        /\ path[n][i] \in here /\ path[path[n][i]] = SubSeq(path[n], 1, i - 1)
    <3>1. path[n] = Grown[n] /\ path[n] \in Seq(here) /\ Len(path[n]) \in Nat
      BY <1>2
    <3>2. path[n][i] \in here
      BY <3>1
    <3>3. Grown[Grown[n][i]] = SubSeq(Grown[n], 1, i - 1)
      BY <1>2, <3>1, GrownAssumption
    <3>4. QED
      BY <1>2, <3>1, <3>2, <3>3
  <2>3. i \in Nat /\ i - 1 \in Nat /\ i - 1 <= Len(path[n])
    BY <2>2
  <2>4. \A j \in 1..(i - 1) : path[n][j] \in here
    BY <2>2, <2>3
  <2>5. /\ Len(SubSeq(path[n], 1, i - 1)) = IF 1 <= i - 1 THEN (i - 1) - 1 + 1 ELSE 0
        /\ \A j \in 1..((i - 1) - 1 + 1) : SubSeq(path[n], 1, i - 1)[j] = path[n][1 + j - 1]
    BY <2>3, <2>4, SubSeqProperties
  <2>6. Len(SubSeq(path[n], 1, i - 1)) = i - 1
    BY <2>3, <2>5
  <2>7. ASSUME NEW j \in 1..(i - 1) PROVE SubSeq(path[n], 1, i - 1)[j] = path[n][j]
    <3>1. j \in 1..((i - 1) - 1 + 1) /\ 1 + j - 1 = j
      BY <2>3
    <3>2. QED
      BY <2>5, <3>1
  <2>8. QED
    BY <2>2, <2>6, <2>7
<1>4. ParentIsLast
  <2>1. SUFFICES ASSUME NEW n \in here
                 PROVE  parent[n] = IF Len(path[n]) = 0 THEN NoOne ELSE path[n][Len(path[n])]
    BY DEF ParentIsLast
  <2>2. parent[n] = IF path[n] = <<>> THEN NoOne ELSE Last(path[n])
    BY <1>2 DEF Init
  <2>3. path[n] \in Seq(here)
    BY <1>2
  <2>4. path[n] = <<>> <=> Len(path[n]) = 0
    BY <2>3, EmptySeq
  <2>5. QED
    BY <2>2, <2>4 DEF Last
<1>5. DOMAIN NoCopy = {}
  BY DEF NoCopy
<1>6. \A s \in Sessions : Known(s) /\ Trusted(s)
  BY <1>5 DEF Init, Known, Trusted, MoveKinds
<1>7. QED
  BY <1>1, <1>3, <1>4, <1>6 DEF ChainInv

-----------------------------------------------------------------------------
(* What a commit does to the sessions.                                     *)
LEMMA CommitSessions ==
  ASSUME IInv, NEW s \in Sessions, Commit(s)
  PROVE  /\ pc'[s] = "idle" /\ kind'[s] = "create" /\ target'[s] = NoOne
         /\ DOMAIN copy'[s] = {}
         /\ \A o \in Sessions \ {s} :
              /\ pc'[o] = pc[o] /\ kind'[o] = kind[o] /\ node'[o] = node[o]
              /\ target'[o] = target[o] /\ copy'[o] = copy[o] /\ fresh'[o] = fresh[o]
              /\ pc[o] # "idle" => dirty'[o] = dirty[o] \cup {kind[s]}
<1>1. DOMAIN NoCopy = {}
  BY DEF NoCopy
<1>2. TypeOK /\ copy = [o \in Sessions |-> copy[o]] /\ EndTx(s)
  BY DEF IInv, Commit
<1>3. copy'[s] = NoCopy /\ target'[s] = NoOne /\ \A o \in Sessions \ {s} : fresh'[o] = fresh[o]
  BY <1>2 DEF EndTx, TypeOK
<1>4. \A o \in Sessions \ {s} : pc[o] # "idle" => dirty'[o] = dirty[o] \cup {kind[s]}
  BY DEF Commit
<1>5. QED
  BY <1>1, <1>2, <1>3, <1>4, EndTypes

(* A commit that misleads nobody came after no move, and a move or a       *)
(* delete after no create.                                                 *)
LEMMA Undisturbed ==
  ASSUME TypeOK, NEW s \in Sessions, Commit(s), ~disturbed'
  PROVE  /\ ~disturbed /\ dirty[s] \cap MoveKinds = {}
         /\ kind[s] \in {"move", "delete"} => dirty[s] \subseteq {"delete"}
<1>1. ~disturbed /\ {kind[s]} \X dirty[s] \cap Misleading = {}
  <2>1. disturbed' = (disturbed \/ {kind[s]} \X dirty[s] \cap Misleading # {})
    BY Zenon DEF Commit
  <2>2. QED
    BY <2>1, Zenon
<1>2. kind[s] \in Kinds /\ dirty[s] \subseteq Kinds
  BY DEF TypeOK
<1>3. \A k \in dirty[s] : <<kind[s], k>> \notin Misleading
  BY <1>1
<1>4. dirty[s] \cap MoveKinds = {}
  BY <1>2, <1>3 DEF Misleading, MoveKinds
<1>5. kind[s] \in {"move", "delete"} => "create" \notin dirty[s]
  BY <1>2, <1>3 DEF Misleading
<1>6. QED
  BY <1>1, <1>2, <1>4, <1>5 DEF Kinds, MoveKinds

(* Rows do not come back, and what is locked is not deleted: each session  *)
(* keeps knowing what it knew.                                             *)
LEMMA CommitKnown ==
  ASSUME ChainInv, NEW s \in Sessions, Commit(s),
         here \cup gone \subseteq here' \cup gone',
         \A o \in Sessions \ {s} : HoldsRow(o) \cap (here \ here') = {}
  PROVE  \A o \in Sessions : Known(o)'
<1>1. IInv /\ \A o \in Sessions : Known(o) /\ Loaded(o)
  BY DEF ChainInv, IInv
<1>2. Known(s)'
  BY <1>1, CommitSessions DEF Known
<1>3. ASSUME NEW o \in Sessions \ {s} PROVE Known(o)'
  <2>1. /\ pc'[o] = pc[o] /\ kind'[o] = kind[o] /\ node'[o] = node[o]
        /\ target'[o] = target[o] /\ copy'[o] = copy[o]
    BY <1>1, CommitSessions
  <2>2. pc[o] = "writing" \/ kind[o] = "childless" => node[o] \in HoldsRow(o)
    BY <1>1 DEF HoldsRow, HoldsForUpdate, Loaded, MoveKinds
  <2>3. QED
    BY <1>1, <2>1, <2>2 DEF Known
<1>4. QED
  BY <1>2, <1>3

(* Nothing of the tree changed, and only s did anything.                   *)
LEMMA OthersAsBefore ==
  ASSUME UNCHANGED <<here, gone, path>>, NEW o \in Sessions,
         pc'[o] = pc[o], kind'[o] = kind[o], node'[o] = node[o], target'[o] = target[o],
         copy'[o] = copy[o], fresh'[o] = fresh[o], dirty'[o] = dirty[o]
  PROVE  /\ Known(o) => Known(o)'
         /\ Trusted(o) => Trusted(o)'
<1>1. Known(o) => Known(o)'
  BY DEF Known
<1>2. Trusted(o) => Trusted(o)'
  BY DEF Trusted, Beneath, Branch, PathBelow
<1>3. QED
  BY <1>1, <1>2

(* The steps that commit nothing.                                          *)
LEMMA CreateInsertTrusted ==
  ASSUME ChainInv, NEW s \in Sessions, NEW n \in Nodes, NEW p \in Nodes \cup {NoOne},
         CreateInsert(s, n, p)
  PROVE  ChainInv'
<1>1. /\ IInv /\ TypeOK /\ IInv' /\ Begin(s, "inserting", "create", n, p) /\ "create" \in Kinds
      /\ p \in here \cup {NoOne}
      /\ fresh' = [fresh EXCEPT ![s] = PathBelow(p)]
      /\ UNCHANGED <<here, gone, parent, path, copy, dirty, disturbed>>
  BY CreateInsertKeeps DEF ChainInv, IInv, CreateInsert, Kinds, tree
<1>2. /\ pc'[s] = "inserting" /\ kind'[s] = "create" /\ target'[s] = p /\ fresh'[s] = PathBelow(p)
      /\ \A o \in Sessions \ {s} :
           /\ pc'[o] = pc[o] /\ kind'[o] = kind[o] /\ node'[o] = node[o]
           /\ target'[o] = target[o] /\ fresh'[o] = fresh[o]
  BY <1>1, BeginTypes DEF TypeOK
<1>3. Known(s)' /\ Trusted(s)'
  <2>1. Known(s)'
    BY <1>1, <1>2 DEF ChainInv, Known
  <2>2. Trusted(s)'
    BY <1>1, <1>2 DEF Trusted, PathBelow, MoveKinds
  <2>3. QED
    BY <2>1, <2>2
<1>4. \A o \in Sessions \ {s} : (Known(o) => Known(o)') /\ (Trusted(o) => Trusted(o)')
  BY <1>1, <1>2, OthersAsBefore
<1>5. QED
  BY <1>1, <1>3, <1>4 DEF ChainInv, Chained, ParentIsLast

LEMMA MoveLoadTrusted ==
  ASSUME ChainInv, NEW s \in Sessions, NEW k \in MoveKinds, NEW n \in Nodes, NEW p \in Nodes,
         MoveLoad(s, k, n, p), k = "move" => "move" \in Moves,
         k = "childless" => Children(n) = {}
  PROVE  ChainInv'
<1> DEFINE D == {n, p} \cup {d \in here : n \in On(path[d])}
<1>1. /\ IInv /\ TypeOK /\ Begin(s, "loaded", k, n, p) /\ k \in Kinds
      /\ {n, p} \subseteq here /\ p # n /\ n \notin On(path[p])
      /\ copy' = [copy EXCEPT ![s] = [m \in D |-> path[m]]]
      /\ UNCHANGED <<here, gone, parent, path, fresh, dirty, disturbed>>
  BY DEF ChainInv, IInv, MoveLoad, NoCycle, Kinds, MoveKinds, tree
<1>2. IInv'
  BY <1>1, MoveLoadKeeps
<1>3. /\ pc'[s] = "loaded" /\ kind'[s] = k /\ node'[s] = n /\ target'[s] = p
      /\ copy'[s] = [m \in D |-> path[m]]
      /\ \A o \in Sessions \ {s} :
           /\ pc'[o] = pc[o] /\ kind'[o] = kind[o] /\ node'[o] = node[o]
           /\ target'[o] = target[o] /\ copy'[o] = copy[o]
  BY <1>1, BeginTypes DEF IInv
<1>4. D \subseteq here /\ p \in D
  BY <1>1
<1>5. Known(s)'
  BY <1>1, <1>3, <1>4 DEF Known
<1>6. Trusted(s)'
  <2>1. \A m \in D : copy'[s][m] = path[m]
    BY <1>3
  <2>2. n \notin On(copy'[s][p])
    BY <1>1, <1>4, <2>1
  <2>3. Beneath(n)' \subseteq DOMAIN copy'[s]
    BY <1>1, <1>3 DEF Beneath
  <2>4. DOMAIN copy'[s] = D
    BY <1>3
  <2> HIDE DEF D
  <2>5. QED
    BY <1>1, <1>3, <2>1, <2>2, <2>3, <2>4 DEF Trusted, MoveKinds, Beneath
<1>7. \A o \in Sessions \ {s} : (Known(o) => Known(o)') /\ (Trusted(o) => Trusted(o)')
  BY <1>1, <1>3, OthersAsBefore
<1>8. QED
  BY <1>1, <1>2, <1>5, <1>6, <1>7 DEF ChainInv, Chained, ParentIsLast

LEMMA MoveWriteTrusted ==
  ASSUME ChainInv, NEW s \in Sessions, MoveWrite(s)
  PROVE  ChainInv'
<1>1. /\ IInv /\ TypeOK /\ IInv' /\ pc[s] = "loaded" /\ kind[s] \in MoveKinds
      /\ {node[s], target[s]} \subseteq here
      /\ pc' = [pc EXCEPT ![s] = "writing"]
      /\ fresh' = [fresh EXCEPT ![s] = PathBelow(target[s])]
      /\ UNCHANGED <<here, gone, parent, path, kind, node, target, copy, dirty, disturbed>>
  BY MoveWriteKeeps DEF ChainInv, IInv, MoveWrite, MoveKinds, tree
<1>2. /\ pc'[s] = "writing" /\ fresh'[s] = PathBelow(target[s])
      /\ \A o \in Sessions \ {s} : pc'[o] = pc[o] /\ fresh'[o] = fresh[o]
  BY <1>1 DEF TypeOK
<1>3. Known(s)'
  BY <1>1, <1>2 DEF ChainInv, Known
<1>4. Trusted(s) => Trusted(s)'
  BY <1>1, <1>2 DEF Trusted, Beneath, Branch, PathBelow, MoveKinds
<1>5. \A o \in Sessions \ {s} : (Known(o) => Known(o)') /\ (Trusted(o) => Trusted(o)')
  BY <1>1, <1>2, OthersAsBefore
<1>6. QED
  BY <1>1, <1>3, <1>4, <1>5 DEF ChainInv, Chained, ParentIsLast

LEMMA DeleteLoadTrusted ==
  ASSUME ChainInv, NEW s \in Sessions, NEW n \in Nodes, DeleteLoad(s, n)
  PROVE  ChainInv'
<1>1. /\ IInv /\ TypeOK /\ IInv' /\ Begin(s, "loaded", "delete", n, NoOne) /\ "delete" \in Kinds
      /\ n \in here /\ Subtree(n) \subseteq here
      /\ copy' = [copy EXCEPT ![s] = [m \in Subtree(n) |-> path[m]]]
      /\ UNCHANGED <<here, gone, parent, path, fresh, dirty, disturbed>>
  BY DeleteLoadKeeps DEF ChainInv, IInv, DeleteLoad, Kinds, tree, Subtree
<1>2. /\ pc'[s] = "loaded" /\ kind'[s] = "delete" /\ node'[s] = n /\ target'[s] = NoOne
      /\ DOMAIN copy'[s] = Subtree(n)
      /\ \A o \in Sessions \ {s} :
           /\ pc'[o] = pc[o] /\ kind'[o] = kind[o] /\ node'[o] = node[o]
           /\ target'[o] = target[o] /\ copy'[o] = copy[o]
  BY <1>1, BeginTypes DEF IInv
<1>3. Known(s)'
  BY <1>1, <1>2 DEF Known
<1>4. Chained /\ ParentIsLast => Trusted(s)'
  <2>1. Chained /\ ParentIsLast => DOMAIN copy'[s] \cap here = Branch(n)
    BY <1>1, <1>2, SubtreeIsBranch
  <2>2. Branch(n)' = Branch(n)
    BY <1>1 DEF Branch, Beneath
  <2>3. QED
    BY <1>1, <1>2, <2>1, <2>2 DEF Trusted, MoveKinds, Branch, Beneath
<1>5. \A o \in Sessions \ {s} : (Known(o) => Known(o)') /\ (Trusted(o) => Trusted(o)')
  BY <1>1, <1>2, OthersAsBefore
<1>6. QED
  BY <1>1, <1>3, <1>4, <1>5 DEF ChainInv, Chained, ParentIsLast

LEMMA AbortTrusted ==
  ASSUME ChainInv, NEW s \in Sessions, Abort(s)
  PROVE  ChainInv'
<1>1. /\ IInv /\ TypeOK /\ IInv' /\ EndTx(s) /\ dirty' = [dirty EXCEPT ![s] = {}]
      /\ copy = [o \in Sessions |-> copy[o]]
      /\ UNCHANGED <<here, gone, parent, path, disturbed>>
  BY AbortKeeps DEF ChainInv, IInv, Abort, tree
<1>2. /\ pc'[s] = "idle" /\ kind'[s] = "create" /\ target'[s] = NoOne
      /\ copy'[s] = NoCopy /\ DOMAIN NoCopy = {}
      /\ \A o \in Sessions \ {s} :
           /\ pc'[o] = pc[o] /\ kind'[o] = kind[o] /\ node'[o] = node[o]
           /\ target'[o] = target[o] /\ copy'[o] = copy[o] /\ fresh'[o] = fresh[o]
           /\ dirty'[o] = dirty[o]
  BY <1>1 DEF EndTx, TypeOK, NoCopy
<1>3. Known(s)' /\ Trusted(s)'
  BY <1>2 DEF Known, Trusted, MoveKinds
<1>4. \A o \in Sessions \ {s} : (Known(o) => Known(o)') /\ (Trusted(o) => Trusted(o)')
  BY <1>1, <1>2, OthersAsBefore
<1>5. QED
  BY <1>1, <1>3, <1>4 DEF ChainInv, Chained, ParentIsLast

(* What the others may rely upon after a commit, by its kind.              *)
LEMMA TrustAfterMove ==
  ASSUME IInv, NEW s \in Sessions, Commit(s), kind[s] \in MoveKinds
  PROVE  \A o \in Sessions : Trusted(o)'
<1>1. Trusted(s)'
  BY CommitSessions DEF Trusted, MoveKinds
<1>2. ASSUME NEW o \in Sessions \ {s} PROVE Trusted(o)'
  <2>1. /\ pc'[o] = pc[o] /\ kind'[o] = kind[o]
        /\ pc[o] # "idle" => kind[s] \in dirty'[o]
    BY CommitSessions
  <2>2. kind[o] \in MoveKinds => pc[o] # "idle"
    BY DEF IInv, Loaded
  <2>3. QED
    BY <2>1, <2>2 DEF Trusted, MoveKinds
<1>3. QED
  BY <1>1, <1>2

LEMMA TrustAfterCreate ==
  ASSUME ChainInv, ~disturbed, NEW s \in Sessions, Commit(s), kind[s] = "create",
         NEW n \in Nodes \ (here \cup gone), here' = here \cup {n},
         \A d \in here : path'[d] = path[d]
  PROVE  \A o \in Sessions : Trusted(o)'
<1>1. IInv /\ \A o \in Sessions : Known(o) /\ Trusted(o) /\ Loaded(o)
  BY DEF ChainInv, IInv
<1>2. Trusted(s)'
  BY <1>1, CommitSessions DEF Trusted, MoveKinds
<1>3. ASSUME NEW o \in Sessions \ {s} PROVE Trusted(o)'
  <2>1. /\ pc'[o] = pc[o] /\ kind'[o] = kind[o] /\ node'[o] = node[o]
        /\ target'[o] = target[o] /\ copy'[o] = copy[o] /\ fresh'[o] = fresh[o]
        /\ pc[o] # "idle" => dirty'[o] = dirty[o] \cup {"create"}
    BY <1>1, CommitSessions
  <2>2. /\ target[o] \in here' \cup {NoOne} => target[o] \in here \cup {NoOne}
        /\ DOMAIN copy[o] \cap here' = DOMAIN copy[o] \cap here
    BY <1>1, SessionAssumption DEF Known
  <2>3. ASSUME pc'[o] = "inserting", dirty'[o] \cap MoveKinds = {}, target'[o] \in here' \cup {NoOne}
        PROVE  fresh'[o] = PathBelow(target[o])'
    <3>1. fresh[o] = PathBelow(target[o])
      BY <1>1, <2>1, <2>2, <2>3 DEF Trusted
    <3>2. QED
      BY <2>1, <2>2, <2>3, <3>1 DEF PathBelow
  <2>4. ASSUME kind'[o] \in MoveKinds, dirty'[o] \cap MoveKinds = {}
        PROVE  /\ \A m \in DOMAIN copy'[o] \cap here' : copy'[o][m] = path'[m]
               /\ node'[o] \notin On(copy'[o][target'[o]])
               /\ pc'[o] = "writing" /\ target'[o] \in here' => fresh'[o] = PathBelow(target[o])'
               /\ "create" \in dirty'[o]
    <3>1. pc[o] # "idle" /\ dirty'[o] = dirty[o] \cup {"create"}
      BY <1>1, <2>1, <2>4 DEF Loaded
    <3>2. /\ \A m \in DOMAIN copy[o] \cap here : copy[o][m] = path[m]
          /\ node[o] \notin On(copy[o][target[o]])
          /\ pc[o] = "writing" /\ target[o] \in here => fresh[o] = PathBelow(target[o])
      BY <1>1, <2>1, <2>4, <3>1 DEF Trusted
    <3>3. pc[o] = "writing" => target[o] # NoOne
      BY <1>1, <2>1, <2>4, SessionAssumption DEF Loaded, IInv, TypeOK
    <3>4. QED
      BY <2>1, <2>2, <3>1, <3>2, <3>3 DEF PathBelow
  <2>5. pc'[o] = "loaded" => ~(dirty'[o] \subseteq {"delete"})
    BY <2>1
  <2>6. QED
    BY <2>3, <2>4, <2>5 DEF Trusted
<1>4. QED
  BY <1>2, <1>3

LEMMA TrustAfterDelete ==
  ASSUME ChainInv, ~disturbed, NEW s \in Sessions, Commit(s),
         here' \subseteq here, \A d \in here' : path'[d] = path[d]
  PROVE  \A o \in Sessions : Trusted(o)'
<1>1. IInv /\ \A o \in Sessions : Trusted(o) /\ Loaded(o)
  BY DEF ChainInv, IInv
<1>2. Trusted(s)'
  BY <1>1, CommitSessions DEF Trusted, MoveKinds
<1>3. ASSUME NEW o \in Sessions \ {s} PROVE Trusted(o)'
  <2>1. /\ pc'[o] = pc[o] /\ kind'[o] = kind[o] /\ node'[o] = node[o]
        /\ target'[o] = target[o] /\ copy'[o] = copy[o] /\ fresh'[o] = fresh[o]
        /\ pc[o] # "idle" => dirty[o] \subseteq dirty'[o]
    BY <1>1, CommitSessions
  <2>2. kind[o] \in MoveKinds => pc[o] # "idle"
    BY <1>1 DEF Loaded
  <2>3. ASSUME pc'[o] = "inserting", dirty'[o] \cap MoveKinds = {}, target'[o] \in here' \cup {NoOne}
        PROVE  fresh'[o] = PathBelow(target[o])'
    <3>1. fresh[o] = PathBelow(target[o])
      BY <1>1, <2>1, <2>3 DEF Trusted
    <3>2. QED
      BY <2>1, <2>3, <3>1 DEF PathBelow
  <2>4. ASSUME kind'[o] \in MoveKinds, dirty'[o] \cap MoveKinds = {}
        PROVE  /\ \A m \in DOMAIN copy'[o] \cap here' : copy'[o][m] = path'[m]
               /\ node'[o] \notin On(copy'[o][target'[o]])
               /\ pc'[o] = "writing" /\ target'[o] \in here' => fresh'[o] = PathBelow(target[o])'
               /\ kind'[o] = "move" /\ "create" \notin dirty'[o] =>
                    Beneath(node[o])' \subseteq DOMAIN copy'[o]
    <3>1. /\ \A m \in DOMAIN copy[o] \cap here : copy[o][m] = path[m]
          /\ node[o] \notin On(copy[o][target[o]])
          /\ pc[o] = "writing" /\ target[o] \in here => fresh[o] = PathBelow(target[o])
          /\ kind[o] = "move" /\ "create" \notin dirty'[o] => Beneath(node[o]) \subseteq DOMAIN copy[o]
      BY <1>1, <2>1, <2>2, <2>4 DEF Trusted
    <3>2. Beneath(node[o])' \subseteq Beneath(node[o])
      BY <2>1 DEF Beneath
    <3>3. QED
      BY <2>1, <3>1, <3>2 DEF PathBelow
  <2>5. ASSUME kind'[o] = "delete", pc'[o] = "loaded", dirty'[o] \subseteq {"delete"}
        PROVE  DOMAIN copy'[o] \cap here' = Branch(node[o])'
    <3>1. DOMAIN copy[o] \cap here = Branch(node[o])
      BY <1>1, <2>1, <2>5 DEF Trusted
    <3>2. Branch(node[o])' = Branch(node[o]) \cap here'
      BY <2>1 DEF Branch, Beneath
    <3>3. QED
      BY <2>1, <3>1, <3>2
  <2>6. QED
    BY <2>3, <2>4, <2>5 DEF Trusted
<1>4. QED
  BY <1>2, <1>3

-----------------------------------------------------------------------------
(* What each commit that misleads nobody does to the tree.                 *)
LEMMA CreateCommitGrows ==
  ASSUME ChainInv, NEW s \in Sessions, CreateCommit(s), ~disturbed',
         NEW n, NEW p, n = node[s], p = target[s]
  PROVE  /\ (Chained /\ ParentIsLast)' /\ F!Grow(n, p)
         /\ n \in Nodes /\ p \in Nodes \cup {NoOne}
<1>1. /\ IInv /\ TypeOK /\ pc[s] = "inserting" /\ Commit(s)
      /\ p \in here \cup {NoOne}
      /\ here' = here \cup {n}
      /\ parent' = [parent EXCEPT ![n] = p]
      /\ path' = [path EXCEPT ![n] = fresh[s]]
  BY DEF ChainInv, IInv, CreateCommit
<1>2. n \in Nodes \ here
  BY <1>1 DEF IInv, TypeOK, Unborn
<1>3. ~disturbed /\ dirty[s] \cap MoveKinds = {}
  BY <1>1, Undisturbed
<1>4. Chained /\ ParentIsLast /\ fresh[s] = PathBelow(p)
  BY <1>1, <1>3 DEF ChainInv, Trusted
<1>5. (Chained /\ ParentIsLast)'
  BY <1>1, <1>2, <1>4, GrownIsChained
<1>6. F!Grow(n, p)
  <2>1. \A d \in Nodes \ {n} : path'[d] = path[d] /\ (d \in here' <=> d \in here)
    BY <1>1, <1>2 DEF TypeOK
  <2>2. path'[n] = PathBelow(p) /\ n \in here' /\ here \subseteq Nodes
    BY <1>1, <1>2, <1>4 DEF TypeOK
  <2>3. On(PathBelow(p)) = F!Chain(p)
    <3>1. CASE p = NoOne
      <4>1. Len(<<>>) = 0 /\ 1..0 = {}
        OBVIOUS
      <4>2. On(<<>>) = {}
        BY <4>1 DEF On
      <4>3. QED
        BY <3>1, <4>2, SessionAssumption DEF F!Chain, PathBelow
    <3>2. CASE p # NoOne
      <4>1. p \in here /\ p \in Nodes /\ path[p] \in Seq(Nodes)
        BY <1>1, <3>2 DEF TypeOK
      <4>2. /\ Len(path[p]) \in Nat /\ Len(Append(path[p], p)) = Len(path[p]) + 1
            /\ \A j \in 1..Len(path[p]) : Append(path[p], p)[j] = path[p][j]
            /\ Append(path[p], p)[Len(path[p]) + 1] = p
        BY <4>1
      <4>3. 1..(Len(path[p]) + 1) = 1..Len(path[p]) \cup {Len(path[p]) + 1}
        BY <4>2
      <4>4. On(Append(path[p], p)) = On(path[p]) \cup {p}
        BY <4>2, <4>3 DEF On
      <4>5. F!Chain(p) = On(path[p]) \cup {p}
        BY <4>1 DEF F!Chain
      <4>6. QED
        BY <3>2, <4>4, <4>5 DEF PathBelow
    <3>3. QED
      BY <3>1, <3>2
  <2>4. [d \in Nodes |-> IF d \in here' THEN On(path'[d]) ELSE {}]
          = [[d \in Nodes |-> IF d \in here THEN On(path[d]) ELSE {}] EXCEPT ![n] = F!Chain(p)]
    <3>1. ASSUME NEW d \in Nodes
          PROVE  (IF d \in here' THEN On(path'[d]) ELSE {})
                   = IF d = n THEN F!Chain(p) ELSE IF d \in here THEN On(path[d]) ELSE {}
      BY <2>1, <2>2, <2>3
    <3>2. QED
      BY <1>2, <3>1
  <2>5. p \in Nodes => p \in here
    BY <1>1, SessionAssumption
  <2>6. QED
    BY <1>1, <1>2, <2>4, <2>5 DEF F!Grow
<1>7. QED
  BY <1>1, <1>2, <1>5, <1>6 DEF TypeOK

(* The descendants rewritten by an undisturbed move are the branch.        *)
LEMMA MoveCommitCarries ==
  ASSUME ChainInv, NEW s \in Sessions, MoveCommit(s), ~disturbed'
  PROVE  /\ Chained /\ ParentIsLast
         /\ node[s] \in here /\ target[s] \in here /\ target[s] \notin Branch(node[s])
         /\ \A d \in here \ Branch(node[s]) : path'[d] = path[d]
         /\ \A d \in Branch(node[s]) : Carried(d, node[s], target[s])
<1> DEFINE n == node[s]
           p == target[s]
           R == Rewritten(s)
           D == DOMAIN R
<1>1. /\ IInv /\ TypeOK /\ Loaded(s) /\ Known(s) /\ pc[s] = "writing" /\ Commit(s)
      /\ p \in here /\ D \subseteq here /\ here' = here
      /\ path' = [m \in Nodes |-> IF m = n THEN fresh[s] ELSE IF m \in D THEN R[m] ELSE path[m]]
  BY DEF ChainInv, IInv, MoveCommit
<1>2. /\ kind[s] \in MoveKinds /\ n \in here /\ n # p /\ n \in DOMAIN copy[s] /\ p \in DOMAIN copy[s]
      /\ here \subseteq Nodes
  BY <1>1 DEF Loaded, Known, TypeOK
<1>3. /\ ~disturbed /\ dirty[s] \cap MoveKinds = {}
      /\ kind[s] = "move" => dirty[s] \subseteq {"delete"}
  BY <1>1, Undisturbed
<1>4. Chained /\ ParentIsLast /\ Trusted(s)
  BY <1>3 DEF ChainInv
<1>5. /\ \A m \in DOMAIN copy[s] \cap here : copy[s][m] = path[m]
      /\ n \notin On(copy[s][p])
      /\ fresh[s] = PathBelow(p)
      /\ kind[s] = "move" => Beneath(n) \subseteq DOMAIN copy[s]
  BY <1>1, <1>2, <1>3, <1>4 DEF Trusted
<1>6. copy[s][n] = path[n] /\ copy[s][p] = path[p] /\ p \notin Branch(n)
  BY <1>1, <1>2, <1>5 DEF Branch, Beneath
<1>7. Beneath(n) \subseteq DOMAIN copy[s]
  <2>1. CASE kind[s] = "move"
    BY <1>5, <2>1
  <2>2. CASE kind[s] = "childless"
    <3>1. Children(n) = {}
      BY <1>1, <2>2 DEF IInv
    <3>2. SUFFICES ASSUME NEW e \in Beneath(n) PROVE FALSE
      OBVIOUS
    <3>3. Subtree(n) = Branch(n) /\ Branch(n) # {n}
      <4>1. e \in here /\ e \in Branch(n) /\ e # n
        <5>1. e \in here /\ n \in On(path[e]) /\ e \in Branch(n)
          BY DEF Beneath, Branch
        <5>2. n \notin On(path[n])
          BY <1>1, <1>2, <1>4, ChainedIsForest
        <5>3. QED
          BY <5>1, <5>2
      <4>2. QED
        BY <1>1, <1>2, <1>4, <4>1, SubtreeIsBranch
    <3>4. Subtree(n) \subseteq {n}
      <4>1. {n} \in SUBSET here /\ \A c \in here : parent[c] \in {n} => c \in {n}
        BY <1>2, <3>1 DEF Children
      <4>2. QED
        BY <4>1 DEF Subtree
    <3>5. n \in Branch(n)
      BY <1>2 DEF Branch
    <3>6. QED
      BY <3>3, <3>4, <3>5
  <2>3. QED
    BY <1>2, <2>1, <2>2 DEF MoveKinds
<1>8. /\ D = {m \in DOMAIN copy[s] \ {n} :
                 /\ Len(copy[s][m]) >= Len(Append(path[n], n))
                 /\ SubSeq(copy[s][m], 1, Len(Append(path[n], n))) = Append(path[n], n)}
      /\ \A d \in D : R[d] = Append(Append(path[p], p), n)
                        \o SubSeq(copy[s][d], Len(Append(path[n], n)) + 1, Len(copy[s][d]))
  BY <1>6 DEF Rewritten
<1> HIDE DEF R
<1>9. \A d \in DOMAIN copy[s] \cap here :
        (/\ Len(copy[s][d]) >= Len(Append(path[n], n))
         /\ SubSeq(copy[s][d], 1, Len(Append(path[n], n))) = Append(path[n], n))
        <=> n \in On(path[d])
  BY <1>1, <1>2, <1>4, <1>5, PrefixIsAbove
<1>10. D = Beneath(n)
  <2>1. n \notin Beneath(n)
    BY <1>1, <1>2, <1>4, ChainedIsForest DEF Beneath
  <2>2. ASSUME NEW d \in D PROVE d \in Beneath(n)
    <3>1. d \in DOMAIN copy[s] \cap here
      BY <1>1, <1>8
    <3>2. QED
      BY <1>8, <1>9, <3>1 DEF Beneath
  <2>3. ASSUME NEW d \in Beneath(n) PROVE d \in D
    <3>1. d \in DOMAIN copy[s] \cap here /\ d # n /\ n \in On(path[d])
      BY <1>7, <2>1 DEF Beneath
    <3>2. QED
      BY <1>8, <1>9, <3>1
  <2>4. QED
    BY <2>2, <2>3
<1>11. \A d \in here \ Branch(n) : path'[d] = path[d]
  BY <1>1, <1>2, <1>10 DEF Branch
<1>12. Carried(n, n, p)
  BY <1>1, <1>2, <1>5, NewRootOfBranch
<1>13. ASSUME NEW d \in Beneath(n) PROVE Carried(d, n, p)
  <2>1. d \in here /\ d \in D /\ d # n /\ copy[s][d] = path[d]
    BY <1>1, <1>5, <1>8, <1>10 DEF Beneath
  <2>2. path'[d] = R[d]
    BY <1>1, <1>2, <2>1
  <2>3. path'[d] = Append(Append(path[p], p), n)
                     \o SubSeq(path[d], Len(Append(path[n], n)) + 1, Len(path[d]))
    BY <1>8, <2>1, <2>2
  <2>4. QED
    BY <1>1, <1>2, <1>4, <2>3, NewPrefix
<1>14. \A d \in Branch(n) : Carried(d, n, p)
  BY <1>12, <1>13 DEF Branch
<1>15. QED
  BY <1>1, <1>2, <1>4, <1>6, <1>11, <1>14

LEMMA MoveCommitMoves ==
  ASSUME ChainInv, NEW s \in Sessions, MoveCommit(s), ~disturbed',
         NEW n, NEW p, n = node[s], p = target[s]
  PROVE  /\ (Chained /\ ParentIsLast)' /\ F!Move(n, p)
         /\ n \in Nodes /\ p \in Nodes
<1>1. /\ TypeOK /\ Chained /\ ParentIsLast
      /\ n \in here /\ p \in here /\ p \notin Branch(n) /\ n \in Nodes /\ p \in Nodes
      /\ here' = here /\ parent' = [parent EXCEPT ![n] = p]
      /\ \A d \in here \ Branch(n) : path'[d] = path[d]
      /\ \A d \in Branch(n) : Carried(d, n, p)
  BY MoveCommitCarries DEF ChainInv, IInv, MoveCommit, TypeOK
<1>2. (Chained /\ ParentIsLast)'
  BY <1>1, MovedIsChained
<1>3. \A d \in Branch(n) : On(path'[d]) = (On(path[d]) \ On(path[n])) \cup On(path[p]) \cup {p}
  BY <1>1, AboveCarried
<1>4. F!Below(n) \cup {n} = Branch(n) /\ p \notin {n} \cup F!Below(n)
  BY <1>1 DEF F!Below, Branch, Beneath, TypeOK
<1>5. F!Chain(p) = On(path[p]) \cup {p}
  BY <1>1 DEF F!Chain
<1>6. ASSUME NEW d \in Nodes
      PROVE  (IF d \in here' THEN On(path'[d]) ELSE {})
               = IF d \in F!Below(n) \cup {n}
                 THEN ((IF d \in here THEN On(path[d]) ELSE {}) \ (IF n \in here THEN On(path[n]) ELSE {}))
                        \cup F!Chain(p)
                 ELSE IF d \in here THEN On(path[d]) ELSE {}
  <2>1. CASE d \in Branch(n)
    BY <1>1, <1>3, <1>4, <1>5, <2>1 DEF Branch, Beneath
  <2>2. CASE d \notin Branch(n)
    BY <1>1, <1>4, <2>2
  <2>3. QED
    BY <2>1, <2>2
<1>7. F!Move(n, p)
  BY <1>1, <1>4, <1>6 DEF F!Move
<1>8. QED
  BY <1>1, <1>2, <1>7

LEMMA DeleteCommitPrunes ==
  ASSUME ChainInv, NEW s \in Sessions, DeleteCommit(s), ~disturbed', NEW n, n = node[s]
  PROVE  /\ (Chained /\ ParentIsLast)'
         /\ here' \subseteq here /\ \A d \in here' : path'[d] = path[d]
         /\ F!Prune(n) \/ UNCHANGED <<here, path>>
         /\ n \in Nodes
<1> DEFINE D == DOMAIN copy[s] \cap here
<1>1. /\ TypeOK /\ pc[s] = "loaded" /\ kind[s] = "delete" /\ Commit(s) /\ n \in Nodes
      /\ here' = here \ D /\ SetNull(D) /\ here \subseteq Nodes
  BY DEF ChainInv, IInv, DeleteCommit, TypeOK
<1>2. ~disturbed /\ dirty[s] \subseteq {"delete"}
  BY <1>1, Undisturbed
<1>3. Chained /\ ParentIsLast /\ D = Branch(n)
  BY <1>1, <1>2 DEF ChainInv, Trusted
(* No row below a deleted one stays behind.                                *)
<1>4. \A c \in here \ D : parent[c] \notin D
  <2>1. SUFFICES ASSUME NEW c \in here \ D, parent[c] \in D PROVE FALSE
    OBVIOUS
  <2>2. c \in Nodes /\ Len(path[c]) \in Nat /\ Len(path[c]) # 0
    BY <1>1, <1>3, <2>1, SessionAssumption DEF ParentIsLast, TypeOK
  <2>3. parent[c] \in On(path[c])
    BY <1>3, <2>1, <2>2 DEF ParentIsLast, On
  <2>4. parent[c] \in here \ Branch(n)
    BY <1>1, <1>3, <2>1, <2>3, OutsideBranch
  <2>5. QED
    BY <1>3, <2>1, <2>4
<1>5. path' = path /\ parent' = parent
  <2>1. {c \in here \ D : parent[c] \in D} = {}
    BY <1>4
  <2>2. path' = [c \in Nodes |-> path[c]] /\ parent' = [c \in Nodes |-> parent[c]]
    BY <1>1, <2>1 DEF SetNull
  <2>3. QED
    BY <1>1, <2>2 DEF TypeOK
<1>6. (Chained /\ ParentIsLast)'
  BY <1>1, <1>3, <1>5, PrunedIsChained
<1>7. CASE n \in here
  <2>1. {n} \cup F!Below(n) = Branch(n)
    BY <1>1, <1>7 DEF F!Below, Branch, Beneath
  <2>2. \A d \in Nodes : (IF d \in here' THEN On(path'[d]) ELSE {})
          = IF d \in here' THEN (IF d \in here THEN On(path[d]) ELSE {}) ELSE {}
    BY <1>1, <1>5
  <2>3. F!Prune(n)
    BY <1>1, <1>3, <1>7, <2>1, <2>2 DEF F!Prune
  <2>4. QED
    BY <1>1, <1>5, <1>6, <2>3
<1>8. CASE n \notin here
  <2>1. Branch(n) = {}
    BY <1>1, <1>3, <1>8, ChainedIsForest DEF Branch, Beneath
  <2>2. QED
    BY <1>1, <1>3, <1>5, <1>6, <2>1
<1>9. QED
  BY <1>7, <1>8

-----------------------------------------------------------------------------
(* A commit keeps the invariant.                                           *)
LEMMA CreateCommitTrusted ==
  ASSUME ChainInv, NEW s \in Sessions, CreateCommit(s)
  PROVE  ChainInv'
<1>1. /\ IInv /\ IInv' /\ pc[s] = "inserting" /\ Commit(s) /\ kind[s] = "create"
      /\ node[s] \in Nodes \ (here \cup gone)
      /\ here' = here \cup {node[s]} /\ gone' = gone
      /\ \A d \in here : path'[d] = path[d]
  <2>1. IInv /\ IInv' /\ TypeOK /\ Unborn(s)
    BY CreateCommitKeeps DEF ChainInv, IInv
  <2>2. /\ pc[s] = "inserting" /\ Commit(s) /\ here' = here \cup {node[s]} /\ gone' = gone
        /\ path' = [path EXCEPT ![node[s]] = fresh[s]]
    BY DEF CreateCommit
  <2>3. kind[s] = "create" /\ node[s] \in Nodes \ (here \cup gone)
    BY <2>1, <2>2 DEF Unborn, TypeOK
  <2>4. \A d \in here : path'[d] = path[d]
    BY <2>1, <2>2, <2>3 DEF TypeOK
  <2>5. QED
    BY <2>1, <2>2, <2>3, <2>4
<1>2. \A o \in Sessions : Known(o)'
  BY <1>1, CommitKnown
<1>3. ASSUME ~disturbed' PROVE /\ (Chained /\ ParentIsLast)'
                               /\ \A o \in Sessions : Trusted(o)'
  <2>1. ~disturbed
    BY <1>1, <1>3, Undisturbed DEF IInv
  <2>2. QED
    BY <1>1, <1>3, <2>1, CreateCommitGrows, TrustAfterCreate
<1>4. QED
  BY <1>1, <1>2, <1>3 DEF ChainInv

LEMMA MoveCommitTrusted ==
  ASSUME ChainInv, NEW s \in Sessions, MoveCommit(s)
  PROVE  ChainInv'
<1>1. /\ IInv /\ IInv' /\ Commit(s) /\ kind[s] \in MoveKinds /\ here' = here /\ gone' = gone
  BY MoveCommitKeeps DEF ChainInv, IInv, MoveCommit, Loaded
<1>2. \A o \in Sessions : Known(o)'
  BY <1>1, CommitKnown
<1>3. QED
  BY <1>1, <1>2, MoveCommitMoves, TrustAfterMove DEF ChainInv

LEMMA DeleteCommitTrusted ==
  ASSUME ChainInv, NEW s \in Sessions, DeleteCommit(s)
  PROVE  ChainInv'
<1> DEFINE D == DOMAIN copy[s] \cap here
<1>1. /\ IInv /\ IInv' /\ Commit(s) /\ here' = here \ D /\ gone' = gone \cup D
      /\ RowsFree(s, D \cup {c \in here : parent[c] \in D})
  BY DeleteCommitKeeps DEF ChainInv, DeleteCommit
<1>2. \A o \in Sessions \ {s} : HoldsRow(o) \cap (here \ here') = {}
  BY <1>1 DEF RowsFree
<1>3. \A o \in Sessions : Known(o)'
  BY <1>1, <1>2, CommitKnown
<1>4. ASSUME ~disturbed' PROVE /\ (Chained /\ ParentIsLast)'
                               /\ \A o \in Sessions : Trusted(o)'
  <2>1. ~disturbed
    BY <1>1, <1>4, Undisturbed DEF IInv
  <2>2. QED
    BY <1>1, <1>4, <2>1, DeleteCommitPrunes, TrustAfterDelete
<1>5. QED
  BY <1>1, <1>3, <1>4 DEF ChainInv

LEMMA ChainStep == ChainInv /\ [Next]_vars => ChainInv'
<1> SUFFICES ASSUME ChainInv, [Next]_vars PROVE ChainInv'
  OBVIOUS
<1>1. CASE UNCHANGED vars
  <2>1. IInv'
    BY <1>1, StepKeeps DEF ChainInv
  <2>2. UNCHANGED <<here, gone, parent, path, pc, kind, node, target, copy, fresh, dirty, disturbed>>
    BY <1>1 DEF vars, tree, session
  <2>3. \A o \in Sessions : (Known(o) => Known(o)') /\ (Trusted(o) => Trusted(o)')
    BY <2>2, OthersAsBefore
  <2>4. QED
    BY <2>1, <2>2, <2>3 DEF ChainInv, Chained, ParentIsLast
<1>2. CASE Next
  <2>1. PICK s \in Sessions :
          \/ CreateCommit(s) \/ MoveWrite(s) \/ MoveCommit(s) \/ DeleteCommit(s) \/ Abort(s)
          \/ \E n \in Nodes, p \in Nodes \cup {NoOne} : CreateInsert(s, n, p)
          \/ \E n, p \in Nodes : MoveStart(s, n, p) \/ ChildlessStart(s, n, p)
          \/ \E n \in Nodes : DeleteLoad(s, n)
    BY <1>2 DEF Next
  <2>2. CASE \E n, p \in Nodes : MoveStart(s, n, p)
    <3>1. PICK n, p \in Nodes : MoveStart(s, n, p)
      BY <2>2
    <3>2. MoveLoad(s, "move", n, p) /\ "move" \in Moves /\ "move" \in MoveKinds
      BY <3>1 DEF MoveStart, MoveKinds
    <3>3. QED
      BY <3>2, MoveLoadTrusted
  <2>3. CASE \E n, p \in Nodes : ChildlessStart(s, n, p)
    <3>1. PICK n, p \in Nodes : ChildlessStart(s, n, p)
      BY <2>3
    <3>2. /\ MoveLoad(s, "childless", n, p) /\ Children(n) = {}
          /\ "childless" \in MoveKinds
      BY <3>1 DEF ChildlessStart, RefuseIfPopulated, MoveKinds
    <3>3. QED
      BY <3>2, MoveLoadTrusted
  <2>4. QED
    BY <2>1, <2>2, <2>3, CreateCommitTrusted, MoveWriteTrusted, MoveCommitTrusted,
       DeleteCommitTrusted, AbortTrusted, CreateInsertTrusted, DeleteLoadTrusted
<1>3. QED
  BY <1>1, <1>2

LEMMA ChainInvHolds == Spec => []ChainInv
BY InitChained, ChainStep, PTL DEF Spec

(* Until a misleading overlap has been committed, every path is the chain  *)
(* of ancestors and climbing by parent_id ends, for any number of sessions *)
(* and whatever overlapped besides.                                        *)
THEOREM PathsAreChains == Spec => []PathIsChain
<1>1. ChainInv => PathIsChain
  <2>1. SUFFICES ASSUME ChainInv, ~disturbed
                 PROVE  Acyclic /\ \A n \in here : path[n] = PathBelow(parent[n])
    BY DEF PathIsChain
  <2>2. TypeOK /\ Chained /\ ParentIsLast
    BY <2>1 DEF ChainInv, IInv
  <2>3. QED
    BY <2>2, ChainedIsAcyclic, PathOfParent
<1>2. QED
  BY <1>1, ChainInvHolds, PTL

(* The abstract steps, one by one.                                         *)
LEMMA ForestSteps ==
  ASSUME NEW n \in Nodes, NEW p \in Nodes \cup {NoOne}
  PROVE  /\ F!Grow(n, p) => F!ForestNext
         /\ p \in Nodes /\ F!Move(n, p) => F!ForestNext
         /\ F!Prune(n) => F!ForestNext
BY DEF F!ForestNext

(* And the stored paths implement the abstract forest: they start as one,  *)
(* and each step grows it by a leaf, moves a whole branch below a node     *)
(* outside of it, or takes a whole branch away.                            *)
THEOREM ActsAsForest == Spec => MovesAsForest
<1>1. ChainInv /\ ~disturbed => F!IsForest
  <2>1. SUFFICES ASSUME ChainInv, ~disturbed PROVE F!IsForest
    OBVIOUS
  <2>2. TypeOK /\ Chained /\ here \subseteq Nodes
    BY <2>1 DEF ChainInv, IInv, TypeOK
  <2>3. \A n \in here :
          /\ n \notin On(path[n]) /\ On(path[n]) \subseteq here
          /\ \A m \in On(path[n]) : On(path[m]) \subseteq On(path[n])
          /\ \A m, k \in On(path[n]) : m = k \/ m \in On(path[k]) \/ k \in On(path[m])
    BY <2>2, ChainedIsForest
  <2>4. QED
    BY <2>2, <2>3 DEF F!IsForest
<1>2. Init => F!ForestInit
  BY <1>1, InitChained, Zenon DEF Init, F!ForestInit
<1>3. ChainInv /\ [Next]_vars => [~disturbed' => F!ForestNext]_<<here, path>>
  <2>1. SUFFICES ASSUME ChainInv, [Next]_vars, ~disturbed'
                 PROVE  F!ForestNext \/ UNCHANGED <<here, path>>
    OBVIOUS
  <2>2. CASE UNCHANGED vars
    BY <2>2 DEF vars, tree
  <2>3. ASSUME NEW s \in Sessions, CreateCommit(s) PROVE F!ForestNext
    <3>1. PICK n, p : n = node[s] /\ p = target[s]
      OBVIOUS
    <3>2. n \in Nodes /\ p \in Nodes \cup {NoOne} /\ F!Grow(n, p)
      BY <2>1, <2>3, <3>1, CreateCommitGrows
    <3>3. QED
      BY <3>2, ForestSteps
  <2>4. ASSUME NEW s \in Sessions, MoveCommit(s) PROVE F!ForestNext
    <3>1. PICK n, p : n = node[s] /\ p = target[s]
      OBVIOUS
    <3>2. n \in Nodes /\ p \in Nodes /\ F!Move(n, p)
      BY <2>1, <2>4, <3>1, MoveCommitMoves
    <3>3. QED
      BY <3>2, ForestSteps
  <2>5. ASSUME NEW s \in Sessions, DeleteCommit(s)
        PROVE  F!ForestNext \/ UNCHANGED <<here, path>>
    <3>1. PICK n : n = node[s]
      OBVIOUS
    <3>2. n \in Nodes /\ NoOne \in Nodes \cup {NoOne}
          /\ (F!Prune(n) \/ UNCHANGED <<here, path>>)
      BY <2>1, <2>5, <3>1, DeleteCommitPrunes
    <3>3. QED
      BY <3>2, ForestSteps
  <2>6. CASE Next
    <3>1. PICK s \in Sessions :
            \/ CreateCommit(s) \/ MoveCommit(s) \/ DeleteCommit(s) \/ UNCHANGED <<here, path>>
      BY <2>6
         DEF Next, CreateInsert, MoveWrite, Abort, MoveStart, ChildlessStart, MoveLoad, DeleteLoad, tree
    <3>2. QED
      BY <2>3, <2>4, <2>5, <3>1
  <2>7. QED
    BY <2>1, <2>2, <2>6
<1>4. QED
  BY <1>2, <1>3, ChainInvHolds, PTL DEF Spec, MovesAsForest

-----------------------------------------------------------------------------
(* Giving a node without children a new parent closes no cycle.            *)
LEMMA LeafClosesNoCycle ==
  ASSUME TypeOK, Acyclic, NEW n \in Nodes, NEW p \in Nodes \cup {NoOne}, p # n,
         Children(n) = {}, parent' = [parent EXCEPT ![n] = p], here' \subseteq here \cup {n}
  PROVE  Acyclic'
<1>1. SUFFICES ASSUME NEW S \in SUBSET here', S # {} PROVE \E m \in S : parent'[m] \notin S
  BY DEF Acyclic
<1>2. parent'[n] = p /\ \A m \in Nodes \ {n} : parent'[m] = parent[m]
  BY DEF TypeOK
<1>3. CASE S = {n}
  BY <1>2, <1>3
<1>4. CASE S # {n}
  <2>1. S \ {n} \subseteq here /\ S \ {n} # {} /\ here \subseteq Nodes
    BY <1>1, <1>4 DEF TypeOK
  <2>2. PICK m \in S \ {n} : parent[m] \notin S \ {n}
    BY <2>1 DEF Acyclic
  <2>3. parent[m] # n
    BY <2>1, <2>2 DEF Children
  <2>4. parent'[m] = parent[m]
    BY <1>2, <2>1, <2>2
  <2>5. QED
    BY <2>2, <2>3, <2>4
<1>5. QED
  BY <1>3, <1>4

(* A tree whose moves are all childless has no cycle.                      *)
THEOREM ChildlessMovesCloseNoCycle == Spec => []ChildlessMovesAreSafe
<1>1. Init => ChildlessMovesAreSafe
  <2>1. SUFFICES ASSUME Init PROVE Acyclic
    BY DEF ChildlessMovesAreSafe
  <2>2. ChainInv /\ ~disturbed
    BY <2>1, InitChained, Zenon DEF Init
  <2>3. QED
    BY <2>2, ChainedIsAcyclic DEF ChainInv, IInv
<1>2. IInv /\ ChildlessMovesAreSafe /\ [Next]_vars => ChildlessMovesAreSafe'
  <2> SUFFICES ASSUME IInv, Acyclic, "move" \notin Moves, [Next]_vars PROVE Acyclic'
    BY DEF ChildlessMovesAreSafe
  <2> USE DEF IInv
  <2>1. CASE UNCHANGED tree
    BY <2>1 DEF tree, Acyclic
  <2>2. ASSUME NEW s \in Sessions, CreateCommit(s) PROVE Acyclic'
    <3>1. /\ node[s] \in Nodes \ here /\ target[s] \in here \cup {NoOne}
          /\ parent' = [parent EXCEPT ![node[s]] = target[s]] /\ here' = here \cup {node[s]}
      BY <2>2 DEF CreateCommit, Unborn, TypeOK
    <3>2. Children(node[s]) = {} /\ target[s] \in Nodes \cup {NoOne} /\ target[s] # node[s]
      BY <3>1, SessionAssumption DEF Children, NoDanglingParent, TypeOK
    <3>3. QED
      BY <3>1, <3>2, LeafClosesNoCycle
  <2>3. ASSUME NEW s \in Sessions, MoveCommit(s) PROVE Acyclic'
    <3>1. /\ pc[s] = "writing" /\ target[s] \in here /\ here' = here
          /\ parent' = [parent EXCEPT ![node[s]] = target[s]]
      BY <2>3 DEF MoveCommit
    <3>2. kind[s] = "childless" /\ target[s] # node[s]
      BY <3>1 DEF Loaded, MoveKinds
    <3>3. Children(node[s]) = {} /\ node[s] \in Nodes /\ target[s] \in Nodes
      BY <3>1, <3>2 DEF TypeOK
    <3>4. QED
      BY <3>1, <3>2, <3>3, LeafClosesNoCycle
  <2>4. ASSUME NEW s \in Sessions, DeleteCommit(s) PROVE Acyclic'
    <3> DEFINE D == DOMAIN copy[s] \cap here
    <3>1. here' = here \ D /\ SetNull(D)
      BY <2>4 DEF DeleteCommit
    <3>2. here \subseteq Nodes /\ \A c \in here : parent'[c] \in {NoOne, parent[c]}
      BY <3>1 DEF SetNull, TypeOK
    <3>3. SUFFICES ASSUME NEW S \in SUBSET here', S # {} PROVE \E m \in S : parent'[m] \notin S
      BY DEF Acyclic
    <3>4. S \subseteq here
      BY <3>1
    <3>5. PICK m \in S : parent[m] \notin S
      BY <3>3, <3>4 DEF Acyclic
    <3>6. QED
      BY <3>2, <3>4, <3>5, SessionAssumption
  <2>5. CASE UNCHANGED vars
    BY <2>1, <2>5 DEF vars
  <2>6. CASE Next
    BY <2>1, <2>2, <2>3, <2>4, <2>6
       DEF Next, CreateInsert, MoveWrite, Abort, MoveStart, ChildlessStart, MoveLoad, DeleteLoad
  <2>7. QED
    BY <2>5, <2>6
<1>3. QED
  BY <1>1, <1>2, InvariantHolds, PTL DEF Spec
=============================================================================
