---------------------------- MODULE DocumentTree ----------------------------
(***************************************************************************)
(* The documents table as a tree: sessions create, move and delete nodes   *)
(* at READ COMMITTED. Each reads the tree first and writes later, and the  *)
(* `path` of a row is computed partly by a trigger, which reads the new    *)
(* parent's row, and partly from the copies the session loaded. Only row   *)
(* locks keep sessions apart:                                              *)
(*   - an UPDATE or a DELETE of a row waits while another session holds it *)
(*   - a row whose parent_id is written takes FOR KEY SHARE on the parent, *)
(*     which waits for a FOR UPDATE of it (and for its deletion), but not  *)
(*     for an ordinary UPDATE                                              *)
(* What a session writes becomes visible when it commits; it may abort at  *)
(* any time (an error, a deadlock PostgreSQL breaks, a lost connection).   *)
(***************************************************************************)
EXTENDS Naturals, Sequences, FiniteSets

CONSTANTS
  Nodes,      \* documents that may come to exist
  NoOne,      \* "parent_id IS NULL"
  Sessions,   \* transactions at work at once
  Grown,      \* [Nodes -> Seq(Nodes)], the paths of the tree of the start; a node
              \* outside its domain is yet to be created
  Moves,      \* which moves there are: "move", "childless" or both
  MaxMoves    \* bound: moves begun in a behaviour

Last(p) == p[Len(p)]
On(p) == {p[i] : i \in 1..Len(p)}

ASSUME SessionAssumption ==
  /\ NoOne \notin Nodes
  /\ Moves \subseteq {"move", "childless"}
  /\ MaxMoves \in Nat

(* The tree of the start is one: the nodes on a path are its own, and each *)
(* has for its path what is before it.                                     *)
ASSUME GrownAssumption ==
  /\ DOMAIN Grown \subseteq Nodes
  /\ \A n \in DOMAIN Grown :
       /\ Grown[n] \in Seq(DOMAIN Grown)
       /\ \A i \in 1..Len(Grown[n]) : Grown[Grown[n][i]] = SubSeq(Grown[n], 1, i - 1)

VARIABLES
  here,      \* the committed rows
  gone,      \* ids deleted, which do not come back
  parent,    \* parent_id
  path,      \* path, root first
  pc, kind,  \* per session: phase, what it does
  node, target,  \* per session: to which node, below which
  copy,      \* per session: the paths it loaded; for a delete, the rows to delete
  fresh,     \* per session: the path the trigger computed
  dirty,     \* history, per session: kinds of write committed since it read
  disturbed, \* history: a misleading overlap has been committed
  moves      \* bound counter

tree == <<here, gone, parent, path>>
session == <<pc, kind, node, target, copy, fresh>>
vars == <<tree, session, dirty, disturbed, moves>>

Kinds == {"create", "move", "childless", "delete"}
NoCopy == [m \in {} |-> <<>>]

(* Mutant: the trigger appends a NULL parent as well.                      *)
PathBelowNull(p) == Append(IF p = NoOne THEN <<>> ELSE path[p], p)

(* update_document_path: the parent's path of this moment and the parent.  *)
PathBelow(p) == IF p = NoOne THEN <<>> ELSE Append(path[p], p)

Init ==
  /\ here = DOMAIN Grown
  /\ gone = {}
  /\ path = [n \in Nodes |-> IF n \in here THEN Grown[n] ELSE <<>>]
  /\ parent = [n \in Nodes |-> IF path[n] = <<>> THEN NoOne ELSE Last(path[n])]
  /\ pc = [s \in Sessions |-> "idle"]
  /\ kind = [s \in Sessions |-> "create"]
  /\ node = [s \in Sessions |-> NoOne]
  /\ target = [s \in Sessions |-> NoOne]
  /\ copy = [s \in Sessions |-> NoCopy]
  /\ fresh = [s \in Sessions |-> <<>>]
  /\ dirty = [s \in Sessions |-> {}]
  /\ disturbed = FALSE
  /\ moves = 0

-----------------------------------------------------------------------------
(* Locks and transactions.                                                 *)

(* Mutant: _refuse_if_populated counts without locking the row.            *)
NothingForUpdate(s) == {}

(* The row a session holds: FOR UPDATE from the start of a childless move, *)
(* or by its own UPDATE.                                                   *)
HoldsForUpdate(s) == IF kind[s] = "childless" /\ pc[s] # "idle" THEN {node[s]} ELSE {}
HoldsRow(s) == HoldsForUpdate(s) \cup IF pc[s] = "writing" THEN {node[s]} ELSE {}

RowsFree(s, S) == \A o \in Sessions \ {s} : HoldsRow(o) \cap S = {}
ShareFree(s, p) == \A o \in Sessions \ {s} : p \notin HoldsForUpdate(o)

Begin(s, phase, k, n, p) ==
  /\ pc[s] = "idle"
  /\ pc' = [pc EXCEPT ![s] = phase]
  /\ kind' = [kind EXCEPT ![s] = k]
  /\ node' = [node EXCEPT ![s] = n]
  /\ target' = [target EXCEPT ![s] = p]

EndTx(s) ==
  /\ pc' = [pc EXCEPT ![s] = "idle"]
  /\ kind' = [kind EXCEPT ![s] = "create"]
  /\ node' = [node EXCEPT ![s] = NoOne]
  /\ target' = [target EXCEPT ![s] = NoOne]
  /\ copy' = [copy EXCEPT ![s] = NoCopy]
  /\ fresh' = [fresh EXCEPT ![s] = <<>>]

(* The overlaps after which `path` may lie or a cycle be closed: a write   *)
(* committed over a move since it read, or a move or a delete over a       *)
(* create.                                                                 *)
Misleading ==
  (Kinds \X {"move", "childless"}) \cup ({"move", "delete"} \X {"create"})

Commit(s) ==
  /\ EndTx(s)
  /\ dirty' = [o \in Sessions |-> IF o = s THEN {}
                                  ELSE IF pc[o] = "idle" THEN dirty[o]
                                  ELSE dirty[o] \cup {kind[s]}]
  /\ disturbed' = (disturbed \/ {kind[s]} \X dirty[s] \cap Misleading # {})

Abort(s) ==
  /\ pc[s] # "idle"
  /\ EndTx(s)
  /\ dirty' = [dirty EXCEPT ![s] = {}]
  /\ UNCHANGED <<tree, disturbed, moves>>

-----------------------------------------------------------------------------
(* DocumentRepository.create                                               *)

(* The INSERT: its trigger reads the parent's row before the foreign key   *)
(* asks for a share of it.                                                 *)
CreateInsert(s, n, p) ==
  /\ n \notin here \cup gone /\ \A o \in Sessions : node[o] # n
  /\ p \in here \cup {NoOne}
  /\ Begin(s, "inserting", "create", n, p)
  /\ fresh' = [fresh EXCEPT ![s] = PathBelow(p)]
  /\ UNCHANGED <<tree, copy, dirty, disturbed, moves>>

CreateCommit(s) ==
  LET n == node[s]
      p == target[s]
  IN  /\ pc[s] = "inserting"
      /\ p # NoOne => p \in here /\ ShareFree(s, p)
      /\ here' = here \cup {n}
      /\ parent' = [parent EXCEPT ![n] = p]
      /\ path' = [path EXCEPT ![n] = fresh[s]]
      /\ Commit(s)
      /\ UNCHANGED <<gone, moves>>

-----------------------------------------------------------------------------
(* DocumentRepository.reparent                                             *)

Children(n) == {c \in here : parent[c] = n}

(* Mutant: the guard looks at the target alone.                            *)
NoCycleUnderChildren(n, p) == p # n

(* The cycle guard, on the loaded path of the new parent.                  *)
NoCycle(n, p) == p # n /\ n \notin On(path[p])

(* The checks pass, and the rows are loaded: the node, the new parent, and *)
(* the descendants, found by path. A refused move changes nothing.         *)
MoveLoad(s, k, n, p) ==
  /\ moves < MaxMoves
  /\ {n, p} \subseteq here /\ parent[n] # p
  /\ NoCycle(n, p)
  /\ Begin(s, "loaded", k, n, p)
  /\ copy' = [copy EXCEPT ![s] = [m \in {n, p} \cup {d \in here : n \in On(path[d])} |-> path[m]]]
  /\ moves' = moves + 1
  /\ UNCHANGED <<tree, fresh, dirty, disturbed>>

MoveStart(s, n, p) == "move" \in Moves /\ MoveLoad(s, "move", n, p)

(* _refuse_if_populated: the node's row FOR UPDATE, then the count.        *)
RefuseIfPopulated(s, n) == RowsFree(s, {n}) /\ Children(n) = {}

ChildlessStart(s, n, p) ==
  /\ "childless" \in Moves
  /\ RefuseIfPopulated(s, n)
  /\ MoveLoad(s, "childless", n, p)

(* The UPDATE of the moved row: it waits for the row, and the trigger      *)
(* replaces the path the session computed by one below the new parent's    *)
(* path of this moment.                                                    *)
MoveWrite(s) ==
  /\ pc[s] = "loaded" /\ kind[s] \in {"move", "childless"}
  /\ RowsFree(s, {node[s]})
  /\ {node[s], target[s]} \subseteq here
  /\ pc' = [pc EXCEPT ![s] = "writing"]
  /\ fresh' = [fresh EXCEPT ![s] = PathBelow(target[s])]
  /\ UNCHANGED <<tree, kind, node, target, copy, dirty, disturbed, moves>>

(* Mutant: the loop adds the new prefix and keeps the old one.             *)
RewrittenBelow(s) ==
  LET n == node[s]
      new == Append(Append(copy[s][target[s]], target[s]), n)
  IN  [d \in {m \in DOMAIN copy[s] : n \in On(copy[s][m])} |-> new \o copy[s][d]]

(* Mutant: the descendants keep their paths.                               *)
NothingRewritten(s) == <<>>

(* The loop over the descendants: old prefix to new prefix, both from the  *)
(* loaded copies, where the loaded path has the old one.                   *)
Rewritten(s) ==
  LET n == node[s]
      p == target[s]
      old == Append(copy[s][n], n)
      new == Append(Append(copy[s][p], p), n)
      Has(d) == Len(copy[s][d]) >= Len(old) /\ SubSeq(copy[s][d], 1, Len(old)) = old
  IN  [d \in {m \in DOMAIN copy[s] \ {n} : Has(m)} |->
         new \o SubSeq(copy[s][d], Len(old) + 1, Len(copy[s][d]))]

(* The rest of the flush, which waits for the descendants' rows and for a  *)
(* share of the new parent, and the commit.                                *)
MoveCommit(s) ==
  LET n == node[s]
      p == target[s]
      D == DOMAIN Rewritten(s)
  IN  /\ pc[s] = "writing"
      /\ p \in here /\ ShareFree(s, p)
      /\ D \subseteq here /\ RowsFree(s, D)
      /\ parent' = [parent EXCEPT ![n] = p]
      /\ path' = [m \in Nodes |-> IF m = n THEN fresh[s]
                                  ELSE IF m \in D THEN Rewritten(s)[m] ELSE path[m]]
      /\ Commit(s)
      /\ UNCHANGED <<here, gone, moves>>

-----------------------------------------------------------------------------
(* DocumentRepository.delete                                               *)

(* What the ORM's cascade loads: n and all below it, by parent_id.         *)
Subtree(n) ==
  {m \in here : \A S \in SUBSET here :
     n \in S /\ (\A c \in here : parent[c] \in S => c \in S) => m \in S}

DeleteLoad(s, n) ==
  /\ n \in here
  /\ Begin(s, "loaded", "delete", n, NoOne)
  /\ copy' = [copy EXCEPT ![s] = [m \in Subtree(n) |-> path[m]]]
  /\ UNCHANGED <<tree, fresh, dirty, disturbed, moves>>

(* Mutant: the rows below one that goes keep their parent_id.              *)
NotAdopted(D) == UNCHANGED <<parent, path>>

(* ON DELETE SET NULL: a row whose parent goes, and that is not deleted    *)
(* with it, becomes a root; the trigger empties its path.                  *)
SetNull(D) ==
  LET orphans == {c \in here \ D : parent[c] \in D} IN
  /\ parent' = [c \in Nodes |-> IF c \in orphans THEN NoOne ELSE parent[c]]
  /\ path' = [c \in Nodes |-> IF c \in orphans THEN <<>> ELSE path[c]]

(* The loaded rows are deleted by primary key, wherever they are by now.   *)
DeleteCommit(s) ==
  LET D == DOMAIN copy[s] \cap here IN
  /\ pc[s] = "loaded" /\ kind[s] = "delete"
  /\ RowsFree(s, D \cup {c \in here : parent[c] \in D})
  /\ here' = here \ D
  /\ gone' = gone \cup D
  /\ SetNull(D)
  /\ Commit(s)
  /\ UNCHANGED moves

-----------------------------------------------------------------------------
Next ==
  \E s \in Sessions :
    \/ CreateCommit(s) \/ MoveWrite(s) \/ MoveCommit(s) \/ DeleteCommit(s) \/ Abort(s)
    \/ \E n \in Nodes, p \in Nodes \cup {NoOne} : CreateInsert(s, n, p)
    \/ \E n, p \in Nodes : MoveStart(s, n, p) \/ ChildlessStart(s, n, p)
    \/ \E n \in Nodes : DeleteLoad(s, n)

Spec == Init /\ [][Next]_vars
-----------------------------------------------------------------------------
TypeOK ==
  /\ here \cup gone \subseteq Nodes /\ here \cap gone = {}
  /\ parent \in [Nodes -> Nodes \cup {NoOne}]
  /\ path \in [Nodes -> Seq(Nodes)]
  /\ pc \in [Sessions -> {"idle", "inserting", "loaded", "writing"}]
  /\ kind \in [Sessions -> Kinds]
  /\ node \in [Sessions -> Nodes \cup {NoOne}]
  /\ target \in [Sessions -> Nodes \cup {NoOne}]
  /\ \A s \in Sessions : pc[s] # "idle" => node[s] \in Nodes
  /\ \A s \in Sessions : /\ DOMAIN copy[s] \subseteq Nodes
                         /\ \A m \in DOMAIN copy[s] : copy[s][m] \in Seq(Nodes)
  /\ fresh \in [Sessions -> Seq(Nodes)]
  /\ dirty \in [Sessions -> SUBSET Kinds]
  /\ disturbed \in BOOLEAN
  /\ moves \in 0..MaxMoves

(* The foreign key, under all its waiting and ON DELETE SET NULL: a row's  *)
(* parent is there.                                                        *)
NoDanglingParent == \A n \in here : parent[n] \in here \cup {NoOne}

(* _refuse_if_populated's "There is no interleaving in which a populated   *)
(* node is moved", by the lock of a childless move.                        *)
NoPopulatedMove ==
  [][\A s \in Sessions : kind[s] = "childless" /\ MoveCommit(s) => Children(node[s]) = {}]_vars

(* settle_walk relies on it: climbing from any node comes to an end. Of a  *)
(* finite set of nodes, one has its parent outside the set.                *)
Acyclic == \A S \in SUBSET here : S # {} => \E n \in S : parent[n] \notin S

(* Until a misleading overlap, path is the chain of ancestors and there is *)
(* no cycle, whatever overlapped besides.                                  *)
PathIsChain ==
  ~disturbed => Acyclic /\ \A n \in here : path[n] = PathBelow(parent[n])

(* A tree all of whose moves are childless has no cycle, whatever the      *)
(* overlaps and wherever paths are stale.                                  *)
ChildlessMovesAreSafe == "move" \notin Moves => Acyclic

(* And until then the paths behave as the abstract forest: each step grows *)
(* it by a leaf, moves a whole subtree or removes one.                     *)
F == INSTANCE Forest WITH above <- [n \in Nodes |-> IF n \in here THEN On(path[n]) ELSE {}]
MovesAsForest == F!ForestInit /\ [][~disturbed' => F!ForestNext]_<<here, path>>
=============================================================================
