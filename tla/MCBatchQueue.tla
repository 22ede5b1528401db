---------------------------- MODULE MCBatchQueue ----------------------------
(***************************************************************************)
(* Small instances of BatchQueue: two sections whose texts are summarized  *)
(* and, on the first of them, a task from before the routing policy.       *)
(***************************************************************************)
EXTENDS BatchQueue, TLC

CONSTANTS section, sibling, summarize, summarize2, probe

SectionNodes == {section, sibling}
SectionParent == [n \in SectionNodes |-> NoOne]
SectionPath == [n \in SectionNodes |-> {}]
SectionScope == [t \in Tasks |-> IF t = summarize2 THEN sibling ELSE section]
SectionMode == [t \in Tasks |-> "self"]
SectionDeps == [t \in Tasks |-> {}]

Symmetry == Permutations(Workers)
=============================================================================
