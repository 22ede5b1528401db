---------------------------- MODULE MCAttemptLog ----------------------------
(***************************************************************************)
(* Small instances of AttemptLog: a document whose first task enqueues two *)
(* more on it and which then gets a rollup task, all of them writing the   *)
(* document itself; and a document with a task that writes the document    *)
(* beside one that writes its children, which the claim lets run together. *)
(***************************************************************************)
EXTENDS AttemptLog

CONSTANTS file, probe, extract, facts, summarize, render, structure

OneNode == {file}
NoParent == [n \in OneNode |-> NoOne]
NoPath == [n \in OneNode |-> {}]
OnFile == [t \in Tasks |-> file]
NoDeps == [t \in Tasks |-> {}]

OwnTasks == {probe, extract, facts, summarize}
OwnModes == [t \in OwnTasks |-> "self"]
OwnSpawner == [t \in OwnTasks |-> IF t \in {extract, facts} THEN probe ELSE NoOne]

BesideTasks == {render, structure}
BesideModes == [t \in BesideTasks |-> IF t = structure THEN "children" ELSE "self"]
BesideSpawner == [t \in BesideTasks |-> NoOne]

Symmetry == Permutations(Workers)
=============================================================================
