--------------------------- MODULE MCIngestQueue ---------------------------
(***************************************************************************)
(* Small instances of IngestQueue. One uploaded file whose text is         *)
(* extracted, whose rendition is made beside it, whose structure task cuts *)
(* a chunk, and whose chunk is embedded; with or without a rollup.         *)
(***************************************************************************)
EXTENDS IngestQueue, TLC

CONSTANTS file, chunk, extract, render, structure, embed

FileNodes == {file, chunk}
FileParent == (file :> NoOne) @@ (chunk :> file)
FilePath == (file :> {}) @@ (chunk :> {file})
FileMaker == (file :> NoOne) @@ (chunk :> structure)
NoRungs == [n \in Nodes |-> [k \in 0..2 |-> <<>>]]

FileTasks == {extract, render, structure, embed}
FileScope == [t \in FileTasks |-> IF t = embed THEN chunk ELSE file]
FileMode == [t \in FileTasks |-> IF t = structure THEN "children" ELSE "self"]
FileDeps == [t \in FileTasks |-> IF t = structure THEN {extract} ELSE {}]
FileSpawner == [t \in FileTasks |-> IF t = embed THEN structure ELSE NoOne]
FileAdvisory == {render}
FileQueued == {extract, render, structure}
FileExisting == {file}

AllEligible == [w \in Workers |-> Tasks]
FileRoot == [w \in Workers \ Loopers |-> file]

-----------------------------------------------------------------------------
(* The rollup instance: a file in a library, whose structure task cuts two *)
(* chunks, one of them embedded; then the walk summarizes the file and     *)
(* files the summary. A chunk may be deleted, which makes a rollup over    *)
(* the other. A second file may be uploaded into the library.              *)
CONSTANTS library, chunk2, late, summarize, resummarize, hang, probe

TreeNodes == {library, file, chunk, chunk2, late}
TreeParent == (library :> NoOne) @@ (file :> library) @@ (late :> library)
              @@ (chunk :> file) @@ (chunk2 :> file)
TreePath == (library :> {}) @@ (file :> {library}) @@ (late :> {library})
            @@ (chunk :> {library, file}) @@ (chunk2 :> {library, file})
TreeMaker == [n \in TreeNodes |-> IF n \in {chunk, chunk2} THEN structure ELSE NoOne]
TreeExisting == {library, file}

TreeTasks == {structure, embed, summarize, hang, resummarize, probe}
TreeScope == [t \in TreeTasks |-> CASE t = embed -> chunk
                                    [] t = probe -> late
                                    [] OTHER -> file]
TreeMode == [t \in TreeTasks |-> IF t = structure THEN "children" ELSE "self"]
TreeDeps == [t \in TreeTasks |-> {}]
TreeSpawner == [t \in TreeTasks |-> IF t = embed THEN structure ELSE NoOne]
TreeRungs == [n \in TreeNodes |->
  [k \in 0..2 |-> CASE n = file /\ k = 2 -> <<summarize, hang>>
                    [] n = file /\ k = 1 -> <<resummarize>>
                    [] OTHER -> <<>>]]
TreeQueued == {structure}

(* A deeper one: the structure task makes a section with a chunk in it.    *)
(* The section is rolled up, then the file, whose summary is handed on to  *)
(* another task before it is filed. Every task is routed to one of two     *)
(* pools.                                                                  *)
CONSTANTS section, llm, gpu

DeepNodes == {library, file, section, chunk, late}
DeepParent == (library :> NoOne) @@ (file :> library) @@ (late :> library)
              @@ (section :> file) @@ (chunk :> section)
DeepPath == (library :> {}) @@ (file :> {library}) @@ (late :> {library})
            @@ (section :> {library, file}) @@ (chunk :> {library, file, section})
DeepMaker == [n \in DeepNodes |-> IF n \in {section, chunk} THEN structure ELSE NoOne]
DeepTasks == {structure, embed, resummarize, summarize, llm, hang, probe}
DeepScope == [t \in DeepTasks |-> CASE t = embed -> chunk
                                    [] t = probe -> late
                                    [] t = resummarize -> section
                                    [] OTHER -> file]
DeepMode == [t \in DeepTasks |-> IF t = structure THEN "children" ELSE "self"]
DeepDeps == [t \in DeepTasks |-> {}]
DeepSpawner == [t \in DeepTasks |-> CASE t = embed -> structure
                                      [] t = llm -> summarize
                                      [] OTHER -> NoOne]
DeepRungs == [n \in DeepNodes |->
  [k \in 0..2 |-> CASE n = file /\ k = 1 -> <<summarize, hang>>
                    [] n = section /\ k = 1 -> <<resummarize>>
                    [] OTHER -> <<>>]]
ModelTasks == {embed, resummarize, llm}
DeepEligible == [w \in Workers |-> IF w = gpu THEN ModelTasks ELSE DeepTasks \ ModelTasks]

(* One chunk, embedded, and a rollup over it, for liveness: the walks of   *)
(* the structure task, of the embedding and of a deletion meet at the file. *)
PairTasks == {structure, embed, summarize}
PairScope == [t \in PairTasks |-> TreeScope[t]]
PairMode == [t \in PairTasks |-> TreeMode[t]]
PairDeps == [t \in PairTasks |-> {}]
PairSpawner == [t \in PairTasks |-> TreeSpawner[t]]
PairRungs == [n \in FileNodes |->
  [k \in 0..2 |-> IF n = file /\ k = 1 THEN <<summarize>> ELSE <<>>]]

(* A rendition, which is advisory, and a structure task beside each other. *)
BesideTasks == {render, structure, embed}
BesideScope == [t \in BesideTasks |-> FileScope[t]]
BesideMode == [t \in BesideTasks |-> FileMode[t]]
BesideDeps == [t \in BesideTasks |-> {}]
BesideSpawner == [t \in BesideTasks |-> FileSpawner[t]]
BesideQueued == {render, structure}

(* A workbook and one of its sheets, which may be deleted: links between   *)
(* columns are proposed after the sheet was profiled. The workers may      *)
(* outlast their lease.                                                    *)
CONSTANTS sheet, profile, links

BookNodes == {file, sheet}
BookTasks == {profile, links}
BookParent == (file :> NoOne) @@ (sheet :> file)
BookPath == (file :> {}) @@ (sheet :> {file})
BookMaker == [n \in BookNodes |-> NoOne]
BookScope == (profile :> sheet) @@ (links :> file)
BookMode == [t \in BookTasks |-> "self"]
BookDeps == (profile :> {}) @@ (links :> {profile})
BookSpawner == [t \in BookTasks |-> NoOne]

Symmetry == Permutations(Workers)
=============================================================================
