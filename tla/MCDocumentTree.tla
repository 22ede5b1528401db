--------------------------- MODULE MCDocumentTree ---------------------------
(***************************************************************************)
(* Small instances of DocumentTree: a library of two shelves, one with a   *)
(* book on it, and a page yet to be written.                               *)
(***************************************************************************)
EXTENDS DocumentTree, TLC

CONSTANTS library, shelf, shelf2, book, page

LibraryNodes == {library, shelf, shelf2, book, page}
LibraryTree == (library :> <<>>) @@ (shelf :> <<library>>) @@ (shelf2 :> <<library>>)
               @@ (book :> <<library, shelf>>)

(* The same without the library above.                                     *)
ShelfNodes == {shelf, shelf2, book, page}
ShelfTree == (shelf :> <<>>) @@ (shelf2 :> <<>>) @@ (book :> <<shelf>>)

Symmetry == Permutations(Sessions)
=============================================================================
