---------------------------- MODULE MCFactStore ----------------------------
(***************************************************************************)
(* A small instance of FactStore: one rule concludes c from p, another q   *)
(* from c, so that the second could feed on the first, and a fact can be   *)
(* asserted, derived and superseded by each of the others.                 *)
(***************************************************************************)
EXTENDS FactStore, TLC

CONSTANTS p, c, q, r1, r2

SmallEntails == (r1 :> {<<p, c>>}) @@ (r2 :> {<<c, q>>})
SmallFamilies == {{p, c}}
Symmetry == Permutations(Callers) \cup Permutations(Workers)
=============================================================================
