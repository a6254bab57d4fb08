--------------------------- MODULE MC_BaseSource ----------------------------
(***************************************************************************)
(* BaseSource on a small instance.  Three calls: two paths of different     *)
(* priority and a third call for the first path again, so that an update   *)
(* can be outranked, a deletion inherited, and a path added twice.         *)
(***************************************************************************)
EXTENDS BaseSource

CONSTANTS a, b, c, p, q

MC_PathOf == a :> p @@ b :> q @@ c :> p
MC_PriOf  == a :> 1 @@ b :> 2 @@ c :> 2

Interchangeable == Permutations(Values)
=============================================================================
