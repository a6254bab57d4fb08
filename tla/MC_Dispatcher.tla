--------------------------- MODULE MC_Dispatcher ----------------------------
(***************************************************************************)
(* Two patterns that overlap, so that one handler can hear of an event     *)
(* twice, and a handler that is nil.                                       *)
(***************************************************************************)
EXTENDS Dispatcher

CONSTANTS k1, k2, one, both, i1, i2

MC_Matches == one :> {k1} @@ both :> {k1, k2}
=============================================================================
