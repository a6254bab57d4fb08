----------------------------- MODULE MC_Manager -----------------------------
(***************************************************************************)
(* The manager over two or three sources.  With two a source is outranked, *)
(* a key handed down, and events of two sources race; with three there is  *)
(* a choice of who takes a key over.                                       *)
(***************************************************************************)
EXTENDS Manager

CONSTANTS hi, lo, mid

MC_NameOf     == hi :> "file" @@ lo :> "env"
MC_PriorityOf == hi :> 2 @@ lo :> 1

MC_Names3     == hi :> "flag" @@ mid :> "env" @@ lo :> "file"
MC_Priority3  == hi :> 3 @@ mid :> 2 @@ lo :> 1
=============================================================================
