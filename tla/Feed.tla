-------------------------------- MODULE Feed --------------------------------
(***************************************************************************)
(* What a source needs of its client for its paths: the contract behind    *)
(* client.Client's Pull and Watch (source/client/client.go).               *)
(*                                                                         *)
(* Contents are named by their version, the number of the write that made  *)
(* them; 0 stands for no contents.  For each path a source may skip        *)
(* versions, but it never goes back to an older one.  A step may be about  *)
(* several paths, for they may lead to the same contents.                  *)
(***************************************************************************)
EXTENDS Naturals

VARIABLES
    written,    \* the version each path has now
    taken       \* the version the source was last given, per path

vars == <<written, taken>>

Paths == DOMAIN written

Init == written \in [Paths -> Nat] /\ taken = [p \in Paths |-> 0]

Write(p) == written'[p] > written[p] /\ taken'[p] = taken[p]

Take(p) == taken'[p] \in taken[p] + 1 .. written[p] /\ written'[p] = written[p]

Leave(p) == written'[p] = written[p] /\ taken'[p] = taken[p]

Next == /\ DOMAIN written' = Paths /\ DOMAIN taken' = Paths
        /\ \A p \in Paths : Write(p) \/ Take(p) \/ Leave(p)

Spec == Init /\ [][Next]_vars
=============================================================================
