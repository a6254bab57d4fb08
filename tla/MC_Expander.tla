---------------------------- MODULE MC_Expander -----------------------------
(***************************************************************************)
(* Three keys over every assignment of a set of values: chains, cycles,    *)
(* missing keys, objects, and two or three parts.                          *)
(***************************************************************************)
EXTENDS Expander

CONSTANTS k1, k2, k3, x, num, blob

L == Lit(x)

(* No value ends in two references side by side.                           *)
Spread == {Template(<<L>>), Template(<<Ref(k1)>>), Template(<<Ref(k2), L, Ref(k3)>>),
           Template(<<L, Ref(k2)>>), Template(<<Ref(k3), Ref(k2), L>>),
           Object(num), Object(blob), Missing}

(* Two references side by side at the end.                                 *)
Adjacent == {Template(<<L>>), Template(<<L, Ref(k1), Ref(k2)>>)}

Plain == {Template(<<L>>), Template(<<L, Ref(k1)>>)}
=============================================================================
