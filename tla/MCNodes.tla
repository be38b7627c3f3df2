------------------------------ MODULE MCNodes -------------------------------
(***************************************************************************)
(* Small instances of Nodes.                                               *)
(***************************************************************************)
EXTENDS Nodes, TLC
CONSTANTS u1, n1, n2, a1, a2

MCHandlers == {a1, a2}
With(c) == n1 :> "on" @@ n2 :> c
Both == {With("on")}
Added == {With("none"), With("on")}
Switched == {With("off"), With("on")}
=============================================================================
