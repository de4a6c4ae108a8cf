--------------------------- MODULE MC_BlockChain ---------------------------
(* Blocks is a part of this tree; every block carries one unit of work:     *)
(*                                                                          *)
(*      g - a1 - a2                                                         *)
(*        \ b1 - b2 - b3                                                    *)
(*             \ c2 - c3 - c4                                               *)
EXTENDS BlockChain, TLC

CONSTANTS g, a1, a2, b1, b2, b3, c2, c3, c4

Tree == (a1 :> g) @@ (a2 :> a1) @@ (b1 :> g) @@ (b2 :> b1) @@ (b3 :> b2)
        @@ (c2 :> b1) @@ (c3 :> c2) @@ (c4 :> c3)

\* The order of the addresses of the blocks in memory.
Address == (g :> 0) @@ (a1 :> 1) @@ (a2 :> 2) @@ (b1 :> 3) @@ (b2 :> 4) @@ (b3 :> 5)
           @@ (c2 :> 6) @@ (c3 :> 7) @@ (c4 :> 8)

MCParent == [b \in Blocks \ {g} |-> Tree[b]]
MCProof == [b \in Blocks |-> 1]
MCPtr == [b \in Blocks |-> Address[b]]
=============================================================================
