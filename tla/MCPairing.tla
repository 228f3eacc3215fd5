----------------------------- MODULE MCPairing -----------------------------
(* Model-checking instance of Pairing: a server that changes its address    *)
(* once and a neighbour that devices can be configured for.               *)
EXTENDS Pairing

CONSTANTS k1, k2, n

MCNeighbour == [host |-> 0, key |-> n]
MCExplicit == {MCNeighbour}
=============================================================================
