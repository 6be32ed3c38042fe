--------------------------- MODULE MC_DtlsCookie ---------------------------
(* DtlsCookie instantiated for TLC: four peers, two addresses by two ports. *)
(* A secret of two longs.                                                  *)
EXTENDS DtlsCookie

CONSTANTS a1, a2

MCPeers == {[addr |-> a1, port |-> 1], [addr |-> a2, port |-> 1],
            [addr |-> a1, port |-> 2], [addr |-> a2, port |-> 2]}
=============================================================================
