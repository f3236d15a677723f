--------------------------- MODULE MCPoolRefresh -----------------------------
(* Instance of PoolRefresh for TLC. *)
EXTENDS PoolRefresh

MCPools == {<<2, 7>>}
MCTokens == <<2, 0, 2, 16>>
MCAmounts == {<<5, 20, 10>>, <<4, 25, 10>>}
=============================================================================
