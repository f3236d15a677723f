--------------------------- MODULE MCBlockPipeline ---------------------------
(* Instances of BlockPipeline for TLC. *)
EXTENDS BlockPipeline, TLC

MCSwapAndCreation == <<"PoolSwap", "PoolCreation">>

MCCreationOnly == <<"PoolCreation">>

\* The transactions of a block are interchangeable; so are the workers.
MCSymmetry == Permutations(Txids) \cup Permutations(Workers)
=============================================================================
