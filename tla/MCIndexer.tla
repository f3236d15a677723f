------------------------------ MODULE MCIndexer ------------------------------
(* Instances of Indexer for TLC. *)
EXTENDS Indexer

\* START_HEIGHT unset: the poller follows the tip alone.
MCNoStart == None
=============================================================================
