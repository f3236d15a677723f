--------------------------- MODULE MCResilientRpc ----------------------------
(* Instances of ResilientRpc for TLC. *)
EXTENDS ResilientRpc
=============================================================================
