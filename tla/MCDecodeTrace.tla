---------------------------- MODULE MCDecodeTrace ----------------------------
(* Instances of DecodeTrace for TLC. *)
EXTENDS DecodeTrace
=============================================================================
