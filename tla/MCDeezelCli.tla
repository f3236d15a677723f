----------------------------- MODULE MCDeezelCli -----------------------------
(***************************************************************************)
(* One user who gives any of the commands, one after the other; two whose  *)
(* commands overlap, at the keystore; and one who reads runestones. Bytes  *)
(* of three bits and integers of five: payloads of up to four bytes have   *)
(* varints of one, two and three bytes, ones that are too large, and a     *)
(* pair of integers with an odd one after it.                              *)
(***************************************************************************)
EXTENDS DeezelCli

CONSTANTS
    any, keeper,    \* the two processes
    MaxPayload      \* bytes of a payload

MCProcesses == {any, keeper}

\* Armored without and with padding
MCPhraseLength == [first |-> 2, second |-> 3]

Users(one, other, bytes) == [may |-> any :> one @@ keeper :> other, bytes |-> bytes]

Wallet(names) == {"library"} \X ({"wallet"} \X names)

MCSessions ==
    <<Users(({"shell"} \X Shell) \cup ({"library"} \X Library), {}, 0),
      Users(Wallet({"Create"}), Wallet({"Restore", "Info"}), 0),
      Users({<<"library", <<"runestone", "Decode">>>>}, {}, MaxPayload)>>
=============================================================================
