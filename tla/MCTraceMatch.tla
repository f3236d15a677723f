---------------------------- MODULE MCTraceMatch -----------------------------
(* Instance of TraceMatch for TLC: what a protostone may start with. *)
EXTENDS TraceMatch

Coins(a, b, l, f) == Amount("t0", a) \o Amount("t1", b) \o Amount("lp", l) \o Amount("fr", f)

MCPurses == {Coins(2, 1, 0, 0), Coins(0, 3, 0, 0), Coins(0, 0, 1, 2)}

\* doubles of one significant bit: 0, 1, 2, 4, 8, ...
MCUnits == {1, 2, 4, 8, 16, 32, 64}
=============================================================================
