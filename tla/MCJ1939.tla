-------------------------------- MODULE MCJ1939 --------------------------------
(* A small instance of J1939 for TLC: two nodes that listen to each other,   *)
(* of which the first sends twice; a single frame, messages of two and of    *)
(* three packets under two PGNs, and one that is too large for the buffer.   *)
EXTENDS J1939

TwoNodes == {1, 2}
TwoAndOne == <<2, 1>>
TwoAndNone == <<2, 0>>
OneAndNone == <<1, 0>>

SmallMessages ==
    <<{[pgn |-> 1, size |-> 8], [pgn |-> 1, size |-> 9],
       [pgn |-> 2, size |-> 21], [pgn |-> 2, size |-> 22]},
      {[pgn |-> 2, size |-> 21]}>>

\* A long message given up, then a shorter one under another PGN.
MixedMessages == <<{[pgn |-> 1, size |-> 9], [pgn |-> 2, size |-> 21]}, {}>>

\* The largest message tp_buffer holds: 255 packets.
LargestMessage == <<{[pgn |-> 1, size |-> 1785]}, {}>>
=============================================================================
