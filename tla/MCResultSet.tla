----------------------------- MODULE MCResultSet -----------------------------
(* Values for TLC: integers of few bits, results that grow, shrink and have NULLs.  *)
EXTENDS ResultSet

CONSTANT a

MCBits == [tiny |-> 2, short |-> 3, long |-> 4, longlong |-> 6]

MCColumns == {[size |-> "tiny", signed |-> TRUE], [size |-> "long", signed |-> FALSE],
              [size |-> "longlong", signed |-> TRUE]}

Row(t, n) == [text |-> t, number |-> n]

MCResults == {
    <<Row(<<1>>, "highest"), Row(<<2, 3>>, "minus one")>>,
    <<Row(Null, "zero"), Row(<<5, 6>>, Null), Row(<<>>, "lowest")>>}
=============================================================================
