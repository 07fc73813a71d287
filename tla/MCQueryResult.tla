---------------------------- MODULE MCQueryResult ----------------------------
(* Values for TLC: an empty result, one row, and one with a NULL in the middle.  *)
EXTENDS QueryResult

MCResults == {<<>>, << <<1>> >>, << <<1, 2>>, Null, <<>> >>}

MCSizes == 0 .. 2
==============================================================================
