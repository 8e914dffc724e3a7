------------------------------ MODULE MCLinkState ------------------------------
(* Three nodes in a line, as in scratch/etox-mync.cc, that send three packets *)
(* in all, at most one of them data.                                          *)
EXTENDS LinkState

Line == {<<"n0", "n1">>, <<"n1", "n0">>, <<"n1", "n2">>, <<"n2", "n1">>}

AtMost3 == Cardinality(sent') + data' <= 3

MCSpec == Init /\ [][Next /\ AtMost3]_vars /\ Fairness
=============================================================================
