------------------------------ MODULE MCLinkTable ------------------------------
(* Each of n1 to n4 says at most one hello. The links go one way, as lossy    *)
(* radio links may: n0 hears n4 and n2, n4 hears n2 and n1, n1 hears n3. The  *)
(* heap of n0 may fail to find n3 again, whose entry of an older calculation  *)
(* stays.                                                                     *)
EXTENDS LinkState

MCHears == {<<"n3", "n1">>, <<"n1", "n4">>, <<"n4", "n0">>, <<"n2", "n0">>, <<"n2", "n4">>}

OneEach == \A h, g \in sent' : h.address = g.address => h = g

MCSpec == Init /\ [][Next /\ OneEach]_vars
=============================================================================
