---------------------------- MODULE MC_MeshLight ----------------------------
(* Few values: the ends, one in between that no level shows, ranges that   *)
(* are legal, narrow, empty or from zero, and temperatures on both sides   *)
(* of each limit.                                                          *)
EXTENDS MeshLight

MCDeltas == {-7, 1}
MCRanges == {<<1, 7>>, <<4, 5>>, <<0, 5>>, <<5, 4>>}
MCTempRanges == {<<2, 4>>, <<4, 4>>, <<1, 4>>}
=============================================================================
