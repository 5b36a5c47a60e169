------------------------ MODULE MCThaliSequencePoints ------------------------
(* A small instance of the sequence points. *)
EXTENDS ThaliSequencePoints

CONSTANTS p1, p2

SomeLists == {<<p1>>, <<p1, p2>>, <<p2, p1>>}
=============================================================================
