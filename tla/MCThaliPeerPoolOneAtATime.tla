--------------------- MODULE MCThaliPeerPoolOneAtATime ---------------------
(***************************************************************************)
(* Small instances of ThaliPeerPoolOneAtATime for TLC.                     *)
(***************************************************************************)
EXTENDS ThaliPeerPoolOneAtATime, TLC

CONSTANTS n1, n2, w1, w2

=============================================================================
