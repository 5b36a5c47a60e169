----------------------- MODULE MCThaliPeerAvailability -----------------------
(* Small instances of the way from the radio to the client. *)
EXTENDS ThaliPeerAvailability

CONSTANTS n1, n2, w1

OneNative  == {n1}
TwoNative  == {n1, n2}
OneWifi    == {w1}
NoPeer     == {}
TwoPorts   == {1, 2}
ThreePorts == {1, 2, 3}

=============================================================================
