---------------------- MODULE MCThaliWifiInfrastructure ----------------------
(* The Wi-Fi infrastructure with a queue of bounded length. *)
EXTENDS ThaliWifiInfrastructure
=============================================================================
