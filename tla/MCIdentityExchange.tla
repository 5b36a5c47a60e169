------------------------- MODULE MCIdentityExchange -------------------------
(* Two devices that can choose each other, and a peer that has left when the *)
(* second one chooses it.                                                    *)
EXTENDS IdentityExchange, TLC
MCKnown == (2 :> {3}) @@ (3 :> {1, 2})
=============================================================================
