----------------------- MODULE IdentityExchangeUtils -----------------------
(***************************************************************************)
(* identityExchangeUtils.js: what the two parties of an identity exchange  *)
(* compute.  Public key hashes and random numbers are positive integers,   *)
(* 0 stands for none.  A keyed SHA-256 is the tuple of what it was fed     *)
(* with: two of them are equal when all of their inputs are.               *)
(***************************************************************************)
EXTENDS Integers

None == 0

\* generateCb: the commitment to a random number, for two public key hashes.
GenerateCb(rn, first, second) == <<rn, first, second>>
NoCb == <<None, None, None>>

\* generateValidationCode, before it is cut to six digits for the two users.
GenerateValidationCode(rnForHash, first, second, rnToHash) ==
  [key |-> rnForHash, first |-> first, second |-> second, last |-> rnToHash]
NoCode == GenerateValidationCode(None, None, None, None)

Errors == {"notFound", "notDoingIdentityExchange", "malformed", "wrongPeer",
           "skippedAhead"}
=============================================================================
