---------------------- MODULE ThaliNotificationBeacons ----------------------
(***************************************************************************)
(* thaliNotificationBeacons.js: beacon streams and the secrets that belong *)
(* to them.  Cryptography is what it guarantees: a beacon can be decrypted *)
(* and its HMAC checked by the one whose public key it was made with, and  *)
(* the hash that is the PSK identity tells any two beacons apart.          *)
(***************************************************************************)
EXTENDS Integers, Sequences, SequencesExt

NoStream == <<>>
Nobody == "nobody"

\* generatePreambleAndBeacons: the ephemeral key, here a serial number, and the
\* expiration are the preamble, which all beacons depend on; one beacon per key.
GeneratePreambleAndBeacons(keys, device, ke, expiration) ==
  [ke |-> ke, expiration |-> expiration,
   beacons |-> [i \in DOMAIN keys |-> [to |-> keys[i], from |-> device]]]

\* generatePskIdentityField
PskIdentity(stream, beacon) == <<stream.ke, stream.expiration, beacon>>

\* Broken: the first key belongs to the second beacon, and so on.
GeneratePskSecretsShifted(keys, stream) ==
  [i \in DOMAIN keys |->
     [id |-> PskIdentity(stream, stream.beacons[i]),
      publicKey |-> keys[(i % Len(keys)) + 1]]]

\* generatePskSecrets: beacons and keys are brought together by their places.
\* The secret follows from the public key and the identity.
GeneratePskSecrets(keys, stream) ==
  [i \in DOMAIN keys |->
     [id |-> PskIdentity(stream, stream.beacons[i]), publicKey |-> keys[i]]]

\* parseBeacons for a stream that is not out of range: the place of the first
\* beacon that is made for me by somebody in the address book, 0 for none.  What
\* decrypts to something else is passed over.
FirstForMe(stream, me, addressBook) ==
  SelectInSeq(stream.beacons, LAMBDA b : b.to = me /\ b.from \in addressBook)

\* The identity that the one who asked for the stream will connect with; an
\* expiration that is out of range is an error.
ParseBeacons(stream, me, addressBook, now, oneDay) ==
  LET i == FirstForMe(stream, me, addressBook)
  IN  IF stream.expiration \in now .. now + oneDay /\ i # 0
      THEN {PskIdentity(stream, stream.beacons[i])}
      ELSE {}
=============================================================================
