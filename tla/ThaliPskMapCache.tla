-------------------------- MODULE ThaliPskMapCache --------------------------
(***************************************************************************)
(* thaliPskMapCache.js: the queue of the last dictionaries of secrets.  A  *)
(* dictionary is a sequence of records [id, publicKey]; the secret of an   *)
(* identity is there exactly when its public key is.                       *)
(***************************************************************************)
EXTENDS Integers, Sequences, SequencesExt

\* Those at the front that have expired.
Expired(queue, now) ==
  LET fresh == SelectInSeq(queue, LAMBDA e : ~(e.expiration < now))
  IN  IF fresh = 0 THEN Len(queue) ELSE fresh - 1

\* Broken: room is made even when some have expired.
CleanTwice(queue, forceRemove, now, maxSize) ==
  LET n == Expired(queue, now)
      room == IF forceRemove /\ Len(queue) >= maxSize THEN 1 ELSE 0
  IN  SubSeq(queue, n + room + 1, Len(queue))

\* clean: the oldest one goes when room is needed and none has expired.
Clean(queue, forceRemove, now, maxSize) ==
  LET n == Expired(queue, now)
  IN  IF n > 0 THEN SubSeq(queue, n + 1, Len(queue))
      ELSE IF forceRemove /\ Len(queue) >= maxSize THEN Tail(queue)
      ELSE queue

Push(queue, dictionary, now, life, maxSize) ==
  Append(Clean(queue, TRUE, now, maxSize),
         [keySecret |-> dictionary, expiration |-> now + life])

\* getSecret and getPublic after their clean(FALSE): the newest dictionary that
\* holds the identity.
GetPublic(queue, id, none) ==
  LET Holds(item) == \E e \in ToSet(item.keySecret) : e.id = id
      newest == SelectLastInSeq(queue, Holds)
  IN  IF newest = 0 THEN none
      ELSE (CHOOSE e \in ToSet(queue[newest].keySecret) : e.id = id).publicKey
=============================================================================
