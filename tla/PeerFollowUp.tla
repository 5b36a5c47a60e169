---------------------------- MODULE PeerFollowUp ----------------------------
(***************************************************************************)
(* What the notification client promises of the peers it hears of, without *)
(* its actions, its pool, its timers and its dictionary: each is asked for *)
(* its beacons, one request at a time, again after a failure, a bounded    *)
(* number of times, until it has answered or is given up; and it is        *)
(* forgotten only when it is gone, at a stop, or when there is no room.    *)
(***************************************************************************)
EXTENDS Naturals, FiniteSets

CONSTANTS Peers, MAXSIZE, MaxRetries

VARIABLES
  up,      \* the client is started
  status,  \* what it does about each peer: "unknown", "asking", "waiting",
           \* "answered" or "givenUp"
  tries    \* how often each has failed since it was announced

vars == <<up, status, tries>>

Remembered == {p \in Peers : status[p] # "unknown"}

Init ==
  /\ up = FALSE
  /\ status = [p \in Peers |-> "unknown"]
  /\ tries = [p \in Peers |-> 0]

Forget(S) ==
  /\ status' = [p \in Peers |-> IF p \in S THEN "unknown" ELSE status[p]]
  /\ tries' = [p \in Peers |-> IF p \in S THEN 0 ELSE tries[p]]

Start == ~up /\ up' = TRUE /\ UNCHANGED <<status, tries>>
Stop  == up /\ up' = FALSE /\ Forget(Peers)

\* A new peer is asked at once; others make room for it if there is none.
Appears(p) ==
  /\ up /\ p \notin Remembered
  /\ \E S \in SUBSET Remembered :
       /\ Cardinality(Remembered) < MAXSIZE => S = {}
       /\ status' = [q \in Peers |-> IF q = p THEN "asking"
                                     ELSE IF q \in S THEN "unknown" ELSE status[q]]
       /\ tries' = [q \in Peers |-> IF q \in S \cup {p} THEN 0 ELSE tries[q]]
  /\ UNCHANGED up

Gone(p) == p \in Remembered /\ Forget({p}) /\ UNCHANGED up

Retry(p) ==
  /\ status[p] = "waiting"
  /\ status' = [status EXCEPT ![p] = "asking"]
  /\ UNCHANGED <<up, tries>>

\* The request fails, and either there is one more to come or there is not.
Fails(p) ==
  /\ status[p] = "asking"
  /\ \/ /\ tries[p] < MaxRetries
        /\ status' = [status EXCEPT ![p] = "waiting"]
        /\ tries' = [tries EXCEPT ![p] = @ + 1]
     \/ /\ tries[p] >= MaxRetries
        /\ status' = [status EXCEPT ![p] = "givenUp"]
        /\ UNCHANGED tries
  /\ UNCHANGED up

Answers(p) ==
  /\ status[p] = "asking"
  /\ status' = [status EXCEPT ![p] = "answered"]
  /\ UNCHANGED <<up, tries>>

Next ==
  \/ Start \/ Stop
  \/ \E p \in Peers : \/ Appears(p) \/ Gone(p) \/ Retry(p)
                      \/ Fails(p) \/ Answers(p)

Spec == Init /\ [][Next]_vars

\* Nobody is left waiting for a retry that does not come.
NobodyWaits == \A p \in Peers : (status[p] = "waiting") ~> (status[p] # "waiting")

Promise == Spec /\ NobodyWaits
=============================================================================
