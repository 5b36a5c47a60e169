----------------------- MODULE MCThaliNotificationClient -----------------------
(* Small instances of the notification client. *)
EXTENDS ThaliNotificationClient, TLC

CONSTANTS p1, p2, p3

TwoPeers   == {p1, p2}
ThreePeers == {p1, p2, p3}

PeerSymmetry == Permutations(Peers)

\* What no later step and no property looks at is left out of the states TLC
\* tells apart: the entry numbers but for their order, the past of an action
\* that is over and of no entry, and advertisements with their own address.
Over(a) ==
  \/ a \notin Allocated
  \/ actions[a].promise = "reaped" /\ dict[actions[a].peer].action # a

WhatMatters ==
  <<running, [p \in Peers |-> [dict[p] EXCEPT !.number = 0]],
    {<<p, q>> \in Known \X Known : dict[p].number < dict[q].number},
    [a \in {b \in ActionIds : ~Over(b)} |-> actions[a]], peerActionCounter,
    timers, poolStopped, inQueue,
    {e \in advertised : e.heard # e.address}, appearances, uncaught>>

\* Eviction is a matter of one session: nothing is explored after a stop.
OneSession == running \/ appearances = 0

=============================================================================
