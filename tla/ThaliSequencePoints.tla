------------------------- MODULE ThaliSequencePoints -------------------------
(***************************************************************************)
(* Two devices.  One has the database and tells the peers on its list, by  *)
(* beacons, that they are behind (ThaliSendNotification); the other, the   *)
(* Reader, replicates when it is told and writes how far it has got into   *)
(* the first one's database (LocalSeqManager), where the next refresh of   *)
(* the beacons looks.  Other peers on the list never come.                 *)
(*                                                                         *)
(* The Reader hears of beacons while they are served.  How it fetches      *)
(* them and runs the replication is ThaliNotificationClient's and          *)
(* ThaliPeerPoolOneAtATime's matter.                                       *)
(***************************************************************************)
EXTENDS Naturals, Sequences, FiniteSets

CONSTANTS
  Peers, Reader, Lists, MAXIMUM_NUMBER_OF_PEERS_TO_NOTIFY, MaxSeq, MaxCalls,
  Overlap, None

VARIABLES
  seq,
  state, transient, calls, running, since, seen, server, beacons, asked, missed,
  pulled, live, nextSeq, timer, blocked, requests, rev, doc, failed

\* The documents in the first device's database.
Synced == [p \in Peers |-> IF p = Reader THEN doc.seq ELSE 0]

Send   == INSTANCE ThaliSendNotification WITH synced <- Synced
Writer == INSTANCE LocalSeqManager

ASSUME SequenceAssumption ==
  Reader \in Peers /\ Send!SendAssumption /\ Writer!WriterAssumption

sendVars   == <<state, transient, calls, running, since, seen, server, beacons,
                asked, missed>>
writerVars == <<pulled, live, nextSeq, timer, blocked, requests, rev, doc, failed>>
vars       == <<seq, sendVars, writerVars>>

Init == seq = 0 /\ Send!SendInit /\ Writer!WriterInit

\* The steps of one device leave the other's alone.
There(A) == A /\ UNCHANGED <<seq, writerVars>>
Here(A)  == A /\ UNCHANGED <<seq, sendVars>>

Told == Reader \in beacons /\ Writer!Begin

Pulls == \E s \in 1 .. MaxSeq : Writer!Changes(s)

Next ==
  \/ There(Send!Caller) \/ There(Send!Works) \/ There(Send!ReadFails)
  \/ Here(Told) \/ Here(Pulls) \/ Here(Writer!Ends)
  \/ Here(Writer!Works) \/ Here(Writer!Fails)
  \/ Send!Change /\ UNCHANGED <<sendVars, writerVars>>

Spec == Init /\ [][Next]_vars

\* What the event loops, databases and timers do by themselves is done; and a peer
\* that is told begins a replication, and one that begins again and again gets
\* something some time.
LiveSpec ==
  /\ Spec
  /\ WF_vars(There(Send!Update)) /\ WF_vars(There(Send!ServerTurn))
  /\ WF_vars(There(Send!TimerFires)) /\ WF_vars(There(Send!ChangeEvent))
  /\ WF_vars(Here(Writer!Works))
  /\ WF_vars(Here(Told)) /\ SF_vars(Here(Pulls))

-----------------------------------------------------------------------------
(* Properties *)

TypeOK == Send!TypeOK /\ Writer!TypeOK

NobodyForgotten     == Send!NobodyForgotten
UpdatesMayBeIgnored == Send!UpdatesMayBeIgnored
StaysStopped        == Send!StaysStopped
LastIsSent          == Writer!LastIsSent
LastIsSentAnyhow    == Writer!LastIsSentAnyhow
RevisionIsKnown     == Writer!RevisionIsKnown
FinalWrite          == Writer!FinalWrite

\* Whoever is behind will be looked at again as long as changes are monitored, and
\* nothing is monitored or announced once a stop has been made.
BooksAgree == TypeOK /\ NobodyForgotten /\ StaysStopped

Monitors == asked /\ state # "stopped" /\ Reader \in Send!Listed

\* The peers that never come are behind for ever: the Reader's turn comes only if
\* they leave it a place.
InReach == \E i \in DOMAIN transient.list :
  transient.list[i] = Reader /\ i <= MAXIMUM_NUMBER_OF_PEERS_TO_NOTIFY

\* The purpose of it all: each change reaches a peer on the list for which those
\* before it, who may never come, leave a place, if monitoring goes on, no read of
\* the database fails, and no change came at the wrong time.
Notified == Monitors /\ InReach
ChangesArrive ==
  \A n \in 1 .. MaxSeq :
    (Notified /\ seq >= n) ~> (pulled >= n \/ ~Notified \/ missed)

\* Each peer on the list is told of the changes, whatever its place: it is not if
\* as many as are notified at once stand before it and do not come (line 490 takes
\* the first that are behind, at every refresh the same ones).
EachIsTold ==
  \A n \in 1 .. MaxSeq :
    (Monitors /\ seq >= n) ~> (pulled >= n \/ ~Monitors \/ missed)

=============================================================================
