----------------------- MODULE Notifications_proofs -----------------------
(***************************************************************************)
(* The device that notifies others.  First ThaliSequencePoints: nobody who *)
(* is behind is forgotten while changes are monitored, and nothing is      *)
(* monitored once a stop has been made, for any peers, lists and bounds,   *)
(* and whether or not replications overlap.  Then ThaliNotificationServer: *)
(* whoever finds itself in one of the last streams is accepted for what it *)
(* is and gets through with all that its replication asks for, and nobody  *)
(* can pass for another peer, for any lists, times and sizes of the cache. *)
(***************************************************************************)
EXTENDS ThaliSequencePoints, ThaliNotificationServer, WellFoundedInduction,
        FiniteSetTheorems, SequenceTheorems, TLAPS

Listed == Send!Listed
-----------------------------------------------------------------------------
(* The inductive invariant: the sender's bookkeeping. *)

\* Where a start, a stop or a failed read leaves the state and its timer.
StateFits ==
  /\ state = "started" => transient # None
  /\ state = "starting" => running # None
  /\ state = "stopped" /\ transient # None =>
       transient.timer = "none" /\ ~transient.listener
  /\ running # None /\ running.at # "server" =>
       transient.timer = "none" /\ ~transient.listener /\ ~missed
  /\ \A i \in DOMAIN calls : calls[i].kind # "stop" => calls[i].list \in Lists

\* The server's start is the one that _commonStart waits for, and the last call;
\* when nothing is monitored the last call is a stop.
ServerFits ==
  /\ \A i \in DOMAIN server :
       /\ server[i].kind = "start" =>
            i = Len(server) /\ running # None /\ running.at = "server"
       /\ server[i].kind = "stop" => server[i].peers = {}
  /\ running # None /\ running.at = "server" =>
       server # <<>> /\ server[Len(server)].kind = "start"
  /\ transient = None =>
       IF server = <<>> THEN beacons = {} ELSE server[Len(server)].kind = "stop"

\* A refresh whose timer has fired is in the queue.
RefreshWaits == \E i \in DOMAIN calls : calls[i].kind = "first" /\ calls[i].current
FiredIsQueued ==
  state # "stopped" /\ transient # None /\ transient.timer = "fired" => RefreshWaits

\* What is known of a peer on the list, from the reading of its document on.
Behind(p) == Synced[p] < since
UpdateSees ==
  running # None =>
    /\ running.at = "docs" =>
         \A p \in Listed : p \in running.unread \cup running.behind \/ ~Behind(p)
    /\ running.at = "server" =>
         /\ transient.updated \/ \A p \in Listed : ~Behind(p)
         /\ transient.timer # "soon"
         /\ ~missed => seen = since
NobodyMissed ==
  state = "started" /\ ~missed =>
    \A p \in Listed : Synced[p] >= seen \/ Send!Refreshing

SendFits == StateFits /\ ServerFits /\ FiredIsQueued /\ UpdateSees /\ NobodyMissed

-----------------------------------------------------------------------------
(* The inductive invariant: the writer's requests. *)

\* What waits is of the manager that is there, and has a number to send.
WaitingFits == timer \/ blocked => live /\ nextSeq > 0

\* A request of an earlier manager has a smaller number than the present one, and
\* none that can still succeed takes the document back.
RequestsFit ==
  /\ \A r \in requests :
       /\ r.seq <= pulled
       /\ r.at = "put" => r.rev <= doc.rev
       /\ r.at = "put" /\ r.rev = doc.rev => doc.seq <= r.seq
       /\ r.own => live /\ r.seq <= nextSeq /\ doc.seq <= r.seq
  /\ \A r, q \in requests : r.own => q.seq <= r.seq /\ (q.own => q = r)
  /\ live /\ nextSeq > 0 => /\ doc.seq <= nextSeq
                            /\ \A r \in requests : r.seq <= nextSeq

WriterFits == WaitingFits /\ RequestsFit

IInv == TypeOK /\ StaysStopped /\ SendFits /\ WriterFits
-----------------------------------------------------------------------------
(* The peers to notify *)

LessThan == {ss \in Nat \X Nat : ss[1] < ss[2]}

\* Every set of numbers that is not empty has a smallest.
LEMMA Least ==
  ASSUME NEW T \in SUBSET Nat, T # {}
  PROVE  \E x \in T : \A y \in T : x <= y
<1>1. IsWellFoundedOn(LessThan, Nat)
  BY NatLessThanWellFounded, Zenon DEF OpToRel, LessThan
<1>2. PICK x \in T : \A y \in T : <<y, x>> \notin LessThan
  BY <1>1, WFMin
<1>3. ASSUME NEW y \in T, y < x PROVE FALSE
  BY <1>2, <1>3 DEF LessThan
<1> QED
  BY <1>3

LEMMA ListedArePeers ==
  ASSUME Send!TypeOK, transient # None
  PROVE  /\ transient.list \in Lists /\ transient.list \in Seq(Peers)
         /\ Listed \subseteq Peers
BY SequenceAssumption DEF Send!TypeOK, Send!SendAssumption,
                          Send!TransientStates, Listed, Send!Listed

\* Somebody is notified if anybody on the list is behind, and nobody else is.
LEMMA SomebodyIsNotified ==
  ASSUME Send!TypeOK, transient # None, Send!PeersToNotify = {}
  PROVE  Listed \cap running.behind = {}
<1> DEFINE list == transient.list
           B == {i \in DOMAIN list : list[i] \in running.behind}
<1>1. list \in Seq(Peers) /\ DOMAIN list = 1 .. Len(list) /\ Len(list) \in Nat
  BY ListedArePeers
<1>2. SUFFICES ASSUME B # {} PROVE FALSE
  BY DEF Listed, Send!Listed
<1>3. PICK i \in B : \A j \in B : i <= j
  <2>1. B \in SUBSET Nat
    BY <1>1
  <2> HIDE DEF B
  <2> QED
    BY <1>2, <2>1, Least
<1>4. {j \in 1 .. i - 1 : list[j] \in running.behind} = {}
  BY <1>1, <1>3
<1>5. Send!Cardinality({}) < MAXIMUM_NUMBER_OF_PEERS_TO_NOTIFY
  <2>1. Send!Cardinality({}) = Cardinality({})
    BY Zenon DEF Send!Cardinality, Cardinality
  <2> QED
    BY <2>1, SequenceAssumption, FS_EmptySet DEF Send!SendAssumption
<1>6. list[i] \in Send!PeersToNotify
  BY <1>3, <1>4, <1>5 DEF Send!PeersToNotify
<1> QED
  BY <1>6

LEMMA NotifiedAreListed ==
  ASSUME Send!TypeOK, transient # None
  PROVE  Send!PeersToNotify \subseteq Listed
BY DEF Send!PeersToNotify, Listed, Send!Listed

-----------------------------------------------------------------------------
(* Init *)

LEMMA InitFits == Init => IInv
<1> SUFFICES ASSUME Init PROVE IInv
  OBVIOUS
<1> USE SequenceAssumption DEF Init, Send!SendInit, Writer!WriterInit,
    Send!SendAssumption, Writer!WriterAssumption
<1>1. Synced \in [Peers -> 0 .. seq]
  BY DEF Synced
<1>2. Send!TypeOK
  <2>1. asked \in BOOLEAN /\ missed \in BOOLEAN
    OBVIOUS
  <2>2. seq \in 0 .. MaxSeq /\ since \in 0 .. seq /\ seen \in 0 .. seq
    OBVIOUS
  <2> QED
    BY <1>1, <2>1, <2>2 DEF Send!TypeOK
<1>3. Writer!TypeOK
  <2>1. live \in BOOLEAN /\ timer \in BOOLEAN /\ blocked \in BOOLEAN /\ failed \in BOOLEAN
    OBVIOUS
  <2>2. seq \in 0 .. MaxSeq /\ pulled \in 0 .. seq /\ nextSeq \in 0 .. pulled
        /\ requests \subseteq Writer!Request
    OBVIOUS
  <2>3. rev \in 0 .. doc.rev /\ doc.seq \in 0 .. pulled /\ doc.rev \in Nat
    OBVIOUS
  <2> QED
    BY <2>1, <2>2, <2>3 DEF Writer!TypeOK
<1>4. StaysStopped
  BY DEF StaysStopped, Send!StaysStopped
<1>5. SendFits
  BY DEF SendFits, StateFits, ServerFits, FiredIsQueued, UpdateSees,
         NobodyMissed
<1>6. WriterFits
  BY DEF WriterFits, WaitingFits, RequestsFit
<1> QED
  BY <1>2, <1>3, <1>4, <1>5, <1>6 DEF IInv, TypeOK

-----------------------------------------------------------------------------
(* The writer's steps take no document back. *)

WriterStep ==
  \/ Writer!Begin \/ Writer!Ends \/ Pulls \/ Writer!Works \/ Writer!Fails

LEMMA BeginFits ==
  ASSUME Writer!TypeOK, WriterFits, Writer!Begin, UNCHANGED seq
  PROVE  Writer!TypeOK' /\ WriterFits' /\ doc'.seq >= doc.seq
<1> USE DEF Writer!Begin
<1>1. Writer!TypeOK'
  <2>1. live' \in BOOLEAN /\ timer' \in BOOLEAN /\ blocked' \in BOOLEAN /\ failed' \in BOOLEAN
    BY DEF Writer!TypeOK
  <2>2. nextSeq' \in 0 .. pulled' /\ rev' \in 0 .. doc'.rev
    BY DEF Writer!TypeOK
  <2> QED
    BY <2>1, <2>2 DEF Writer!TypeOK
<1>2. WaitingFits'
  BY DEF WriterFits, WaitingFits
<1>3. RequestsFit'
  BY DEF WriterFits, RequestsFit, Writer!TypeOK, Writer!Request
<1> QED
  BY <1>1, <1>2, <1>3 DEF WriterFits, Writer!TypeOK

LEMMA EndsFits ==
  ASSUME Writer!TypeOK, WriterFits, Writer!Ends, UNCHANGED seq
  PROVE  Writer!TypeOK' /\ WriterFits' /\ doc'.seq >= doc.seq
<1> USE DEF Writer!Ends
<1>1. Writer!TypeOK'
  BY DEF Writer!TypeOK, Writer!Request
<1>2. WaitingFits'
  BY DEF WriterFits, WaitingFits
<1>3. RequestsFit'
  BY DEF WriterFits, RequestsFit, Writer!TypeOK, Writer!Request
<1> QED
  BY <1>1, <1>2, <1>3 DEF WriterFits, Writer!TypeOK

LEMMA PullsFits ==
  ASSUME Writer!TypeOK, WriterFits, Pulls, UNCHANGED seq
  PROVE  Writer!TypeOK' /\ WriterFits' /\ doc'.seq >= doc.seq
<1>1. PICK s \in 1 .. MaxSeq : Writer!Changes(s)
  BY DEF Pulls
<1> USE <1>1 DEF Writer!Changes, Writer!Update
<1>2. nextSeq' = s /\ nextSeq < s /\ s > pulled /\ pulled' = s
  BY DEF Writer!TypeOK
<1>3. Writer!TypeOK'
  <2>1. live' \in BOOLEAN /\ timer' \in BOOLEAN /\ blocked' \in BOOLEAN /\ failed' \in BOOLEAN
    BY DEF Writer!TypeOK
  <2>2. pulled' \in 0 .. seq' /\ nextSeq' \in 0 .. pulled'
    BY <1>2 DEF Writer!TypeOK
  <2>3. doc'.seq \in 0 .. pulled'
    BY <1>2 DEF Writer!TypeOK
  <2> QED
    BY <2>1, <2>2, <2>3 DEF Writer!TypeOK
<1>4. WaitingFits'
  BY <1>2 DEF WriterFits, WaitingFits
<1>5. RequestsFit'
  BY <1>2 DEF WriterFits, RequestsFit, Writer!TypeOK, Writer!Request
<1> QED
  BY <1>3, <1>4, <1>5 DEF WriterFits, Writer!TypeOK

LEMMA UnblockedFits ==
  ASSUME Writer!TypeOK, WriterFits, Writer!TimerFires \/ Writer!Unblocked,
         UNCHANGED seq
  PROVE  Writer!TypeOK' /\ WriterFits' /\ doc'.seq >= doc.seq
<1>1. CASE Writer!TimerFires
  <2>1. Writer!TypeOK'
    BY <1>1 DEF Writer!TimerFires, Writer!TypeOK
  <2>2. WaitingFits'
    BY <1>1 DEF Writer!TimerFires, WriterFits, WaitingFits
  <2>3. RequestsFit'
    BY <1>1 DEF Writer!TimerFires, WriterFits, RequestsFit
  <2> QED
    BY <1>1, <2>1, <2>2, <2>3 DEF Writer!TimerFires, WriterFits, Writer!TypeOK
<1>2. CASE Writer!Unblocked
  <2> USE <1>2 DEF Writer!Unblocked
  <2> DEFINE new == Writer!NewRequest
  <2>1. new \in Writer!Request /\ new.seq = nextSeq /\ new.at = "get" /\ new.own
    BY SequenceAssumption DEF Writer!NewRequest, Writer!Request, WriterFits,
      WaitingFits, Writer!TypeOK, Writer!WriterAssumption
  <2>2. Writer!TypeOK'
    BY <2>1 DEF Writer!TypeOK
  <2>3. WaitingFits'
    BY DEF WriterFits, WaitingFits
  <2>6. requests' = requests \cup {new} /\ \A r \in requests : ~r.own
    OBVIOUS
  <2> HIDE DEF new
  <2>4. live /\ nextSeq > 0 /\ nextSeq <= pulled /\ nextSeq \in Nat /\ pulled \in Nat
        /\ doc.seq <= nextSeq
    BY DEF WriterFits, WaitingFits, RequestsFit, Writer!TypeOK
  <2>5. RequestsFit'
    BY <2>1, <2>4, <2>6 DEF WriterFits, RequestsFit, Writer!TypeOK,
                            Writer!Request
  <2> QED
    BY <2>2, <2>3, <2>5 DEF WriterFits, Writer!TypeOK
<1> QED
  BY <1>1, <1>2

LEMMA RevisionFits ==
  ASSUME Writer!TypeOK, WriterFits, NEW r \in requests, Writer!RevisionComes(r),
         UNCHANGED seq
  PROVE  Writer!TypeOK' /\ WriterFits' /\ doc'.seq >= doc.seq
<1> DEFINE put == [r EXCEPT !.at = "put", !.rev = IF rev # 0 THEN rev ELSE doc.rev]
<1> USE DEF Writer!RevisionComes
<1>1. put \in Writer!Request /\ put.seq = r.seq /\ put.own = r.own /\ put.at = "put"
      /\ put.rev <= doc.rev
  <2> DEFINE known == IF rev # 0 THEN rev ELSE doc.rev
  <2>1. known \in Nat /\ known <= doc.rev
    BY DEF Writer!TypeOK
  <2>2. r \in Writer!Request
    BY DEF Writer!TypeOK
  <2> HIDE DEF known
  <2>3. /\ [r EXCEPT !.at = "put", !.rev = known] \in Writer!Request
        /\ [r EXCEPT !.at = "put", !.rev = known].rev = known
    BY <2>1, <2>2 DEF Writer!Request
  <2>4. put = [r EXCEPT !.at = "put", !.rev = known]
    BY DEF known
  <2> QED
    BY <2>1, <2>2, <2>3, <2>4 DEF Writer!Request
<1>2. \/ r.own /\ requests' = (requests \ {r}) \cup {put}
      \/ ~r.own /\ requests' = requests \ {r}
  OBVIOUS
<1> HIDE DEF put
<1>3. Writer!TypeOK'
  BY <1>1, <1>2 DEF Writer!TypeOK
<1>4. WaitingFits'
  BY DEF WriterFits, WaitingFits
<1>5. RequestsFit'
  BY <1>1, <1>2 DEF WriterFits, RequestsFit, Writer!TypeOK, Writer!Request
<1> QED
  BY <1>3, <1>4, <1>5 DEF WriterFits, Writer!TypeOK

\* A put, with its answer or without it.
LEMMA PutFits ==
  ASSUME Writer!TypeOK, WriterFits, NEW r \in requests,
         Writer!Put(r) \/ Writer!RequestFails(r), UNCHANGED seq
  PROVE  Writer!TypeOK' /\ WriterFits' /\ doc'.seq >= doc.seq
<1> USE DEF Writer!Put, Writer!RequestFails
<1>1. /\ requests' = requests \ {r}
      /\ UNCHANGED <<pulled, live, nextSeq, timer, blocked>>
      /\ \/ /\ r.at = "put" /\ r.rev = doc.rev
            /\ doc' = [seq |-> r.seq, rev |-> doc.rev + 1]
         \/ doc' = doc
      /\ failed' \in BOOLEAN
      /\ rev' = rev \/ (rev' = doc.rev + 1 /\ doc' = [seq |-> r.seq, rev |-> doc.rev + 1])
  BY DEF Writer!TypeOK, Writer!Request
<1>2. r \in Writer!Request
  BY DEF Writer!TypeOK
<1>3. doc'.seq >= doc.seq /\ doc'.rev >= doc.rev /\ doc'.seq \in 0 .. pulled
      /\ doc'.rev \in Nat
  BY <1>1, <1>2 DEF Writer!TypeOK, Writer!Request, WriterFits, RequestsFit
<1>4. Writer!TypeOK'
  BY <1>1, <1>3 DEF Writer!TypeOK
<1>5. WaitingFits'
  BY <1>1 DEF WriterFits, WaitingFits
<1>6. RequestsFit'
  <2>1. CASE doc' = doc
    BY <1>1, <2>1 DEF WriterFits, RequestsFit
  <2>2. CASE doc' = [seq |-> r.seq, rev |-> doc.rev + 1]
    BY <1>1, <1>2, <2>2 DEF WriterFits, RequestsFit, Writer!TypeOK,
                            Writer!Request
  <2> QED
    BY <1>1, <2>1, <2>2
<1> QED
  BY <1>3, <1>4, <1>5, <1>6 DEF WriterFits

LEMMA WriterSteps ==
  ASSUME Writer!TypeOK, WriterFits, WriterStep, UNCHANGED seq
  PROVE  Writer!TypeOK' /\ WriterFits' /\ doc'.seq >= doc.seq
BY BeginFits, EndsFits, PullsFits, UnblockedFits, RevisionFits, PutFits
   DEF WriterStep, Writer!Works, Writer!Fails

-----------------------------------------------------------------------------
(* The sender's steps, one by one *)

SendInv == Send!TypeOK /\ StaysStopped /\ SendFits
Same == UNCHANGED <<seq, writerVars>>

LEMMA SyncedStays == Same => Synced' = Synced /\ seq' = seq
BY DEF Same, writerVars, Synced

\* A call that comes waits at the end of the queue.
Calls ==
  [kind : {"start", "stop", "first"}, list : Lists \cup {<<>>}, current : BOOLEAN]
Waits(c) ==
  /\ c \in Calls /\ (c.kind # "stop" => c.list \in Lists)
  /\ calls' = Append(calls, c)
  /\ UNCHANGED <<state, transient, running, since, seen, server, beacons, asked, missed>>

LEMMA CallFits ==
  ASSUME SendInv, Send!Caller, Same
  PROVE  SendInv'
<1>1. PICK c : Waits(c)
  <2>1. CASE Send!Stop
    <3>1. Waits(Send!Call("stop", <<>>))
      BY <2>1 DEF Send!Stop, Send!Call, Waits, Calls
    <3> QED
      BY <3>1
  <2>2. ASSUME NEW l \in Lists, Send!Start(l)
        PROVE  Waits(Send!Call("start", l))
    BY <2>2 DEF Send!Start, Send!Call, Waits, Calls
  <2> QED
    BY <2>1, <2>2 DEF Send!Caller
<1>2. Synced' = Synced /\ seq' = seq
  BY SyncedStays
<1>3. Send!TypeOK'
  BY <1>1, <1>2 DEF SendInv, Send!TypeOK, Waits, Calls
<1>4. StaysStopped'
  BY <1>1 DEF SendInv, Waits, StaysStopped, Send!StaysStopped
<1>5. Len(calls) \in Nat /\ Len(calls') = Len(calls) + 1
      /\ \A i \in DOMAIN calls : i \in DOMAIN calls' /\ calls'[i] = calls[i]
      /\ \A j \in DOMAIN calls' : j \in DOMAIN calls \/ calls'[j] = c
  BY <1>1 DEF SendInv, Waits, Send!TypeOK
<1>6. StateFits' /\ ServerFits'
  BY <1>1, <1>5 DEF SendInv, Waits, SendFits, StateFits, ServerFits
<1>7. FiredIsQueued' /\ UpdateSees'
  BY <1>1, <1>2, <1>5 DEF SendInv, Waits, SendFits, FiredIsQueued, RefreshWaits,
                          UpdateSees, Listed, Send!Listed, Behind
<1>8. NobodyMissed'
  BY <1>1, <1>2, <1>5 DEF SendInv, Waits, SendFits, NobodyMissed, Listed,
                          Send!Listed, Send!Refreshing
<1> QED
  BY <1>3, <1>4, <1>6, <1>7, <1>8 DEF SendInv, SendFits

\* A call that is worked off without doing anything.
LEMMA TailIsCalls ==
  ASSUME SendInv, calls # <<>>
  PROVE  /\ Tail(calls) \in Seq(Calls) /\ Head(calls) \in Calls
         /\ Head(calls) = calls[1] /\ 1 \in DOMAIN calls
         /\ DOMAIN calls = 1 .. Len(calls) /\ DOMAIN Tail(calls) = 1 .. Len(calls) - 1
         /\ \A i \in DOMAIN Tail(calls) : i + 1 \in DOMAIN calls /\ Tail(calls)[i] = calls[i + 1]
<1>1. calls \in Seq(Calls)
  BY DEF SendInv, Send!TypeOK, Calls
<1> QED
  BY <1>1

\* What a refresh remembers is out of date; that changes nothing else of it.
LEMMA OutdatedCalls ==
  ASSUME NEW q \in Seq(Calls)
  PROVE  /\ Send!Outdated(q) \in Seq(Calls) /\ DOMAIN Send!Outdated(q) = DOMAIN q
         /\ \A i \in DOMAIN q : /\ Send!Outdated(q)[i].kind = q[i].kind
                               /\ Send!Outdated(q)[i].list = q[i].list
                               /\ ~Send!Outdated(q)[i].current
<1>1. Len(q) \in Nat /\ DOMAIN q = 1 .. Len(q) /\ \A i \in DOMAIN q : q[i] \in Calls
  OBVIOUS
<1>2. \A i \in DOMAIN q : [q[i] EXCEPT !.current = FALSE] \in Calls
  BY <1>1 DEF Calls
<1>3. Send!Outdated(q) \in [1 .. Len(q) -> Calls]
  BY <1>1, <1>2 DEF Send!Outdated
<1> QED
  BY <1>1, <1>3 DEF Send!Outdated, Calls

LEMMA RestIsCalls ==
  ASSUME SendInv, calls # <<>>, NEW q, q = Tail(calls) \/ q = Send!Outdated(Tail(calls))
  PROVE  q \in Seq(Calls) /\ \A i \in DOMAIN q : q[i].kind # "stop" => q[i].list \in Lists
<1> DEFINE t == Tail(calls)
<1>1. t \in Seq(Calls) /\ \A i \in DOMAIN t : t[i].kind # "stop" => t[i].list \in Lists
  BY TailIsCalls DEF SendInv, SendFits, StateFits
<1> HIDE DEF t
<1>2. CASE q = t
  BY <1>1, <1>2
<1>3. CASE q = Send!Outdated(t)
  BY <1>1, <1>3, OutdatedCalls
<1> QED
  BY <1>2, <1>3 DEF t

LEMMA SkipFits ==
  ASSUME SendInv, Same, calls # <<>>, calls' = Tail(calls), asked' \in BOOLEAN,
         asked => asked', 
         Head(calls).kind = "first" /\ Head(calls).current => state # "started",
         running = None,
         UNCHANGED <<state, transient, running, since, seen, server, beacons, missed>>
  PROVE  SendInv'
<1>1. Synced' = Synced /\ seq' = seq
  BY SyncedStays
<1>2. Send!TypeOK'
  BY <1>1, TailIsCalls DEF SendInv, Send!TypeOK, Calls
<1>3. StaysStopped'
  BY DEF SendInv, StaysStopped, Send!StaysStopped
<1>4. StateFits' /\ ServerFits'
  BY TailIsCalls DEF SendInv, SendFits, StateFits, ServerFits
<1>5. state = "started" /\ RefreshWaits => RefreshWaits'
  <2>1. SUFFICES ASSUME state = "started", NEW i \in DOMAIN calls,
                        calls[i].kind = "first", calls[i].current
                 PROVE  RefreshWaits'
    BY DEF RefreshWaits
  <2>2. i # 1 /\ i - 1 \in DOMAIN Tail(calls)
    BY <2>1, TailIsCalls DEF SendInv, Send!TypeOK
  <2>3. Tail(calls)[i - 1] = calls[i]
    BY <2>2, TailIsCalls DEF SendInv, Send!TypeOK
  <2> QED
    BY <2>1, <2>2, <2>3 DEF RefreshWaits
<1>6. FiredIsQueued'
  BY <1>5 DEF SendInv, Send!TypeOK, SendFits, FiredIsQueued, StateFits
<1>7. UpdateSees'
  BY DEF UpdateSees
<1>8. NobodyMissed'
  BY <1>1, <1>5 DEF SendInv, SendFits, NobodyMissed, Listed, Send!Listed,
    Send!Refreshing, RefreshWaits
<1> QED
  BY <1>2, <1>3, <1>4, <1>6, <1>7, <1>8 DEF SendInv, SendFits

LEMMA BeginStartFits ==
  ASSUME SendInv, Send!BeginStart, Same
  PROVE  SendInv'
<1> DEFINE c == Head(calls)
<1>1. /\ running = None /\ calls # <<>> /\ c.kind \in {"start", "first"}
      /\ asked' = (asked \/ c.kind = "start")
      /\ UNCHANGED <<since, seen, server, beacons>>
  BY DEF Send!BeginStart
<1>2. asked' \in BOOLEAN /\ (asked => asked')
  BY <1>1 DEF SendInv, Send!TypeOK
<1>3. CASE ~Send!Needed(c) /\ calls' = Tail(calls)
           /\ UNCHANGED <<state, transient, running, missed>>
  <2>1. c.kind = "first" /\ c.current => state # "started"
    BY <1>3 DEF Send!Needed
  <2> QED
    BY <1>1, <1>2, <1>3, <2>1, SkipFits
<1>4. CASE /\ Send!Needed(c)
           /\ state' = "starting" /\ transient' = Send!Transient(c.list)
           /\ calls' = Send!Outdated(Tail(calls))
           /\ running' = [at |-> "info", unread |-> {}, behind |-> {}]
           /\ missed' = FALSE
  <2>1. Synced' = Synced /\ seq' = seq
    BY SyncedStays
  <2>2. calls' \in Seq(Calls) /\ \A i \in DOMAIN calls' :
          calls'[i].kind # "stop" => calls'[i].list \in Lists
    BY <1>1, <1>4, RestIsCalls
  <2>3. c.list \in Lists
    BY <1>1, TailIsCalls DEF SendInv, SendFits, StateFits
  <2>4. /\ transient' \in Send!TransientStates /\ transient'.timer = "none"
        /\ ~transient'.listener /\ ~transient'.updated
    BY <1>4, <2>3 DEF Send!Transient, Send!TransientStates
  <2>5. running' \in Send!Updates /\ running'.at = "info"
    BY <1>4 DEF Send!Updates
  <2>6. transient' # None /\ running' # None
    BY <2>4, <2>5, SequenceAssumption DEF Send!SendAssumption
  <2>7. Send!TypeOK'
    BY <1>1, <1>2, <1>4, <2>1, <2>2, <2>4, <2>5, <2>6 DEF SendInv, Send!TypeOK,
           Calls
  <2>8. asked'
    BY <1>1, <1>4 DEF Send!Needed, SendInv, StaysStopped, Send!StaysStopped
  <2>9. StateFits' /\ FiredIsQueued' /\ UpdateSees' /\ NobodyMissed'
    BY <1>4, <2>2, <2>4, <2>5, <2>6
       DEF StateFits, FiredIsQueued, UpdateSees, NobodyMissed
  <2>10. ServerFits'
    BY <1>1, <2>5, <2>6 DEF SendInv, SendFits, ServerFits
  <2> QED
    BY <2>7, <2>8, <2>9, <2>10 DEF SendInv, SendFits, StaysStopped,
           Send!StaysStopped
<1> QED
  BY <1>1, <1>3, <1>4 DEF Send!BeginStart

LEMMA BeginStopFits ==
  ASSUME SendInv, Send!BeginStop, Same
  PROVE  SendInv'
<1>1. /\ running = None /\ calls # <<>> /\ Head(calls).kind = "stop"
      /\ state' = "stopped" /\ ~asked' /\ asked' \in BOOLEAN /\ missed' = FALSE
      /\ transient' = None
      /\ \/ calls' = Tail(calls) \/ calls' = Send!Outdated(Tail(calls))
      /\ \/ transient # None /\ server' = Append(server, [kind |-> "stop", peers |-> {}])
         \/ transient = None /\ server' = server
      /\ UNCHANGED <<running, since, seen, beacons>>
  BY DEF Send!BeginStop
<1>2. Synced' = Synced /\ seq' = seq
  BY SyncedStays
<1>3. calls' \in Seq(Calls) /\ \A i \in DOMAIN calls' :
        calls'[i].kind # "stop" => calls'[i].list \in Lists
  BY <1>1, RestIsCalls
<1>4. server' \in Seq([kind : {"start", "stop"}, peers : SUBSET Peers])
  <2> DEFINE stop == [kind |-> "stop", peers |-> {}]
             Entries == [kind : {"start", "stop"}, peers : SUBSET Peers]
  <2>1. stop \in Entries
    OBVIOUS
  <2>2. server \in Seq(Entries)
    BY DEF SendInv, Send!TypeOK
  <2>3. server' = Append(server, stop) \/ server' = server
    BY <1>1
  <2> HIDE DEF stop, Entries
  <2>4. server' \in Seq(Entries)
    BY <2>1, <2>2, <2>3
  <2> QED
    BY <2>4 DEF Entries
<1>5. Send!TypeOK'
  BY <1>1, <1>2, <1>3, <1>4 DEF SendInv, Send!TypeOK, Calls
<1>6. ServerFits'
  <2>1. CASE server' = server /\ transient = None
    BY <1>1, <2>1 DEF SendInv, SendFits, ServerFits
  <2>2. CASE server' = Append(server, [kind |-> "stop", peers |-> {}])
    <3>1. /\ Len(server) \in Nat /\ Len(server') = Len(server) + 1
          /\ server'[Len(server')] = [kind |-> "stop", peers |-> {}]
          /\ \A i \in DOMAIN server' :
               \/ i \in DOMAIN server /\ server'[i] = server[i]
               \/ i = Len(server')
      BY <2>2 DEF SendInv, Send!TypeOK
    <3> QED
      BY <1>1, <3>1 DEF SendInv, SendFits, ServerFits
  <2> QED
    BY <1>1, <2>1, <2>2
<1>7. StateFits' /\ FiredIsQueued' /\ UpdateSees' /\ NobodyMissed'
  BY <1>1, <1>3 DEF StateFits, FiredIsQueued, UpdateSees, NobodyMissed
<1>8. StaysStopped'
  BY <1>1, <1>6 DEF ServerFits, StaysStopped, Send!StaysStopped
<1> QED
  BY <1>5, <1>6, <1>7, <1>8 DEF SendInv, SendFits

-----------------------------------------------------------------------------
(* The update of the beacons *)

\* While an update runs there is something to update, and nobody asked to stop.
LEMMA RunningFacts ==
  ASSUME SendInv, running # None
  PROVE  /\ state = "starting" /\ transient # None /\ asked /\ running \in Send!Updates
         /\ transient \in Send!TransientStates
         /\ transient.list \in Lists /\ Listed \subseteq Peers
BY ListedArePeers DEF SendInv, Send!TypeOK, StaysStopped, Send!StaysStopped

LEMMA FindFits ==
  ASSUME SendInv, Send!FindSequenceNumber, Same
  PROVE  SendInv'
<1> USE DEF Send!FindSequenceNumber
<1>1. Synced' = Synced /\ seq' = seq
  BY SyncedStays
<1>2. /\ state = "starting" /\ transient # None /\ asked /\ running \in Send!Updates
      /\ Listed \subseteq Peers
  BY RunningFacts
<1>3. /\ running' \in Send!Updates /\ running' # None /\ running'.at = "docs"
      /\ running'.unread = IF seq = 0 THEN {} ELSE Listed
  BY <1>2, SequenceAssumption DEF Send!Updates, Send!SendAssumption, Listed
<1>4. Send!TypeOK'
  BY <1>1, <1>3 DEF SendInv, Send!TypeOK
<1>5. StaysStopped'
  BY <1>2 DEF StaysStopped, Send!StaysStopped
<1>6. StateFits' /\ ServerFits' /\ FiredIsQueued' /\ NobodyMissed'
  BY <1>2, <1>3 DEF SendInv, SendFits, StateFits, ServerFits, FiredIsQueued,
                    NobodyMissed, RefreshWaits
<1>7. UpdateSees'
  <2>1. CASE seq = 0
    BY <1>1, <1>2, <1>3, <2>1 DEF UpdateSees, Behind, SendInv, Send!TypeOK,
           Listed, Send!Listed
  <2>2. CASE seq # 0
    BY <1>3, <2>2 DEF UpdateSees, Listed, Send!Listed
  <2> QED
    BY <2>1, <2>2
<1> QED
  BY <1>4, <1>5, <1>6, <1>7 DEF SendInv, SendFits

LEMMA ReadFits ==
  ASSUME SendInv, NEW p \in Peers, Send!ReadDocument(p), Same
  PROVE  SendInv'
<1> USE DEF Send!ReadDocument
<1>1. Synced' = Synced /\ seq' = seq
  BY SyncedStays
<1>2. state = "starting" /\ transient # None /\ asked /\ running \in Send!Updates
  BY RunningFacts
<1>3. /\ running' \in Send!Updates /\ running' # None /\ running'.at = "docs"
      /\ running'.unread = running.unread \ {p}
      /\ running'.behind = IF Behind(p) THEN running.behind \cup {p} ELSE running.behind
  <2> DEFINE behind == IF Behind(p) THEN running.behind \cup {p} ELSE running.behind
             read == [running EXCEPT !.unread = @ \ {p}, !.behind = behind]
  <2>1. behind \in SUBSET Peers
    BY <1>2 DEF Send!Updates
  <2>2. running' = read /\ running.at = "docs"
    BY DEF Behind
  <2> HIDE DEF behind
  <2>3. /\ read \in Send!Updates /\ read.at = running.at
        /\ read.unread = running.unread \ {p} /\ read.behind = behind
    BY <1>2, <2>1 DEF Send!Updates
  <2>4. read # None
    BY <2>3, SequenceAssumption DEF Send!SendAssumption
  <2> QED
    BY <2>2, <2>3, <2>4 DEF behind
<1>4. Send!TypeOK'
  BY <1>1, <1>3 DEF SendInv, Send!TypeOK
<1>5. StaysStopped'
  BY <1>2 DEF StaysStopped, Send!StaysStopped
<1>6. StateFits' /\ ServerFits' /\ FiredIsQueued' /\ NobodyMissed'
  BY <1>2, <1>3 DEF SendInv, SendFits, StateFits, ServerFits, FiredIsQueued,
                    NobodyMissed, RefreshWaits
<1>7. UpdateSees'
  BY <1>1, <1>3 DEF SendInv, SendFits, UpdateSees, Behind, Listed, Send!Listed
<1> QED
  BY <1>4, <1>5, <1>6, <1>7 DEF SendInv, SendFits

LEMMA PublishFits ==
  ASSUME SendInv, Send!Publish, Same
  PROVE  SendInv'
<1> DEFINE start == [kind |-> "start", peers |-> Send!PeersToNotify]
<1>1. Synced' = Synced /\ seq' = seq
  BY SyncedStays
<1>2. /\ running # None /\ running.at = "docs" /\ running.unread = {}
      /\ seen' = since /\ server' = Append(server, start)
      /\ running' = [running EXCEPT !.at = "server"]
      /\ UNCHANGED <<state, calls, since, beacons, asked, missed>>
  BY DEF Send!Publish
<1>3. /\ state = "starting" /\ transient # None /\ asked /\ running \in Send!Updates
      /\ transient \in Send!TransientStates /\ Listed \subseteq Peers
  BY <1>2, RunningFacts
<1>4. running' \in Send!Updates /\ running' # None /\ running'.at = "server"
  BY <1>2, <1>3, SequenceAssumption DEF Send!Updates, Send!SendAssumption
<1>5. /\ transient' \in Send!TransientStates /\ transient' # None
      /\ transient'.list = transient.list
      /\ transient'.updated <=> Send!PeersToNotify # {}
      /\ transient'.timer = IF Send!PeersToNotify # {} THEN "expiry" ELSE "none"
  BY <1>3, SequenceAssumption DEF Send!Publish, Send!TransientStates,
         Send!SendAssumption
<1>6. Send!PeersToNotify \subseteq Peers
  BY <1>3, NotifiedAreListed DEF SendInv
<1>7. /\ server' \in Seq([kind : {"start", "stop"}, peers : SUBSET Peers])
      /\ Len(server) \in Nat /\ Len(server') = Len(server) + 1 /\ server' # <<>>
      /\ server'[Len(server')] = start
      /\ \A i \in DOMAIN server' :
           \/ i \in DOMAIN server /\ server'[i] = server[i]
           \/ i = Len(server')
  <2>1. start \in [kind : {"start", "stop"}, peers : SUBSET Peers]
    BY <1>6
  <2>2. server \in Seq([kind : {"start", "stop"}, peers : SUBSET Peers])
    BY DEF SendInv, Send!TypeOK
  <2> HIDE DEF start
  <2> QED
    BY <1>2, <2>1, <2>2
<1>8. Send!TypeOK'
  BY <1>1, <1>2, <1>4, <1>5, <1>7 DEF SendInv, Send!TypeOK
<1>9. StaysStopped'
  BY <1>2, <1>3 DEF StaysStopped, Send!StaysStopped
<1>10. StateFits' /\ FiredIsQueued' /\ NobodyMissed'
  BY <1>2, <1>3, <1>4, <1>5 DEF SendInv, SendFits, StateFits, FiredIsQueued,
         NobodyMissed
<1>11. ServerFits'
  BY <1>2, <1>4, <1>5, <1>7 DEF SendInv, SendFits, ServerFits
<1>12. UpdateSees'
  <2>1. ~transient'.updated => \A p \in Listed : ~Behind(p)
    BY <1>2, <1>3, <1>5, SomebodyIsNotified DEF SendInv, SendFits, UpdateSees
  <2>2. Listed' = Listed
    BY <1>5 DEF Listed, Send!Listed
  <2> QED
    BY <1>1, <1>2, <1>4, <1>5, <2>1, <2>2 DEF UpdateSees, Behind
<1> QED
  BY <1>8, <1>9, <1>10, <1>11, <1>12 DEF SendInv, SendFits

LEMMA ReadFailsFits ==
  ASSUME SendInv, Send!ReadFails, Same
  PROVE  SendInv'
<1> USE DEF Send!ReadFails
<1>1. Synced' = Synced /\ seq' = seq
  BY SyncedStays
<1>2. state = "starting" /\ transient # None /\ asked /\ running.at # "server"
  BY RunningFacts
<1>3. Send!TypeOK'
  BY <1>1 DEF SendInv, Send!TypeOK
<1>4. StaysStopped'
  BY <1>2 DEF StaysStopped, Send!StaysStopped
<1>5. StateFits' /\ ServerFits' /\ FiredIsQueued' /\ UpdateSees' /\ NobodyMissed'
  BY <1>2 DEF SendInv, SendFits, StateFits, ServerFits, FiredIsQueued,
              UpdateSees, NobodyMissed
<1> QED
  BY <1>3, <1>4, <1>5 DEF SendInv, SendFits

\* A turn of the server's queue. The start in it is that of the update that runs.
LEMMA TurnFits ==
  ASSUME SendInv, Send!ServerTurn, Same
  PROVE  SendInv'
<1> DEFINE Entries == [kind : {"start", "stop"}, peers : SUBSET Peers]
<1>1. Synced' = Synced /\ seq' = seq
  BY SyncedStays
<1>2. /\ server # <<>> /\ server' = Tail(server) /\ beacons' = server[1].peers
      /\ \/ server[1].kind = "start" /\ state' = "started" /\ running' = None
         \/ server[1].kind = "stop" /\ UNCHANGED <<state, running>>
      /\ UNCHANGED <<transient, calls, since, seen, asked, missed>>
  BY DEF Send!ServerTurn, SendInv, Send!TypeOK
<1>3. server \in Seq(Entries)
  BY DEF SendInv, Send!TypeOK
<1>4. /\ server' \in Seq(Entries) /\ server[1] \in Entries /\ Len(server) \in Nat
      /\ 1 \in DOMAIN server
      /\ Len(server') = Len(server) - 1 /\ (server' = <<>> <=> Len(server) = 1)
      /\ \A i \in DOMAIN server' : i + 1 \in DOMAIN server /\ server'[i] = server[i + 1]
  <2> HIDE DEF Entries
  <2>1. /\ server' \in Seq(Entries) /\ server[1] \in Entries /\ Len(server) \in Nat
        /\ 1 \in DOMAIN server /\ Len(server') = Len(server) - 1
    BY <1>2, <1>3
  <2>2. server' = <<>> <=> Len(server) = 1
    BY <2>1, EmptySeq
  <2>3. \A i \in DOMAIN server' : i + 1 \in DOMAIN server /\ server'[i] = server[i + 1]
    BY <1>2, <1>3, <2>1
  <2> QED
    BY <2>1, <2>2, <2>3
<1>5. server[1].kind = "start" =>
        Len(server) = 1 /\ running # None /\ running.at = "server"
  BY <1>4 DEF SendInv, SendFits, ServerFits
<1>6. server[1].kind = "stop" => server[1].peers = {}
  BY <1>4 DEF SendInv, SendFits, ServerFits
<1>7. beacons' \in SUBSET Peers
  BY <1>2, <1>4
<1>8. CASE server[1].kind = "start"
  <2>1. /\ state = "starting" /\ transient # None /\ asked
        /\ transient \in Send!TransientStates /\ Listed \subseteq Peers
    BY <1>5, <1>8, RunningFacts
  <2>2. state' = "started" /\ running' = None /\ server' = <<>>
    BY <1>2, <1>4, <1>5, <1>8
  <2>3. Send!TypeOK'
    BY <1>1, <1>2, <1>4, <1>7, <2>1, <2>2 DEF SendInv, Send!TypeOK
  <2>4. StaysStopped'
    BY <1>2, <2>1 DEF StaysStopped, Send!StaysStopped
  <2>5. StateFits' /\ ServerFits' /\ FiredIsQueued' /\ UpdateSees'
    BY <1>2, <2>1, <2>2 DEF SendInv, SendFits, StateFits, ServerFits,
                            FiredIsQueued, RefreshWaits, UpdateSees
  <2>6. NobodyMissed'
    <3>1. SUFFICES ASSUME ~missed, NEW p \in Listed
                   PROVE  Synced[p] >= seen \/ Send!Refreshing
      BY <1>1, <1>2 DEF NobodyMissed, Listed, Send!Listed, Send!Refreshing
    <3>2. seen = since /\ (transient.updated \/ ~Behind(p)) /\ transient.timer # "soon"
      BY <1>5, <1>8, <3>1 DEF SendInv, SendFits, UpdateSees
    <3>3. CASE transient.updated
      <4>1. transient.timer \in {"expiry", "fired"}
        BY <2>1, <3>2, <3>3 DEF SendInv, Send!TypeOK, Send!TransientStates
      <4> QED
        BY <2>1, <4>1 DEF SendInv, SendFits, FiredIsQueued, RefreshWaits,
                          Send!Refreshing
    <3>4. CASE ~Behind(p)
      BY <2>1, <3>2, <3>4 DEF Behind, SendInv, Send!TypeOK
    <3> QED
      BY <3>2, <3>3, <3>4
  <2> QED
    BY <2>3, <2>4, <2>5, <2>6 DEF SendInv, SendFits
<1>9. CASE server[1].kind = "stop"
  <2>1. UNCHANGED <<state, running>> /\ beacons' = {}
    BY <1>2, <1>6, <1>9
  <2>2. Send!TypeOK'
    BY <1>1, <1>2, <1>4, <1>7, <2>1 DEF SendInv, Send!TypeOK
  <2>3. StaysStopped'
    BY <1>2, <2>1 DEF SendInv, StaysStopped, Send!StaysStopped
  <2>4. StateFits' /\ FiredIsQueued'
    BY <1>2, <2>1 DEF SendInv, SendFits, StateFits, FiredIsQueued, RefreshWaits
  <2>5. ServerFits'
    <3>1. running # None /\ running.at = "server" => Len(server) # 1
      BY <1>4, <1>9 DEF SendInv, SendFits, ServerFits
    <3>2. server' # <<>> => server'[Len(server')] = server[Len(server)]
      BY <1>4 DEF SendInv, Send!TypeOK
    <3> QED
      BY <1>2, <1>4, <2>1, <3>1, <3>2 DEF SendInv, SendFits, ServerFits
  <2>6. UpdateSees' /\ NobodyMissed'
    BY <1>1, <1>2, <2>1 DEF SendInv, SendFits, UpdateSees, NobodyMissed, Listed,
                            Send!Listed, Send!Refreshing, Behind
  <2> QED
    BY <2>2, <2>3, <2>4, <2>5, <2>6 DEF SendInv, SendFits
<1> QED
  BY <1>2, <1>8, <1>9

-----------------------------------------------------------------------------
(* The timer and the change listener *)

LEMMA TimerFits ==
  ASSUME SendInv, Send!TimerFires, Same
  PROVE  SendInv'
<1> DEFINE first == [kind |-> "first", list |-> transient.list, current |-> TRUE]
<1>1. Synced' = Synced /\ seq' = seq
  BY SyncedStays
<1>2. /\ transient # None /\ transient.timer \in {"soon", "expiry"}
      /\ transient' = [transient EXCEPT !.timer = "fired"]
      /\ calls' = <<first>> \o calls
      /\ UNCHANGED <<state, running, since, seen, server, beacons, asked, missed>>
  BY DEF Send!TimerFires, Send!Call
<1>3. transient \in Send!TransientStates /\ transient.list \in Lists
  BY <1>2, ListedArePeers DEF SendInv, Send!TypeOK
<1>4. /\ transient' \in Send!TransientStates /\ transient' # None
      /\ transient'.list = transient.list /\ transient'.updated = transient.updated
      /\ transient'.timer = "fired"
  BY <1>2, <1>3, SequenceAssumption DEF Send!TransientStates,
         Send!SendAssumption
<1>5. first \in Calls /\ first.list \in Lists /\ first.current /\ first.kind = "first"
  BY <1>3 DEF Calls
<1>6. calls \in Seq(Calls)
  BY DEF SendInv, Send!TypeOK, Calls
<1> HIDE DEF first
<1>7. /\ calls' \in Seq(Calls) /\ 1 \in DOMAIN calls' /\ calls'[1] = first
      /\ \A i \in DOMAIN calls' :
           \/ calls'[i] = first
           \/ i - 1 \in DOMAIN calls /\ calls'[i] = calls[i - 1]
  <2>1. <<first>> \in Seq(Calls) /\ Len(<<first>>) = 1 /\ <<first>>[1] = first
    BY <1>5
  <2>2. calls' \in Seq(Calls) /\ Len(calls') = Len(calls) + 1
    BY <1>2, <1>6, <2>1
  <2>3. ASSUME NEW i \in 1 .. Len(calls) + 1
        PROVE  calls'[i] = IF i <= 1 THEN <<first>>[i] ELSE calls[i - 1]
    BY <1>2, <1>6, <2>1, ConcatProperties
  <2>4. DOMAIN calls' = 1 .. Len(calls) + 1 /\ DOMAIN calls = 1 .. Len(calls) /\ Len(calls) \in Nat
    BY <1>6, <2>2
  <2>5. ASSUME NEW i \in DOMAIN calls', i # 1
        PROVE  i - 1 \in DOMAIN calls /\ calls'[i] = calls[i - 1]
    BY <2>2, <2>3, <2>4, <2>5
  <2>6. 1 \in DOMAIN calls' /\ calls'[1] = first
    BY <2>1, <2>2, <2>3, <2>4
  <2> QED
    BY <2>2, <2>5, <2>6
<1>8. RefreshWaits'
  BY <1>5, <1>7 DEF RefreshWaits
<1>9. Send!TypeOK'
  BY <1>1, <1>2, <1>3, <1>4, <1>7 DEF SendInv, Send!TypeOK, Calls
<1>10. StaysStopped'
  BY <1>2 DEF SendInv, StaysStopped, Send!StaysStopped
<1>11. StateFits' /\ FiredIsQueued'
  BY <1>2, <1>4, <1>5, <1>7, <1>8 DEF SendInv, SendFits, StateFits,
         FiredIsQueued
<1>12. ServerFits'
  BY <1>2, <1>4 DEF SendInv, SendFits, ServerFits
<1>13. UpdateSees'
  BY <1>1, <1>2, <1>4 DEF SendInv, SendFits, UpdateSees, Listed, Send!Listed,
                          Behind
<1>14. NobodyMissed'
  BY <1>8 DEF NobodyMissed, Send!Refreshing, RefreshWaits
<1> QED
  BY <1>9, <1>10, <1>11, <1>12, <1>13, <1>14 DEF SendInv, SendFits

LEMMA ChangeEventFits ==
  ASSUME SendInv, Send!ChangeEvent, Same
  PROVE  SendInv'
<1>1. Synced' = Synced /\ seq' = seq
  BY SyncedStays
<1>2. /\ transient # None /\ transient.listener /\ seen < seq /\ seen' = seen + 1
      /\ UNCHANGED <<state, calls, running, since, server, beacons, asked>>
  BY DEF Send!ChangeEvent
<1>3. transient \in Send!TransientStates /\ (transient.updated <=> transient.timer # "none")
  BY <1>2 DEF SendInv, Send!TypeOK
<1>4. seen' \in 0 .. seq
  BY <1>2 DEF SendInv, Send!TypeOK
<1>5. asked /\ state # "stopped" /\ (running = None \/ running.at = "server")
  BY <1>2 DEF SendInv, StaysStopped, Send!StaysStopped, SendFits, StateFits
<1>6. CASE state = "started" /\ transient' = Send!RefreshSooner(transient) /\ UNCHANGED missed
  <2>1. /\ transient' \in Send!TransientStates /\ transient'.updated
        /\ transient'.list = transient.list
        /\ \/ transient'.timer = "soon"
           \/ transient'.timer = "fired" /\ transient.timer = "fired"
    <3> DEFINE T == Send!TransientStates
    <3>1. \A t \in T : /\ [t EXCEPT !.timer = "soon"] \in T
                       /\ [t EXCEPT !.updated = TRUE, !.timer = "soon"] \in T
      BY DEF Send!TransientStates
    <3>2. \A t \in T : /\ [t EXCEPT !.timer = "soon"].list = t.list
                       /\ [t EXCEPT !.timer = "soon"].timer = "soon"
                       /\ [t EXCEPT !.timer = "soon"].updated = t.updated
      BY DEF Send!TransientStates
    <3>3. \A t \in T : LET u == [t EXCEPT !.updated = TRUE, !.timer = "soon"]
                       IN  u.list = t.list /\ u.timer = "soon" /\ u.updated
      BY DEF Send!TransientStates
    <3>4. transient.timer \in {"none", "soon", "expiry", "fired"}
      BY <1>3 DEF Send!TransientStates
    <3> HIDE DEF T
    <3>5. CASE ~transient.updated
      BY <1>3, <1>6, <3>1, <3>3, <3>5 DEF Send!RefreshSooner, T
    <3>6. CASE transient.updated /\ transient.timer = "expiry"
      BY <1>3, <1>6, <3>1, <3>2, <3>6 DEF Send!RefreshSooner, T
    <3>7. CASE transient.updated /\ transient.timer # "expiry"
      BY <1>3, <1>6, <3>4, <3>7 DEF Send!RefreshSooner
    <3> QED
      BY <3>5, <3>6, <3>7
  <2>2. transient' # None
    BY <2>1, SequenceAssumption DEF Send!SendAssumption
  <2>3. running = None
    BY <1>6 DEF SendInv, Send!TypeOK
  <2>4. Send!TypeOK'
    BY <1>1, <1>2, <1>4, <1>6, <2>1, <2>2 DEF SendInv, Send!TypeOK
  <2>5. StaysStopped'
    BY <1>2, <1>5 DEF StaysStopped, Send!StaysStopped
  <2>6. StateFits' /\ UpdateSees' /\ ServerFits' /\ FiredIsQueued'
    BY <1>2, <1>6, <2>1, <2>2, <2>3 DEF SendInv, SendFits, StateFits,
           UpdateSees, ServerFits, FiredIsQueued, RefreshWaits
  <2>7. NobodyMissed'
    BY <1>2, <1>6, <2>1 DEF SendInv, SendFits, NobodyMissed, Send!Refreshing,
                            FiredIsQueued, RefreshWaits
  <2> QED
    BY <2>4, <2>5, <2>6, <2>7 DEF SendInv, SendFits
<1>7. CASE state # "started" /\ missed' = TRUE /\ UNCHANGED transient
  <2>1. Send!TypeOK'
    BY <1>1, <1>2, <1>4, <1>7 DEF SendInv, Send!TypeOK
  <2>2. StaysStopped'
    BY <1>2, <1>5 DEF StaysStopped, Send!StaysStopped
  <2>3. StateFits' /\ ServerFits' /\ FiredIsQueued' /\ NobodyMissed'
    BY <1>2, <1>5, <1>7 DEF SendInv, SendFits, StateFits, ServerFits,
                            FiredIsQueued, RefreshWaits, NobodyMissed
  <2>4. UpdateSees'
    BY <1>1, <1>2, <1>7 DEF SendInv, SendFits, UpdateSees, Listed, Send!Listed,
                            Behind
  <2> QED
    BY <2>1, <2>2, <2>3, <2>4 DEF SendInv, SendFits
<1> QED
  BY <1>6, <1>7 DEF Send!ChangeEvent

\* Documents that go on, and a database that does.
LEMMA GrowthFits ==
  ASSUME SendInv, Synced' \in [Peers -> 0 .. seq'], seq' \in 0 .. MaxSeq, seq <= seq',
         \A p \in Peers : Synced[p] <= Synced'[p], UNCHANGED sendVars
  PROVE  SendInv'
<1> USE DEF sendVars
<1>1. Send!TypeOK'
  <2>1. since' \in 0 .. seq' /\ seen' \in 0 .. seq'
    BY DEF SendInv, Send!TypeOK
  <2> QED
    BY <2>1 DEF SendInv, Send!TypeOK
<1>2. StaysStopped'
  BY DEF SendInv, StaysStopped, Send!StaysStopped
<1>3. StateFits' /\ ServerFits' /\ FiredIsQueued'
  BY DEF SendInv, SendFits, StateFits, ServerFits, FiredIsQueued, RefreshWaits
<1>4. Listed' = Listed /\ (transient # None => Listed \subseteq Peers)
  BY ListedArePeers DEF SendInv, Listed, Send!Listed
<1>5. \A p \in Peers : Behind(p)' => Behind(p)
  BY DEF Behind, SendInv, Send!TypeOK
<1>6. UpdateSees'
  BY <1>4, <1>5 DEF SendInv, Send!TypeOK, SendFits, UpdateSees
<1>7. NobodyMissed'
  <2>1. SUFFICES ASSUME state = "started", ~missed, NEW p \in Listed
                 PROVE  Synced'[p] >= seen \/ Send!Refreshing
    BY <1>4 DEF NobodyMissed, Send!Refreshing
  <2>2. p \in Peers
    BY <1>4, <2>1 DEF SendInv, SendFits, StateFits
  <2> QED
    BY <2>1, <2>2 DEF SendInv, SendFits, NobodyMissed, Send!TypeOK
<1> QED
  BY <1>1, <1>2, <1>3, <1>6, <1>7 DEF SendInv, SendFits

-----------------------------------------------------------------------------
(* The two devices *)

LEMMA SendSteps ==
  ASSUME SendInv, Send!Caller \/ Send!Works \/ Send!ReadFails, Same
  PROVE  SendInv'
BY CallFits, BeginStartFits, BeginStopFits, FindFits, ReadFits, PublishFits,
       ReadFailsFits, TurnFits, TimerFits, ChangeEventFits DEF Send!Works,
       Send!Update

LEMMA NextFits ==
  ASSUME IInv, [Next]_vars
  PROVE  IInv'
<1>1. SendInv /\ Writer!TypeOK /\ WriterFits
  BY DEF IInv, TypeOK, SendInv
<1>2. SUFFICES SendInv' /\ Writer!TypeOK' /\ WriterFits'
  BY DEF IInv, TypeOK, SendInv
<1>3. CASE (Send!Caller \/ Send!Works \/ Send!ReadFails) /\ Same
  <2>1. SendInv'
    BY <1>1, <1>3, SendSteps
  <2>2. Writer!TypeOK' /\ WriterFits'
    BY <1>1, <1>3 DEF Same, writerVars, Writer!TypeOK, WriterFits, WaitingFits,
                      RequestsFit
  <2> QED
    BY <2>1, <2>2
<1>4. CASE WriterStep /\ UNCHANGED <<seq, sendVars>>
  <2>1. Writer!TypeOK' /\ WriterFits' /\ doc'.seq >= doc.seq
    BY <1>1, <1>4, WriterSteps
  <2>2. Synced' \in [Peers -> 0 .. seq'] /\ \A p \in Peers : Synced[p] <= Synced'[p]
    BY <1>1, <2>1 DEF Synced, Writer!TypeOK
  <2>3. SendInv'
    BY <1>1, <1>4, <2>2, GrowthFits DEF Writer!TypeOK
  <2> QED
    BY <2>1, <2>3
<1>5. CASE Send!Change /\ UNCHANGED <<sendVars, writerVars>>
  <2>1. seq' \in 0 .. MaxSeq /\ seq < seq'
    BY <1>1, <1>5, SequenceAssumption DEF Send!Change, Writer!TypeOK,
           Writer!WriterAssumption
  <2>2. Synced' \in [Peers -> 0 .. seq'] /\ \A p \in Peers : Synced[p] <= Synced'[p]
    BY <1>1, <1>5, <2>1 DEF Synced, Writer!TypeOK, writerVars
  <2>3. SendInv'
    BY <1>1, <1>5, <2>1, <2>2, GrowthFits DEF Writer!TypeOK
  <2>4. Writer!TypeOK' /\ WriterFits'
    BY <1>1, <1>5, <2>1 DEF writerVars, Writer!TypeOK, WriterFits, WaitingFits,
                            RequestsFit
  <2> QED
    BY <2>3, <2>4
<1>6. CASE UNCHANGED vars
  <2>1. SendInv'
    BY <1>1, <1>6, SyncedStays, GrowthFits DEF vars, Same, SendInv, Send!TypeOK
  <2>2. Writer!TypeOK' /\ WriterFits'
    BY <1>1, <1>6 DEF vars, writerVars, Writer!TypeOK, WriterFits, WaitingFits,
                      RequestsFit
  <2> QED
    BY <2>1, <2>2
<1>7. CASE Here(Told)
  BY <1>4, <1>7 DEF Here, Told, WriterStep
<1>8. CASE Next /\ ~Here(Told)
  BY <1>3, <1>4, <1>5, <1>8 DEF Next, There, Here, WriterStep, Same
<1> QED
  BY <1>6, <1>7, <1>8

LEMMA Invariance == Spec => []IInv
BY InitFits, NextFits, PTL DEF Spec

\* Whoever is behind a change that was reported will be looked at again as long as
\* changes are monitored, and nothing is monitored or announced once a stop has been
\* made; a document never claims what was not pulled
\* (thaliSendNotificationBasedOnReplication.js, localSeqManager.js).
THEOREM BooksAlwaysAgree == Spec => []BooksAgree
<1>1. IInv => NobodyForgotten
  <2>1. SUFFICES ASSUME IInv, state = "started", seen = seq, ~missed, NEW p \in Listed
                 PROVE  Synced[p] = seq \/ Send!Refreshing
    BY DEF NobodyForgotten, Send!NobodyForgotten, Listed
  <2>2. p \in Peers
    BY <2>1, ListedArePeers DEF IInv, TypeOK, SendFits, StateFits
  <2> QED
    BY <2>1, <2>2 DEF IInv, TypeOK, SendFits, NobodyMissed, Send!TypeOK
<1>2. IInv => BooksAgree
  BY <1>1 DEF IInv, BooksAgree
<1> QED
  BY <1>2, Invariance, PTL

-----------------------------------------------------------------------------
(* The notification server: beacons it serves, what it keeps of a stream,  *)
(* and the inductive invariant, which says where in the cache each stream  *)
(* that peers may have got is, and which are no longer there.              *)

Beacons == [to : PublicKeys, from : {Device}]
Streams == [ke : Nat, expiration : Int, beacons : Seq(Beacons)]
Entries == [stream : Streams, made : Int]

\* What is kept of a stream: each beacon's identity with whom it is for.
Dictionary(stream) ==
  [i \in DOMAIN stream.beacons |->
     [id |-> PskIdentity(stream, stream.beacons[i]),
      publicKey |-> stream.beacons[i].to]]
ItemOf(s) == [keySecret |-> Dictionary(s.stream),
              expiration |-> s.made + (Life - Early)]

ServerTypes ==
  /\ secrets \in Seq(Items) \cup {NoCache}
  /\ served \in Seq(Entries)
  /\ now \in Int /\ starts \in Nat /\ advertising \in BOOLEAN

\* The cache holds the secrets of the last streams, and those that it has dropped
\* are out of date or too many.
CacheFits ==
  secrets # NoCache =>
    LET dropped == Len(served) - Len(secrets)
    IN  /\ dropped >= 0
        /\ \A k \in DOMAIN secrets : secrets[k] = ItemOf(served[dropped + k])
        /\ \A i \in 1 .. dropped : i \notin Recent

\* Without a cache nobody has a stream, and nothing is advertised.
NothingServed ==
  secrets = NoCache => /\ served = <<>> /\ preambleAndBeacons = NoStream
                       /\ ~advertising

ServerInv == ServerTypes /\ CacheFits /\ NothingServed

LEMMA ServerInitSound == ServerInit => ServerInv
<1> SUFFICES ASSUME ServerInit PROVE ServerInv
  OBVIOUS
<1>1. secrets = NoCache /\ served = <<>> /\ now = 0 /\ starts = 0
      /\ ~advertising /\ preambleAndBeacons = NoStream /\ advertising \in BOOLEAN
  BY DEF ServerInit
<1> QED
  BY <1>1 DEF ServerInv, ServerTypes, CacheFits, NothingServed

\* Min and Max are what they say for sets of numbers that have one.
LEMMA Smallest ==
  ASSUME NEW T \in SUBSET Nat, T # {}
  PROVE  Min(T) \in T /\ \A y \in T : Min(T) <= y
BY Least DEF Min

LEMMA Greatest ==
  ASSUME NEW n \in Nat, NEW T \in SUBSET (0 .. n), T # {}
  PROVE  Max(T) \in T /\ \A y \in T : y <= Max(T)
<1> DEFINE U == {m \in Nat : n - m \in T}
<1>1. U # {}
  <2>1. PICK y \in T : TRUE
    OBVIOUS
  <2>2. n - y \in U
    BY <2>1
  <2> QED
    BY <2>2
<1>2. PICK m \in U : \A u \in U : m <= u
  BY <1>1, Least
<1>3. \A y \in T : y <= n - m
  <2> SUFFICES ASSUME NEW y \in T PROVE y <= n - m
    OBVIOUS
  <2>1. n - y \in U
    OBVIOUS
  <2> QED
    BY <1>2, <2>1
<1>4. n - m \in T /\ \A y \in T : n - m >= y
  BY <1>2, <1>3
<1> QED
  BY <1>4 DEF Max

\* Without and with room to be made.
Cleaned(queue, time, max)  == Clean(queue, FALSE, time, max)
MadeRoom(queue, time, max) == Clean(queue, TRUE, time, max)

\* left is what is left of the queue, of which the first d are gone.
Rest(left, queue, d) ==
  /\ left \in Seq(Items) /\ Len(left) = Len(queue) - d
  /\ \A k \in 1 .. Len(left) : left[k] = queue[d + k]

\* clean drops those at the front that have expired, and one that has not when
\* room is to be made.
LEMMA CleanDrops ==
  ASSUME NEW queue \in Seq(Items), NEW time \in Int, NEW max \in Nat \ {0}
  PROVE  /\ \E d \in 0 .. Len(queue) :
              /\ Rest(Cleaned(queue, time, max), queue, d)
              /\ \A k \in 1 .. d : queue[k].expiration < time
         /\ \E d \in 0 .. Len(queue) :
              /\ Rest(MadeRoom(queue, time, max), queue, d)
              /\ \A k \in 1 .. d : \/ queue[k].expiration < time
                                   \/ d = 1 /\ Len(queue) >= max
<1> DEFINE n == Expired(queue, time)
           fresh == {k \in 1 .. Len(queue) : ~(queue[k].expiration < time)}
<1>1. n \in 0 .. Len(queue) /\ \A k \in 1 .. n : queue[k].expiration < time
  <2>1. CASE fresh = {}
    BY <2>1 DEF Expired, SelectInSeq
  <2>2. CASE fresh # {}
    <3>1. Min(fresh) \in fresh /\ \A y \in fresh : Min(fresh) <= y
      <4>1. fresh \in SUBSET Nat
        OBVIOUS
      <4> HIDE DEF fresh
      <4> QED
        BY <2>2, <4>1, Smallest
    <3>2. n = Min(fresh) - 1
      BY <2>2, <3>1 DEF Expired, SelectInSeq
    <3> DEFINE m == Min(fresh)
    <3>3. /\ m \in 1 .. Len(queue)
          /\ \A k \in 1 .. Len(queue) : ~(queue[k].expiration < time) => m <= k
      BY <3>1
    <3> HIDE DEF m
    <3>4. n = m - 1
      BY <3>2 DEF m
    <3>5. \A k \in 1 .. Len(queue) : k < m => queue[k].expiration < time
      BY <3>3
    <3> HIDE DEF n
    <3> QED
      BY <3>3, <3>4, <3>5
  <2> QED
    BY <2>1, <2>2
<1> HIDE DEF n, fresh
<1>2. CASE n > 0
  <2> DEFINE left == SubSeq(queue, n + 1, Len(queue))
  <2>1. Cleaned(queue, time, max) = left /\ MadeRoom(queue, time, max) = left
    BY <1>2 DEF Clean, Cleaned, MadeRoom, n
  <2>2. Rest(left, queue, n)
    <3>1. n \in 0 .. Len(queue) /\ Len(queue) \in Nat
      BY <1>1
    <3>2. left \in Seq(Items) /\ Len(left) = Len(queue) - n
      BY <3>1
    <3>3. \A k \in 1 .. Len(queue) - n : left[k] = queue[n + k]
      BY <3>1
    <3> HIDE DEF left
    <3> QED
      BY <3>2, <3>3 DEF Rest
  <2> HIDE DEF left
  <2> QED
    BY <1>1, <2>1, <2>2
<1>3. ASSUME ~(n > 0)
      PROVE  /\ Rest(Cleaned(queue, time, max), queue, 0)
             /\ Len(queue) < max => Rest(MadeRoom(queue, time, max), queue, 0)
             /\ Len(queue) >= max => Rest(MadeRoom(queue, time, max), queue, 1)
  <2>1. Cleaned(queue, time, max) = queue
    BY <1>3 DEF Clean, Cleaned, n
  <2>2. Len(queue) < max => MadeRoom(queue, time, max) = queue
    BY <1>3 DEF Clean, MadeRoom, n
  <2>3. Len(queue) >= max => MadeRoom(queue, time, max) = Tail(queue)
    BY <1>3 DEF Clean, MadeRoom, n
  <2>4. Rest(queue, queue, 0)
    BY DEF Rest
  <2>5. ASSUME Len(queue) >= max PROVE Rest(Tail(queue), queue, 1)
    <3>1. queue # <<>>
      BY <2>5
    <3> QED
      BY <3>1 DEF Rest
  <2> QED
    BY <2>1, <2>2, <2>3, <2>4, <2>5
<1>4. CASE ~(n > 0)
  <2>1. Len(queue) \in Nat /\ 1 .. 0 = {} /\ 0 \in 0 .. Len(queue)
    OBVIOUS
  <2>2. CASE Len(queue) < max
    BY <1>3, <1>4, <2>1, <2>2
  <2>3. CASE Len(queue) >= max
    <3>1. 1 \in 0 .. Len(queue) /\ \A k \in 1 .. 1 : 1 = 1 /\ Len(queue) >= max
      BY <2>1, <2>3
    <3> QED
      BY <1>3, <1>4, <2>1, <2>3, <3>1
  <2> QED
    BY <2>1, <2>2, <2>3
<1> QED
  BY <1>1, <1>2, <1>4

\* A stream that start makes, with its dictionary.
LEMMA NewStream ==
  ASSUME NEW keys \in KeyLists, NEW serial \in Nat, NEW time \in Int
  PROVE  LET stream == GeneratePreambleAndBeacons(keys, Device, serial, time)
         IN  /\ stream \in Streams
             /\ GeneratePskSecrets(keys, stream) = Dictionary(stream)
<1> DEFINE stream == GeneratePreambleAndBeacons(keys, Device, serial, time)
<1>1. keys \in Seq(PublicKeys)
  <2>1. keys \in Seq(ToSet(keys)) /\ ToSet(keys) \subseteq PublicKeys
    BY ServerAssumption DEF PublicKeys
  <2> HIDE DEF PublicKeys
  <2> QED
    BY <2>1 DEF ToSet
<1>2. stream.beacons = [i \in DOMAIN keys |-> [to |-> keys[i], from |-> Device]]
      /\ stream = [ke |-> serial, expiration |-> time, beacons |-> stream.beacons]
  BY DEF GeneratePreambleAndBeacons
<1>3. stream.beacons \in Seq(Beacons)
  <2> DEFINE f == [i \in 1 .. Len(keys) |-> [to |-> keys[i], from |-> Device]]
  <2>1. \A i \in 1 .. Len(keys) : [to |-> keys[i], from |-> Device] \in Beacons
    BY <1>1 DEF Beacons
  <2>2. f \in [1 .. Len(keys) -> Beacons] /\ Len(keys) \in Nat
    BY <1>1, <2>1
  <2>3. f = stream.beacons
    BY <1>1, <1>2
  <2> QED
    BY <2>2, <2>3, SeqDef
<1>4. stream \in Streams
  BY <1>2, <1>3 DEF Streams
<1>5. GeneratePskSecrets(keys, stream) = Dictionary(stream)
  BY <1>1, <1>2 DEF GeneratePskSecrets, Dictionary
<1> QED
  BY <1>4, <1>5

\* A dictionary is one of the cache's.
LEMMA ItemsAre ==
  ASSUME NEW s \in Entries
  PROVE  ItemOf(s) \in Items
<1>1. s.stream.beacons \in Seq(Beacons)
      /\ s.stream.ke \in Nat /\ s.stream.expiration \in Int /\ s.made \in Int
  BY DEF Entries, Streams
<1>2. \A i \in DOMAIN s.stream.beacons :
        [id |-> PskIdentity(s.stream, s.stream.beacons[i]),
         publicKey |-> s.stream.beacons[i].to] \in Secrets
  <2> SUFFICES ASSUME NEW b \in Beacons, NEW ke \in Nat, NEW e \in Int
               PROVE  [id |-> <<ke, e, b>>, publicKey |-> b.to] \in Secrets
    BY <1>1 DEF PskIdentity
  <2> QED
    BY DEF Secrets, Identities, Beacons
<1>3. Dictionary(s.stream) \in Seq(Secrets)
  <2> DEFINE n == Len(s.stream.beacons)
  <2>1. n \in Nat /\ DOMAIN s.stream.beacons = 1 .. n
    BY <1>1
  <2>2. Dictionary(s.stream) \in [1 .. n -> Secrets]
    BY <1>2, <2>1 DEF Dictionary
  <2> QED
    BY <2>1, <2>2, SeqDef
<1>4. Life - Early \in Int
  BY ServerAssumption
<1> QED
  BY <1>1, <1>3, <1>4 DEF ItemOf, Items

LEMMA StopStep ==
  ASSUME ServerInv, Stop PROVE ServerInv'
<1>1. now' \in Int /\ starts' \in Nat /\ advertising' = FALSE /\ served' = <<>>
      /\ secrets' = NoCache /\ preambleAndBeacons' = NoStream
  BY DEF ServerInv, ServerTypes, Stop
<1>2. secrets' \in Seq(Items) \cup {NoCache} /\ advertising' \in BOOLEAN
  BY <1>1
<1>3. served' \in Seq(Entries)
  BY <1>1, EmptySeq
<1> QED
  BY <1>1, <1>2, <1>3 DEF ServerInv, ServerTypes, CacheFits, NothingServed

LEMMA TickStep ==
  ASSUME ServerInv, Tick PROVE ServerInv'
<1>1. /\ now' = now + 1 /\ now \in Int
      /\ UNCHANGED <<preambleAndBeacons, secrets, starts, served, advertising>>
  BY DEF ServerInv, ServerTypes, Tick
<1>2. ServerTypes' /\ NothingServed'
  BY <1>1 DEF ServerInv, ServerTypes, NothingServed
<1>3. \A i \in Recent' : i \in Recent
  <2> SUFFICES ASSUME NEW i \in Recent' PROVE i \in Recent
    OBVIOUS
  <2>1. i \in DOMAIN served /\ Len(served) - i < MaxCache
        /\ now + 1 <= served[i].made + Life - Early
    BY <1>1 DEF Recent
  <2>2. served[i] \in Entries
    BY <2>1 DEF ServerInv, ServerTypes
  <2>3. served[i].made \in Int /\ Life \in Int /\ Early \in Int
    BY <2>2, ServerAssumption DEF Entries
  <2> QED
    BY <1>1, <2>1, <2>3 DEF Recent
<1>4. CacheFits'
  BY <1>1, <1>3 DEF ServerInv, CacheFits
<1> QED
  BY <1>2, <1>4 DEF ServerInv

\* What a request drops has expired, and so is not recent.
LEMMA AskedStep ==
  ASSUME ServerInv, Asked PROVE ServerInv'
<1> DEFINE old == Len(served) - Len(secrets)
           size == Len(secrets)
<1>1. /\ secrets' = Cleaned(secrets, now, MaxCache)
      /\ UNCHANGED <<preambleAndBeacons, now, starts, served, advertising>>
      /\ secrets # NoCache
  BY DEF Asked, Cleaned
<1>2. /\ secrets \in Seq(Items) /\ served \in Seq(Entries)
      /\ now \in Int /\ size \in Nat /\ DOMAIN secrets = 1 .. size
      /\ Len(served) \in Nat /\ DOMAIN served = 1 .. Len(served)
  BY <1>1 DEF ServerInv, ServerTypes
<1>3. PICK d \in 0 .. size :
        /\ secrets' \in Seq(Items) /\ Len(secrets') = size - d
        /\ \A k \in 1 .. Len(secrets') : secrets'[k] = secrets[d + k]
        /\ \A k \in 1 .. d : secrets[k].expiration < now
  <2>1. MaxCache \in Nat \ {0}
    BY ServerAssumption
  <2>2. \E d \in 0 .. Len(secrets) :
          /\ Rest(Cleaned(secrets, now, MaxCache), secrets, d)
          /\ \A k \in 1 .. d : secrets[k].expiration < now
    BY <1>2, <2>1, CleanDrops, Zenon
  <2> QED
    BY <1>1, <2>2 DEF Rest
<1>4. secrets' # NoCache
  BY <1>3, ServerAssumption
<1>5. ServerTypes' /\ NothingServed'
  BY <1>1, <1>3, <1>4 DEF ServerInv, ServerTypes, NothingServed
<1>6. /\ old \in Nat
      /\ \A k \in 1 .. size : secrets[k] = ItemOf(served[old + k])
      /\ \A i \in 1 .. old : i \notin Recent
  <2>1. CacheFits
    BY DEF ServerInv
  <2>2. old >= 0 /\ old \in Int
    BY <1>1, <1>2, <2>1 DEF CacheFits
  <2> HIDE DEF old
  <2>3. old \in Nat
    BY <2>2
  <2> USE DEF old
  <2> QED
    BY <1>1, <1>2, <2>1, <2>3 DEF CacheFits
<1>7. Len(served') - Len(secrets') = old + d
  <2>1. Len(served') = Len(served) /\ Len(secrets') = size - d /\ d \in Int
    BY <1>1, <1>3
  <2> QED
    BY <1>2, <2>1
<1>8. size + old = Len(served)
  BY <1>2
<1> HIDE DEF old, size
<1>9. \A i \in 1 .. old + d : i \notin Recent
  <2>1. ASSUME NEW k \in 1 .. d PROVE old + k \notin Recent
    <3>1. k \in 1 .. size /\ secrets[k].expiration < now
      BY <1>2, <1>3
    <3>2. secrets[k] = ItemOf(served[old + k])
      BY <1>6, <3>1
    <3>3. old + k \in 1 .. Len(served)
      BY <1>2, <1>6, <1>8, <3>1
    <3>4. served[old + k] \in Entries
      BY <1>2, <3>3
    <3>5. served[old + k].made + (Life - Early) < now
      BY <3>1, <3>2 DEF ItemOf
    <3>6. ~(now <= served[old + k].made + Life - Early)
      BY <1>2, <3>4, <3>5, ServerAssumption DEF Entries
    <3> QED
      BY <3>6 DEF Recent
  <2>2. ASSUME NEW i \in 1 .. old + d, ~(i <= old) PROVE i - old \in 1 .. d
    BY <1>3, <1>6, <2>2
  <2>3. ASSUME NEW i \in 1 .. old + d PROVE i \notin Recent
    <3>1. CASE i <= old
      BY <1>3, <1>6, <3>1
    <3>2. CASE ~(i <= old)
      <4>1. old + (i - old) = i
        BY <1>3, <1>6
      <4> QED
        BY <2>1, <2>2, <3>2, <4>1
    <3> QED
      BY <3>1, <3>2
  <2> QED
    BY <2>3
<1>10. \A k \in DOMAIN secrets' : secrets'[k] = ItemOf(served'[old + d + k])
  <2> SUFFICES ASSUME NEW k \in DOMAIN secrets'
               PROVE  secrets'[k] = ItemOf(served[old + d + k])
    BY <1>1
  <2>1. k \in 1 .. Len(secrets') /\ d + k \in 1 .. size
    BY <1>2, <1>3
  <2>2. old + (d + k) = old + d + k
    BY <1>3, <1>6, <2>1
  <2> QED
    BY <1>3, <1>6, <2>1, <2>2
<1>11. Recent' = Recent
  BY <1>1 DEF Recent
<1>12. CacheFits'
  BY <1>3, <1>6, <1>7, <1>9, <1>10, <1>11 DEF CacheFits
<1> QED
  BY <1>5, <1>12 DEF ServerInv

\* A list that is not empty makes the newest stream, for which at most one secret
\* goes that has not expired: with MaxCache newer ones, its stream is not recent.
LEMMA StartStep ==
  ASSUME ServerInv, NEW keys \in KeyLists, Start(keys) PROVE ServerInv'
<1>1. starts' = starts + 1 /\ starts' \in Nat /\ now' = now /\ now \in Int
      /\ served \in Seq(Entries)
  BY DEF ServerInv, ServerTypes, Start
<1>2. /\ preambleAndBeacons' # NoStream => keys # <<>>
      /\ advertising' \in BOOLEAN
      /\ advertising' => \/ advertising \/ keys # <<>>
                         \/ preambleAndBeacons # NoStream
  BY DEF Start
<1>3. CASE keys = <<>>
  <2>1. secrets' = secrets /\ served' = served /\ preambleAndBeacons' = NoStream
    BY <1>3 DEF Start
  <2>2. Recent' = Recent
    BY <1>1, <2>1 DEF Recent
  <2>3. ServerTypes' /\ CacheFits'
    BY <1>1, <1>2, <2>1, <2>2 DEF ServerInv, ServerTypes, CacheFits
  <2>4. NothingServed'
    BY <1>2, <1>3, <2>1 DEF ServerInv, NothingServed
  <2> QED
    BY <2>3, <2>4 DEF ServerInv
<1>4. CASE keys # <<>>
  <2> DEFINE cache == IF secrets = NoCache THEN <<>> ELSE secrets
             size == Len(cache)
             old == Len(served) - size
             kept == MadeRoom(cache, now, MaxCache)
  <2>1. PICK fuzz \in Fuzz :
          LET stream == GeneratePreambleAndBeacons(keys, Device, starts',
                                                   now + Life + fuzz)
          IN  /\ secrets' = Push(cache, GeneratePskSecrets(keys, stream), now,
                                 Life - Early, MaxCache)
              /\ served' = Append(served, [stream |-> stream, made |-> now])
    BY <1>4 DEF Start
  <2> DEFINE stream == GeneratePreambleAndBeacons(keys, Device, starts',
                                                  now + Life + fuzz)
             entry == [stream |-> stream, made |-> now]
  <2>2. stream \in Streams /\ GeneratePskSecrets(keys, stream) = Dictionary(stream)
    <3>1. now + Life + fuzz \in Int
      BY <1>1, ServerAssumption
    <3> QED
      BY <1>1, <3>1, NewStream
  <2>3. secrets' = Append(kept, ItemOf(entry))
    BY <2>1, <2>2, Zenon DEF Push, MadeRoom, ItemOf
  <2>4. served' = Append(served, entry)
    BY <2>1
  <2>5. entry \in Entries
    BY <1>1, <2>2 DEF Entries
  <2> HIDE DEF stream, entry
  <2>6. ItemOf(entry) \in Items
    BY <2>5, ItemsAre
  <2>7. /\ cache \in Seq(Items) /\ size \in Nat /\ Len(served) \in Nat
        /\ DOMAIN cache = 1 .. size
    <3>1. cache \in Seq(Items)
      BY EmptySeq DEF ServerInv, ServerTypes
    <3> HIDE DEF cache
    <3> QED
      BY <1>1, <3>1
  <2>8. /\ old \in Nat
        /\ \A k \in 1 .. size : cache[k] = ItemOf(served[old + k])
        /\ \A i \in 1 .. old : i \notin Recent
    <3>1. CASE secrets = NoCache
      <4>1. cache = <<>> /\ served = <<>>
        BY <3>1 DEF ServerInv, NothingServed
      <4>2. size = 0 /\ old = 0
        BY <4>1
      <4> HIDE DEF size, old
      <4> QED
        BY <4>2
    <3>2. CASE secrets # NoCache
      <4>1. cache = secrets /\ CacheFits
        BY <3>2 DEF ServerInv
      <4> HIDE DEF cache
      <4>2. old >= 0
        BY <3>2, <4>1 DEF CacheFits
      <4>3. /\ \A k \in 1 .. size : cache[k] = ItemOf(served[old + k])
            /\ \A i \in 1 .. old : i \notin Recent
        BY <2>7, <3>2, <4>1 DEF CacheFits
      <4>4. old \in Nat
        BY <2>7, <4>2
      <4> QED
        BY <4>3, <4>4
    <3> QED
      BY <3>1, <3>2
  <2> HIDE DEF cache
  <2>9. PICK d \in 0 .. size :
          /\ kept \in Seq(Items) /\ Len(kept) = size - d
          /\ \A k \in 1 .. Len(kept) : kept[k] = cache[d + k]
          /\ \A k \in 1 .. d : \/ cache[k].expiration < now
                               \/ d = 1 /\ size >= MaxCache
    <3>1. MaxCache \in Nat \ {0}
      BY ServerAssumption
    <3>2. \E d \in 0 .. Len(cache) :
            /\ Rest(kept, cache, d)
            /\ \A k \in 1 .. d : \/ cache[k].expiration < now
                                 \/ d = 1 /\ Len(cache) >= MaxCache
      BY <1>1, <2>7, <3>1, CleanDrops, Zenon
    <3> QED
      BY <3>2 DEF Rest
  <2>10. size + old = Len(served)
    BY <2>7
  <2> HIDE DEF kept, size, old
  <2>11. /\ secrets' \in Seq(Items) /\ Len(secrets') = (size - d) + 1
         /\ \A k \in 1 .. size - d : secrets'[k] = cache[d + k]
         /\ secrets'[(size - d) + 1] = ItemOf(entry)
    BY <2>3, <2>6, <2>9
  <2>12. /\ served' \in Seq(Entries) /\ Len(served') = Len(served) + 1
         /\ \A i \in 1 .. Len(served) : served'[i] = served[i]
         /\ served'[Len(served) + 1] = entry
         /\ DOMAIN served = 1 .. Len(served)
    BY <1>1, <2>4, <2>5
  <2>13. secrets' # NoCache
    BY <2>11, ServerAssumption
  <2>14. ServerTypes' /\ NothingServed'
    BY <1>1, <1>2, <2>11, <2>12, <2>13 DEF ServerTypes, NothingServed
  <2>15. Len(served') - Len(secrets') = old + d /\ old + d \in Nat
    BY <2>7, <2>8, <2>9, <2>10, <2>11, <2>12
  <2>16. \A k \in DOMAIN secrets' : secrets'[k] = ItemOf(served'[old + d + k])
    <3> SUFFICES ASSUME NEW k \in 1 .. (size - d) + 1
                 PROVE  secrets'[k] = ItemOf(served'[old + d + k])
      BY <2>11
    <3>1. CASE k <= size - d
      <4>1. k \in 1 .. size - d /\ d + k \in 1 .. size
        BY <2>7, <2>9, <3>1
      <4>2. old + d + k = old + (d + k) /\ old + (d + k) \in 1 .. Len(served)
        BY <2>7, <2>8, <2>9, <2>10, <4>1
      <4> QED
        BY <2>8, <2>11, <2>12, <4>1, <4>2
    <3>2. CASE ~(k <= size - d)
      <4>1. k = (size - d) + 1 /\ old + d + k = Len(served) + 1
        BY <2>7, <2>8, <2>9, <2>10, <3>2
      <4> QED
        BY <2>11, <2>12, <4>1
    <3> QED
      BY <3>1, <3>2
  <2>17. \A i \in 1 .. old + d : i \notin Recent'
    <3> SUFFICES ASSUME NEW i \in 1 .. old + d PROVE i \notin Recent'
      OBVIOUS
    <3>1. i \in 1 .. Len(served) /\ served'[i] = served[i] /\ served[i] \in Entries
      <4>1. i \in 1 .. Len(served)
        BY <2>7, <2>8, <2>9, <2>10
      <4> QED
        BY <1>1, <2>12, <4>1
    <3>2. CASE i <= old
      <4>1. i \notin Recent
        BY <2>8, <2>9, <3>2
      <4>2. \/ ~(Len(served) - i < MaxCache)
            \/ ~(now <= served[i].made + Life - Early)
        BY <2>12, <3>1, <4>1 DEF Recent
      <4>3. \/ ~(Len(served') - i < MaxCache)
            \/ ~(now <= served[i].made + Life - Early)
        BY <2>7, <2>12, <4>2, ServerAssumption
      <4> QED
        BY <1>1, <3>1, <4>3 DEF Recent
    <3>3. CASE ~(i <= old)
      <4> DEFINE k == i - old
      <4>1. k \in 1 .. d /\ k \in 1 .. size /\ old + k = i
        BY <2>7, <2>8, <2>9, <3>3
      <4> HIDE DEF k
      <4>2. CASE cache[k].expiration < now
        <5>1. served[i].made + (Life - Early) < now
          <6>1. cache[k] = ItemOf(served[i])
            BY <2>8, <4>1
          <6>2. cache[k].expiration = served[i].made + (Life - Early)
            BY <6>1 DEF ItemOf
          <6> QED
            BY <4>2, <6>2
        <5>2. ~(now <= served[i].made + Life - Early)
          BY <1>1, <3>1, <5>1, ServerAssumption DEF Entries
        <5> QED
          BY <1>1, <3>1, <5>2 DEF Recent
      <4>3. CASE d = 1 /\ size >= MaxCache
        <5>1. Len(served') - i = size
          BY <2>7, <2>8, <2>10, <2>12, <4>1, <4>3
        <5>2. ~(Len(served') - i < MaxCache)
          BY <2>7, <4>3, <5>1, ServerAssumption
        <5> QED
          BY <5>2 DEF Recent
      <4> QED
        BY <2>9, <4>1, <4>2, <4>3
    <3> QED
      BY <3>2, <3>3
  <2>18. CacheFits'
    BY <2>15, <2>16, <2>17 DEF CacheFits
  <2> QED
    BY <2>14, <2>18 DEF ServerInv
<1> QED
  BY <1>3, <1>4

LEMMA ServerStepSound == ServerInv /\ [ServerNext]_serverVars => ServerInv'
<1> SUFFICES ASSUME ServerInv, [ServerNext]_serverVars PROVE ServerInv'
  OBVIOUS
<1>1. CASE UNCHANGED serverVars
  BY <1>1 DEF serverVars, ServerInv, ServerTypes, CacheFits, NothingServed,
              Recent
<1> QED
  BY <1>1, StartStep, StopStep, AskedStep, TickStep DEF ServerNext

-----------------------------------------------------------------------------
(* Identities and requests. *)

\* getPublic when all secrets of an identity belong to p.
LEMMA GetPublicFinds ==
  ASSUME NEW queue \in Seq(Items), NEW id, NEW p \in PublicKeys,
         \A k \in 1 .. Len(queue) : \A e \in ToSet(queue[k].keySecret) :
           e.id = id => e.publicKey = p
  PROVE  /\ GetPublic(queue, id, Nobody) \in {p, Nobody}
         /\ (\E k \in 1 .. Len(queue) :
              \E e \in ToSet(queue[k].keySecret) : e.id = id)
              => GetPublic(queue, id, Nobody) = p
<1> DEFINE holding == {k \in 1 .. Len(queue) :
                         \E e \in ToSet(queue[k].keySecret) : e.id = id}
<1>1. CASE holding = {}
  BY <1>1 DEF GetPublic, SelectLastInSeq
<1>2. CASE holding # {}
  <2> DEFINE newest == Max(holding)
             found == CHOOSE e \in ToSet(queue[newest].keySecret) : e.id = id
  <2>1. newest \in holding
    <3>1. holding \in SUBSET (0 .. Len(queue)) /\ Len(queue) \in Nat
      OBVIOUS
    <3> HIDE DEF holding
    <3> QED
      BY <1>2, <3>1, Greatest
  <2>2. GetPublic(queue, id, Nobody) = found.publicKey
    BY <1>2, <2>1 DEF GetPublic, SelectLastInSeq
  <2>3. newest \in 1 .. Len(queue)
        /\ \E e \in ToSet(queue[newest].keySecret) : e.id = id
    BY <2>1
  <2> HIDE DEF newest
  <2>4. found \in ToSet(queue[newest].keySecret) /\ found.id = id
    BY <2>3
  <2> QED
    BY <2>2, <2>3, <2>4
<1> QED
  BY <1>1, <1>2

\* Whoever finds itself in a stream is found by the identity, at least until the
\* stream's secrets expire.
LEMMA IdentityIsFound ==
  ASSUME ServerInv, NEW i \in DOMAIN served, NEW p \in PublicKeys,
         NEW id \in IdentitiesOf(p, served[i].stream)
  PROVE  /\ id # BeaconIdentity
         /\ PskIdToPublicKey(id) \in {p, Nobody}
         /\ i \in Recent => PskIdToPublicKey(id) = p
<1> DEFINE stream == served[i].stream
           mine == {k \in 1 .. Len(stream.beacons) :
                      /\ stream.beacons[k].to = p
                      /\ stream.beacons[k].from \in AddressBook(p)}
           size == Len(secrets)
           old == Len(served) - size
<1>1. /\ served \in Seq(Entries) /\ now \in Int /\ Len(served) \in Nat
      /\ i \in 1 .. Len(served) /\ served[i] \in Entries
  BY DEF ServerInv, ServerTypes
<1>2. stream \in Streams /\ stream.beacons \in Seq(Beacons)
  BY <1>1 DEF Entries, Streams
<1>3. secrets # NoCache /\ secrets \in Seq(Items)
  BY <1>1 DEF ServerInv, ServerTypes, NothingServed
<1>4. PICK m \in mine : id = PskIdentity(stream, stream.beacons[m])
  <2>1. mine \in SUBSET Nat
    OBVIOUS
  <2>2. FirstForMe(stream, p, AddressBook(p)) = IF mine # {} THEN Min(mine) ELSE 0
    BY DEF FirstForMe, SelectInSeq
  <2> HIDE DEF mine
  <2>3. mine # {} => Min(mine) \in mine
    BY <2>1, Smallest
  <2> QED
    BY <2>2, <2>3 DEF IdentitiesOf, ParseBeacons
<1>5. m \in 1 .. Len(stream.beacons) /\ stream.beacons[m].to = p
  BY <1>4
<1>6. id = <<stream.ke, stream.expiration, stream.beacons[m]>> /\ id[3].to = p
  BY <1>4, <1>5 DEF PskIdentity
<1>7. id # BeaconIdentity
  BY <1>6 DEF BeaconIdentity
<1>8. /\ old \in Nat /\ size \in Nat /\ old + size = Len(served)
      /\ \A k \in 1 .. size : secrets[k] = ItemOf(served[old + k])
      /\ \A j \in 1 .. old : j \notin Recent
  <2>1. size \in Nat /\ DOMAIN secrets = 1 .. size
    BY <1>3
  <2>2. CacheFits
    BY DEF ServerInv
  <2>3. old >= 0
    BY <1>3, <2>2 DEF CacheFits
  <2>4. old \in Nat /\ old + size = Len(served)
    BY <1>1, <2>1, <2>3
  <2> QED
    BY <1>3, <2>1, <2>2, <2>4 DEF CacheFits
<1> HIDE DEF old, size
<1> DEFINE left == Cleaned(secrets, now, MaxCache)
<1>9. PICK d \in 0 .. size :
        /\ left \in Seq(Items) /\ Len(left) = size - d
        /\ \A k \in 1 .. Len(left) : left[k] = secrets[d + k]
        /\ \A k \in 1 .. d : secrets[k].expiration < now
  <2>1. MaxCache \in Nat \ {0}
    BY ServerAssumption
  <2>2. \E d \in 0 .. Len(secrets) :
          /\ Rest(Cleaned(secrets, now, MaxCache), secrets, d)
          /\ \A k \in 1 .. d : secrets[k].expiration < now
    BY <1>1, <1>3, <2>1, CleanDrops, Zenon
  <2> QED
    BY <2>2 DEF Rest, size
<1>10. PskIdToPublicKey(id) = GetPublic(left, id, Nobody)
  BY <1>3, Zenon DEF PskIdToPublicKey, Cleaned
<1> HIDE DEF left
<1>11. \A k \in 1 .. Len(left) : left[k] = ItemOf(served[old + (d + k)])
  <2> SUFFICES ASSUME NEW k \in 1 .. Len(left)
               PROVE  left[k] = ItemOf(served[old + (d + k)])
    OBVIOUS
  <2>1. d + k \in 1 .. size
    BY <1>8, <1>9
  <2> QED
    BY <1>8, <1>9, <2>1
<1>12. \A s \in Entries : \A e \in ToSet(ItemOf(s).keySecret) :
         \E b \in Beacons : e.id = PskIdentity(s.stream, b) /\ e.publicKey = b.to
  <2> SUFFICES ASSUME NEW s \in Entries, NEW e \in ToSet(Dictionary(s.stream))
               PROVE  \E b \in Beacons : /\ e.id = PskIdentity(s.stream, b)
                                         /\ e.publicKey = b.to
    BY DEF ItemOf
  <2>1. s.stream.beacons \in Seq(Beacons)
    BY DEF Entries, Streams
  <2>2. PICK k \in DOMAIN s.stream.beacons :
          e = [id |-> PskIdentity(s.stream, s.stream.beacons[k]),
               publicKey |-> s.stream.beacons[k].to]
    BY DEF ToSet, Dictionary
  <2>3. s.stream.beacons[k] \in Beacons
    BY <2>1
  <2> QED
    BY <2>2, <2>3
<1>13. \A k \in 1 .. Len(left) : \A e \in ToSet(left[k].keySecret) :
         e.id = id => e.publicKey = p
  <2> SUFFICES ASSUME NEW k \in 1 .. Len(left),
                      NEW e \in ToSet(left[k].keySecret), e.id = id
               PROVE  e.publicKey = p
    OBVIOUS
  <2>1. old + (d + k) \in 1 .. Len(served)
    BY <1>1, <1>8, <1>9
  <2>2. served[old + (d + k)] \in Entries
    BY <1>1, <2>1
  <2>3. PICK b \in Beacons : /\ e.id = PskIdentity(served[old + (d + k)].stream, b)
                            /\ e.publicKey = b.to
    BY <1>11, <1>12, <2>2
  <2>4. id[3] = b
    BY <2>3 DEF PskIdentity
  <2> QED
    BY <1>6, <2>3, <2>4
<1>14. ASSUME i \in Recent
       PROVE  \E k \in 1 .. Len(left) : \E e \in ToSet(left[k].keySecret) : e.id = id
  <2>1. ~(i <= old)
    BY <1>1, <1>8, <1>14
  <2>2. i - old \in 1 .. size /\ old + (i - old) = i
    BY <1>1, <1>8, <2>1
  <2>3. ~(i - old <= d)
    <3> SUFFICES ASSUME i - old <= d PROVE FALSE
      OBVIOUS
    <3>1. i - old \in 1 .. d
      BY <1>9, <2>2
    <3>2. secrets[i - old] = ItemOf(served[i]) /\ secrets[i - old].expiration < now
      BY <1>8, <1>9, <2>2, <3>1
    <3>3. served[i].made + (Life - Early) < now
      BY <3>2 DEF ItemOf
    <3>4. served[i].made \in Int /\ now <= served[i].made + Life - Early
      BY <1>1, <1>14 DEF Recent, Entries
    <3> QED
      BY <1>1, <3>3, <3>4, ServerAssumption
  <2> DEFINE k == (i - old) - d
  <2>4. k \in 1 .. Len(left) /\ old + (d + k) = i
    <3>1. i \in Int /\ old \in Int /\ d \in Int /\ size \in Int
      BY <1>1, <1>8, <1>9
    <3>2. i - old > d /\ i - old <= size /\ Len(left) = size - d
      BY <1>9, <2>2, <2>3, <3>1
    <3> QED
      BY <3>1, <3>2
  <2> HIDE DEF k
  <2>5. left[k].keySecret = Dictionary(stream)
    <3>1. left[k] = ItemOf(served[i])
      BY <1>11, <2>4
    <3> QED
      BY <3>1 DEF ItemOf
  <2>6. DOMAIN Dictionary(stream) = 1 .. Len(stream.beacons)
        /\ Dictionary(stream)[m].id = PskIdentity(stream, stream.beacons[m])
    BY <1>2, <1>5 DEF Dictionary
  <2>7. Dictionary(stream)[m] \in ToSet(Dictionary(stream))
    BY <1>5, <2>6 DEF ToSet
  <2> QED
    BY <1>4, <2>4, <2>5, <2>6, <2>7
<1>15. /\ GetPublic(left, id, Nobody) \in {p, Nobody}
       /\ i \in Recent => GetPublic(left, id, Nobody) = p
  BY <1>9, <1>13, <1>14, GetPublicFinds
<1> QED
  BY <1>7, <1>10, <1>15

\* Whoever has the identity of a stream may do what a replication does, and write
\* its own point only.
LEMMA RulesOfReplication ==
  ASSUME NEW id, NEW p \in PublicKeys, id # BeaconIdentity
  PROVE  /\ PskIdToPublicKey(id) = p => ReplicationRequests(p) \subseteq GetThrough(id)
         /\ PskIdToPublicKey(id) \in {p, Nobody} =>
              \A r \in GetThrough(id) : r.path = "point" => r.owner = p
<1>1. p # Nobody
  BY ServerAssumption
<1>2. ASSUME PskIdToPublicKey(id) = p
      PROVE  ReplicationRequests(p) \subseteq GetThrough(id)
  <2>1. PskRole(id) = "replication"
    BY <1>1, <1>2 DEF PskRole
  <2>2. ReplicationRequests(p) \subseteq Requests
    BY DEF Requests
  <2>3. \A r \in ReplicationRequests(p) :
          /\ <<r.path, r.verb>> \in Acl("replication")
          /\ r.path = "point" => r.owner = p
    BY DEF ReplicationRequests, On, Acl
  <2> HIDE DEF Requests, ReplicationRequests
  <2> QED
    BY <1>2, <2>1, <2>2, <2>3 DEF GetThrough, ResolveThaliId
<1>3. ASSUME PskIdToPublicKey(id) \in {p, Nobody}
      PROVE  \A r \in GetThrough(id) : r.path = "point" => r.owner = p
  <2>1. CASE PskIdToPublicKey(id) = p
    BY <2>1 DEF GetThrough, ResolveThaliId
  <2>2. CASE PskIdToPublicKey(id) = Nobody
    <3>1. PskRole(id) = "public"
      BY <2>2 DEF PskRole
    <3>2. Acl("public") = {}
      BY DEF Acl
    <3> QED
      BY <3>1, <3>2 DEF GetThrough
  <2> QED
    BY <1>3, <2>1, <2>2
<1> QED
  BY <1>2, <1>3

\* Whoever fetches beacons fetches beacons.
LEMMA RulesOfBeacons ==
  /\ secrets # NoCache => BeaconRequests \subseteq GetThrough(BeaconIdentity)
  /\ GetThrough(BeaconIdentity) \subseteq BeaconRequests
<1>1. PskRole(BeaconIdentity) = IF secrets # NoCache THEN "beacon" ELSE "public"
  BY DEF PskRole
<1>2. Acl("beacon") = {<<"beacons", "GET">>} /\ Acl("public") = {}
  BY DEF Acl
<1>3. \A r \in BeaconRequests : /\ r \in Requests /\ r.path = "beacons"
                               /\ r.verb = "GET"
  BY DEF BeaconRequests, On, Requests
<1>4. \A p \in PublicKeys : \A r \in ReplicationRequests(p) : r.path # "beacons"
  BY DEF ReplicationRequests, On
<1>5. \A r \in Requests : r.path = "beacons" => r \in BeaconRequests
  BY <1>4 DEF Requests
<1>6. secrets # NoCache => BeaconRequests \subseteq GetThrough(BeaconIdentity)
  BY <1>1, <1>2, <1>3 DEF GetThrough
<1>7. \A r \in GetThrough(BeaconIdentity) : r \in Requests /\ r.path = "beacons"
  BY <1>1, <1>2 DEF GetThrough
<1> QED
  BY <1>5, <1>6, <1>7

-----------------------------------------------------------------------------

LEMMA ServerInvariance == ServerSpec => []ServerInv
BY ServerInitSound, ServerStepSound, PTL DEF ServerSpec

\* Every peer that finds a beacon for itself in one of the last streams is
\* accepted with its identity until the secrets expire, and every request of its
\* replication gets through; beacons can be asked for as long as they are
\* advertised (thaliPskMapCache.js, thaliManager.js).
THEOREM RecentIsAlwaysAccepted == ServerSpec => []RecentIsAccepted
<1>1. ASSUME ServerInv PROVE RecentIsAccepted
  <2>1. ASSUME NEW i \in Recent, NEW p \in PublicKeys,
               NEW id \in IdentitiesOf(p, served[i].stream)
        PROVE  ReplicationRequests(p) \subseteq GetThrough(id)
    <3>1. i \in DOMAIN served
      BY DEF Recent
    <3> QED
      BY <1>1, <3>1, IdentityIsFound, RulesOfReplication
  <2>2. advertising => secrets # NoCache
    BY <1>1 DEF ServerInv, NothingServed
  <2> QED
    BY <2>1, <2>2, RulesOfBeacons DEF RecentIsAccepted
<1> QED
  BY <1>1, ServerInvariance, PTL

\* An identity leads to the public key of the very peer that finds it in a stream
\* or to none, and lets it write no sequence point but its own; whoever may fetch
\* beacons may do nothing else (thaliNotificationBeacons.js, thaliManager.js).
THEOREM IdentityIsAlwaysTheAddressees == ServerSpec => []IdentityIsTheAddressees
<1>1. ASSUME ServerInv PROVE IdentityIsTheAddressees
  <2>1. ASSUME NEW i \in DOMAIN served, NEW p \in PublicKeys,
               NEW id \in IdentitiesOf(p, served[i].stream)
        PROVE  /\ PskIdToPublicKey(id) \in {p, Nobody}
               /\ \A r \in GetThrough(id) : r.path = "point" => r.owner = p
    BY <1>1, IdentityIsFound, RulesOfReplication
  <2> QED
    BY <2>1, RulesOfBeacons DEF IdentityIsTheAddressees
<1> QED
  BY <1>1, ServerInvariance, PTL
=============================================================================
