------------------------ MODULE ThaliSendNotification ------------------------
(***************************************************************************)
(* thaliSendNotificationBasedOnReplication.js with the notification server *)
(* it drives: which of the listed peers are behind the database is worked  *)
(* out at each start and each refresh; a change listener and a timer ask   *)
(* for refreshes, through the head of a promise queue.                     *)
(*                                                                         *)
(* Time is kept only as far as the code looks at it: a timer is that of    *)
(* the expiry of the beacons or the earlier one that a change asks for     *)
(* (see ChangeEvent).                                                      *)
(***************************************************************************)
EXTENDS Naturals, Sequences, FiniteSets

CONSTANTS
  Peers,
  Lists,      \* the prioritized lists of peers that start is called with
  MAXIMUM_NUMBER_OF_PEERS_TO_NOTIFY,
  MaxSeq,     \* bounds the changes of the database
  MaxCalls,   \* bounds the calls that wait, here and in the server, when one more comes
  None

\* _transientState, and an update of the beacons that runs.
TransientStates ==
  [list : Lists, updated : BOOLEAN, timer : {"none", "soon", "expiry", "fired"},
   listener : BOOLEAN]
Updates ==
  [at : {"info", "docs", "server"}, unread : SUBSET Peers, behind : SUBSET Peers]

\* Assumed by ThaliSequencePoints.
SendAssumption ==
  /\ Lists \subseteq Seq(Peers)
  /\ MAXIMUM_NUMBER_OF_PEERS_TO_NOTIFY \in Nat \ {0}
  /\ MaxSeq \in Nat /\ MaxCalls \in Nat \ {0}
  /\ None \notin TransientStates \cup Updates

VARIABLES
  seq,        \* update_seq of the local database
  synced,     \* lastSyncedSequenceNumber of each peer's document, 0: not there
  state,      \* _state
  transient,  \* _transientState, or None
  calls,      \* _promiseQueue: the calls that wait
  running,    \* the update of the beacons that runs, or None
  since,      \* retrievedSeqValue of the latest update
  seen,       \* the last change that the listener has reported
  server,     \* the notification server's queue
  beacons,    \* the peers whose beacons it serves
  asked,      \* history: the last call that ran was start, not stop
  missed      \* history: a change was reported while beacons were updated

sendVars == <<state, transient, calls, running, since, seen, server, beacons,
              asked, missed>>

Transient(l) == [list |-> l, updated |-> FALSE, timer |-> "none", listener |-> FALSE]

SendInit ==
  /\ state = "stopped"
  /\ transient = None
  /\ calls = <<>>
  /\ running = None
  /\ since = 0
  /\ seen = 0
  /\ server = <<>>
  /\ beacons = {}
  /\ asked = FALSE
  /\ missed = FALSE

-----------------------------------------------------------------------------
(* Calls *)

Call(kind, l) == [kind |-> kind, list |-> l, current |-> TRUE]

Start(l) ==
  /\ Len(calls) + Len(server) < MaxCalls
  /\ calls' = Append(calls, Call("start", l))
  /\ UNCHANGED <<state, transient, running, since, seen, server, beacons, asked, missed>>

Stop ==
  /\ Len(calls) + Len(server) < MaxCalls
  /\ calls' = Append(calls, Call("stop", <<>>))
  /\ UNCHANGED <<state, transient, running, since, seen, server, beacons, asked, missed>>

\* A refresh remembers the transient state in which its timer was set: once that
\* is replaced, its check fails. The time of the last update, which the check
\* compares too, changes in no transient state that has a timer.
Outdated(q) == [i \in DOMAIN q |-> [q[i] EXCEPT !.current = FALSE]]

\* Broken: a refresh is taken for a start with the list that there is already.
NeededForNewList(c) == ~(state = "started" /\ transient.list = c.list)

\* checkFn of a refresh, and for start the question whether anything is new.
Needed(c) == IF c.kind = "first" THEN state = "started" /\ c.current
             ELSE ~(state = "started" /\ transient.list = c.list)

\* _commonStart
BeginStart ==
  /\ running = None /\ calls # <<>> /\ Head(calls).kind \in {"start", "first"}
  /\ LET c == Head(calls) IN
     /\ asked' = (asked \/ c.kind = "start")
     /\ \/ /\ ~Needed(c)
           /\ calls' = Tail(calls)
           /\ UNCHANGED <<state, transient, running, missed>>
        \/ /\ Needed(c)
           /\ state' = "starting"
           /\ transient' = Transient(c.list)
           /\ calls' = Outdated(Tail(calls))
           /\ running' = [at |-> "info", unread |-> {}, behind |-> {}]
           /\ missed' = FALSE
  /\ UNCHANGED <<since, seen, server, beacons>>

\* Broken: there is nothing to stop in what has not been started.
BeginStopStarted ==
  /\ running = None /\ calls # <<>> /\ Head(calls).kind = "stop"
  /\ state' = "stopped"
  /\ asked' = FALSE
  /\ \/ /\ state = "started"
        /\ transient' = None
        /\ calls' = Outdated(Tail(calls))
        /\ server' = Append(server, [kind |-> "stop", peers |-> {}])
     \/ /\ state # "started"
        /\ calls' = Tail(calls)
        /\ UNCHANGED <<transient, server>>
  /\ missed' = FALSE
  /\ UNCHANGED <<running, since, seen, beacons>>

\* stop resolves at once: the server stops in its own time.
BeginStop ==
  /\ running = None /\ calls # <<>> /\ Head(calls).kind = "stop"
  /\ state' = "stopped"
  /\ asked' = FALSE
  /\ \/ /\ transient # None
        /\ transient' = None
        /\ calls' = Outdated(Tail(calls))
        /\ server' = Append(server, [kind |-> "stop", peers |-> {}])
     \/ /\ transient = None
        /\ calls' = Tail(calls)
        /\ UNCHANGED <<transient, server>>
  /\ missed' = FALSE
  /\ UNCHANGED <<running, since, seen, beacons>>

-----------------------------------------------------------------------------
(* _updateBeacons *)

Listed == {transient.list[i] : i \in DOMAIN transient.list}

FindSequenceNumber ==
  /\ running # None /\ running.at = "info"
  /\ since' = seq
  /\ running' = [running EXCEPT !.at = "docs",
                                !.unread = IF seq = 0 THEN {} ELSE Listed]
  /\ UNCHANGED <<state, transient, calls, seen, server, beacons, asked, missed>>

\* The documents are read together and answered in any order.
ReadDocument(p) ==
  /\ running # None /\ running.at = "docs" /\ p \in running.unread
  /\ running' = [running EXCEPT !.unread = @ \ {p},
                                !.behind = IF synced[p] < since THEN @ \cup {p} ELSE @]
  /\ UNCHANGED <<state, transient, calls, since, seen, server, beacons, asked, missed>>

\* Only so many peers are notified, the first of the list before the others.
PeersToNotify ==
  LET list == transient.list
      Behind(places) == {i \in places : list[i] \in running.behind}
  IN {list[i] : i \in {i \in Behind(DOMAIN list) :
        Cardinality(Behind(1 .. i - 1)) < MAXIMUM_NUMBER_OF_PEERS_TO_NOTIFY}}

\* Broken: the listener reports the changes after now.
PublishFromNow ==
  /\ running # None /\ running.at = "docs" /\ running.unread = {}
  /\ transient' = [transient EXCEPT
       !.updated  = PeersToNotify # {},
       !.timer    = IF PeersToNotify # {} THEN "expiry" ELSE "none",
       !.listener = transient.list # <<>>]
  /\ seen' = seq
  /\ server' = Append(server, [kind |-> "start", peers |-> PeersToNotify])
  /\ running' = [running EXCEPT !.at = "server"]
  /\ UNCHANGED <<state, calls, since, beacons, asked, missed>>

\* The listener reports every change after the number that was found.
Publish ==
  /\ running # None /\ running.at = "docs" /\ running.unread = {}
  /\ transient' = [transient EXCEPT
       !.updated  = PeersToNotify # {},
       !.timer    = IF PeersToNotify # {} THEN "expiry" ELSE "none",
       !.listener = transient.list # <<>>]
  /\ seen' = since
  /\ server' = Append(server, [kind |-> "start", peers |-> PeersToNotify])
  /\ running' = [running EXCEPT !.at = "server"]
  /\ UNCHANGED <<state, calls, since, beacons, asked, missed>>

\* The new transient state stays, empty, and nothing is tried again.
ReadFails ==
  /\ running # None /\ running.at \in {"info", "docs"}
  /\ running' = None
  /\ state' = "stopped"
  /\ UNCHANGED <<transient, calls, since, seen, server, beacons, asked, missed>>

\* A turn of the notification server's queue. Its start is answered in its turn,
\* and that ends the call of _commonStart that waits for it.
ServerTurn ==
  /\ server # <<>>
  /\ server' = Tail(server)
  /\ beacons' = Head(server).peers
  /\ \/ /\ Head(server).kind = "start"
        /\ state' = "started"
        /\ running' = None
     \/ /\ Head(server).kind = "stop"
        /\ UNCHANGED <<state, running>>
  /\ UNCHANGED <<transient, calls, since, seen, asked, missed>>

-----------------------------------------------------------------------------
(* The refresh timer and the change listener *)

\* A timer that has fired keeps its place: getTimeWhenRun is -1 from then on.
TimerFires ==
  /\ transient # None /\ transient.timer \in {"soon", "expiry"}
  /\ transient' = [transient EXCEPT !.timer = "fired"]
  /\ calls' = <<Call("first", transient.list)>> \o calls
  /\ UNCHANGED <<state, running, since, seen, server, beacons, asked, missed>>

\* Broken: a change counts as an update of the beacons, and asks for none.
RefreshSoonerMarksOnly(t) == [t EXCEPT !.updated = TRUE]

\* A change in the update window brings the refresh forward to its end, and one
\* after it to now; a timer that is "soon" already is not later than that. One
\* that has fired has put its refresh into the queue.
RefreshSooner(t) ==
  IF ~t.updated THEN [t EXCEPT !.updated = TRUE, !.timer = "soon"]
  ELSE IF t.timer = "expiry" THEN [t EXCEPT !.timer = "soon"]
  ELSE t

ChangeEvent ==
  /\ transient # None /\ transient.listener /\ seen < seq
  /\ seen' = seen + 1
  /\ \/ /\ state = "started"
        /\ transient' = RefreshSooner(transient)
        /\ UNCHANGED missed
     \/ /\ state # "started"
        /\ missed' = TRUE
        /\ UNCHANGED transient
  /\ UNCHANGED <<state, calls, running, since, server, beacons, asked>>

-----------------------------------------------------------------------------
(* The database, and the module on its own *)

Change ==
  /\ seq < MaxSeq
  /\ seq' = seq + 1

Caller == Stop \/ \E l \in Lists : Start(l)

\* The promise queue, with the update of the beacons.
Update ==
  \/ BeginStart \/ BeginStop
  \/ FindSequenceNumber \/ (\E p \in Peers : ReadDocument(p)) \/ Publish

Works == Update \/ ServerTurn \/ TimerFires \/ ChangeEvent

Next ==
  \/ /\ Caller \/ Works \/ ReadFails
     /\ UNCHANGED <<seq, synced>>
  \/ Change /\ UNCHANGED <<synced, sendVars>>
  \/ /\ \E p \in Peers : \E n \in synced[p] .. seq : synced' = [synced EXCEPT ![p] = n]
     /\ UNCHANGED <<seq, sendVars>>

Init == seq = 0 /\ synced = [p \in Peers |-> 0] /\ SendInit

Spec == Init /\ [][Next]_<<seq, synced, sendVars>>

-----------------------------------------------------------------------------
(* Properties *)

\* Types; and beacons that were updated have a timer, as the change listener asserts.
TypeOK ==
  /\ seq \in 0 .. MaxSeq
  /\ synced \in [Peers -> 0 .. seq]
  /\ state \in {"stopped", "starting", "started"}
  /\ transient \in TransientStates \cup {None}
  /\ transient # None => (transient.updated <=> transient.timer # "none")
  /\ calls \in Seq([kind : {"start", "stop", "first"}, list : Lists \cup {<<>>},
                    current : BOOLEAN])
  /\ running \in Updates \cup {None}
  /\ running # None => state = "starting" /\ transient # None
  /\ since \in 0 .. seq /\ seen \in 0 .. seq
  /\ server \in Seq([kind : {"start", "stop"}, peers : SUBSET Peers])
  /\ beacons \in SUBSET Peers
  /\ asked \in BOOLEAN /\ missed \in BOOLEAN

Refreshing ==
  \/ transient.timer \in {"soon", "expiry"}
  \/ \E i \in DOMAIN calls : calls[i].kind = "first" /\ calls[i].current

\* Nobody on the list is forgotten: while changes are monitored, a peer that is
\* behind a change that the listener has reported will be looked at again. The
\* exception is a change that was reported while beacons were being updated.
NobodyForgotten ==
  state = "started" /\ seen = seq /\ ~missed =>
    \A p \in Listed : synced[p] = seq \/ Refreshing

\* The comment on start (line 242) says that changes during an update of the
\* beacons can be ignored. They cannot if that update finds nobody behind.
UpdatesMayBeIgnored ==
  state = "started" /\ seen = seq =>
    \A p \in Listed : synced[p] = seq \/ Refreshing

\* After a stop, and whatever timers, changes and refreshes were under way, there
\* is no monitoring until the next start, and no beacons once the server is idle.
StaysStopped ==
  ~asked => /\ state = "stopped" /\ running = None /\ transient = None
            /\ server = <<>> => beacons = {}

=============================================================================
