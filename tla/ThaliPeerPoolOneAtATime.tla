----------------------- MODULE ThaliPeerPoolOneAtATime -----------------------
(***************************************************************************)
(* From the news that a peer has data for us to a finished replication:    *)
(* thaliPullReplicationFromNotification makes a replication action, the    *)
(* peer pool decides when it runs (at most two per peer over Wi-Fi, one    *)
(* Bluetooth conversation at a time), and thaliReplicationPeerAction runs  *)
(* it, with the kills that can come in between and the four steps in which *)
(* ThaliManager stops everything.                                          *)
(*                                                                         *)
(* Code: thaliPeerPool/*.js, replication/thaliReplicationPeerAction.js,    *)
(* replication/thaliPullReplicationFromNotification.js and the parts of    *)
(* thaliManager.js that start and stop them.                               *)
(***************************************************************************)
EXTENDS Naturals, Sequences, FiniteSets

CONSTANTS
  NativePeers,  \* peers reached over Bluetooth or the multipeer framework
  WifiPeers,    \* peers reached over Wi-Fi
  Ids,          \* replication actions that may exist at the same time
  MaxSerial,    \* bound: notification actions waiting for their Bluetooth turn
  MaxSessions   \* bound: calls of ThaliManager.start

Peers == NativePeers \cup WifiPeers
None  == 0

ASSUME PoolAssumption ==
  /\ NativePeers \cap WifiPeers = {}
  /\ Ids \subseteq Nat \ {None}
  /\ MaxSerial \in Nat
  /\ MaxSessions \in Nat

VARIABLES
  session,   \* how far ThaliManager.start or stop has come
  sessions,  \* calls of start so far
  asking,    \* Wi-Fi peers with a notification action that is running
  serial,    \* _bluetoothSerialPromiseQueue: its notification actions
  turn,      \* what the head of serial is doing
  slot,      \* _bluetoothReplicationAction
  pending,   \* _peerDictionary
  count,     \* _wifiReplicationCount
  reps,      \* the replication actions
  awaited,   \* those whose waitUntilKilled holds up the stop of the pool
  stray      \* peers of live replications nobody can cancel any more

vars == <<session, sessions, asking, serial, turn, slot, pending, count, reps,
          awaited, stray>>

-----------------------------------------------------------------------------
\* "starting": thaliMobile.start has not made gServersManager yet.
\* "pulled": pull replication is stopped.  "drained": the pool is stopped too.
\* "closing": thaliMobile.stop has emptied the peer cache.  "stopped": the
\* wrapper has set gServersManager to null.
Sessions == {"stopped", "starting", "running", "pulled", "drained", "closing"}

ServersUp == session \in {"running", "pulled", "drained", "closing"}

\* run: "opening" is the hop between PeerAction.start and its callback, which
\* calls PouchDB; a replication is live while it is "open"; "closing" is a
\* cancelled one that has not reported; "settled" has settled its promise and
\* waits for the pool's continuation.
States   == {"free", "created", "started", "killed"}
Runs     == {"idle", "opening", "open", "closing", "settled"}
Outcomes == {"none", "ok", "timeout", "refused", "failed", "completed"}

Replication == [peer : Peers \cup {None}, state : States, run : Runs,
                outcome : Outcomes, tracked : BOOLEAN]  \* tracked: in _inQueue

Blank == [peer |-> None, state |-> "free", run |-> "idle", outcome |-> "none",
          tracked |-> FALSE]
Created(p) == [Blank EXCEPT !.peer = p, !.state = "created", !.tracked = TRUE]
Begun(r)   == [r EXCEPT !.state = "started", !.run = "opening",
                        !.outcome = "none"]
Free(i)    == reps[i].state = "free"

Turns == {"idle", "asking", "answered", "replicating", "replicated", "broken"}

Notification == [peer : NativePeers, live : BOOLEAN]

-----------------------------------------------------------------------------
\* ThaliReplicationPeerAction.kill without the wrappers: nothing for an action
\* that is dead; else a live replication is cancelled.
Dead(r) ==
  IF r.state \in {"free", "killed"} THEN r
  ELSE [r EXCEPT !.state = "killed", !.tracked = FALSE,
                 !.run = IF @ = "open" THEN "closing" ELSE @]

\* The three kill wrappers run once, at the first kill of an enqueued action:
\* the pool forgets it, the Wi-Fi count of its peer goes down, the dictionary
\* entry goes away.
KillAll(S) ==
  /\ reps' = [i \in Ids |-> IF i \in S THEN Dead(reps[i]) ELSE reps[i]]
  /\ count' = [p \in WifiPeers |-> count[p] -
                 Cardinality({i \in S : reps[i].peer = p /\ reps[i].tracked})]
  /\ pending' = [p \in Peers |-> IF pending[p] \in S THEN None ELSE pending[p]]

-----------------------------------------------------------------------------
\* The peer has data for us: _peerAdvertisesDataForUsHandler, which kills the
\* action the dictionary has for the peer, makes a new one and enqueues it.
\* Over Bluetooth the new action goes to the slot and pushes out what is there.
EnqueueNative(p, i) ==
  LET old == {pending[p], slot} \ {None}
  IN /\ reps' = [j \in Ids |-> CASE j = i     -> Created(p)
                                 [] j \in old -> Dead(reps[j])
                                 [] OTHER     -> reps[j]]
     /\ pending' = [q \in Peers |-> IF q = p THEN i
                                    ELSE IF pending[q] \in old THEN None
                                    ELSE pending[q]]
     /\ slot' = i
     /\ UNCHANGED count

\* Broken: nothing limits the replications of a peer.
EnqueueWifiUnlimited(p, i) ==
  /\ reps' = [reps EXCEPT ![i] = Begun(Created(p))]
  /\ count' = [count EXCEPT ![p] = @ + 1]
  /\ UNCHANGED <<pending, slot>>

\* _wifiEnqueue starts it at once, which takes it out of the dictionary; a
\* third one for the same peer is killed on the spot.
EnqueueWifi(p, i) ==
  /\ IF count[p] < 2
     THEN /\ reps' = [reps EXCEPT ![i] = Begun(Created(p))]
          /\ count' = [count EXCEPT ![p] = @ + 1]
     ELSE UNCHANGED <<reps, count>>
  /\ UNCHANGED <<pending, slot>>

\* The places are interchangeable: the first free one is taken.
DataForUs(p) ==
  \E i \in Ids : /\ Free(i)
                 /\ \A j \in Ids : Free(j) => i \leq j
                 /\ IF p \in WifiPeers THEN EnqueueWifi(p, i)
                                       ELSE EnqueueNative(p, i)

NoData == UNCHANGED <<reps, count, pending, slot>>

-----------------------------------------------------------------------------
(* Notification actions.  The client has at most one live per peer.        *)

AskWifi(p) ==
  /\ session = "running"
  /\ p \notin asking
  /\ asking' = asking \cup {p}
  /\ UNCHANGED <<session, sessions, serial, turn, slot, pending, count, reps,
                 awaited, stray>>

\* It ends, with or without data for us, or because the client killed it.
WifiAnswer(p) ==
  /\ p \in asking
  /\ asking' = asking \ {p}
  /\ (DataForUs(p) \/ NoData)
  /\ UNCHANGED <<session, sessions, serial, turn, awaited, stray>>

AskNative(p) ==
  /\ session = "running"
  /\ Len(serial) < MaxSerial
  /\ \A n \in 1..Len(serial) : serial[n].peer = p => ~serial[n].live
  /\ serial' = Append(serial, [peer |-> p, live |-> TRUE])
  /\ UNCHANGED <<session, sessions, asking, turn, slot, pending, count, reps,
                 awaited, stray>>

\* The kill of a running notification action resolves its start; one that
\* waits keeps its place in the queue.
Kill(n) ==
  /\ serial' = [serial EXCEPT ![n].live = FALSE]
  /\ turn' = IF n = 1 /\ turn = "asking" THEN "answered" ELSE turn

\* The client kills it because the peer went away or came back elsewhere.
KillNotification(n) ==
  /\ session = "running"
  /\ serial[n].live
  /\ Kill(n)
  /\ UNCHANGED <<session, sessions, asking, slot, pending, count, reps,
                 awaited, stray>>

\* The function at the head of the serial queue starts its notification
\* action; the start of a dead one fails at once.
BeginTurn ==
  /\ turn = "idle"
  /\ serial # <<>>
  /\ turn' = IF serial[1].live THEN "asking" ELSE "answered"
  /\ UNCHANGED <<session, sessions, asking, serial, slot, pending, count,
                 reps, awaited, stray>>

\* The beacons are in (or not): the action kills itself and tells the client.
NativeAnswer ==
  /\ turn = "asking"
  /\ turn' = "answered"
  /\ serial' = [serial EXCEPT ![1].live = FALSE]
  /\ (DataForUs(serial[1].peer) \/ NoData)
  /\ UNCHANGED <<session, sessions, asking, awaited, stray>>

EndTurn == /\ serial' = Tail(serial)
           /\ turn'   = "idle"

\* terminateOutgoingConnection is called on gServersManager; without one the
\* TypeError rejects the promise and resolve is never called.
Terminate == IF ServersUp THEN EndTurn
             ELSE turn' = "broken" /\ UNCHANGED serial

\* Broken: the dictionary keeps the action that is started.
AfterNotificationKeepsPending ==
  /\ turn = "answered"
  /\ IF slot = None
     THEN Terminate /\ UNCHANGED reps
     ELSE /\ turn' = "replicating"
          /\ reps' = [reps EXCEPT ![slot] =
                IF @.state = "created" THEN Begun(@)
                ELSE [@ EXCEPT !.run = "settled", !.outcome = "completed"]]
          /\ UNCHANGED serial
  /\ UNCHANGED <<session, sessions, asking, slot, pending, count, awaited,
                 stray>>

\* Broken: the queue does not wait for the replication it has started.
AfterNotificationDoesNotWait ==
  /\ turn = "answered"
  /\ Terminate
  /\ IF slot = None
     THEN UNCHANGED <<reps, pending>>
     ELSE /\ reps' = [reps EXCEPT ![slot] = Begun(@)]
          /\ pending' = [p \in Peers |->
                IF pending[p] = slot THEN None ELSE pending[p]]
  /\ slot' = None
  /\ UNCHANGED <<session, sessions, asking, count, awaited, stray>>

\* The continuation of the notification action's start: run what is in the
\* slot.  An action that was killed there does not start.
AfterNotification ==
  /\ turn = "answered"
  /\ IF slot = None
     THEN Terminate /\ UNCHANGED <<reps, pending>>
     ELSE /\ turn' = "replicating"
          /\ reps' = [reps EXCEPT ![slot] =
                IF @.state = "created" THEN Begun(@)
                ELSE [@ EXCEPT !.run = "settled", !.outcome = "completed"]]
          /\ pending' = [p \in Peers |->
                IF pending[p] = slot THEN None ELSE pending[p]]
          /\ UNCHANGED serial
  /\ UNCHANGED <<session, sessions, asking, slot, count, awaited, stray>>

\* Broken: an error makes the function return without resolve.
AfterReplicationNoResolve ==
  /\ turn = "replicated"
  /\ turn' = "broken"
  /\ UNCHANGED <<session, sessions, asking, serial, slot, pending, count,
                 reps, awaited, stray>>

\* The continuation of the slot's replication.
AfterReplication ==
  /\ turn = "replicated"
  /\ Terminate
  /\ IF ServersUp
     THEN slot' = None /\ reps' = [reps EXCEPT ![slot] = Blank]
     ELSE UNCHANGED <<slot, reps>>
  /\ UNCHANGED <<session, sessions, asking, pending, count, awaited, stray>>


-----------------------------------------------------------------------------
(* A replication action that has been started.                             *)

\* The callback of PeerAction.start calls PouchDB, whatever was done to the
\* action meanwhile.
Open(i) ==
  /\ reps[i].run = "opening"
  /\ reps' = [reps EXCEPT ![i].run = "open"]
  /\ UNCHANGED <<session, sessions, asking, serial, turn, slot, pending,
                 count, awaited, stray>>

\* Broken: the count goes down for actions the pool never counted.
CompleteCountsClones(i, how) ==
  /\ reps' = [reps EXCEPT ![i] = [Dead(@) EXCEPT !.run = "settled",
                                                 !.outcome = how]]
  /\ count' = [p \in WifiPeers |->
                 IF reps[i].peer = p THEN count[p] - 1 ELSE count[p]]
  /\ awaited' = awaited \ {i}
  /\ UNCHANGED pending

\* _complete: the action kills itself, wrappers and all, and settles.
Complete(i, how) ==
  /\ reps' = [reps EXCEPT ![i] = [Dead(@) EXCEPT !.run = "settled",
                                                 !.outcome = how]]
  /\ count' = [p \in WifiPeers |->
                 IF reps[i].peer = p /\ reps[i].tracked THEN count[p] - 1
                                                        ELSE count[p]]
  /\ awaited' = awaited \ {i}
  /\ UNCHANGED pending

\* Nothing changed for MAX_IDLE_PERIOD_SECONDS.  The kill of an action that is
\* dead returns at once, and what it was to cancel runs on.
IdleTimeout(i) ==
  /\ reps[i].run = "open"
  /\ Complete(i, "timeout")
  /\ stray' = IF reps[i].state = "killed" THEN stray \cup {reps[i].peer}
                                          ELSE stray
  /\ UNCHANGED <<session, sessions, asking, serial, turn, slot>>

\* PouchDB's error event; "refused" is ECONNREFUSED or ECONNRESET.
ReplicationError(i, how) ==
  /\ reps[i].run = "open"
  /\ Complete(i, how)
  /\ UNCHANGED <<session, sessions, asking, serial, turn, slot, stray>>

\* The complete event of a replication that was cancelled.
ReplicationCancelled(i) ==
  /\ reps[i].run = "closing"
  /\ Complete(i, "ok")
  /\ UNCHANGED <<session, sessions, asking, serial, turn, slot, stray>>

\* The network takes the replication nobody holds.
StrayEnds(p) ==
  /\ p \in stray
  /\ stray' = stray \ {p}
  /\ UNCHANGED <<session, sessions, asking, serial, turn, slot, pending,
                 count, reps, awaited>>

\* _replicateThroughProblems is done with the action.
Finish(i) ==
  IF reps[i].peer \in WifiPeers
  THEN /\ reps' = [reps EXCEPT ![i] = Blank]
       /\ UNCHANGED turn
  ELSE /\ reps' = [reps EXCEPT ![i].run = "idle", ![i].outcome = "none"]
       /\ turn' = "replicated"

\* The continuation of its start in _replicateThroughProblems.  No error, no
\* activity or a peer that is gone ends it; so does a connection refused over
\* Bluetooth, for which the listener is recreated.
GiveUp(i) ==
  /\ reps[i].run = "settled"
  /\ Finish(i)
  /\ UNCHANGED <<session, sessions, asking, serial, slot, pending, count,
                 awaited, stray>>

\* thaliMobile._peerAvailabilities can have the peer.
CacheAlive == session \in {"running", "pulled", "drained"}

\* Any other error, with the peer still there: a clone, which takes the place
\* of the action here, is started without being enqueued.
Retry(i) ==
  /\ reps[i].run = "settled"
  /\ reps[i].outcome \in {"failed", "completed"} \/ reps[i].peer \in WifiPeers
  /\ reps[i].outcome \notin {"ok", "timeout"}
  /\ CacheAlive
  /\ reps' = [reps EXCEPT ![i] = Begun(@)]
  /\ UNCHANGED <<session, sessions, asking, serial, turn, slot, pending,
                 count, awaited, stray>>

-----------------------------------------------------------------------------
(* ThaliManager.start and ThaliManager.stop, step by step.                 *)

\* Pull replication, the client and the pool start at once.
Start ==
  /\ session = "stopped"
  /\ sessions < MaxSessions
  /\ session' = "starting"
  /\ sessions' = sessions + 1
  /\ UNCHANGED <<asking, serial, turn, slot, pending, count, reps, awaited,
                 stray>>

MobileStarted ==
  /\ session = "starting"
  /\ session' = "running"
  /\ UNCHANGED <<sessions, asking, serial, turn, slot, pending, count, reps,
                 awaited, stray>>

\* The client kills its notification actions, then the actions of the
\* dictionary are killed.
PullStop ==
  /\ session = "running"
  /\ session' = "pulled"
  /\ asking' = {}
  /\ serial' = [n \in 1..Len(serial) |-> [serial[n] EXCEPT !.live = FALSE]]
  /\ turn' = IF turn = "asking" THEN "answered" ELSE turn
  /\ KillAll({pending[p] : p \in Peers} \ {None})
  /\ UNCHANGED <<sessions, slot, awaited, stray>>

Tracked == {i \in Ids : reps[i].tracked}

\* Broken: only the actions that have not been started are killed.
PoolStopKillsQueued ==
  /\ session = "pulled"
  /\ session' = "drained"
  /\ KillAll({i \in Tracked : reps[i].state = "created"})
  /\ awaited' = {i \in Tracked : reps[i].run = "open"}
  /\ UNCHANGED <<sessions, asking, serial, turn, slot, stray>>

\* The counts are dropped and everything in _inQueue is killed; the promise
\* of a replication that PouchDB was called for is waited for.
PoolStop ==
  /\ session = "pulled"
  /\ session' = "drained"
  /\ reps' = [i \in Ids |-> IF i \in Tracked THEN Dead(reps[i]) ELSE reps[i]]
  /\ count' = [p \in WifiPeers |-> 0]
  /\ pending' = [p \in Peers |-> IF pending[p] \in Tracked THEN None
                                                          ELSE pending[p]]
  /\ awaited' = {i \in Tracked : reps[i].run = "open"}
  /\ UNCHANGED <<sessions, asking, serial, turn, slot, stray>>

\* thaliMobile.stop first declares every cached peer unavailable ...
MobileStop ==
  /\ session = "drained"
  /\ awaited = {}
  /\ session' = "closing"
  /\ UNCHANGED <<sessions, asking, serial, turn, slot, pending, count, reps,
                 awaited, stray>>

\* ... and ends with a wrapper that has no servers manager.
ServersStop ==
  /\ session = "closing"
  /\ session' = "stopped"
  /\ UNCHANGED <<sessions, asking, serial, turn, slot, pending, count, reps,
                 awaited, stray>>

-----------------------------------------------------------------------------
Init ==
  /\ session  = "stopped"
  /\ sessions = 0
  /\ asking   = {}
  /\ serial   = <<>>
  /\ turn     = "idle"
  /\ slot     = None
  /\ pending  = [p \in Peers |-> None]
  /\ count    = [p \in WifiPeers |-> 0]
  /\ reps     = [i \in Ids |-> Blank]
  /\ awaited  = {}
  /\ stray    = {}

Ends(i) == IdleTimeout(i) \/ ReplicationError(i, "refused")
             \/ ReplicationError(i, "failed")

Next ==
  \/ Start \/ MobileStarted
  \/ PullStop \/ PoolStop \/ MobileStop \/ ServersStop
  \/ \E p \in WifiPeers : AskWifi(p) \/ WifiAnswer(p)
  \/ \E p \in NativePeers : AskNative(p)
  \/ \E n \in 1..Len(serial) : KillNotification(n)
  \/ BeginTurn \/ NativeAnswer \/ AfterNotification \/ AfterReplication
  \/ \E i \in Ids : Open(i) \/ ReplicationCancelled(i) \/ GiveUp(i) \/ Retry(i)
  \/ \E i \in Ids : Ends(i)
  \/ \E p \in Peers : StrayEnds(p)

Spec == Init /\ [][Next]_vars

\* Promises settle, requests and live replications come to an end, and a stop
\* that has begun goes through; nobody has to call start, stop or kill.
LiveSpec ==
  /\ Spec
  /\ WF_vars(MobileStarted)
  /\ WF_vars(PoolStop) /\ WF_vars(MobileStop) /\ WF_vars(ServersStop)
  /\ WF_vars(BeginTurn) /\ WF_vars(NativeAnswer)
  /\ WF_vars(AfterNotification) /\ WF_vars(AfterReplication)
  /\ \A i \in Ids : /\ WF_vars(Open(i))
                    /\ WF_vars(Ends(i))
                    /\ WF_vars(ReplicationCancelled(i))
                    /\ WF_vars(GiveUp(i) \/ Retry(i))

-----------------------------------------------------------------------------
(* Properties.                                                             *)

\* The variables have their types.
TypeOK ==
  /\ session \in Sessions
  /\ sessions \in 0..MaxSessions
  /\ asking \subseteq WifiPeers
  /\ serial \in Seq(Notification)
  /\ turn \in Turns
  /\ slot \in Ids \cup {None}
  /\ pending \in [Peers -> Ids \cup {None}]
  /\ count \in [WifiPeers -> Nat]
  /\ reps \in [Ids -> Replication]
  /\ awaited \subseteq Ids
  /\ stray \subseteq Peers

\* The Wi-Fi count of a peer is the number of its replications that the pool
\* has started and not killed, and never more than two: the kill wrappers give
\* back exactly what _wifiEnqueue took, through failure, timeout and stop.
CountIsExact ==
  \A p \in WifiPeers :
    /\ count[p] = Cardinality({i \in Tracked : reps[i].peer = p})
    /\ count[p] \leq 2

\* What the dictionary has for a peer waits in the Bluetooth slot and has not
\* been started or killed, as the handler asserts before it kills it; and the
\* slot is empty while a Bluetooth notification action asks, over restarts too, so
\* that "Something VERY bad has happened" is never logged.
PendingWaitsInSlot ==
  /\ \A p \in Peers : pending[p] # None =>
       /\ p \in NativePeers
       /\ slot = pending[p]
       /\ reps[slot].peer = p /\ reps[slot].state = "created"
  /\ turn = "asking" => slot = None

\* With Bluetooth one conversation at a time: a native replication is live
\* only while it is the slot's turn.
OneNativeAtATime ==
  \A i \in Ids :
    reps[i].peer \in NativePeers /\ reps[i].run \in {"opening", "open", "closing"}
      => i = slot /\ turn = "replicating"

\* When the pool has stopped, and until the next session is up, it tracks
\* nothing, counts nothing and the dictionary is empty, which start asserts.
StoppedPoolIsEmpty ==
  session \in {"drained", "closing", "stopped", "starting"} =>
    /\ Tracked = {} /\ asking = {}
    /\ \A p \in WifiPeers : count[p] = 0
    /\ \A p \in Peers : pending[p] = None

\* The pool's books: counts, dictionary and slot fit together and with what is at
\* work, over failures, retries, timeouts, kills and stops.
BooksAgree == TypeOK /\ CountIsExact /\ PendingWaitsInSlot /\ StoppedPoolIsEmpty

\* The Bluetooth queue moves.
Served == serial # <<>> /\ serial' = Tail(serial)
Again  == \E i \in Ids : Retry(i)

\* Unless Thali is stopped, every notification action gets its turn and gives
\* the queue back, if the same failing replication is not retried for ever.
QueueServedWhileRunning ==
  \/ <>[](serial = <<>>)
  \/ []<><<Served \/ Again>>_vars
  \/ <>(session = "pulled")

-----------------------------------------------------------------------------
(* What the documentation says and the code does not do.                   *)

\* "we will only allow a maximum of two replication actions to run to the
\* same IP Address/port"
TwoPerPeer ==
  \A p \in WifiPeers :
    Cardinality({i \in Ids : reps[i].peer = p /\ reps[i].run = "open"}) \leq 2

\* stop "will kill any actions that this pool has started that haven't
\* already been killed"
StopKillsEverything ==
  session \in {"drained", "closing", "stopped"} =>
    \A i \in Ids : reps[i].state # "started"

\* kill "tells an action to stop executing immediately and synchronously"
KilledIsNotLive ==
  \A i \in Ids : reps[i].run = "open" => reps[i].state # "killed"

\* pull replication's stop "shuts down all replication actions"
PullStopEndsReplication ==
  session = "pulled" => \A i \in Ids : reps[i].state # "started"

\* The functions of a promise queue are "guaranteed to be run exactly once":
\* over a restart too, a Bluetooth notification action gets its turn.
QueueSurvivesRestart ==
  \/ <>[](serial = <<>>)
  \/ []<><<Served \/ Again>>_vars
=============================================================================
