---------------------- MODULE ThaliNotificationClient ----------------------
(***************************************************************************)
(* The notification client: it hears of peers from thaliMobile, fetches    *)
(* each one's notification beacons with a ThaliNotificationAction that it  *)
(* hands to the peer pool, retries after failures and remembers the peers  *)
(* in a PeerDictionary of bounded size.  The pool is ThaliPeerPoolDefault, *)
(* which starts every action as soon as it is enqueued.  The driver is     *)
(* ThaliPullReplicationFromNotification inside ThaliManager.               *)
(*                                                                         *)
(* Code: notification/thaliNotificationClient.js, thaliPeerDictionary.js,  *)
(* thaliNotificationAction.js, thaliPeerPool/thaliPeerPoolDefault.js,      *)
(* thaliPeerPoolInterface.js and thaliPeerAction.js.                       *)
(***************************************************************************)
EXTENDS Naturals, FiniteSets

CONSTANTS
  Peers,           \* the peer identifiers thaliMobile may announce
  MAXSIZE,         \* PeerDictionary.MAXSIZE
  MaxRetries,      \* ThaliNotificationClient.RETRY_TIMEOUTS.length
  MaxAppearances,  \* bound: how often thaliMobile announces a peer
  AllowRestart     \* may start be called on a client that is started?

ASSUME ClientAssumption ==
  /\ Peers # {}
  /\ MAXSIZE \in Nat \ {0}
  /\ MaxRetries \in Nat
  /\ MaxAppearances \in Nat \ {0}
  /\ AllowRestart \in BOOLEAN

VARIABLES
  running,           \* client.peerDictionary is not null
  dict,              \* the entry of each peer, Absent when there is none
  entryCounter,      \* PeerDictionary._entryCounter
  actions,           \* every ThaliNotificationAction, by its _id
  peerActionCounter, \* ids handed out so far
  timers,            \* armed retry timers, each named by the failed action
  poolStopped,       \* ThaliPeerPoolDefault._stopped
  inQueue,           \* ThaliPeerPoolInterface._inQueue, by action id
  advertised,        \* PeerAdvertisesDataForUs events: the action that heard
                     \* of the data and the one whose address was passed on
  appearances,       \* announcements so far (bounded by MaxAppearances)
  uncaught           \* exceptions nobody catches; the process dies of one

vars == <<running, dict, entryCounter, actions, peerActionCounter, timers,
          poolStopped, inQueue, advertised, appearances, uncaught>>

-----------------------------------------------------------------------------
\* An announcement costs one action and at most MaxRetries retries.
ActionIds == 1 .. MaxAppearances * (MaxRetries + 1)
NoAction  == 0

PeerStates  == {"absent", "controlledByPool", "waiting", "resolved"}

\* ActionResolution: "failed" is HTTP_BAD_RESPONSE and NETWORK_PROBLEM, and
\* "notForUs" is BEACONS_RETRIEVED_BUT_BAD and parsed beacons without a match;
\* the client treats the two of each pair alike.
Retryable   == {"failed", "killed"}
Final       == {"forUs", "notForUs"}
Resolutions == {"none"} \cup Retryable \cup Final

\* What the HTTP exchange itself can end in; "killed" comes from kill.
HttpOutcomes == Resolutions \ {"none", "killed"}

\* "We are stopped", "Queue should be empty before start", a TypeError for a
\* null peerDictionary, "unknown state should be WAITING".
Exceptions == {"enqueueWhenStopped", "queueIsNotEmpty", "nullDictionary",
               "notWaiting"}

Entry == [peerState : PeerStates, action : ActionIds \cup {NoAction},
          timer : ActionIds \cup {NoAction}, retries : Nat, number : Nat]

Absent == [peerState |-> "absent", action |-> NoAction, timer |-> NoAction,
           retries |-> 0, number |-> 0]

\* promise is the one ThaliNotificationAction.start returned: "starting"
\* until its first then-callback has run, "open" while the request is out.
\* An action is in its state KILLED once it has a resolution.
Action == [peer : Peers, resolution : Resolutions, listening : BOOLEAN,
           promise : {"starting", "open", "settled", "reaped"}]

Allocated == 1 .. peerActionCounter

Known == {p \in Peers : dict[p].peerState # "absent"}

Unresolved(a) == actions[a].resolution = "none"

-----------------------------------------------------------------------------
(* PeerDictionary *)

OldestIn(state) ==
  {p \in Peers : /\ dict[p].peerState = state
                 /\ \A q \in Peers : dict[q].peerState = state
                                       => dict[p].number <= dict[q].number}

\* Broken: the entries waiting for a retry go before the resolved ones.
OverflowWaitingFirst ==
  IF Cardinality(Known) < MAXSIZE THEN {}
  ELSE IF OldestIn("waiting") # {} THEN OldestIn("waiting")
  ELSE IF OldestIn("resolved") # {} THEN OldestIn("resolved")
  ELSE OldestIn("controlledByPool")

\* _removeOldestIfOverflow: who has to go before one more entry is added.
Overflow ==
  IF Cardinality(Known) < MAXSIZE THEN {}
  ELSE IF OldestIn("resolved") # {} THEN OldestIn("resolved")
  ELSE IF OldestIn("waiting") # {} THEN OldestIn("waiting")
  ELSE OldestIn("controlledByPool")

ActionsOf(S) == {dict[p].action : p \in S}
TimersOf(S)  == {dict[p].timer : p \in S}

\* Broken: a resolution that no case of _resolved knows.
KilledUnknown(S) ==
  [a \in ActionIds |->
     IF a \in S /\ Unresolved(a)
     THEN [actions[a] EXCEPT !.resolution = "aborted", !.promise = "settled"]
     ELSE actions[a]]

\* kill, on every action of S; a second kill changes nothing.
Killed(S) ==
  [a \in ActionIds |->
     IF a \in S
     THEN [actions[a] EXCEPT
             !.resolution = IF @ = "none" THEN "killed" ELSE @,
             !.promise = IF @ = "open" THEN "settled" ELSE @]
     ELSE actions[a]]

\* remove: the action loses its listener before it is killed, so its Resolved
\* event reaches nobody.
Silenced(S) ==
  [a \in ActionIds |->
     [Killed(S)[a] EXCEPT !.listening = @ /\ a \notin S]]

\* Broken: remove without clearTimeout.
RemoveKeepsTimers(S) ==
  /\ dict' = [p \in Peers |-> IF p \in S THEN Absent ELSE dict[p]]
  /\ actions' = Silenced(ActionsOf(S))
  /\ inQueue' = inQueue \ ActionsOf(S)
  /\ UNCHANGED timers

\* Broken: remove leaves the action alone.
RemoveKeepsAction(S) ==
  /\ dict' = [p \in Peers |-> IF p \in S THEN Absent ELSE dict[p]]
  /\ timers' = timers \ TimersOf(S)
  /\ UNCHANGED <<actions, inQueue>>

Remove(S) ==
  /\ dict' = [p \in Peers |-> IF p \in S THEN Absent ELSE dict[p]]
  /\ timers' = timers \ TimersOf(S)
  /\ actions' = Silenced(ActionsOf(S))
  /\ inQueue' = inQueue \ ActionsOf(S)

-----------------------------------------------------------------------------
(* The pool *)

\* ThaliPeerPoolDefault.enqueue starts the action at once.
NewAction(p) == [peer |-> p, resolution |-> "none",
                 listening |-> TRUE, promise |-> "starting"]

\* _createNewAction: enqueue throws when the pool is stopped; otherwise the
\* action is running before the dictionary makes room for its entry.
CreateNewAction(p, entry, armed) ==
  LET a       == peerActionCounter + 1
      victims == IF p \in Known THEN {} ELSE Overflow
  IN IF poolStopped
     THEN /\ uncaught' = uncaught \cup {"enqueueWhenStopped"}
          /\ timers' = armed
          /\ UNCHANGED <<dict, entryCounter, actions, peerActionCounter, inQueue>>
     ELSE /\ a \in ActionIds
          /\ peerActionCounter' = a
          /\ dict' = [q \in Peers |->
                        IF q = p THEN [entry EXCEPT !.action = a,
                                                    !.number = entryCounter]
                        ELSE IF q \in victims THEN Absent ELSE dict[q]]
          /\ entryCounter' = entryCounter + 1
          /\ timers' = armed \ TimersOf(victims)
          /\ actions' = [Silenced(ActionsOf(victims)) EXCEPT ![a] = NewAction(p)]
          /\ inQueue' = (inQueue \ ActionsOf(victims)) \cup {a}
          /\ UNCHANGED uncaught

-----------------------------------------------------------------------------
(* The action's outcome *)

\* _resolved runs, and finds a dictionary with an entry of this peer in it:
\* the entry may belong to a later action than the one that reports.
\* Broken: _resolved looks at the result of the first request only.
HeardFirstOnly(a) == /\ actions[a].listening
                     /\ running
                     /\ dict[actions[a].peer].peerState = "controlledByPool"

Heard(a) == /\ actions[a].listening
            /\ running
            /\ actions[a].peer \in Known

RetriesLeft(p) == dict[p].retries < MaxRetries

Resolved(a, res) ==
  LET p == actions[a].peer
  IN \/ /\ ~Heard(a)
        /\ UNCHANGED <<dict, entryCounter, timers, advertised>>
     \/ /\ Heard(a)
        /\ res \in Final \/ ~RetriesLeft(p)
        /\ dict' = [dict EXCEPT ![p].peerState = "resolved",
                                ![p].number = entryCounter]
        /\ entryCounter' = entryCounter + 1
        /\ advertised' = IF res = "forUs"
                         THEN advertised \cup
                                {[heard |-> a, address |-> dict[p].action]}
                         ELSE advertised
        /\ UNCHANGED timers
     \/ /\ Heard(a)
        /\ res \in Retryable /\ RetriesLeft(p)
        /\ dict' = [dict EXCEPT ![p].peerState = "waiting",
                                ![p].timer = a,
                                ![p].retries = @ + 1,
                                ![p].number = entryCounter + 1]
        /\ entryCounter' = entryCounter + 2
        /\ timers' = timers \cup {a}
        /\ UNCHANGED advertised

-----------------------------------------------------------------------------
Unborn == [peer |-> CHOOSE p \in Peers : TRUE, resolution |-> "none",
           listening |-> FALSE, promise |-> "starting"]

Init ==
  /\ running = FALSE
  /\ dict = [p \in Peers |-> Absent]
  /\ entryCounter = 0
  /\ actions = [a \in ActionIds |-> Unborn]
  /\ peerActionCounter = 0
  /\ timers = {}
  /\ poolStopped = TRUE
  /\ inQueue = {}
  /\ advertised = {}
  /\ appearances = 0
  /\ uncaught = {}

\* ThaliPullReplicationFromNotification.start: the client first, then the
\* pool, which insists on an empty queue.  ThaliManager starts again only
\* after a stop that has stopped the pool too.
Start ==
  /\ ~running /\ poolStopped
  /\ running' = TRUE
  /\ dict' = [p \in Peers |-> Absent]
  /\ entryCounter' = 0
  /\ poolStopped' = FALSE
  /\ uncaught' = IF inQueue = {} THEN uncaught
                 ELSE uncaught \cup {"queueIsNotEmpty"}
  /\ UNCHANGED <<actions, peerActionCounter, timers, inQueue, advertised,
                 appearances>>

\* start on a client that is started: a new dictionary, and nothing is done
\* about the timers and the actions of the old one.
StartAgain ==
  /\ AllowRestart /\ running
  /\ dict' = [p \in Peers |-> Absent]
  /\ entryCounter' = 0
  /\ UNCHANGED <<running, actions, peerActionCounter, timers, poolStopped,
                 inQueue, advertised, appearances, uncaught>>

\* Broken: stop drops the dictionary without removeAll.
StopWithoutRemove ==
  /\ running
  /\ dict' = [p \in Peers |-> Absent]
  /\ running' = FALSE
  /\ UNCHANGED <<entryCounter, actions, peerActionCounter, timers, poolStopped,
                 inQueue, advertised, appearances, uncaught>>

\* The client's stop, called by ThaliPullReplicationFromNotification.stop.
Stop ==
  /\ running
  /\ Remove(Known)
  /\ running' = FALSE
  /\ UNCHANGED <<entryCounter, peerActionCounter, poolStopped, advertised,
                 appearances, uncaught>>

\* The pool's stop kills what is left in its queue; the client is stopped by
\* then and hears of nothing.
PoolStop ==
  /\ ~running /\ ~poolStopped
  /\ poolStopped' = TRUE
  /\ actions' = Killed(inQueue)
  /\ inQueue' = {}
  /\ UNCHANGED <<running, dict, entryCounter, peerActionCounter, timers,
                 advertised, appearances, uncaught>>

\* peerAvailabilityChanged with an address.  thaliMobile promises not to
\* announce a peer that is already known (the assertion of the handler).
PeerAppears(p) ==
  /\ running /\ p \notin Known
  /\ appearances < MaxAppearances
  /\ appearances' = appearances + 1
  /\ CreateNewAction(p, [Absent EXCEPT !.peerState = "controlledByPool"], timers)
  /\ UNCHANGED <<running, poolStopped, advertised>>

\* peerAvailabilityChanged without an address.
PeerGone(p) ==
  /\ running /\ p \in Known
  /\ Remove({p})
  /\ UNCHANGED <<running, entryCounter, peerActionCounter, poolStopped,
                 advertised, appearances, uncaught>>

\* Broken: the pool lets go of an action when its request goes out.
BeginRequestForgets(a) ==
  /\ a \in Allocated /\ actions[a].promise = "starting"
  /\ actions' = [actions EXCEPT ![a].promise =
                   IF Unresolved(a) THEN "open" ELSE "settled"]
  /\ inQueue' = inQueue \ {a}
  /\ UNCHANGED <<running, dict, entryCounter, peerActionCounter, timers,
                 poolStopped, advertised, appearances, uncaught>>

\* The first then-callback of the action's start: the request goes out,
\* unless the action was killed first.
BeginRequest(a) ==
  /\ a \in Allocated /\ actions[a].promise = "starting"
  /\ actions' = [actions EXCEPT ![a].promise =
                   IF Unresolved(a) THEN "open" ELSE "settled"]
  /\ UNCHANGED <<running, dict, entryCounter, peerActionCounter, timers,
                 poolStopped, inQueue, advertised, appearances, uncaught>>

\* https.request throws inside the promise, which rejects the start.
RequestThrows(a) ==
  /\ a \in Allocated /\ actions[a].promise = "starting" /\ Unresolved(a)
  /\ actions' = [actions EXCEPT ![a].promise = "settled"]
  /\ UNCHANGED <<running, dict, entryCounter, peerActionCounter, timers,
                 poolStopped, inQueue, advertised, appearances, uncaught>>

\* _complete, called by the HTTP exchange: the event goes out before the
\* promise settles, and the pool still holds the action.
Complete(a, res) ==
  /\ a \in Allocated /\ actions[a].promise = "open" /\ Unresolved(a)
  /\ actions' = [actions EXCEPT ![a].resolution = res, ![a].promise = "settled"]
  /\ Resolved(a, res)
  /\ UNCHANGED <<running, peerActionCounter, poolStopped, inQueue,
                 appearances, uncaught>>

\* The pool's then-callback kills the action once its promise has settled.
Reap(a) ==
  /\ a \in Allocated /\ actions[a].promise = "settled"
  /\ actions' = [Killed({a}) EXCEPT ![a].promise = "reaped"]
  /\ inQueue' = inQueue \ {a}
  /\ IF Unresolved(a) THEN Resolved(a, "killed")
     ELSE UNCHANGED <<dict, entryCounter, timers, advertised>>
  /\ UNCHANGED <<running, peerActionCounter, poolStopped, appearances, uncaught>>

\* timeOutHandler.  The entry stays "waiting" while the new request runs.
TimerFires(a) ==
  LET p == actions[a].peer
  IN /\ a \in timers
     /\ \/ /\ ~running
           /\ timers' = timers \ {a}
           /\ uncaught' = uncaught \cup {"nullDictionary"}
           /\ UNCHANGED <<dict, entryCounter, actions, peerActionCounter, inQueue>>
        \/ /\ running /\ dict[p].peerState # "waiting"
           /\ timers' = timers \ {a}
           /\ uncaught' = uncaught \cup {"notWaiting"}
           /\ UNCHANGED <<dict, entryCounter, actions, peerActionCounter, inQueue>>
        \/ /\ running /\ dict[p].peerState = "waiting"
           /\ CreateNewAction(p, dict[p], timers \ {a})
     /\ UNCHANGED <<running, poolStopped, advertised, appearances>>

\* An exception nobody catches ends the process.
Next ==
  /\ uncaught = {}
  /\ \/ Start \/ StartAgain \/ Stop \/ PoolStop
     \/ \E p \in Peers : PeerAppears(p) \/ PeerGone(p)
     \/ \E a \in ActionIds : \/ BeginRequest(a) \/ RequestThrows(a)
                            \/ Reap(a) \/ TimerFires(a)
                            \/ \E res \in HttpOutcomes : Complete(a, res)

Spec == Init /\ [][Next]_vars

\* Promise callbacks run and timers fire; nothing is assumed of the remote
\* peers, of thaliMobile or of who calls start and stop.
Callback(a) == uncaught = {} /\ (BeginRequest(a) \/ Reap(a) \/ TimerFires(a))

LiveSpec == Spec /\ \A a \in ActionIds : WF_vars(Callback(a))

-----------------------------------------------------------------------------
(* Properties *)

\* Every variable keeps to its type.
TypeOK ==
  /\ running \in BOOLEAN /\ poolStopped \in BOOLEAN
  /\ dict \in [Peers -> Entry]
  /\ entryCounter \in Nat
  /\ actions \in [ActionIds -> Action]
  /\ peerActionCounter \in {0} \cup ActionIds
  /\ timers \subseteq ActionIds /\ inQueue \subseteq ActionIds
  /\ advertised \subseteq [heard : ActionIds, address : ActionIds \cup {NoAction}]
  /\ appearances \in 0 .. MaxAppearances
  /\ uncaught \subseteq Exceptions

\* No handler ever throws: a retry timer never fires for a peer that has been
\* removed, evicted or resolved, nor after stop, no enqueue reaches a stopped
\* pool, and the pool's queue is empty when it starts again.
NoUncaught == uncaught = {}

\* A peer that is not yet resolved has a request under way whose result will
\* be heard, or an armed timer that will make one: nothing is forgotten.
NoStuckPeer ==
  \A p \in Known : dict[p].peerState # "resolved" =>
    \/ Unresolved(dict[p].action) /\ actions[dict[p].action].listening
    \/ dict[p].timer \in timers

\* At most one request for the beacons of a peer is under way, across
\* retries, removals and new announcements of that peer.
OneRequestPerPeer ==
  \A a, b \in Allocated :
    Unresolved(a) /\ Unresolved(b) /\ actions[a].peer = actions[b].peer => a = b

\* When stop returns no timer is armed and every request has been killed.
QuietAfterStop ==
  ~running => timers = {} /\ \A a \in Allocated : ~Unresolved(a)

\* The pool can kill whatever is still at work: an unresolved action is in the
\* queue of a pool that is started.
PoolOwnsRequests ==
  \A a \in Allocated : Unresolved(a) => a \in inQueue /\ ~poolStopped

\* The address that goes out with PeerAdvertisesDataForUs is the one the
\* beacons were fetched from, never that of a later action of the same peer,
\* and an action is advertised only once.
AdvertisedOwnAddress == \A e \in advertised : e.heard = e.address

\* The dictionary never outgrows MAXSIZE.
DictionaryBounded == Cardinality(Known) <= MAXSIZE

\* A peer that makes room for another is of the most dispensable kind there is
\* (resolved, then waiting, then controlled by the pool), and the one of that
\* kind that has been left alone longest.
Rank(p) == CASE dict[p].peerState = "resolved" -> 0
             [] dict[p].peerState = "waiting" -> 1
             [] OTHER -> 2

EvictsMostDispensable ==
  [][\A q \in Known, p \in Peers :
       p \notin Known /\ dict'[p].peerState # "absent"
                      /\ dict'[q].peerState = "absent"
         => \A r \in Known \ {q} :
              /\ dict'[r].peerState # "absent"
              /\ \/ Rank(q) < Rank(r)
                 \/ Rank(q) = Rank(r) /\ dict[q].number < dict[r].number]_vars

\* What the client does about a peer, as PeerFollowUp has it: a request that runs
\* counts, whatever the entry calls its state.
Status(p) ==
  IF p \notin Known THEN "unknown"
  ELSE IF Unresolved(dict[p].action) THEN "asking"
  ELSE IF dict[p].peerState # "resolved" THEN "waiting"
  ELSE IF actions[dict[p].action].resolution \in Final THEN "answered" ELSE "givenUp"

Tries(p) == IF p \in Known THEN dict[p].retries ELSE 0

FollowUp == INSTANCE PeerFollowUp WITH
  up <- running,
  status <- [p \in Peers |-> Status(p)],
  tries <- [p \in Peers |-> Tries(p)]

\* The client implements PeerFollowUp: whatever timers, kills, late answers and
\* evictions do, each peer is asked, retried, given up or forgotten as promised, and
\* a failed request is followed up, whatever the remote peers do.
FollowsUp == FollowUp!Promise

\* The inductive invariant of a client that is started once before each stop.

\* An unresolved action is the current, audible action of a live entry.
UnresolvedIsCurrent ==
  \A a \in Allocated : Unresolved(a) =>
    /\ a \in inQueue
    /\ actions[a].listening
    /\ dict[actions[a].peer].action = a
    /\ dict[actions[a].peer].peerState \in {"controlledByPool", "waiting"}

\* An entry's action is that peer's; an armed timer is that of a waiting entry
\* and of the action whose failure armed it.
EntriesAndTimers ==
  /\ \A p \in Known : /\ dict[p].action \in Allocated
                      /\ actions[dict[p].action].peer = p
                      /\ dict[p].timer # NoAction =>
                           /\ dict[p].timer \in Allocated
                           /\ actions[dict[p].timer].peer = p
  /\ \A a \in timers : /\ a \in Allocated /\ ~Unresolved(a)
                       /\ dict[actions[a].peer].peerState = "waiting"
                       /\ dict[actions[a].peer].action = a
                       /\ dict[actions[a].peer].timer = a

StoppedIsEmpty ==
  /\ ~running => Known = {}
  /\ running => ~poolStopped
  /\ poolStopped => inQueue = {}
  /\ inQueue \subseteq Allocated

\* The parts together: what every theorem about the client rests on.
IInv ==
  /\ TypeOK /\ NoUncaught /\ UnresolvedIsCurrent
  /\ EntriesAndTimers /\ StoppedIsEmpty /\ NoStuckPeer

\* What the code does not keep.

\* thaliPeerDictionary.js says of WAITING that the request failed and the
\* client waits before it tries again: no request is under way.
WaitingMeansNoRequest ==
  \A p \in Known : dict[p].peerState = "waiting" => ~Unresolved(dict[p].action)

\* thaliNotificationAction.js says the request is aborted when the http
\* request timeout happens: every request that is out comes to an end.
RequestsEnd ==
  \A a \in ActionIds : (actions[a].promise = "open") ~> (actions[a].promise # "open")

=============================================================================
