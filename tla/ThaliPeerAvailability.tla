----------------------- MODULE ThaliPeerAvailability -----------------------
(***************************************************************************)
(* From an advertisement heard on the radio to a peer known to the         *)
(* notification client.  A native advertisement is queued by               *)
(* thaliMobileNativeWrapper, gets a local TCP listener from the            *)
(* TCPServersManager and ends in thaliMobile's peer cache; an              *)
(* advertisement heard on Wi-Fi goes to the cache at once.  thaliMobile    *)
(* announces what changed to the client.  A listener whose native link     *)
(* breaks is closed and recreated, with announcements of its own that      *)
(* bypass the cache.                                                       *)
(*                                                                         *)
(* Code: thaliMobile.js, thaliMobileNativeWrapper.js, promiseQueue.js,     *)
(* mux/createPeerListener.js, mux/thaliTcpServersManager.js.               *)
(***************************************************************************)
EXTENDS Naturals, Sequences, FiniteSets

CONSTANTS
  NativePeers,  \* peers heard of over Bluetooth or the multipeer framework
  WifiPeers,    \* peers heard of over Wi-Fi
  Ports,        \* port numbers; the host address adds nothing to them
  MaxQueue,     \* bound: events waiting in the wrapper, in each queue
  Conditions    \* sets of what a behaviour may meet: links that break ("link"),
                \* listeners that fail ("listen"), stops, peers on Wi-Fi

Peers == NativePeers \cup WifiPeers
None  == 0

ASSUME AvailabilityAssumption ==
  /\ NativePeers \cap WifiPeers = {}
  /\ Ports \subseteq Nat \ {None}
  /\ MaxQueue \in Nat \ {0}
  /\ Conditions \subseteq SUBSET {"link", "listen", "stop", "wifi"}

VARIABLES
  phase,        \* how far thaliMobile.stop has come
  servers,      \* TCPServersManager._peerServers
  queue,        \* peerAvailabilityChangedQueue, the task that runs at its head
  busy,         \* the head has called createPeerListener and waits for it
  poisoned,     \* promise queues whose globalPromise is rejected for ever
  ticks,        \* peers whose listener is recreated at the next tick
  replies,      \* settled createPeerListener promises, in order
  terminations, \* terminateListener calls waiting in gPromiseQueue; a late
                \* one was queued behind the wrapper's stop
  cache,        \* peerAvailabilities: the port of each cached peer
  watcher,      \* peerAvailabilityWatchers
  known,        \* the port the client has in its PeerDictionary
  asserted,     \* a peer was announced to a client that has it already
  heard,        \* peers advertised since their watcher last looked
  conditions    \* what this behaviour may meet

native == <<phase, servers, queue, busy, poisoned, ticks, replies,
            terminations>>
mobile == <<cache, watcher, known, asserted, heard>>
state  == <<native, mobile>>
vars   == <<state, conditions>>

-----------------------------------------------------------------------------
\* "stopping": thaliMobile.stop ran, the wrapper's stop waits in its queue.
\* "closing": the wrapper has started := false and waits for the native
\* stops.  "stopped": gServersManager is null.
Phases == {"running", "stopping", "closing", "stopped"}

Started    == phase \in {"running", "stopping"}
HasManager == phase # "stopped"

\* What handlePeerAvailabilityChanged is called for: a peer heard, a peer
\* lost, a listener closed that is about to be recreated.
Kinds == {"available", "gone", "recreated"}
Task  == [peer : NativePeers, kind : Kinds]

\* Who calls createPeerListener.  A recreation's handler goes with its manager.
Callers == {"queue", "recreate"}
Reply   == [to : Callers \cup {"nobody"}, peer : NativePeers,
            port : Ports \cup {None}]

\* "deaf": listen reported an error and the entry stayed in _peerServers.
NoServer == [state |-> "none", port |-> None, waiters |-> <<>>,
             linked |-> FALSE]
Server   == [state : {"none", "opening", "listening", "deaf"},
             port : Ports \cup {None}, waiters : Seq(Callers),
             linked : BOOLEAN]

\* The interval's argument is the object that was cached when it was set up;
\* current says whether it is still the cached one, fresh whether its
\* availableSince moved since the interval last fired.
NoWatcher == [set |-> FALSE, fresh |-> FALSE, current |-> FALSE]
Watcher   == [set : BOOLEAN, fresh : BOOLEAN, current : BOOLEAN]

Cached(p) == cache[p] # None
Knows(p)  == known[p] # None

-----------------------------------------------------------------------------
(* thaliMobile: the cache, the watchers and the announcements *)

\* The client's handler: a peer that is announced twice fails its assertion.
Announce(p, port, withdrawn) ==
  IF Knows(p) /\ ~withdrawn
  THEN asserted' = TRUE /\ UNCHANGED known
  ELSE known' = [known EXCEPT ![p] = port] /\ UNCHANGED asserted

Withdraw(S) ==
  known' = [p \in Peers |-> IF p \in S THEN None ELSE known[p]]

\* removeAvailabilityWatcherFromPeerIfExists
RemoveWatchers(S) ==
  watcher' = [p \in Peers |-> IF p \in S THEN NoWatcher ELSE watcher[p]]

\* addAvailabilityWatcherToPeerIfNotExist for a new object: an interval that exists
\* already stays with the object it had.
WithWatcher(w) ==
  IF w.set THEN [w EXCEPT !.current = FALSE]
  ELSE [set |-> TRUE, fresh |-> FALSE, current |-> TRUE]

\* The cached object of a peer is renewed; the watcher may no longer look at it.
Renewed(p) == [watcher[p] EXCEPT !.fresh = @ \/ watcher[p].current]

\* Broken: the peer leaves the cache and its interval keeps running.
UncacheKeepsWatcher(S) ==
  /\ cache' = [p \in Peers |-> IF p \in S THEN None ELSE cache[p]]
  /\ heard' = heard \ S
  /\ UNCHANGED watcher

\* changeCachedPeerUnavailable
Uncache(S) ==
  /\ cache'   = [p \in Peers |-> IF p \in S THEN None ELSE cache[p]]
  /\ RemoveWatchers(S)
  /\ heard'   = heard \ S

\* Broken: the client is not told.
LoseSilently(S) == Uncache(S) /\ UNCHANGED <<known, asserted>>

\* Each peer of S is uncached and withdrawn from the client.
Lose(S) == Uncache(S) /\ Withdraw(S) /\ UNCHANGED asserted

\* Broken: a repeated advertisement counts for nothing.
RefreshLost(p) ==
  /\ heard' = heard \cup {p}
  /\ UNCHANGED <<cache, watcher, known, asserted>>

\* An advertisement that changes nothing renews availableSince of the cached
\* object.
Refresh(p) ==
  /\ heard'   = heard \cup {p}
  /\ watcher' = [watcher EXCEPT ![p] = Renewed(p)]
  /\ UNCHANGED <<cache, known, asserted>>

\* Broken: an address change is announced without withdrawing the old one.
RecacheWithoutWithdrawal(p, port) ==
  /\ cache'   = [cache EXCEPT ![p] = port]
  /\ watcher' = [watcher EXCEPT ![p] = WithWatcher(Renewed(p))]
  /\ heard'   = IF Cached(p) THEN heard \cup {p} ELSE heard \ {p}
  /\ Announce(p, port, FALSE)

\* changeCachedPeerAvailable: the new object is cached.  When the address changed,
\* updateAndCheckChanges has renewed the old object and withdrawn the peer.
Recache(p, port) ==
  /\ cache'   = [cache EXCEPT ![p] = port]
  /\ watcher' = [watcher EXCEPT ![p] = WithWatcher(Renewed(p))]
  /\ heard'   = IF Cached(p) THEN heard \cup {p} ELSE heard \ {p}
  /\ Announce(p, port, Cached(p))

\* handlePeer for a peer that can be reached at port.
HandleAvailable(p, port) ==
  IF cache[p] = port THEN Refresh(p) ELSE Recache(p, port)

\* handlePeer for an event with the recreated flag and no address.
HandleClosed(p) ==
  /\ Withdraw(IF Cached(p) THEN {p} ELSE {})
  /\ UNCHANGED <<cache, watcher, asserted, heard>>

\* terminateListener is called, and waits in gPromiseQueue, behind a stop if there
\* is one.
Terminates(p, port) ==
  terminations' = terminations \cup
    {[peer |-> p, port |-> port, late |-> phase = "stopping"]}

\* handlePeer for an event with the recreated flag and an address: the cache
\* is consulted, not updated; the listener of an uncached peer is terminated.
HandleRecreated(p, port) ==
  IF Cached(p)
  THEN /\ Announce(p, port, FALSE)
       /\ UNCHANGED <<cache, watcher, heard, terminations>>
  ELSE Terminates(p, port) /\ UNCHANGED mobile

-----------------------------------------------------------------------------
(* createPeerListener and the promise it returns *)

\* Broken: a call that comes while the listener opens is not remembered.
CreatePeerListenerForgets(p, caller) ==
  IF servers[p].state = "none"
  THEN /\ servers' = [servers EXCEPT ![p] =
            [NoServer EXCEPT !.state = "opening", !.waiters = <<caller>>]]
       /\ UNCHANGED replies
  ELSE IF servers[p].state = "listening"
  THEN /\ replies' = Append(replies, [to |-> caller, peer |-> p,
                                      port |-> servers[p].port])
       /\ UNCHANGED servers
  ELSE UNCHANGED <<servers, replies>>

CreatePeerListener(p, caller) ==
  IF servers[p].state = "none"
  THEN /\ servers' = [servers EXCEPT ![p] =
            [NoServer EXCEPT !.state = "opening", !.waiters = <<caller>>]]
       /\ UNCHANGED replies
  ELSE IF servers[p].state = "listening"
  THEN /\ replies' = Append(replies, [to |-> caller, peer |-> p,
                                      port |-> servers[p].port])
       /\ UNCHANGED servers
  ELSE /\ servers' = [servers EXCEPT ![p].waiters = Append(@, caller)]
       /\ UNCHANGED replies

FreePorts == {n \in Ports : \A p \in NativePeers : servers[p].port # n}

\* The listening callback: successfulStartup.
Listens(p) ==
  /\ servers[p].state = "opening"
  /\ \E n \in FreePorts :
       /\ servers' = [servers EXCEPT ![p] =
            [NoServer EXCEPT !.state = "listening", !.port = n]]
       /\ replies' = replies \o
            [i \in 1 .. Len(servers[p].waiters) |->
               [to |-> servers[p].waiters[i], peer |-> p, port |-> n]]
  /\ UNCHANGED <<phase, queue, busy, poisoned, ticks, terminations, mobile>>

\* Broken: the rejection of a recreation is taken for a port.
ListenFailsTellsAll(p) ==
  /\ "listen" \in conditions
  /\ servers[p].state = "opening"
  /\ servers' = [servers EXCEPT ![p] = [NoServer EXCEPT !.state = "deaf"]]
  /\ replies' = replies \o
       [i \in 1 .. Len(servers[p].waiters) |->
          [to |-> servers[p].waiters[i], peer |-> p, port |-> None]]
  /\ UNCHANGED <<phase, queue, busy, poisoned, ticks, terminations, mobile>>

\* The error callback: failedStartup.  A recreation only logs its rejection.
ListenFails(p) ==
  /\ "listen" \in conditions
  /\ servers[p].state = "opening"
  /\ servers' = [servers EXCEPT ![p] = [NoServer EXCEPT !.state = "deaf"]]
  /\ replies' = replies \o
       [i \in 1 .. Cardinality({"queue"} \cap {servers[p].waiters[j] :
                                   j \in 1 .. Len(servers[p].waiters)}) |->
          [to |-> "queue", peer |-> p, port |-> None]]
  /\ UNCHANGED <<phase, queue, busy, poisoned, ticks, terminations, mobile>>

\* The first connection to a listener, from a client that was told its port,
\* makes the native link (connectToRemotePeer, server._firstConnection).
FirstConnection(p) ==
  /\ "link" \in conditions
  /\ servers[p].state = "listening" /\ ~servers[p].linked
  /\ known[p] = servers[p].port
  /\ servers' = [servers EXCEPT ![p].linked = TRUE]
  /\ UNCHANGED <<phase, queue, busy, poisoned, ticks, replies, terminations,
                 mobile>>

\* failedConnectionHandler: in an idle queue the event has its turn before the
\* recreation can get anywhere; otherwise it waits behind the others.
FailedConnection(p) ==
  IF ~Started
  THEN UNCHANGED <<queue, mobile>>
  ELSE IF queue = <<>>
  THEN HandleClosed(p) /\ UNCHANGED queue
  ELSE /\ Len(queue) < MaxQueue
       /\ queue' = Append(queue, [peer |-> p, kind |-> "recreated"])
       /\ UNCHANGED mobile

\* closeServer with an error and canRetry: the native link could not be made
\* or was closed.  That is an I/O event, so the tick of an earlier closeServer
\* is over.
LinkBreaks(p) ==
  /\ servers[p].state = "listening" /\ servers[p].linked
  /\ p \notin ticks
  /\ Len(replies) < MaxQueue
  /\ servers' = [servers EXCEPT ![p] = NoServer]
  /\ ticks' = ticks \cup {p}
  /\ FailedConnection(p)
  /\ UNCHANGED <<phase, busy, poisoned, replies, terminations>>

\* The callback that closeServer left with process.nextTick.
RecreateTick(p) ==
  /\ p \in ticks
  /\ ticks' = ticks \ {p}
  /\ CreatePeerListener(p, "recreate")
  /\ UNCHANGED <<phase, queue, busy, poisoned, terminations, mobile>>

-----------------------------------------------------------------------------
(* thaliMobileNativeWrapper: the queue of announcements *)

\* peerAvailabilityChanged from the native layer; dropped unless started.
NativeEvent(p, kind) ==
  /\ Started
  /\ Len(queue) < MaxQueue
  /\ queue' = Append(queue, [peer |-> p, kind |-> kind])
  /\ UNCHANGED <<phase, servers, busy, poisoned, ticks, replies,
                 terminations, mobile>>

\* The head of the queue gets its turn.  Without a servers manager the call
\* throws, and the queue never runs anything again.
RunAvailable ==
  /\ queue # <<>> /\ ~busy /\ "announcements" \notin poisoned
  /\ Head(queue).kind = "available"
  /\ IF HasManager
     THEN /\ CreatePeerListener(Head(queue).peer, "queue")
          /\ busy' = TRUE
          /\ UNCHANGED poisoned
     ELSE /\ poisoned' = poisoned \cup {"announcements"}
          /\ UNCHANGED <<servers, replies, busy>>
  /\ UNCHANGED <<phase, queue, ticks, terminations, mobile>>

\* Broken: handlePeerUnavailable does not call resolve.
RunUnavailableNoResolve ==
  /\ queue # <<>> /\ ~busy /\ "announcements" \notin poisoned
  /\ LET p == Head(queue).peer IN
       \/ Head(queue).kind = "gone"      /\ Lose({p})
       \/ Head(queue).kind = "recreated" /\ HandleClosed(p)
  /\ busy' = TRUE
  /\ UNCHANGED <<phase, servers, queue, poisoned, ticks, replies,
                 terminations>>

\* handlePeerUnavailable and what thaliMobile does with its event.
RunUnavailable ==
  /\ queue # <<>> /\ ~busy /\ "announcements" \notin poisoned
  /\ LET p == Head(queue).peer IN
       \/ Head(queue).kind = "gone"      /\ Lose({p})
       \/ Head(queue).kind = "recreated" /\ HandleClosed(p)
  /\ queue' = Tail(queue)
  /\ UNCHANGED <<phase, servers, busy, poisoned, ticks, replies,
                 terminations>>

\* The promise that the head of the queue waited for is settled.
QueueReply ==
  /\ replies # <<>> /\ Head(replies).to = "queue"
  /\ LET r == Head(replies) IN
       IF r.port = None THEN Lose({r.peer})
                        ELSE HandleAvailable(r.peer, r.port)
  /\ replies' = Tail(replies)
  /\ queue' = Tail(queue)
  /\ busy' = FALSE
  /\ UNCHANGED <<phase, servers, poisoned, ticks, terminations>>

\* listenerRecreatedAfterFailureHandler, if it is still there: it does not go
\* through the queue.
RecreateReply ==
  /\ replies # <<>> /\ Head(replies).to \in {"recreate", "nobody"}
  /\ IF Started /\ Head(replies).to = "recreate"
     THEN HandleRecreated(Head(replies).peer, Head(replies).port)
     ELSE UNCHANGED <<terminations, mobile>>
  /\ replies' = Tail(replies)
  /\ UNCHANGED <<phase, servers, queue, busy, poisoned, ticks>>

\* terminateListener gets its turn in gPromiseQueue, after the wrapper's stop
\* when it was queued behind that.  It throws, and poisons the queue, without
\* a manager and for a listener that has no address yet.
TerminateListener(t) ==
  /\ t \in terminations /\ "calls" \notin poisoned
  /\ t.late => phase = "stopped"
  /\ terminations' = terminations \ {t}
  /\ IF ~HasManager \/ servers[t.peer].state \in {"opening", "deaf"}
     THEN poisoned' = poisoned \cup {"calls"} /\ UNCHANGED servers
     ELSE /\ servers' = IF servers[t.peer].port = t.port
                        THEN [servers EXCEPT ![t.peer] = NoServer]
                        ELSE servers
          /\ UNCHANGED poisoned
  /\ UNCHANGED <<phase, queue, busy, ticks, replies, mobile>>

-----------------------------------------------------------------------------
(* Wi-Fi, radios, watchers, stop and start *)

\* wifiPeerAvailabilityChanged
WifiEvent(p, port) ==
  /\ "wifi" \in conditions
  /\ Started
  /\ IF port = None THEN Lose({p}) ELSE HandleAvailable(p, port)
  /\ UNCHANGED native

\* handleNetworkChanged: a radio was turned off.
RadioOff(S) ==
  /\ phase = "running"
  /\ Lose({p \in S : Cached(p)})
  /\ UNCHANGED native

\* watchForPeerAvailability, once per unavailability threshold.
WatcherFires(p) ==
  /\ watcher[p].set
  /\ IF watcher[p].fresh
     THEN /\ watcher' = [watcher EXCEPT ![p].fresh = FALSE]
          /\ heard' = heard \ {p}
          /\ UNCHANGED <<cache, known, asserted>>
     ELSE Lose({p})
  /\ UNCHANGED native

\* thaliMobile.stop
MobileStop ==
  /\ "stop" \in conditions
  /\ phase = "running"
  /\ phase' = "stopping"
  /\ Lose({p \in Peers : Cached(p)})
  /\ UNCHANGED <<servers, queue, busy, poisoned, ticks, replies,
                 terminations>>

\* thaliMobileNativeWrapper.stop gets its turn in gPromiseQueue.
WrapperStop ==
  /\ phase = "stopping" /\ "calls" \notin poisoned
  /\ \A t \in terminations : t.late
  /\ phase' = "closing"
  /\ UNCHANGED <<servers, queue, busy, poisoned, ticks, replies,
                 terminations, mobile>>

\* stopServersManager: no listener of the manager is ever heard of again.
ManagerStop ==
  /\ phase = "closing"
  /\ phase' = "stopped"
  /\ servers' = [p \in NativePeers |-> NoServer]
  /\ ticks' = {}
  /\ replies' = [i \in 1 .. Len(replies) |->
                   IF replies[i].to = "queue" THEN replies[i]
                   ELSE [replies[i] EXCEPT !.to = "nobody"]]
  /\ UNCHANGED <<queue, busy, poisoned, terminations, mobile>>

\* thaliMobile.start and thaliMobileNativeWrapper.start
StartAgain ==
  /\ phase = "stopped" /\ "calls" \notin poisoned
  /\ terminations = {}
  /\ phase' = "running"
  /\ UNCHANGED <<servers, queue, busy, poisoned, ticks, replies,
                 terminations, mobile>>

-----------------------------------------------------------------------------
Init ==
  /\ phase = "running"
  /\ servers = [p \in NativePeers |-> NoServer]
  /\ queue = <<>> /\ busy = FALSE /\ poisoned = {}
  /\ ticks = {} /\ replies = <<>> /\ terminations = {}
  /\ cache = [p \in Peers |-> None]
  /\ watcher = [p \in Peers |-> NoWatcher]
  /\ known = [p \in Peers |-> None]
  /\ asserted = FALSE /\ heard = {}
  /\ conditions \in Conditions

Step ==
  \/ \E p \in NativePeers :
       \/ \E kind \in {"available", "gone"} : NativeEvent(p, kind)
       \/ Listens(p) \/ ListenFails(p) \/ FirstConnection(p)
       \/ LinkBreaks(p) \/ RecreateTick(p)
  \/ RunAvailable \/ RunUnavailable \/ QueueReply \/ RecreateReply
  \/ \E t \in terminations : TerminateListener(t)
  \/ \E p \in WifiPeers, port \in Ports \cup {None} : WifiEvent(p, port)
  \/ RadioOff(NativePeers) \/ RadioOff(WifiPeers)
  \/ \E p \in Peers : WatcherFires(p)
  \/ MobileStop \/ WrapperStop \/ ManagerStop \/ StartAgain

Next == Step /\ UNCHANGED conditions

Spec == Init /\ [][Next]_vars

\* Everything that only waits for the event loop eventually happens; the
\* radios, the links and the watchers owe nobody anything.
LiveSpec ==
  /\ Spec
  /\ \A p \in NativePeers : WF_state(Listens(p)) /\ WF_state(RecreateTick(p))
  /\ WF_state(RunAvailable) /\ WF_state(RunUnavailable)
  /\ WF_state(QueueReply) /\ WF_state(RecreateReply)

-----------------------------------------------------------------------------
(* Properties *)

\* The variables keep their types.
TypeOK ==
  /\ phase \in Phases
  /\ servers \in [NativePeers -> Server]
  /\ queue \in Seq(Task) /\ busy \in BOOLEAN
  /\ poisoned \subseteq {"announcements", "calls"}
  /\ ticks \subseteq NativePeers
  /\ replies \in Seq(Reply)
  /\ terminations \subseteq [peer : NativePeers, port : Ports, late : BOOLEAN]
  /\ cache \in [Peers -> Ports \cup {None}]
  /\ watcher \in [Peers -> Watcher]
  /\ known \in [Peers -> Ports \cup {None}]
  /\ asserted \in BOOLEAN
  /\ heard \subseteq Peers

\* A peer the client believes in is in the cache: otherwise no radio that is
\* turned off, no watcher and no stop would ever withdraw it.  Announcements
\* of recreated listeners bypass the cache (handlePeer, peer.recreated).
KnownIsCached == \A p \in Peers : Knows(p) => Cached(p)

\* A cached peer has an interval that can expire it, and an interval that
\* still runs has a peer to expire (changeCachedPeerAvailable and
\* changeCachedPeerUnavailable, over every path that reaches them).
WatchedIffCached == \A p \in Peers : watcher[p].set <=> Cached(p)

\* Client, cache and watchers agree on who is there, whatever links, listeners
\* and stops do to announcements under way.
BooksAgree == TypeOK /\ KnownIsCached /\ WatchedIffCached

\* createPeerListener promises made to the queue and not delivered yet; one
\* that waits for a listener that is deaf will never be.
Owed(p) ==
  Cardinality({i \in 1 .. Len(replies) :
                 replies[i].to = "queue" /\ replies[i].peer = p})
  + Cardinality({i \in 1 .. Len(servers[p].waiters) :
                   servers[p].state = "opening"
                     /\ servers[p].waiters[i] = "queue"})

\* While the head of the queue waits for its listener exactly one promise is
\* owed, to that peer; nobody else is owed any.  A head that is owed nothing
\* blocks every later announcement for ever.
HeadIsOwed ==
  \A p \in NativePeers :
    Owed(p) = IF busy /\ Head(queue).peer = p THEN 1 ELSE 0

\* Broken links and Wi-Fi alone never leave the head unserved; a listener that
\* fails to open or a stop does.
HeadIsServed == conditions \cap {"listen", "stop"} = {} => HeadIsOwed

\* The client's assertion that a peer is announced once until it is withdrawn
\* (thaliNotificationClient.js, _peerAvailabilityChanged) never fails.
NeverAsserted == ~asserted

\* Without broken links, failing listeners and stops that is so.
NoRepeatedAnnouncement == conditions \subseteq {"wifi"} => NeverAsserted

\* A watcher that looks at the cached object drops no peer that was
\* advertised since it last looked.
SilentBeforeDropped ==
  [][\A p \in Peers :
       WatcherFires(p) /\ watcher[p].current /\ p \in heard
         => cache'[p] = cache[p]]_vars

\* As above without the condition on the object: what the comment in
\* watchForPeerAvailability promises of every peer.
AdvertisedIsKept ==
  [][\A p \in Peers :
       WatcherFires(p) /\ p \in heard => cache'[p] = cache[p]]_vars

\* When nothing is under way, a peer the client knows has a listener at the
\* port the client knows it by, or one is waiting to be terminated.
AtRest ==
  /\ queue = <<>> /\ ticks = {} /\ replies = <<>> /\ terminations = {}
  /\ \A p \in NativePeers : servers[p].state # "opening"

KnownHasListener ==
  AtRest /\ phase = "running" =>
    \A p \in NativePeers :
      Knows(p) => servers[p].state = "listening" /\ servers[p].port = known[p]

\* Once the native stop methods have been called no peer is announced.
SilentAfterStop ==
  [][~Started => \A p \in NativePeers : Knows(p)' => Knows(p)]_vars

\* gPromiseQueue, which start and stop wait in, goes on running what is put
\* into it.
CallsAreRun == "calls" \notin poisoned

\* A peer whose advertisement was queued is eventually in the cache.
AdvertisedIsCached ==
  \A p \in NativePeers :
    (conditions \cap {"listen", "stop"} = {} /\
     \E i \in 1 .. Len(queue) : queue[i] = [peer |-> p, kind |-> "available"])
      ~> Cached(p)

=============================================================================
