# Thali: a TLA+ verification project

Thali (`src/`) lets devices that belong to users who know each other exchange
PouchDB data over whatever radio is at hand, without a server. The core is
`src/thali/NextGeneration`, JavaScript that runs in one event loop above a
native layer for Android or iOS. Paths below are relative to that directory
unless they start with `src/`.

The code is small and its control is hard: one thread (in the Android layer
several), but a dozen components that talk by callbacks, events, promises,
timers and promise queues, whose continuations run in an order nobody wrote
down; peers and links that come and go; and a stop that overtakes all of it.
That is what is modelled: the order of handlers, continuations and callbacks.
Cryptography, encodings and the wording of errors and logs are not.

## 1. The system

```
  Thali manager                                     identity exchange (REST)
    |-- pull replication ----> notification client ----> peer pool <---- replication
    |          ^                     ^    (fetches beacons)  (runs)         actions
    |          |__PeerAdvertisesDataForUs__|
    |-- send notification -> notification server (beacons, secrets, access list)
    '-- thaliMobile  (peer cache, watchers)
           |-- native wrapper -- TCP servers manager -- peer listeners (mux)
           |        |                  '------- native listener (mux) -> router
           |        '-- native layer: Android, iOS
           '-- Wi-Fi infrastructure (SSDP, HTTPS router server)
```

| component | code | state it keeps | operations | module |
|---|---|---|---|---|
| notification client | `notification/thaliNotificationClient.js` | running or not, the dictionary | start, stop, peerAvailabilityChanged, `_resolved`, retry timer | `ThaliNotificationClient` |
| peer dictionary | `notification/thaliPeerDictionary.js` | at most MAXSIZE entries: state, action, timer, retries, age | add, remove, removeAll, eviction | same |
| notification action | `notification/thaliNotificationAction.js`, `thaliPeerPool/thaliPeerAction.js` | state, resolution, request, promise | start, kill, complete | same |
| default pool | `thaliPeerPool/thaliPeerPoolDefault.js` | stopped, `_inQueue` | enqueue, start, stop | same |
| one-at-a-time pool | `thaliPeerPool/thaliPeerPoolOneAtATime.js` | Wi-Fi counts, Bluetooth slot and queue | enqueue, start, stop, retries | `ThaliPeerPoolOneAtATime` |
| pull replication | `replication/thaliPullReplicationFromNotification.js` | actions not started yet | start, stop, new data | same |
| replication action | `replication/thaliReplicationPeerAction.js` | live replication, idle timer, promise | start, kill, clone, waitUntilKilled | same |
| thaliMobile | `thaliMobile.js` | peer cache, watchers; queue of calls, started, listening, advertising | availability events, watchers; network changes, start, stop and the other calls | `ThaliPeerAvailability`; `ThaliManager` |
| native wrapper | `thaliMobileNativeWrapper.js` | two promise queues, servers manager, router server | native events, terminateListener; start, stop, discovery, advertising, failing ports | same two |
| servers manager, peer listeners | `mux/thaliTcpServersManager.js`, `mux/createPeerListener.js` | one listener per peer, promises waiting for it; its native connection, multiplex object, streams | create, open, fail, break, recreate, terminate; accept, connect, multiplex, close | `ThaliPeerAvailability`; `CreatePeerListener` |
| native listener | `mux/createNativeListener.js` | incoming links, their multiplex objects, streams, router connections | accept, stream, timeout, close, closeAll | `CreateNativeListener` |
| Wi-Fi infrastructure | `thaliWifiInfrastructure.js` | target and current states, radio | start, stop, start/stop listening and advertising, radio changes | `ThaliWifiInfrastructure` |
| promise queue | `promiseQueue.js` | the chain and the array | enqueue, enqueueAtTop | inside its users' modules |
| Thali manager | `thaliManager.js` | STARTING, STARTED, STOPPING, STOPPED | start, stop, overlapping | `ThaliManager` |
| sequence points | `replication/localSeqManager.js` | last number sent, revision, timer, requests | update, stop | `LocalSeqManager` |
| send notification | `replication/thaliSendNotificationBasedOnReplication.js` | state, promise queue, refresh timer, change listener | start, stop, refresh | `ThaliSendNotification`; its calls of thaliMobile in `ThaliManager` |
| notification server, beacons, PSK cache | `notification/thaliNotificationServer.js`, `thaliNotificationBeacons.js`, `thaliPskMapCache.js` | beacons served, the last secrets and when they expire | start, stop, the two PSK callbacks, the HTTP handler | `ThaliNotificationServer`, `ThaliNotificationBeacons`, `ThaliPskMapCache` |
| access control | the filter and the list in `thaliManager.js`; `security/thaliACLLayer.js` is an empty stub | none | role, path and verb, owner of a sequence point | `ThaliNotificationServer` |
| identity exchange | `identityExchange/*` | its state machine, those of the larger and the smaller hash, the REST front end's promise chain | start, stop, execute, stop executing; `/cb`, `/rnmine`; PUT, GET, DELETE | `IdentityExchange` and the four modules around it |
| Android, connections | `src/src/android/java/io/jxcore/node/Connection*.java`, `*Thread*.java` | outgoing and incoming threads, callbacks of connect | connect, stop, library events, three threads per connection | `ConnectionHelper` |
| Android, start and stop, discovery; iOS | the rest of `src/src/android`, `src/src/ios` | pending start and stop; sessions, relays | | not modelled, section 6 |

How they interact. The radio's news goes up: native events and SSDP messages
become announcements in thaliMobile, which keeps what it announced in a cache,
expires it by watchers and tells the notification client. For native peers the
announcement waits in a promise queue until a local TCP listener for the peer is
open; a link that breaks withdraws the peer and recreates the listener, whose
announcement goes past queue and cache. The client puts a notification action
for each peer into the pool. When the beacons name us, the client emits
PeerAdvertisesDataForUs and pull replication puts a replication action into the
same pool. Its HTTP requests go to the local listener, whose first connection
makes the native layer connect; all share one multiplexed native connection, at
whose other end the native listener opens a connection to the router for each
stream, where filter and access list decide by the identity of the beacon. Stop
runs down: pull replication (which stops the client), pool, thaliMobile, which
withdraws every peer, then the wrapper.

What is hard, and what makes each part correct:

* client: late timers, late answers and kills meet an entry that was replaced.
  Each must find the entry it belongs to; no peer may be forgotten without a
  request, a timer or a result; a stop must leave nothing at work.
* dictionary: at its limit it must evict the entry that is least needed, and
  with it its timer and its request.
* pools: counts must stay exact over failure, retry, timeout and stop; Bluetooth
  carries one conversation at a time; the queue must go on moving.
* availability: client, cache and watchers must agree on who is there while
  events, link failures and recreations overtake each other.
* multiplexed links: a connection arrives while its tunnel is being made, and a
  tunnel may end at either end, before or after it was made. Nothing may be left
  behind on either device, and the listener must come back.
* Wi-Fi: what the application asked for must run whenever the radio allows, and
  nothing else, though calls wait in a queue while radio events do not.
* send notification, sequence points: a peer is told of changes by beacons, and
  answers by a number that it writes into our database, where the next refresh
  looks for it. Changes come during refreshes, numbers while a request is under
  way; neither may be lost.
* notification server: beacons are replaced while peers still hold the old ones;
  whoever found a recent one must get through with all of its replication, and
  only as itself.
* identity exchange: commitments may be replaced at any time and requests of
  attempts that were given up still arrive; both users must see the same code.
* manager, thaliMobile, wrapper: three sets of states over two queues. Network
  events, beacons and failing ports put calls between those of a start or a stop;
  a started manager must be up, a stopped one silent, and a stop must end.
* Android connections: five threads close each other's sockets; nothing may
  outlive its removal, and each call of connect must be answered once.

## 2. Modules

Each `MC...` module only gives names to the constants of an instance.

**`ThaliNotificationClient`.** `dict`, `timers` and `running` are the client's
dictionary; `actions` holds every notification action by its id with its
resolution, whether the client still listens to it, and how far the promise of
its start is; `poolStopped` and `inQueue` are the pool. Actions: `Start`,
`Stop`, `PeerAppears` and `PeerGone` (the peerAvailabilityChanged handler,
with the eviction and the kill it makes), the callback that begins the request,
the answer, `TimerFires`, the removal of a settled action from the pool. A kill
runs the whole chain of synchronous calls the code makes: event, `_resolved`,
dictionary and timer. Nothing is assumed of the order of promise callbacks
against timers and I/O.

**`PeerFollowUp`** is what the client promises, without pool, timers and
dictionary: per peer a status (unknown, asking, waiting, answered or given up) and
the number of failures. `FollowUp` in `ThaliNotificationClient` is the refinement
mapping: `Status(p)` is read from the entry of the peer and whether its action has
resolved, `Tries(p)` from the entry's retries. Settled promises, the pool's list,
callbacks that nobody hears any more are stuttering.

**`ThaliPeerAvailability`.** `servers` is `_peerServers` with the state of each
listener and the promises that wait for it; `queue`, `busy` the
`peerAvailabilityChangedQueue`; `replies` the settled createPeerListener promises
whose callbacks have not run; `ticks` the recreations that wait in
process.nextTick; `terminations` the terminateListener calls; `cache`, `watcher`
thaliMobile's; `known` what the client believes. `poisoned` names the promise
queues in which a function threw: `promiseQueue.js:96` never settles its link of
the chain then. `heard` is history: who was advertised since the watcher looked.
`conditions` is chosen once, from `Conditions`: what a behaviour may meet of Wi-Fi
peers, broken links, listeners that fail to open, and stops. A property that one of
them breaks says which in its premise; without the premise it is in section 4.

**`ThaliPeerPoolOneAtATime`.** `serial` is the Bluetooth queue, `turn` what its
head does, `slot` the `_bluetoothReplicationAction`, `pending` pull replication's
dictionary, `count` the Wi-Fi counts, `reps` every replication action with its
state and what PouchDB does for it. A clone that retries takes the place of its
original in `reps` and is `tracked` by nobody. `stray` are live replications
whose action can no longer cancel them. `session` follows ThaliManager's start
and stop through the steps in between.

**`ThaliWifiInfrastructure`.** `queue` holds the calls, `step` the callback the
running one waits for, `target`, `current`, `started`, `stopping`, `networkState`
are `this.states`; `client`, `ssdp`, `router` are what really runs. `asked` is
history: what the application's own calls asked for, in the order they ran; `crossed`
too: the radio went off while the call that asks was waiting for its turn (section 4).

**`ThaliManager`.** `state` is the manager's; `awaits` and `answer` are the place
that its promise chain has reached and the outcome that is there for the next
callback; `chained` are the calls of start and stop that wait for the other's
promise. `queue`, `running` and `started`, `listening`, `advertising` are
thaliMobile's queue and states, each call tagged by who made it: the manager, a
network event or send notification. `calls`, `step`, `ready` and `router` are the
wrapper's queue, the callback its running call waits for, and what it has set up;
`radio`, `discovering`, `accepting` are the native layer. One action begins each
call of thaliMobile, one each wrapper method with its callbacks; `NetworkChanged`
and `EventStarted` are the two halves of handleNetworkChanged; `PortFails` and
`RouterPortConnectionFailed` put a stop at the head of the wrapper's queue
(`StopAtTop`). The manager's actions are start, stop and
the links of their chains, with the rejection of start (`StartFails`), after which
the code has no way on. ThaliWifiInfrastructure answers every call in its own time
and is left out here; so is the cache, which ThaliPeerAvailability has, and the merged
discoveryAdvertisingStateUpdate event, which nothing else in the code listens to.

**`ThaliSendNotification`**. `state`, `transient` and `calls` are `_state`,
`_transientState` and the promise queue, `running` the update of the beacons that
is under way, `since` the sequence number it has found and `seen` the last change
the listener has reported. A timer is `"expiry"`, that of the beacons' end, or
`"soon"`, the earlier one a change asks for, or has fired; no other time is kept.
A refresh goes to the head of the queue with `current`, what its check will find.
`server` and `beacons` are the notification server's queue and whose beacons it
serves. `asked` and `missed` are history: the last call that ran was a start; the
listener has dropped a change since the last update began. The listener's own end
or error, which nothing follows up, and a failure to generate beacons are left out.

**`LocalSeqManager`**. `nextSeq`, `timer`, `blocked` and `rev` are
`_nextSeqValueToSend`, `_timerPromise`, `_blockedUpdateRequest` and `_seqDocRev`;
`requests` are the `_doImmediateSeqUpdate`s under way, `own` unless their manager
has been stopped; `pulled` and `live` are the replication that feeds it, `doc` the
document in the remote database. How long the timer waits is left open: every
number may be due at once or not, but the first one, which always is. `failed` is
history.

**`ThaliSequencePoints`** composes the two. The documents send notification reads are
those `LocalSeqManager` writes: `Synced` is put for its `synced`. One peer, the Reader,
begins a replication while its beacon is served; the others on the list never come, and
so are behind for ever: the Reader is told if it stands among as many first ones as are
notified at once (`InReach`). What lies between, beacons fetched and actions in the
pool, is for `ThaliNotificationClient` and `ThaliPeerPoolOneAtATime`.

**`ThaliNotificationBeacons`**, **`ThaliPskMapCache`**, **`ThaliNotificationServer`**.
The first has the beacon stream as a serial number (the ephemeral key), an expiration
and one beacon per key, with the secrets that are made of it and `parseBeacons`; the
second the queue of the last dictionaries of secrets, what `clean` and `push` leave of
it and what a look-up finds. Both are operators. The third is the server:
`preambleAndBeacons` and `secrets` are its fields, `now` the clock in ticks. `served`
is history: every stream that a peer may still hold. `PskRole`, `Acl` and
`ResolveThaliId` are `_connectionFilter`, `_acl` and `_resolveThaliId` of
`thaliManager.js`; `GetThrough(id)` is the set of requests that the router lets through
for an identity, now. It depends on the state since the code looks identities up at each
request, also on a connection that TLS let in long before. Requests are patterns of the
access list with a verb and, for a sequence point, its owner.

**`CreatePeerListener`**, **`CreateNativeListener`**, **`ThaliMuxLink`**. The first
is the listener that stands for one peer: `server[g]` for each of the servers that
replace each other, `outgoing[g]` its connection to the native layer, `mux[g]` the
multiplex object; `incoming[c]`, `stream[c]` the socket and the stream of each
application `c` at server `at[c]`. The second is the other end: `native[l]`,
`nativeMux[l]` for each link, `muxStream[s]`, `router[s]` for each stream. An action
is a handler with all it destroys: the close handlers of socket, stream and multiplex
object run to their end. `ThaliMuxLink` composes the two, `Links` of the one being the
`Servers` of the other: `Here(A)` and `There(A)` are steps of either end, and
`Through`, `HereIsGone`, `ThereIsGone`, `ClosedHere`, `ClosedThere` are what the native
layer carries, in order.

**`IdentityExchangeUtils`**, **`LargerHashStateMachine`**,
**`SmallerHashStateMachine`**, **`IdentityExchange`**. The first has commitments and
codes as tuples of what they are made of: two are equal when all of it is. A machine
is a record, and the next two modules map a machine and an event to the next machine
and its answer. In `IdentityExchange`, `larger[d]`, `smaller[d]` are the machines of
device `d`, `ie[d]` the state machine of `identityexchange.js`, `code[d]` what its
callback last got, `rm[d]` and `table[d]` the replication manager (external) and its
table of ports, `requests` the requests on their way, late ones included, `answer[d]`
the one that waits for its callback. `uncaught[d]` is an exception nobody catches: the
process ends. A random number is the smallest one not in use.

**`IdentityExchangeApi`** is what one device promises its caller: when each method may
be called, and that codes come only while an exchange is executed and for its peer.
`IdentityExchange` implements it (`KeepsApi`), and **`IdentityExchangeEndpoint`**, the
REST front end, runs above it instead of the machines: `queue` is what the head of
`globalPromise` waits for, or `"dead"` when the chain was rejected; `peerStarted`,
`peerIdentifier`, `exchangeStatus` and `verificationCode` are the code's variables, the
last one as far as a GET looks at it: no code, one, or the code 0, which counts as none
there. `GetAnswers` is how often the handler of GET answers.

**`ConnectionHelper`**. `mOutgoingSocketThreads`, `mIncomingSocketThreads` and
`mOutgoingConnectionCallbacks` are the ConnectionModel; `thread[c]` a connection with
its place in `run` (`pc`), its sockets, `mIsClosing` and its two copying threads;
`call[k]` what JavaScript has heard of a call of connect: `"dropped"` when a stop
removed its callback, `"lost"` when a failure did, `"late"` when a dropped one is
answered all the same, `"twice"`. The list of incoming connections is kept in the order
of their ids, in which they are added: the one that ends is found by its id, and the
first one of its peer (`Equals`) is removed. `twin` remembers of an incoming connection
that there has been another one of its peer with it. What is synchronized on the
ConnectionModel is one step, as are the synchronized methods of a thread but for the
call that startStreamCopyingThreads makes while it holds the monitor. `Preempts` lets a
stop overtake a connection while it is being set up, and a new connection the last steps
of the threads of the one before: windows of a few instructions, in which the code does
go wrong (section 4). A callback is called and removed in one step, which in Listening
and in a timeout (`ConnectionHelper.java:581` and `:585`, `:412-416`) are two: what
comes between is in the class that `Preempts = FALSE` leaves out. `Faults` are an
attempt that the library does not begin and a server socket that cannot be bound.

The modules named `..._proofs` have the theorems of section 5; three of them are
about two components each: `Connections_proofs` about `ConnectionHelper` and
`ThaliMuxLink`, `Notifications_proofs` about `ThaliSequencePoints` and
`ThaliNotificationServer`, `IdentityExchange_proofs` about `IdentityExchange` and
`IdentityExchangeEndpoint`. For their sake `ThaliMuxLink`, `ThaliNotificationServer`,
`IdentityExchangeApi` and `IdentityExchangeEndpoint` name their specifications
`LinkSpec`, `ServerSpec`, `ApiSpec` and `FrontSpec`.

Simplifications. HTTP_BAD_RESPONSE and NETWORK_PROBLEM are one outcome, as are
the two that mean "not for us": the client treats each pair alike. Connection
types other than the two families native and Wi-Fi are not told apart. Every
peer has one public key in the pool's model, so the Wi-Fi count per key is a
count per peer. Whether a peer is still in thaliMobile's cache at the time of a
retry is a free choice while the cache can hold it. A router that Express does
not accept ("Bad Router") is not passed to the Wi-Fi layer. SSDP messages have no
content but the address. The driver of the client is ThaliManager, which stops
before it starts again, unless `AllowRestart`.

## 3. What the runs check

Every run is expected to pass.

| run | instance | shows |
|---|---|---|
| `client_safety` | 2 peers, 1 entry, 1 retry, 2 announcements, any starts and stops | no assertion fails (`NoUncaught`), each entry has a request, a timer or a result (`NoStuckPeer`), `OneRequestPerPeer`, `QuietAfterStop`, `PoolOwnsRequests`; the client implements `PeerFollowUp`, and nobody waits for ever for a retry (`FollowsUp`) |
| `client_eviction` | 3 peers, 2 entries, one session | resolved entries are evicted before waiting before active ones, the oldest of each first (`EvictsMostDispensable`) |
| `availability` | 1 native and 1 Wi-Fi peer, 2 ports; no trouble, or links that break, or these with listeners that fail and stops | who is known is cached and who is cached is watched (`BooksAgree`); the head of the queue has exactly one promise owed (`HeadIsServed`); no peer is announced twice (`NoRepeatedAnnouncement`); no watcher drops a peer that was heard (`SilentBeforeDropped`); queued announcements reach the cache (`AdvertisedIsCached`) |
| `pool_safety` | 2 native peers, 1 Wi-Fi peer, 3 actions, queue of 2, 1 session | exact counts, nothing started is in the dictionary, the slot is free when asked for, an empty pool after stop (`BooksAgree`); one Bluetooth conversation (`OneNativeAtATime`); the Bluetooth queue moves, unless one replication fails for ever (`QueueServedWhileRunning`) |
| `wifi_radio` | up to 4 calls waiting | `StateIsFresh`; silence after stop (`StoppedIsSilent`); `AdvertisedIsServed`; `NothingRunsUnwanted`; at rest all that was asked for runs, but for a start that the radio crossed, with the latest USN (`RestIsAsAsked`); `EveryTurnEnds` |
| `manager_life` | up to 3 calls waiting when an event adds one, any starts and stops | a started manager's thaliMobile is up, a stopped device is silent and its router closed (`LayersAgree`); at rest the native layer does what was asked and nothing else (`RestIsAsAsked`); every stop ends, and a stop called during the start is made (`EveryStopEnds`) |
| `sequence_points` | 2 devices, 2 changes, lists of 1 or 2 peers in either order, 1 notified at once, one call waiting, any starts, stops and failures | a peer that is behind will be looked at again, and a stop is final (`BooksAgree`); each number reaches the document while requests succeed (`LastIsSent`); each change reaches the peer where those before it on the list leave it a place (`ChangesArrive`) |
| `server_access` | 3 lists of up to 2 peers and a stranger, 4 starts, a cache of 2, a clock of 6 ticks, secrets for 2 | whoever finds itself in a recent stream gets through with every request of its replication, and beacons are there while they are advertised (`RecentIsAccepted`); only as itself: nobody reaches the sequence point of another, and who may fetch beacons cannot replicate (`IdentityIsTheAddressees`) |
| `mux_link` | 2 applications, 2 servers one after the other, ends and errors at either end | no stream outlives its connection (`StreamHasConnection`); whichever end goes first, all of the tunnel goes (`EveryEndFollows`); a broken listener is replaced (`ListenerComesBack`) |
| `identity_exchange` | 2 devices and an absent peer, 6 random numbers, one late request, restarts, bad names, a manager that fails | both show the same code (`CodesAgree`); machines run exactly as long as the exchange (`MachinesFollow`); each device implements `IdentityExchangeApi` (`KeepsApi`); users who exchange with each other get the code (`BothGetTheCode`) |
| `identity_front` | 3 peers, above `IdentityExchangeApi` | the front end shows the exchange that is executed and its code, and answers each GET once, or not at all where the code is 0 (`FrontKeepsUp`) |
| `android_connections` | 2 peers, 2 connections, room for 1 outgoing, server sockets that cannot be bound | sockets of a connection that left the model are closed, unless it is one of two incoming ones of a peer, and no thread holds the monitor that the model's owner wants (`NothingOutlives`); callbacks are there exactly as long as JavaScript waits, and each call is answered once (`CallsAreKept`); calls are answered, and connections that ended on one side leave, with the same exception (`EverythingEnds`) |

Why the bounds suffice. The client's entries do not interact but through the limit of
the dictionary, so one entry with two peers reaches every eviction of a live request;
`ClientThree.cfg`, by hand, has a third announcement, which puts a new entry where a
late timer or answer of an old one arrives, and the theorems of section 5 hold for any
number. `ClientThree.cfg` and `WifiInduction.cfg` also check the inductive invariants on
which those theorems rest. The eviction order needs two entries of different states and
a third peer. The listeners of two peers share only the queue, in which one peer can be
waiting for itself already; two ports make a recreation at another port possible;
`AvailabilityClean.cfg`, by hand, has two native peers and three ports. Three actions
exceed the limit of two per Wi-Fi peer; `PoolSafety.cfg` with `MaxSessions = 2`, by
hand, checks the pool's safety over two sessions, where the left-overs of one come into
the next (2.3 million states). Two changes let one come while the first is being told,
read, written or refreshed; a list, a longer one, and that in another order make a start
that replaces the list, and a Reader that is in reach or not (the code notifies 15 at
once); with two calls waiting and the lists `<<p1>>` and `<<p2, p1>>` (half a million
states, by hand) `sequence_points` finds the same. Four calls in the Wi-Fi queue leave
room for the two that a radio change adds behind two of the application's, so that a
radio goes and comes back before a call gets its turn. Three calls in thaliMobile's
queue are the manager's own, one of an event and one of a beacon, and an event can add
two more; the wrapper never has more than one of them and the stop of a failing port.

Four starts of the notification server fill a cache of two twice, and six ticks let
secrets expire between them. Two servers are a tunnel and the one that replaces it;
an application uses one of them, and two applications share one, so that one's end
meets the other's stream. Two devices are all that an exchange has; the third peer can
be chosen and never answers; six numbers cover two attempts with the late request of a
third, and the theorems hold for any supply. The back end of the front end is an
abstract specification, so 292 states are all there are. Two connections of Android are
an old and a new one to a peer, one in each direction, or two incoming ones.

Symmetry among peers is used where no liveness is checked, in `client_eviction` and
`ClientThree.cfg`; `WhatMatters`, used there too, is a VIEW that leaves out what no
later step and no property looks at: entry numbers but for their order, all that the
code compares, the past of actions that are over, and advertisements that carried
their own address.

`CHECK_DEADLOCK FALSE` throughout: the systems may come to rest when the bound
on announcements, sessions or calls is reached, or when nobody has any news.

Fairness (`LiveSpec`). What only waits for the event loop happens: promise
callbacks, the head of a queue, `process.nextTick`, timers that are armed.
Listeners open or fail and SSDP and HTTPS callbacks come, as the libraries
promise. In the pool, requests and live replications end (the idle timer of a
live replication sees to that) and a stop that began goes through. No fairness is
assumed for calls of the application, links, announcements and radios, nor for an
HTTP answer of the notification client. In the Wi-Fi layer the answer to
the question for the radio's state is assumed to come, that is, that the native
wrapper's own queue of calls, in which the question waits, moves. In
`ThaliManager`, promise callbacks and the callbacks of the native layer come;
nothing is assumed of the application, the network, the database, beacons and
ports. In `ThaliSequencePoints`, timers fire, the database answers or fails and
reports changes, requests are answered or fail, and a peer that is told begins a
replication. That a replication pulls something is strongly fair: it may end at once
any number of times, since the next refresh tells the peer again, but not every
time; a network that never lets anything through would deliver nothing.
In `ThaliMuxLink` the native layer answers a call of connect, carries frames and ends
in order and times out what nobody uses; nobody has to close, stop or break anything.
In `IdentityExchange` requests get to their peers, answers and timers to the machines,
and the manager gets done with what it was asked for and goes on finding the peer;
`Settles` says that from some time on no request fails, without which two users would
wait as long as the network breaks. In `ConnectionHelper` threads run on, the Bluetooth
library answers each attempt and JavaScript connects to a port that it is told; nothing
is assumed of stops, calls and breaks.

## 4. What the code does not keep

No run expects a violation. What documentation, comments and tests say and the code
does not do is stated in the modules, and TLC refutes each of the following with the
configuration named, reduced to this one property, and changed as stated (with
`SPECIFICATION Spec`, in `MuxLink` `LinkSpec` and in `ServerAccess` `ServerSpec`, but for
what it says itself). `SilentAfterStop`,
`AdvertisedIsKept`, `RequestsEnd`, `FailedStopIsStopped`, `RepeatedPutIsNoop`,
`QueueSurvivesRestart`, `LastIsSentAnyhow`, `LastIsSent`, `EachIsTold` and `EachLeaves` are
PROPERTYs, the others
INVARIANTs.

| configuration | changes | property | what happens |
|---|---|---|---|
| `ManagerStopped` | none | `StoppedIsStopped` | two network events while the manager stops: the second one's call of start waits behind the manager's stop, finds thaliMobile stopped and starts it again (`thaliMobile.js:139`). The manager's next start is rejected with "Call Stop!", which leaves it STARTING. `CallbacksFirst` keeps to the traces in which promise callbacks that are due run before the native layer reports anything |
| `PoolRestart` | none (`LiveSpec`) | `QueueSurvivesRestart` | a Bluetooth conversation that ends after the stop calls a servers manager that is null, the function never resolves, and the Bluetooth queue stands still, also in the next session (`thaliPeerPool/thaliPeerPoolOneAtATime.js:265`) |
| `ClientSafety` | `MaxAppearances = 1` | `WaitingMeansNoRequest` | the retry leaves the entry WAITING, so it is evicted as if idle (`thaliNotificationClient.js:380`) |
| `ClientSafety` | `AllowRestart = TRUE` | `NoUncaught` | a second start replaces the dictionary and its timers trip the assertion at line 386 |
| `ClientSafety` | `MaxAppearances = 1`, `LiveSpec` | `RequestsEnd` | no request has the timeout the comment at `thaliNotificationAction.js:136` names |
| `WifiRadio` | none | `StopIsFinal` | a stop clears the Wi-Fi target at once, a queued start sets it again, and the next radio event starts what was stopped (`thaliWifiInfrastructure.js:365`) |
| `WifiRadio` | none | `TargetsAreReached` | the handler is to "try to get into the target states" when Wi-Fi comes back (line 137), but a start that waits in the queue sets its target only at its turn: when the radio goes off and comes back before that, nothing is restored, the start runs, and the stops that the radio queued behind it stop it again; what was asked for stays off with the radio on (`thaliWifiInfrastructure.js:365`) |
| `Availability` | `NativePeers <- NoPeer`, `MaxQueue = 1`, `Conditions = {{"wifi"}}` | `AdvertisedIsKept` | after a change of address the cache has a new object and the watcher looks at the old one, so a peer that is still advertised is dropped (`thaliMobile.js:1020`) |
| `Availability` | `WifiPeers <- NoPeer`, `Conditions = {{"link"}}` | `NeverAsserted` | the recreated listener's announcement overtakes the withdrawal |
| `Availability` | the same | `KnownHasListener` | a late terminateListener closes the listener of a peer announced again |
| `Availability` | `WifiPeers <- NoPeer`, `Conditions = {{"listen"}}` | `HeadIsOwed` | a listener that failed to open keeps its entry, and the queue waits for it |
| `Availability` | `WifiPeers <- NoPeer`, `Conditions = {{"stop"}}` | `SilentAfterStop` | tasks queued before the stop announce peers after it |
| `Availability` | `WifiPeers <- NoPeer`, `Conditions = {{"link", "stop"}}` | `CallsAreRun` | terminateListener behind a stop throws inside the queue of all calls |
| `PoolSafety` | `NativePeers = {}`, `MaxSerial = 0` | `TwoPerPeer` | a retrying clone is not counted |
| `PoolSafety` | `NativePeers = {n1}`, `Ids = {1, 2}`, `MaxSerial = 1` | `StopKillsEverything` | nor killed by stop |
| `PoolSafety` | the same | `KilledIsNotLive` | a kill between start and its callback is followed by a live replication |
| `PoolSafety` | the same | `PullStopEndsReplication` | pull replication's stop reaches only what has not started |
| `SequencePoints` | none | `UpdatesMayBeIgnored` | `thaliSendNotificationBasedOnReplication.js:242` says that changes during an update of the beacons can be ignored; if that update finds nobody behind, no timer and no beacon remains to make up for them |
| `SequencePoints` | none | `FinalWrite` | `thaliReplicationPeerAction.js:165` asks for a final write; the end of a replication stops the manager, timer and waiting request included |
| `SequencePoints` | `LiveSpec` | `LastIsSentAnyhow` | a number counts as sent before it is (`localSeqManager.js:167`) and is not repeated when its request fails |
| `SequencePoints` | none | `RevisionIsKnown` | a put whose answer is lost leaves an old revision, and every later put of the replication is refused |
| `SequencePoints` | `LiveSpec` | `EachIsTold` | of the peers that are behind only the first `MAXIMUM_NUMBER_OF_PEERS_TO_NOTIFY` of the list are told, at every refresh the same ones (`thaliSendNotificationBasedOnReplication.js:490`): while they do not synchronize, a peer after them is never told of any change |
| `SequencePoints` | `Overlap = TRUE`, `LiveSpec` | `LastIsSent` | a Wi-Fi peer's replication may begin while the last one's put is under way; its revision is then refused once without any failure of the network |
| `ServerAccess` | none | `ServedIsAccepted` | secrets expire 200 ms before beacons, whose expiration is moved further by a random amount: a beacon that is served and not out of date may lead to an identity that is refused |
| `MuxLink` | `Apps = {1}`, `MaxServers = 1` | `MuxFollowsSocket` | an error of the incoming socket, unlike its end, does not reach the multiplex object; its streams and router connections stay (`mux/createNativeListener.js:201`) |
| `IdentityExchange` | none | `FindingRunsManager` | a replication manager that cannot be started again after a failed request stays off, and the exchange goes on looking for the peer |
| `IdentityFront` | none (`FrontSpec`) | `EarlyPeersAreReturned` | a peer that is found while the replication manager starts is stored, and returning it fails |
| `IdentityFront` | none (`FrontSpec`) | `FailedStopIsStopped` | a stop that fails leaves `peerStarted` true |
| `IdentityFront` | none (`FrontSpec`) | `RepeatedPutIsNoop` | a second PUT of the same peer fires an event that is illegal and rejects the chain of all requests for ever |
| `IdentityFront` | none (`FrontSpec`) | `GetIsAnswered` | the code is a hash, as a number, modulo 10^6 (`identityExchangeUtils.js:72`), which is 0 once in 15625 times, as numbers of that size are multiples of 64; the handler of GET asks `if (verificationCode)` (`identityexchangeendpoint.js:297`), and no GET of that exchange is answered |
| `AndroidConnections` | `Peers = {p}`, `Preempts = TRUE` | `GoneIsClosed` | a stop between onConnected and the bound server socket closes a thread whose `run` resets `mIsClosing` (`OutgoingSocketThread.java:65`) and listens on |
| `AndroidConnections` | `Peers = {p}`, `Preempts = TRUE`, `Faults = {}` | `AnsweredOnce` | a connection that the library made just before a stop takes the callback of the next call and both answer it |
| `AndroidConnections` | `Peers = {p}` | `NothingIsLost` | a server socket that cannot be bound removes the callback without calling it (`OutgoingSocketThread.java:76`) |
| `AndroidConnections` | `Peers = {p}`, `Faults = {"start"}` | `CallbackIsAwaited` | an attempt that the library does not begin leaves its callback behind, and every later call for the peer is refused |
| `AndroidConnections` | `Peers = {p}` | `IncomingIsClosed` | closeAndRemoveIncomingConnectionThread "closes and removes an incoming connection thread with the given ID" (`ConnectionModel.java:174`); it closes that one, but removes the first that equals it (line 185), and two are equal if their peers are (`SocketThreadBase.java:173`). When the newer of two incoming connections of a peer ends, the older is out of the model with its sockets open |
| `AndroidConnections` | `Peers = {p}`, `LiveSpec` | `EachLeaves` | and the newer is in the model for ever, closed |

`NoDeadlock` holds with `Preempts = TRUE` as well, and is proved so (section 5).

What reading showed and no property states, most of it on the way to a definition:

* `identityExchange/identityexchange.js:187`: the exit listener of the smaller machine
  throws a TypeError after `wrongPeer`; that is the exception of `uncaught`. A bad name is
  refused after the transition, so that the state machine stays in
  startIdentityExchangeCalledCB. `JSON.stringfy` (`SmallerHashStateMachine.js:332`) throws
  on the way to report a failed start of the manager, and the machine hangs.
* `mux/thaliTcpServersManager.js` stop leaves multiplex objects and outgoing connections to
  themselves; the answer of connect is used after closeServer; closeOldestServer reads the
  `length` of an object and never closes anything (`mux/createPeerListener.js:484`).
* `thaliManager.js:314` says the id is a hash of the public key; it is the key. Roles are
  looked up at each request, so a replication that is open is cut when its secret expires.
  An error of the notification server's call of thaliMobile is never returned
  (`notification/thaliNotificationServer.js:126`). A lifetime of ONE_DAY plus the random
  amount is out of range for parseBeacons.
* `thaliMobile.js:1148`: after a restart with the radio off no
  discoveryAdvertisingStateUpdate corrects what was told before the stop, since the state
  that was emitted last is not reset.
* Android: stopAdvertisingAndListening is to disconnect incoming connections
  (`thaliMobileNativeWrapper.js:512`), but ConnectionHelper.stop kills the outgoing ones;
  the callback of stop ignores its error (`JXcoreExtension.java:173`). findSocketThread may
  meet a thread that has no peer properties yet. onFinish of StartStopOperationHandler is
  not synchronized, and an operation may be answered early with "Radio Turned Off" and
  again when it ends.

## 5. What is proved

`ThaliNotificationClient_proofs`, for any set of peers, any size of the
dictionary, any number of retries and announcements:

| theorem | property |
|---|---|
| `TypeCorrect` | `TypeOK` |
| `BooksKept` | `IInv`, the inductive invariant |
| `NothingThrows` | `NoUncaught`: no assertion of the client or the pool fails |
| `NobodyStuck` | `NoStuckPeer`: each entry has a request, a timer or a result |
| `OneRequest` | `OneRequestPerPeer` |
| `StopIsQuiet` | `QuietAfterStop` |
| `PoolOwns` | `PoolOwnsRequests` |
| `EvictsTheLeast` | `EvictsMostDispensable`, an action property |

Assumed: `ClientAssumption`, and for all but the first and the last
`AllowRestart = FALSE`, that nobody starts a client that is started; section 4 shows why.

None of these but the last is inductive. That a timer finds its entry waiting depends on every
path that removes an entry having cleared the timer, and that a peer has one
request depends on every path that replaces an action having killed it. `IInv`
says both: an unresolved action is the current one of its peer, is listened to
and is in the pool; an armed timer is the timer of a waiting entry whose action
has resolved; a stopped client has no entries. Each action of `Next` is shown to
keep the parts it can disturb; the operators that several actions share (remove,
kill, create) have lemmas of their own.

The same module proves `ImplementsFollowUp`, that `Spec`
implements `FollowUp!Spec`, under the same assumptions. The step proof stands on
`IInv`: a status changes by an answer only because the action that is heard is the
entry's own, and a timer is a Retry only because its entry waits and its action has
resolved. One lemma for each of remove, create and resolve says what it does to
`Status` and `Tries`. That no peer waits for ever is liveness, and is checked by TLC
in `client_safety`.

`EvictsTheLeast` needs only `Numbered`: entries have different numbers, all below the
counter, so that the oldest of a kind is one. A step may drop entries, renew one or admit
a peer (`DictMoves`), for whom the oldest of the most dispensable kind that has entries goes,
one entry and no more, since no two have a number in common.

`ThaliWifiInfrastructure_proofs`, for any bound on the calls that wait:

| theorem | property |
|---|---|
| `TypeCorrect` | `TypeOK` |
| `BooksKept` | `IInv`, the inductive invariant |
| `Fresh` | `StateIsFresh` |
| `Silent` | `StoppedIsSilent` |
| `Served` | `AdvertisedIsServed` |
| `Unwanted` | `NothingRunsUnwanted` |
| `RestIsRight` | `RestIsAsAsked` |

Assumed: `QueueAssumption`. `IInv` says what the call that runs has done so far at
each callback it waits for, and for each of its steps which of the SSDP client, the
SSDP server and the router run. `Unwanted` needs one more invariant,
`RunsAreWanted`: what runs has its target, or the call that stops it is in the queue
or runs. Calls, the application's and the radio's, come at the end of the queue, so
that what is in it stays there until its turn ends (the lemmas on `Has`).

`RestIsRight` is the converse, and harder, since a start sets its target only at its
turn. `RestFits` says what keeps a promise that has not been kept yet: what was asked
for is a target or a call that takes it back waits (`AsksFit`); a start that waits has
a start of its kind, itself or a later one, with no stop behind it, or is taken back
(`StartsFit`); with the radio on, what was asked for runs and nothing waits to stop it,
or such a start waits, or it is taken back (`ReachFits`); and a server with an old USN
is being restarted, or its stop waits (`LatestFits`, which rests on `RunsAreWanted`).
`StartsFit` is false for a start that waits while the radio goes off: the two stops go
behind it, and nothing starts again, as its target is not set. That is how the defect
`TargetsAreReached` of section 4 was found, and why `crossed` is there: it exempts the
start until the handler or the application starts the same anew. The steps are sorted
into those that add calls at the end (`ComingKeeps`) and turns, which take the head
away (`PassingKeeps`) and do one of few things to each act (`Does`).

`Connections_proofs`, first of `ConnectionHelper`, for any peers, any number of
connections and any limit on them:

| theorem | property |
|---|---|
| `NothingEverOutlives` | `NothingOutlives`, where `Preempts` is FALSE; it excepts incoming connections that shared the model with another one of their peer |
| `CallsAreAlwaysKept` | `CallsAreKept`, where moreover no attempt fails to start |
| `NobodyBlocks` | `TypeOK` and `NoDeadlock`, without a condition |

Assumed: `ConnectionAssumption`. Of the first two, each condition is needed: section 4
has what `Preempts` does to `GoneIsClosed` and `AnsweredOnce`, and `Faults = {"start"}`
to `CallbackIsAwaited`. `Sound(c, t)` relates a connection's place in `run` to its
sockets, its copying threads and the model: in the model it is not closing and has the
socket that its place needs; out of it nothing is open, and unless it is marked as
closing it has run to its end. Of incoming connections that is so for one that has been
its peer's only one: `TwinsKnown` says that two of one peer that are in the model
together are both marked (`twin`), so that whoever removes the first that equals it
removes itself, or both are excepted. The hard part is that the model is searched by
peer: whoever reports the end of a connection closes the one that is found for its peer,
and this is its own only because of `OneAtATime`: a connection to a peer is set up only
when all threads of the one before have run off, so that nobody is left to report
(`FoundIsOwn`). `CallsAreAlwaysKept` adds to this who is to answer a call (`Kept`): a
call waits exactly as long as its connection is on its way to listening (`Awaited`), the
callback is its own, and the listener has kept that very callback (`Answering`).
`NobodyBlocks` cannot use any of this, since with `Preempts` all of it may fail.
`Members` is what remains: a connection in the model is past its setup, has a local
socket if it is about to copy, and is no refusing one; whoever takes that socket away
takes the connection out of the model in the same step.

Then of `ThaliMuxLink`, for any set of applications and any number of servers one
after the other:

| theorem | property |
|---|---|
| `TypeCorrect` | `LinkTypeOK` |
| `BooksKept` | `LinkInv`, the inductive invariant |
| `StreamsHaveConnections` | `StreamHasConnection` |

Assumed: `PeerListenerAssumption`. The two ends share no variables, so each step is
shown to be a step of one end, without the native layer's conditions, that leaves the
other's variables alone. `SocketsSound` has what StreamHasConnection lacks: a socket
that is open is one of a server that listens, and an application that waits for the
multiplex object is at a server, though its socket may have closed meanwhile.

`Notifications_proofs`, first of `ThaliSequencePoints`, for any peers and lists and any
bounds, whether or not replications overlap, then of `ThaliNotificationServer`, for any
peers, lists, times and sizes of the cache and any number of starts:

| theorem | property |
|---|---|
| `BooksAlwaysAgree` | `BooksAgree` |
| `RecentIsAlwaysAccepted` | `RecentIsAccepted` |
| `IdentityIsAlwaysTheAddressees` | `IdentityIsTheAddressees` |

Assumed: `SequenceAssumption` and `ServerAssumption`. That nobody is forgotten
(`NobodyMissed`: while changes are monitored and none was dropped, each peer on the list
is synced or a refresh is coming) rests on what an update knows at each of its awaits
(`UpdateSees`): while it reads documents, a peer that is behind is among those to read
or those it has found; once it waits for the server, there are beacons to renew or
nobody is behind, and nothing newer was seen unless it counts as missed.
`FiredIsQueued`: a refresh whose timer has fired is in the queue. `ServerFits` says that
the start the update waits for is the server's last call, so that a stop comes behind
it. `WriterFits` is the other half: what waits or is on its way never claims more than
was pulled. In the server, `CacheFits` says that the cache holds the secrets of the last
streams in their order, and that each stream it has dropped is too old or too many to be
recent; `NothingServed`, that without a cache nothing was served yet.

`IdentityExchange_proofs`, for any devices, choice of peers, supply of random numbers
and number of late requests:

| theorem | property |
|---|---|
| `TypeCorrect` | `TypeOK` |
| `Follow` | `MachinesFollow` |
| `SameCodes` | `CodesAgree` |
| `ImplementsApi` | `KeepsApi`: each device implements `IdentityExchangeApi` |

Assumed: `DevicesAssumption`. `Sound` says of each device whether it rests, seeks or
listens, and what its two machines, its answer and its code can be in each case; the
first two theorems and the last follow from it. `SameCodes` is about the protocol, and
needs to relate two devices and what is on its way between them: random numbers tell
attempts apart (`Distinct`); as long as the commitment that the listening device keeps
is that of the seeking one's attempt, its number is the one the seeking one got
(`Agreed`); once it has accepted an attempt's commitment, it never again keeps one whose
number was revealed in an older attempt (`NoOlder`); and its code, if it has one for
this exchange, is the one the seeking device will show (`Confirmed`) and then the one it
shows (`Shown`). That is why a commitment may be replaced at any time. Before the steps
are looked at one by one, they are sorted by what they mean for an attempt: one that
rests, ends or begins, and the arrivals and answers of `/cb` and `/rnmine`.

The same module proves `KeepsUp`, that is `FrontKeepsUp`, for any set of peers, above
any back end that keeps `IdentityExchangeApi`, as `IdentityExchange` was shown to (the
answer that is missing where the code is 0 is in section 4): its invariant adds what is
needed of the back end, that there is a party exactly while an exchange is executed.

`ThaliPeerAvailability_proofs`, for any peers and ports, queues of any bound and all
that a behaviour may meet:

| theorem | property |
|---|---|
| `AvailabilityInvariant` | `IInv`, the inductive invariant |
| `BooksAlwaysAgree` | `BooksAgree` |
| `HeadIsAlwaysServed` | `HeadIsServed` |
| `OnlyLinksRepeat` | `NeverAsserted`, where no links break |
| `NeverRepeated` | `NoRepeatedAnnouncement` |
| `SilenceComesFirst` | `SilentBeforeDropped`, an action property |

Assumed: the module's assumptions on its constants. thaliMobile's side (`MobileOK`) is kept
by a handful of ways to change cache, watchers and client, and each step is shown to be one of
them (`MobileMoves`); `HeardIsFresh`, a watcher that looks at the cached object of a
peer that was heard will see so, is what the last theorem lacks. Below it, `Owed(p)` counts
the replies that wait and the promises of listeners that are opening; `NothingOverdue`,
nobody but the head of the queue is owed one, and only once, holds always, whatever breaks,
and the lower bound, `HeadIsOwed`, while no listener fails and nothing stops. The counting
needs the lemmas on `Count`: what a sequence gains by concatenation and loses with its head.
A recreation whose handler was removed by a stop is therefore kept among the replies,
for nobody, and not filtered out of them.

`ThaliPeerPoolOneAtATime_proofs`, for any peers, any number of actions, and any starts
and stops:

| theorem | property |
|---|---|
| `PoolInvariant` | `IInv`, the inductive invariant |
| `BooksAlwaysAgree` | `BooksAgree` |
| `OneConversation` | `OneNativeAtATime` |

Assumed: the module's assumptions on its constants. `ActionFits` says of each
replication action how state, promise and tracking go together, above all that a
Bluetooth action at work is the slot's while the head of the queue is replicating, from
which `OneConversation` follows; `SlotFits` says what the slot holds at each stage of a
turn, `AsksFit` who may be asked for beacons. That counts are exact is about
cardinalities: an action is tracked from start to its end, and each step is shown to add
one to those of one peer, to take one away, or to leave them alone (`CountsGoUp`,
`CountsGoDown`, `CountsSame`).

`ThaliManager_proofs`, for queues of any bound and any starts and stops:

| theorem | property |
|---|---|
| `ManagerInvariant` | `IInv`, the inductive invariant |
| `LayersAlwaysAgree` | `LayersAgree` |
| `RestIsAlwaysAsAsked` | `RestIsAsAsked` |

Assumed: the module's assumptions on its constants. The three layers know little of each
other, and `IInv` says what each may rely on. The manager waits for one call of its own
(`ManagerFits`), and nobody but a manager that stops has a stop in thaliMobile's queue,
send notification's before the manager's (`StopsFit`); hence `UpFits`, how far a start
has come is how far thaliMobile is, whatever network events and beacons put between the
calls. The wrapper has the call that thaliMobile runs and at most one stop of its own,
before or behind it (`CallsFit`), and is silent whenever it is not started and not on
its way (`SilentUnlessReady`, `StoppedFits`). `NativeFits` relates the ends: what the
native layer does beyond thaliMobile's states is about to be stopped, and what it does
not do yet is about to be asked for, by a call or an event that is on its way
(`Coming`).

Only model-checked: all liveness (`EveryTurnEnds`, `QueueServedWhileRunning` and the
like, and the liveness in `FollowsUp`), since fairness and ENABLED are beyond the
prover. Every invariant and every action property of the runs is stated by a theorem, for
all constants that satisfy the modules' assumptions, and under the conditions
that the tables name.

## 6. What is left

`PromiseQueue`: what a queue promises, and `_changeQueue` shown to implement it, with
enqueueAtTop. Today each module that uses a queue has its rules in it.

Not modelled, and why:

* Android's start and stop operations (`StartStopOperationHandler` and its timeout),
  discovery and the connectivity monitor: nearly every step of theirs is a call of
  the Bluetooth library or of the system, which are not in the repository.
* iOS: sessions, relays and their reverse connections are a native layer of its own
  below the same JavaScript API (`thaliMobileNative.js`, which is comments only). What
  either native layer does to the JavaScript above is an external action of the modules
  that use it: events, answers, links that break, a radio that comes and goes.
* `thaliACLLayer.js`: an empty stub. `salti`, the router's access list library, is
  external; `ThaliNotificationServer` has what it does with the list.
* thaliMobile's merged discovery and advertising state, and which radios a combined
  result came from: the application is told, nothing in the code decides by it.
* In `ThaliSendNotification` the listener's own end and a failure to generate beacons;
  in `LocalSeqManager` immediate updates, which nobody asks for, and waitUntilStopped;
  killSuperseded of the notification action, which has no caller.
* The beacons' encoding, key derivation and TLS (cryptography); configuration, logging,
  wrappers of other libraries; vendored libraries, install scripts and the test
  framework, which are not part of the running system.
