---------------------------- MODULE ThaliManager ----------------------------
(***************************************************************************)
(* Starting and stopping Thali: ThaliManager's states and promises over    *)
(* thaliMobile's queue of calls, with the calls that network events and    *)
(* beacons put between the manager's own, over the native wrapper's queue, *)
(* with the stop it makes itself when one of its ports fails, over the     *)
(* native layer, whose radio comes and goes.                               *)
(*                                                                         *)
(* The Wi-Fi half of every call is ThaliWifiInfrastructure's: thaliMobile  *)
(* waits for it and does nothing with what it answers.                     *)
(***************************************************************************)
EXTENDS Integers, Sequences

CONSTANT MaxQueue    \* bound: calls waiting when a network event, a beacon or a
                     \* failing port adds one

ASSUME QueueAssumption == MaxQueue \in Nat \ {0}

VARIABLES
  state,        \* ThaliManager.state
  awaits,       \* what the manager's promise chain waits for
  answer,       \* the outcome of that, before its callback has run
  failed,       \* _startingPromise is rejected
  chained,      \* start and stop calls that wait for the other's promise
  sending,      \* send notification watches the database and renews beacons
  queue,        \* thaliMobile's promise queue, the call that runs at its head
  running,      \* the function at its head has begun
  started, listening, advertising,   \* thaliMobileStates
  afterStart,   \* network events whose call of start has settled
  calls,        \* the wrapper's promise queue, the call that runs at its head
  step,         \* the callback that call waits for
  ready,        \* the wrapper's states.started
  router,       \* the router server is open
  radio, discovering, accepting      \* the native layer

manager == <<state, awaits, answer, failed, chained>>
mobile  == <<queue, running, started, listening, advertising, afterStart>>
wrapper == <<calls, step, ready, router>>
native  == <<radio, discovering, accepting>>
vars    == <<manager, sending, mobile, wrapper, native>>

Kinds == {"start", "stop", "startListening", "stopListening",
          "startAdvertising", "stopAdvertising"}
Call(kind, by) == [kind |-> kind, by |-> by]

-----------------------------------------------------------------------------
(* The calls of thaliMobile *)

\* The manager calls a method of thaliMobile and waits for its promise.
Asks(kind) ==
  /\ queue' = Append(queue, Call(kind, "manager"))
  /\ awaits' = kind /\ answer' = "none"

\* The promise of the call at the head settles: the manager and the handler of
\* a network event wait for theirs, send notification does not.
Settles(outcome) ==
  LET call == Head(queue)
  IN /\ queue' = Tail(queue) /\ running' = FALSE
     /\ answer' = IF call.by = "manager" THEN outcome ELSE answer
     /\ afterStart' = IF call.by = "event" /\ call.kind = "start"
                      THEN afterStart + 1 ELSE afterStart

\* The stacks are called: of the router of a start only the manager's is one.
Forwards(kind) ==
  /\ calls' = Append(calls, Call(kind, Head(queue).by))
  /\ running' = TRUE
  /\ UNCHANGED <<queue, answer, afterStart>>

Begins(kind) == queue # <<>> /\ ~running /\ Head(queue).kind = kind

\* Broken: a network event may start what is started.
BeginStartAgain ==
  /\ Begins("start")
  /\ Forwards("start")
  /\ started' = TRUE /\ listening' = FALSE /\ advertising' = FALSE
  /\ UNCHANGED <<state, awaits, failed, chained, sending, step, ready, router,
                 native>>

BeginStart ==
  /\ Begins("start")
  /\ \/ started /\ Settles("rejected") /\ UNCHANGED <<started, calls>>
     \/ ~started /\ started' = TRUE /\ Forwards("start")
  /\ UNCHANGED <<state, awaits, failed, chained, sending, listening,
                 advertising, step, ready, router, native>>

BeginStop ==
  /\ Begins("stop")
  /\ started' = FALSE /\ listening' = FALSE /\ advertising' = FALSE
  /\ Forwards("stop")
  /\ UNCHANGED <<state, awaits, failed, chained, sending, step, ready, router,
                 native>>

BeginStartListening ==
  /\ Begins("startListening")
  /\ \/ ~started /\ Settles("rejected") /\ UNCHANGED <<listening, calls>>
     \/ started /\ listening' = TRUE /\ Forwards("startListening")
  /\ UNCHANGED <<state, awaits, failed, chained, sending, started, advertising,
                 step, ready, router, native>>

BeginStopListening ==
  /\ Begins("stopListening")
  /\ listening' = FALSE
  /\ Forwards("stopListening")
  /\ UNCHANGED <<state, awaits, failed, chained, sending, started, advertising,
                 step, ready, router, native>>

BeginStartAdvertising ==
  /\ Begins("startAdvertising")
  /\ \/ ~started /\ Settles("rejected") /\ UNCHANGED <<advertising, calls>>
     \/ started /\ advertising' = TRUE /\ Forwards("startAdvertising")
  /\ UNCHANGED <<state, awaits, failed, chained, sending, started, listening,
                 step, ready, router, native>>

BeginStopAdvertising ==
  /\ Begins("stopAdvertising")
  /\ advertising' = FALSE
  /\ Forwards("stopAdvertising")
  /\ UNCHANGED <<state, awaits, failed, chained, sending, started, listening,
                 step, ready, router, native>>

Mobile == \/ BeginStart \/ BeginStop
          \/ BeginStartListening \/ BeginStopListening
          \/ BeginStartAdvertising \/ BeginStopAdvertising

-----------------------------------------------------------------------------
(* Network events *)

\* The network changes: Bluetooth comes or goes, or another radio does.  If one
\* is on, the handler, which is registered while thaliMobile is started, calls
\* start without a router.  What the radio carried ends with it.
NetworkChanged(bluetooth, other) ==
  /\ Len(queue) + afterStart < MaxQueue
  /\ radio' = bluetooth
  /\ discovering' = (discovering /\ bluetooth)
  /\ accepting' = (accepting /\ bluetooth)
  /\ queue' = IF started /\ (bluetooth \/ other)
              THEN Append(queue, Call("start", "event")) ELSE queue
  /\ UNCHANGED <<manager, sending, running, started, listening, advertising,
                 afterStart, wrapper>>

\* Broken: the handler renews the advertisement only.
EventStartedAdvertisingOnly ==
  /\ afterStart > 0 /\ afterStart' = afterStart - 1
  /\ queue' = queue
       \o (IF advertising THEN <<Call("startAdvertising", "event")>> ELSE <<>>)
  /\ UNCHANGED <<manager, sending, running, started, listening, advertising,
                 wrapper, native>>

\* Its callback, whether start was rejected or not.
EventStarted ==
  /\ afterStart > 0 /\ afterStart' = afterStart - 1
  /\ queue' = queue
       \o (IF listening THEN <<Call("startListening", "event")>> ELSE <<>>)
       \o (IF advertising THEN <<Call("startAdvertising", "event")>> ELSE <<>>)
  /\ UNCHANGED <<manager, sending, running, started, listening, advertising,
                 wrapper, native>>

-----------------------------------------------------------------------------
(* The native wrapper and the native layer *)

Turn(kind) == step = "idle" /\ calls # <<>> /\ Head(calls).kind = kind

\* The call at the head is done.  thaliMobile, if the call is its own, takes an
\* error for a result.
Done ==
  /\ calls' = Tail(calls) /\ step' = "idle"
  /\ IF Head(calls).by = "wrapper"
     THEN UNCHANGED <<queue, running, answer, afterStart>>
     ELSE Settles("ok")
Awaiting(s) ==
  /\ step' = s
  /\ UNCHANGED <<calls, queue, running, answer, afterStart>>

Untouched == UNCHANGED <<state, awaits, failed, chained, sending, started,
                         listening, advertising, radio>>

\* "Call Stop!", "Bad Router", or the router server and then the servers manager
\* are started.
WrapperStarts ==
  /\ \/ Turn("start") /\ (ready \/ Head(calls).by # "manager")
        /\ Done /\ UNCHANGED <<ready, router>>
     \/ Turn("start") /\ ~ready /\ Head(calls).by = "manager"
        /\ Awaiting("listen") /\ UNCHANGED <<ready, router>>
     \/ step = "listen" /\ router' = TRUE /\ Awaiting("servers") /\ UNCHANGED ready
     \/ step = "servers" /\ ready' = TRUE /\ Done /\ UNCHANGED router
  /\ Untouched /\ UNCHANGED <<discovering, accepting>>

\* Broken: the stop of a stack that is not started never calls back.
WrapperStopsSilent ==
  /\ \/ Turn("stop") /\ ~ready /\ Awaiting("lost")
        /\ UNCHANGED <<ready, router, discovering, accepting>>
     \/ Turn("stop") /\ ready /\ ready' = FALSE /\ Awaiting("stopAdvertising")
        /\ UNCHANGED <<router, discovering, accepting>>
     \/ step = "stopAdvertising" /\ accepting' = FALSE /\ Awaiting("stopListening")
        /\ UNCHANGED <<ready, router, discovering>>
     \/ step = "stopListening" /\ discovering' = FALSE /\ Awaiting("close")
        /\ UNCHANGED <<ready, router, accepting>>
     \/ step = "close" /\ router' = FALSE /\ Done
        /\ UNCHANGED <<ready, discovering, accepting>>
  /\ Untouched

\* Broken: the stop leaves discovery to stopListeningForAdvertisements.
WrapperStopsDeaf ==
  /\ \/ Turn("stop") /\ ~ready /\ Done
        /\ UNCHANGED <<ready, router, discovering, accepting>>
     \/ Turn("stop") /\ ready /\ ready' = FALSE /\ Awaiting("stopAdvertising")
        /\ UNCHANGED <<router, discovering, accepting>>
     \/ step = "stopAdvertising" /\ accepting' = FALSE /\ Awaiting("close")
        /\ UNCHANGED <<ready, router, discovering>>
     \/ step = "close" /\ router' = FALSE /\ Done
        /\ UNCHANGED <<ready, discovering, accepting>>
  /\ Untouched

\* Nothing to do, or the native layer is told to stop, the servers are closed.
WrapperStops ==
  /\ \/ Turn("stop") /\ ~ready /\ Done
        /\ UNCHANGED <<ready, router, discovering, accepting>>
     \/ Turn("stop") /\ ready /\ ready' = FALSE /\ Awaiting("stopAdvertising")
        /\ UNCHANGED <<router, discovering, accepting>>
     \/ step = "stopAdvertising" /\ accepting' = FALSE /\ Awaiting("stopListening")
        /\ UNCHANGED <<ready, router, discovering>>
     \/ step = "stopListening" /\ discovering' = FALSE /\ Awaiting("close")
        /\ UNCHANGED <<ready, router, accepting>>
     \/ step = "close" /\ router' = FALSE /\ Done
        /\ UNCHANGED <<ready, discovering, accepting>>
  /\ Untouched

\* The start methods need the start state and fail without the radio.
WrapperListens ==
  /\ \/ Turn("startListening") /\ ~ready /\ Done /\ UNCHANGED discovering
     \/ Turn("startListening") /\ ready /\ Awaiting("native") /\ UNCHANGED discovering
     \/ Turn("stopListening") /\ Awaiting("native") /\ UNCHANGED discovering
     \/ /\ step = "native"
        /\ Head(calls).kind \in {"startListening", "stopListening"}
        /\ discovering' = (Head(calls).kind = "startListening" /\ radio)
        /\ Done
  /\ Untouched /\ UNCHANGED <<ready, router, accepting>>

WrapperAdvertises ==
  /\ \/ Turn("startAdvertising") /\ ~ready /\ Done /\ UNCHANGED accepting
     \/ Turn("startAdvertising") /\ ready /\ Awaiting("native") /\ UNCHANGED accepting
     \/ Turn("stopAdvertising") /\ Awaiting("native") /\ UNCHANGED accepting
     \/ /\ step = "native"
        /\ Head(calls).kind \in {"startAdvertising", "stopAdvertising"}
        /\ accepting' = (Head(calls).kind = "startAdvertising" /\ radio)
        /\ Done
  /\ Untouched /\ UNCHANGED <<ready, router, discovering>>

\* enqueueAtTop: the wrapper's own stop goes before any other call that waits.  A
\* second one would find it stopped.
StopAtTop ==
  /\ \A i \in 1..Len(calls) : calls[i].by # "wrapper"
  /\ Len(calls) < MaxQueue
  /\ LET stop == <<Call("stop", "wrapper")>>
         runs == IF step = "idle" THEN 0 ELSE 1
     IN calls' = SubSeq(calls, 1, runs) \o stop \o SubSeq(calls, runs + 1, Len(calls))
  /\ UNCHANGED <<manager, sending, mobile, step, ready, router, native>>

\* The native layer cannot connect to the port of the servers manager, or the
\* servers manager to that of the router; either may be late.
PortFails == ready /\ StopAtTop
RouterPortConnectionFailed == ready /\ router /\ StopAtTop

Wrapper == WrapperStarts \/ WrapperStops \/ WrapperListens \/ WrapperAdvertises

-----------------------------------------------------------------------------
(* ThaliManager *)

StartFirst ==
  /\ state \in {"created", "stopped"} /\ state' = "starting"
  /\ Asks("start")
  /\ UNCHANGED <<running, started, listening, advertising, afterStart>>
StopFirst ==
  /\ state = "started" /\ state' = "stopping"
  /\ awaits' = "sending" /\ answer' = "none"
  /\ UNCHANGED mobile

\* The application calls start: it returns the promise that there is, waits for
\* the stop, or starts.
Start ==
  /\ \/ StartFirst /\ UNCHANGED chained
     \/ state = "stopping" /\ chained' = chained \cup {"start"}
        /\ UNCHANGED <<state, awaits, answer, mobile>>
  /\ UNCHANGED <<failed, sending, wrapper, native>>

\* It calls stop, likewise.
Stop ==
  /\ \/ StopFirst /\ UNCHANGED chained
     \/ state = "starting" /\ ~failed /\ chained' = chained \cup {"stop"}
        /\ UNCHANGED <<state, awaits, answer, mobile>>
  /\ UNCHANGED <<failed, sending, wrapper, native>>

\* The calls that waited for the other's promise are made again.
ChainedStart ==
  /\ "start" \in chained /\ state # "stopping"
  /\ chained' = chained \ {"start"}
  /\ \/ StartFirst
     \/ state \in {"starting", "started"}
        /\ UNCHANGED <<state, awaits, answer, mobile>>
  /\ UNCHANGED <<failed, sending, wrapper, native>>

\* Broken: what waited for the start's promise is told, and does nothing.
ChainedStopForgotten ==
  /\ "stop" \in chained /\ state # "starting"
  /\ chained' = chained \ {"stop"}
  /\ UNCHANGED <<state, awaits, answer, failed, sending, mobile, wrapper, native>>

ChainedStop ==
  /\ "stop" \in chained /\ state # "starting"
  /\ chained' = chained \ {"stop"}
  /\ \/ StopFirst
     \/ state \in {"created", "stopping", "stopped"}
        /\ UNCHANGED <<state, awaits, answer, mobile>>
  /\ UNCHANGED <<failed, sending, wrapper, native>>

\* The next call of start's chain, then of stop's.
After(kind, next) == awaits = kind /\ answer = "ok" /\ Asks(next)
Resume ==
  /\ \/ After("start", "startListening")
     \/ After("startListening", "startAdvertising")
     \/ After("stopAdvertising", "stopListening")
     \/ After("stopListening", "stop")
  /\ UNCHANGED <<state, failed, chained, sending, running, started, listening,
                 advertising, afterStart, wrapper, native>>

\* The last of start: send notification is started, which advertises anew if
\* there is anybody to notify, and does not wait for it.
SendStarted(peers) ==
  /\ state = "starting" /\ awaits = "startAdvertising" /\ answer = "ok"
  /\ sending' = TRUE
  /\ queue' = IF peers THEN Append(queue, Call("startAdvertising", "sending"))
              ELSE queue
  /\ state' = "started" /\ awaits' = "none" /\ answer' = "none"
  /\ UNCHANGED <<failed, chained, running, started, listening, advertising,
                 afterStart, wrapper, native>>

\* Its promise is rejected, and those of the stops that wait for it: a call of
\* thaliMobile was, or the database cannot be read.
StartFails ==
  /\ state = "starting"
  /\ answer = "rejected" \/ (awaits = "startAdvertising" /\ answer = "ok")
  /\ failed' = TRUE /\ awaits' = "none" /\ answer' = "none"
  /\ chained' = chained \ {"stop"}
  /\ UNCHANGED <<state, sending, mobile, wrapper, native>>

\* Beacons are renewed: their timer fires or the database has changed.
BeaconsRenewed ==
  /\ sending /\ Len(queue) < MaxQueue
  /\ queue' = Append(queue, Call("startAdvertising", "sending"))
  /\ UNCHANGED <<manager, sending, running, started, listening, advertising,
                 afterStart, wrapper, native>>

\* The first of stop: send notification and its server stop, which stops the
\* advertisement and does not wait for it; then the pool, then the manager asks
\* for the same.
SendStopped ==
  /\ awaits = "sending" /\ awaits' = "pool"
  /\ sending' = FALSE
  /\ queue' = Append(queue, Call("stopAdvertising", "sending"))
  /\ UNCHANGED <<state, answer, failed, chained, running, started, listening,
                 advertising, afterStart, wrapper, native>>
PoolStopped ==
  /\ awaits = "pool" /\ Asks("stopAdvertising")
  /\ UNCHANGED <<state, failed, chained, sending, running, started, listening,
                 advertising, afterStart, wrapper, native>>

Stopped ==
  /\ state = "stopping" /\ awaits = "stop" /\ answer = "ok"
  /\ state' = "stopped" /\ awaits' = "none" /\ answer' = "none"
  /\ UNCHANGED <<failed, chained, sending, mobile, wrapper, native>>

Chain == \/ ChainedStart \/ ChainedStop \/ Resume \/ StartFails
         \/ \E peers \in BOOLEAN : SendStarted(peers)
         \/ SendStopped \/ PoolStopped \/ Stopped

-----------------------------------------------------------------------------
Init ==
  /\ state = "created" /\ awaits = "none" /\ answer = "none" /\ failed = FALSE
  /\ chained = {} /\ sending = FALSE
  /\ queue = <<>> /\ running = FALSE /\ afterStart = 0
  /\ started = FALSE /\ listening = FALSE /\ advertising = FALSE
  /\ calls = <<>> /\ step = "idle" /\ ready = FALSE /\ router = FALSE
  /\ radio \in BOOLEAN /\ discovering = FALSE /\ accepting = FALSE

Next ==
  \/ Start \/ Stop \/ Chain \/ BeaconsRenewed
  \/ Mobile \/ EventStarted
  \/ \E bluetooth, other \in BOOLEAN : NetworkChanged(bluetooth, other)
  \/ Wrapper \/ PortFails \/ RouterPortConnectionFailed

Spec == Init /\ [][Next]_vars

\* What only waits for the event loop or for a callback of the native layer
\* happens; the application, the network, beacons and failures need not.
LiveSpec == /\ Spec
            /\ WF_vars(Chain) /\ WF_vars(Mobile) /\ WF_vars(EventStarted)
            /\ WF_vars(Wrapper)

-----------------------------------------------------------------------------
(* Properties *)

TypeOK ==
  /\ state \in {"created", "starting", "started", "stopping", "stopped"}
  /\ awaits \in Kinds \cup {"none", "sending", "pool"}
  /\ answer \in {"none", "ok", "rejected"} /\ failed \in BOOLEAN
  /\ chained \subseteq {"start", "stop"} /\ sending \in BOOLEAN
  /\ queue \in Seq([kind : Kinds, by : {"manager", "event", "sending"}])
  /\ running \in BOOLEAN /\ afterStart \in Nat
  /\ started \in BOOLEAN /\ listening \in BOOLEAN /\ advertising \in BOOLEAN
  /\ calls \in Seq([kind : Kinds, by : {"manager", "event", "sending", "wrapper"}])
  /\ step \in {"idle", "listen", "servers", "native", "stopAdvertising",
               "stopListening", "close"}
  /\ ready \in BOOLEAN /\ router \in BOOLEAN
  /\ radio \in BOOLEAN /\ discovering \in BOOLEAN /\ accepting \in BOOLEAN

\* A manager that says it is started has started thaliMobile and it listens and
\* advertises, whatever calls an earlier session or an event left behind.
StartedIsUp == state = "started" => started /\ listening /\ advertising

\* The device of a manager that has stopped, or never started, neither looks for
\* peers nor shows itself nor takes a connection, as the manager's connection filter
\* asserts: even if an event started any of it while the manager was stopping.
QuietWhenStopped ==
  state \in {"created", "stopped"} => ~discovering /\ ~accepting /\ ~router

\* The three layers agree on whether Thali is up, whenever the manager says that it
\* has finished.
LayersAgree == TypeOK /\ StartedIsUp /\ QuietWhenStopped

Settled == queue = <<>> /\ calls = <<>> /\ afterStart = 0

\* When nothing is under way the native layer does what it was asked for, if the
\* stack is started with its radio on, however often the radio went and came; and
\* it never does anything else.
RestIsAsAsked ==
  Settled =>
    /\ (discovering => listening) /\ (accepting => advertising)
    /\ started /\ ready /\ radio =>
         (listening => discovering) /\ (advertising => accepting)

\* A stop comes to its end, whatever the stacks answer and the network does.
StopCompletes == state = "stopping" ~> state = "stopped"

\* A stop that is called while Thali starts is made once it has, unless the start
\* fails or another stop was faster.
StopIsMade == "stop" \in chained ~> (state \in {"stopping", "stopped"} \/ failed)

\* Both: whoever calls stop, at any time, gets it.
EveryStopEnds == StopCompletes /\ StopIsMade

\* A stop is the last word: once the manager has stopped, and nothing is under
\* way, thaliMobile is stopped.
StoppedIsStopped == state = "stopped" /\ Settled => ~started
=============================================================================
