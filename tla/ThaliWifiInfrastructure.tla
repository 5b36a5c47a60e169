----------------------- MODULE ThaliWifiInfrastructure -----------------------
(***************************************************************************)
(* The Wi-Fi half of discovery, thaliWifiInfrastructure.js: an SSDP client *)
(* that listens, an SSDP server that advertises the HTTPS router server,   *)
(* and the target and current states that follow the radio.  All methods   *)
(* run one after another in the module's promise queue, but a stop method  *)
(* changes its target at once, and network events come at any time.        *)
(***************************************************************************)
EXTENDS Integers, Sequences

CONSTANT
  MaxQueue    \* bound on the length of the promise queue

ASSUME QueueAssumption == MaxQueue \in Nat \ {0}

VARIABLES
  (* The device, as thaliMobileNativeWrapper last heard of it. *)
  radio,         \* gNonTcpNetworkStatus.wifi, "unknown" before the first event
  registered,    \* _networkChangedHandler listens to networkChangedNonTCP

  (* The promise queue. *)
  queue,         \* the calls in it, the running one first
  step,          \* the callback or promise the running one waits for
  status,        \* what getNonTCPNetworkStatus resolved with

  (* this.states *)
  started, stopping, networkState,
  target, current,

  (* What really runs. *)
  client,        \* the SSDP client
  ssdp,          \* the SSDP server
  latest,        \* setUSN was called with the latest USN
  router,        \* routerServer

  (* History, for the properties. *)
  asked,         \* what the application's own calls last asked for
  crossed        \* the radio went off while the call that asks for it waited

system == <<client, ssdp, latest, router>>
states == <<started, stopping, networkState, target, current>>
turns  == <<queue, step, status>>
vars   == <<radio, registered, turns, states, system, asked, crossed>>

Acts   == {"listening", "advertising"}
Nobody == [a \in Acts |-> FALSE]
Radio  == {"unknown", "on", "off"}    \* notHere and the rest count as off
Kinds  == {"start", "stop"} \cup {"startListening", "stopListening",
                                  "startAdvertising", "stopAdvertising"}
Calls  == [kind : Kinds, by : {"app"}]
            \cup [kind : Kinds \ {"start", "stop"}, by : {"radio"}]
Steps  == {"idle", "status", "answer", "clientStart", "clientStop",
           "serverStop", "close", "between", "reset", "listen", "serverStart",
           "restartStop", "restartStart"}

-----------------------------------------------------------------------------
(* The promise queue. *)

Running(kind) == queue # <<>> /\ Head(queue).kind = kind
Turn(kind)    == step = "idle" /\ Running(kind)

\* resolve or reject: to the queue they are the same.
Finish == queue' = Tail(queue) /\ step' = "idle"
Await(s) == step' = s /\ UNCHANGED queue

\* A start method that the application calls asks, even if the radio is off as
\* the target stays; a stop method unasks.  The network handler does neither.
Asks(acts, wanted) ==
  asked' = IF Head(queue).by = "app"
           THEN [a \in Acts |-> IF a \in acts THEN wanted ELSE asked[a]]
           ELSE asked

StartOf == [listening |-> "startListening", advertising |-> "startAdvertising"]
StopOf  == [listening |-> "stopListening",  advertising |-> "stopAdvertising"]

\* The application calls a method.  stopListeningForAdvertisements and
\* stopAdvertisingAndListening change the target before they queue.
Call(kind) ==
  /\ Len(queue) < MaxQueue
  /\ queue' = Append(queue, [kind |-> kind, by |-> "app"])
  /\ target' = CASE kind = "stopListening" ->
                      [target EXCEPT !["listening"] = FALSE]
                 [] kind = "stopAdvertising" ->
                      [target EXCEPT !["advertising"] = FALSE]
                 [] OTHER -> target
  /\ crossed' = [a \in Acts |-> crossed[a] /\ kind # StartOf[a]]
  /\ UNCHANGED <<radio, registered, step, status, started, stopping,
                 networkState, current, system, asked>>

-----------------------------------------------------------------------------
(* The network handler. *)

ByRadio(kinds) == [i \in 1..Len(kinds) |-> [kind |-> kinds[i], by |-> "radio"]]

Restored ==
  (IF target["listening"]   THEN <<"startListening">>   ELSE <<>>)
    \o (IF target["advertising"] THEN <<"startAdvertising">> ELSE <<>>)

\* A call of the application that has not begun.
Waits(kind) ==
  \E i \in 1..Len(queue) :
    queue[i] = [kind |-> kind, by |-> "app"] /\ (i > 1 \/ step = "idle")

\* A start that waits when the radio goes off is crossed by the stops that go
\* behind it, until the handler or the application starts the same anew.
Crosses(wifi) ==
  crossed' = [a \in Acts |-> IF wifi = "on" THEN crossed[a] /\ ~target[a]
                             ELSE crossed[a] \/ Waits(StartOf[a])]

\* Broken: when the radio goes off, everything is stopped for good.
RadioChangesStopsAll(wifi) ==
  /\ radio' = wifi
  /\ IF registered /\ ~stopping /\ wifi # networkState
     THEN /\ networkState' = wifi /\ Crosses(wifi)
          /\ queue' = queue \o ByRadio(IF wifi = "on" THEN Restored
                                                      ELSE <<"stop">>)
     ELSE UNCHANGED <<networkState, queue, crossed>>
  /\ Len(queue') \leq MaxQueue
  /\ UNCHANGED <<registered, step, status, started, stopping, target, current,
                 system, asked>>

\* Broken: when the radio goes off, the SSDP client is left to itself.
RadioChangesKeepsClient(wifi) ==
  /\ radio' = wifi
  /\ IF registered /\ ~stopping /\ wifi # networkState
     THEN /\ networkState' = wifi /\ Crosses(wifi)
          /\ queue' = queue \o ByRadio(IF wifi = "on" THEN Restored
                                       ELSE <<"stopAdvertising">>)
     ELSE UNCHANGED <<networkState, queue, crossed>>
  /\ Len(queue') \leq MaxQueue
  /\ UNCHANGED <<registered, step, status, started, stopping, target, current,
                 system, asked>>

\* Broken: the stops of a radio that goes off change the targets as well.
RadioChangesForgets(wifi) ==
  /\ radio' = wifi
  /\ IF registered /\ ~stopping /\ wifi # networkState
     THEN /\ networkState' = wifi /\ Crosses(wifi)
          /\ target' = IF wifi = "on" THEN target ELSE Nobody
          /\ queue' = queue \o ByRadio(IF wifi = "on" THEN Restored
                            ELSE <<"stopAdvertising", "stopListening">>)
     ELSE UNCHANGED <<networkState, queue, target, crossed>>
  /\ Len(queue') \leq MaxQueue
  /\ UNCHANGED <<registered, step, status, started, stopping, current, system,
                 asked>>

\* networkChangedNonTCP.  An event that leaves Wi-Fi as it was, or comes in the
\* middle of a stop, is dropped; else the targets are restored, or everything
\* is stopped with the targets left alone.
RadioChanges(wifi) ==
  /\ radio' = wifi
  /\ IF registered /\ ~stopping /\ wifi # networkState
     THEN /\ networkState' = wifi /\ Crosses(wifi)
          /\ queue' = queue \o ByRadio(IF wifi = "on" THEN Restored
                            ELSE <<"stopAdvertising", "stopListening">>)
     ELSE UNCHANGED <<networkState, queue, crossed>>
  /\ Len(queue') \leq MaxQueue
  /\ UNCHANGED <<registered, step, status, started, stopping, target, current,
                 system, asked>>

-----------------------------------------------------------------------------
(* start *)

BeginStart ==
  /\ Turn("start")
  /\ IF started
     THEN Finish /\ UNCHANGED registered
     ELSE Await("status") /\ registered' = TRUE
  /\ UNCHANGED <<radio, status, states, system, asked, crossed>>

\* Broken: the start waits for a radio that is on.
StatusReadOnly ==
  /\ step = "status"
  /\ radio = "on"
  /\ status' = radio
  /\ Await("answer")
  /\ UNCHANGED <<radio, registered, states, system, asked, crossed>>

\* getNonTCPNetworkStatus, which waits for the first event if there was none.
StatusRead ==
  /\ step = "status"
  /\ radio # "unknown"
  /\ status' = radio
  /\ Await("answer")
  /\ UNCHANGED <<radio, registered, states, system, asked, crossed>>

\* Broken: the status overwrites what an event brought in the meantime.
StatusAnsweredLate ==
  /\ step = "answer"
  /\ networkState' = status
  /\ started' = TRUE
  /\ status' = "unknown"
  /\ Finish
  /\ UNCHANGED <<radio, registered, stopping, target, current, system, asked, crossed>>

\* Its continuation; an event that came in the meantime is newer.
StatusAnswered ==
  /\ step = "answer"
  /\ networkState' = IF networkState = "unknown" THEN status ELSE networkState
  /\ started' = TRUE
  /\ status' = "unknown"
  /\ Finish
  /\ UNCHANGED <<radio, registered, stopping, target, current, system, asked, crossed>>

-----------------------------------------------------------------------------
(* stop *)

BeginStop ==
  /\ Turn("stop")
  /\ asked' = Nobody
  /\ IF ~started
     THEN Finish /\ UNCHANGED <<stopping, target>>
     ELSE /\ stopping' = TRUE
          /\ target' = [target EXCEPT !["advertising"] = FALSE]
          /\ Await(IF current["advertising"] THEN "serverStop" ELSE "between")
  /\ UNCHANGED <<radio, registered, status, started, networkState, current,
                 system, crossed>>

\* Broken: the second half is skipped.
StopListeningTooSkipped ==
  /\ step = "between"
  /\ target' = [target EXCEPT !["listening"] = FALSE]
  /\ Await("reset")
  /\ UNCHANGED <<radio, registered, status, started, stopping, networkState,
                 current, system, asked, crossed>>

\* The second half of stop.
StopListeningToo ==
  /\ step = "between"
  /\ target' = [target EXCEPT !["listening"] = FALSE]
  /\ Await(IF current["listening"] THEN "clientStop" ELSE "reset")
  /\ UNCHANGED <<radio, registered, status, started, stopping, networkState,
                 current, system, asked, crossed>>

Reset ==
  /\ step = "reset"
  /\ started' = FALSE /\ stopping' = FALSE /\ networkState' = "unknown"
  /\ target' = Nobody /\ current' = Nobody
  /\ registered' = FALSE
  /\ Finish
  /\ UNCHANGED <<radio, status, system, asked, crossed>>

-----------------------------------------------------------------------------
(* Listening *)

BeginStartListening ==
  /\ Turn("startListening")
  /\ IF ~started
     THEN Finish /\ UNCHANGED <<target, asked>>
     ELSE /\ target' = [target EXCEPT !["listening"] = TRUE]
          /\ Asks({"listening"}, TRUE)
          /\ IF ~current["listening"] /\ networkState = "on"
             THEN Await("clientStart") ELSE Finish
  /\ UNCHANGED <<radio, registered, status, started, stopping, networkState,
                 current, system, crossed>>

ClientStarted ==
  /\ step = "clientStart"
  /\ client' = TRUE
  /\ current' = [current EXCEPT !["listening"] = TRUE]
  /\ Finish
  /\ UNCHANGED <<radio, registered, status, started, stopping, networkState,
                 target, ssdp, latest, router, asked, crossed>>

BeginStopListening ==
  /\ Turn("stopListening")
  /\ Asks({"listening"}, FALSE)
  /\ IF current["listening"] THEN Await("clientStop") ELSE Finish
  /\ UNCHANGED <<radio, registered, status, states, system, crossed>>

ClientStopped ==
  /\ step = "clientStop"
  /\ client' = FALSE
  /\ current' = [current EXCEPT !["listening"] = FALSE]
  /\ IF Running("stop") THEN Await("reset") ELSE Finish
  /\ UNCHANGED <<radio, registered, status, started, stopping, networkState,
                 target, ssdp, latest, router, asked, crossed>>

-----------------------------------------------------------------------------
(* Advertising *)

\* Broken: an update while advertising leaves the server as it is.
BeginStartAdvertisingQuietly ==
  /\ Turn("startAdvertising")
  /\ IF ~started
     THEN Finish /\ UNCHANGED <<target, latest, router, asked>>
     ELSE /\ target' = [target EXCEPT !["advertising"] = TRUE]
          /\ latest' = FALSE
          /\ Asks({"advertising"}, TRUE)
          /\ IF networkState # "on" \/ current["advertising"]
             THEN Finish /\ UNCHANGED router
             ELSE Await("listen") /\ router' = "opening"
  /\ UNCHANGED <<radio, registered, status, started, stopping, networkState,
                 current, client, ssdp, crossed>>

\* Each call makes a new USN, also one that is rejected.  A server that
\* advertises is restarted with it; else the router server is opened first.
BeginStartAdvertising ==
  /\ Turn("startAdvertising")
  /\ IF ~started
     THEN Finish /\ UNCHANGED <<target, latest, router, asked>>
     ELSE /\ target' = [target EXCEPT !["advertising"] = TRUE]
          /\ latest' = FALSE
          /\ Asks({"advertising"}, TRUE)
          /\ CASE networkState # "on" -> Finish /\ UNCHANGED router
               [] networkState = "on" /\ current["advertising"] ->
                    Await("restartStop") /\ UNCHANGED router
               [] OTHER -> Await("listen") /\ router' = "opening"
  /\ UNCHANGED <<radio, registered, status, started, stopping, networkState,
                 current, client, ssdp, crossed>>

\* listeningHandler
RouterListens ==
  /\ step = "listen"
  /\ router' = "up"
  /\ latest' = TRUE
  /\ Await("serverStart")
  /\ UNCHANGED <<radio, registered, status, states, client, ssdp, asked, crossed>>

\* startErrorListener
RouterFails ==
  /\ step = "listen"
  /\ router' = "failed"
  /\ Finish
  /\ UNCHANGED <<radio, registered, status, states, client, ssdp, latest,
                 asked, crossed>>

ServerStarted ==
  /\ step = "serverStart"
  /\ ssdp' = TRUE
  /\ current' = [current EXCEPT !["advertising"] = TRUE]
  /\ Finish
  /\ UNCHANGED <<radio, registered, status, started, stopping, networkState,
                 target, client, latest, router, asked, crossed>>

\* The two callbacks of a restart.
RestartStopped ==
  /\ step = "restartStop"
  /\ ssdp' = FALSE
  /\ latest' = TRUE
  /\ Await("restartStart")
  /\ UNCHANGED <<radio, registered, status, states, client, router, asked, crossed>>

RestartStarted ==
  /\ step = "restartStart"
  /\ ssdp' = TRUE
  /\ Finish
  /\ UNCHANGED <<radio, registered, status, states, client, latest, router,
                 asked, crossed>>

\* Broken: the router server is closed first.
BeginStopAdvertisingRouterFirst ==
  /\ Turn("stopAdvertising")
  /\ Asks({"advertising"}, FALSE)
  /\ IF current["advertising"] THEN Await("close") ELSE Finish
  /\ UNCHANGED <<radio, registered, status, states, system, crossed>>

BeginStopAdvertising ==
  /\ Turn("stopAdvertising")
  /\ Asks({"advertising"}, FALSE)
  /\ IF current["advertising"] THEN Await("serverStop") ELSE Finish
  /\ UNCHANGED <<radio, registered, status, states, system, crossed>>

ServerStopped ==
  /\ step = "serverStop"
  /\ ssdp' = FALSE
  /\ Await("close")
  /\ UNCHANGED <<radio, registered, status, states, client, latest, router,
                 asked, crossed>>

\* closeAll
RouterClosed ==
  /\ step = "close"
  /\ router' = "down"
  /\ current' = [current EXCEPT !["advertising"] = FALSE]
  /\ IF Running("stop") THEN Await("between") ELSE Finish
  /\ UNCHANGED <<radio, registered, status, started, stopping, networkState,
                 target, client, ssdp, latest, asked, crossed>>

-----------------------------------------------------------------------------
Init ==
  /\ radio \in Radio /\ registered = FALSE
  /\ queue = <<>> /\ step = "idle" /\ status = "unknown"
  /\ started = FALSE /\ stopping = FALSE /\ networkState = "unknown"
  /\ target = Nobody /\ current = Nobody
  /\ client = FALSE /\ ssdp = FALSE /\ latest = FALSE /\ router = "down"
  /\ asked = Nobody /\ crossed = Nobody

BeginTurn ==
  \/ BeginStart \/ BeginStop
  \/ BeginStartListening \/ BeginStopListening
  \/ BeginStartAdvertising \/ BeginStopAdvertising

Callback ==
  \/ StatusRead \/ StatusAnswered \/ StopListeningToo \/ Reset
  \/ ClientStarted \/ ClientStopped
  \/ RouterListens \/ RouterFails \/ ServerStarted
  \/ RestartStopped \/ RestartStarted \/ ServerStopped \/ RouterClosed

Next ==
  \/ \E kind \in Kinds : Call(kind)
  \/ \E wifi \in {"on", "off"} : RadioChanges(wifi)
  \/ BeginTurn
  \/ Callback

Spec == Init /\ [][Next]_vars

\* The event loop gets to whatever is ready; the callbacks of the SSDP library
\* and of the HTTPS server come.  The application and the radio owe nothing.
LiveSpec == Spec /\ WF_vars(BeginTurn) /\ WF_vars(Callback)

-----------------------------------------------------------------------------
(* Properties *)

\* The variables keep their types.
TypeOK ==
  /\ radio \in Radio /\ registered \in BOOLEAN
  /\ queue \in Seq(Calls) /\ step \in Steps /\ status \in Radio
  /\ started \in BOOLEAN /\ stopping \in BOOLEAN /\ networkState \in Radio
  /\ target \in [Acts -> BOOLEAN] /\ current \in [Acts -> BOOLEAN]
  /\ client \in BOOLEAN /\ ssdp \in BOOLEAN /\ latest \in BOOLEAN
  /\ router \in {"down", "opening", "up", "failed"}
  /\ asked \in [Acts -> BOOLEAN] /\ crossed \in [Acts -> BOOLEAN]

\* The Wi-Fi state the methods decide by is the radio's, over the event that
\* comes while start waits for the status and over every restart.
StateIsFresh == started /\ ~stopping => networkState = radio

\* What is not started neither hears nor says anything and has no server open,
\* whatever the radio did during the stop.
StoppedIsSilent ==
  ~started => ~client /\ ~ssdp /\ router \in {"down", "failed"}

\* The address that SSDP advertises is that of a router server that is up.
AdvertisedIsServed == ssdp => router = "up"

\* The queue has been worked off.
AtRest == queue = <<>> /\ step = "idle"

\* At rest nothing runs without the radio or beyond its target.
NothingRunsUnwanted ==
  AtRest => \A a \in Acts : current[a] => target[a] /\ networkState = "on"

\* At rest, with the radio on, all runs that the application asked for, however
\* the radio came and went, unless it went off while the call that asked was
\* waiting; only a router server that could not be opened is not tried again.
Runs(a) == current[a] \/ (a = "advertising" /\ router = "failed")
AskedIsRunning ==
  AtRest /\ networkState = "on" =>
    \A a \in Acts : asked[a] /\ ~crossed[a] => Runs(a)

\* At rest, what is advertised is the USN of the latest update, so that no
\* update goes unnoticed by the other peers.
LatestIsAdvertised == AtRest /\ current["advertising"] => latest

\* Whenever the radio is on and nothing is under way, what was asked for runs,
\* as the handler's "try to get into the target states" has it.
TargetsAreReached ==
  AtRest /\ networkState = "on" => \A a \in Acts : asked[a] => Runs(a)

\* At rest, what runs is what was asked for last.
RestIsAsAsked == AskedIsRunning /\ LatestIsAdvertised

\* Every call's turn ends, if the native layer ever reports its radios.
EveryTurnEnds == []<>(step = "idle") \/ <>[](radio = "unknown")

\* stopListeningForAdvertisements "will stop wifiPeerAvailabilityChanged from
\* firing": at rest nothing runs that the application has not asked for.
StopIsFinal == AtRest => \A a \in Acts : current[a] => asked[a]

-----------------------------------------------------------------------------
(* The inductive invariant. *)

\* A call waits for the callbacks of its own kind, and start and stop are the
\* only ones that run while the layer is not started, or stopping.
StepFits ==
  /\ step # "idle" => queue # <<>>
  /\ step \in {"status", "answer"} => Running("start") /\ registered /\ ~started
  /\ step = "clientStart" => Running("startListening")
  /\ step = "clientStop" => Running("stopListening") \/ Running("stop")
  /\ step \in {"serverStop", "close"} =>
       Running("stopAdvertising") \/ Running("stop")
  /\ step \in {"between", "reset"} => Running("stop")
  /\ step \in {"listen", "serverStart", "restartStop", "restartStart"} =>
       Running("startAdvertising")
  /\ step \notin {"idle", "status", "answer"} => started
  /\ stopping <=> step # "idle" /\ Running("stop")

\* The states tell what runs, at each step of the call that changes it.
SystemFits ==
  /\ client = current["listening"]
  /\ ssdp => current["advertising"] /\ step # "close"
  /\ current["advertising"] => router = "up"
  /\ router = "up" => current["advertising"] \/ step = "serverStart"
  /\ step = "serverStart" => router = "up"
  /\ router = "opening" <=> step = "listen"
  /\ step \in {"restartStop", "restartStart", "serverStop", "close"} =>
       current["advertising"]
  /\ step \in {"between", "reset"} \/ (step = "clientStop" /\ Running("stop")) =>
       ~current["advertising"]
  /\ step = "reset" => ~current["listening"]

\* The Wi-Fi state is the radio's from the moment the handler hears of it.
RadioFits ==
  /\ started => registered /\ networkState # "unknown"
  /\ ~started => current["listening"] = FALSE /\ current["advertising"] = FALSE
  /\ registered => started \/ step \in {"status", "answer"}
  /\ ~registered => networkState = "unknown"
  /\ registered /\ ~stopping /\ networkState # "unknown" => networkState = radio
  /\ step = "answer" =>
       status # "unknown" /\ (networkState = "unknown" => status = radio)

IInv == TypeOK /\ StepFits /\ SystemFits /\ RadioFits

\* What runs, or is being started, is wanted, or the call that stops it is in
\* the queue: why nothing unwanted is left once the queue has been worked off.
Has(q, kind) == \E i \in 1..Len(q) : q[i].kind = kind

RunsAreWanted ==
  ~stopping =>
    /\ current["listening"] \/ step = "clientStart" =>
         \/ target["listening"] /\ networkState = "on"
         \/ Has(queue, "stopListening")
    /\ current["advertising"] \/ step \in {"listen", "serverStart"} =>
         \/ target["advertising"] /\ networkState = "on"
         \/ Has(queue, "stopAdvertising")

\* Which calls have not begun; whether one of them, from k on, takes back what
\* was asked, and whether one from k on starts it and none stops it after that.
From == IF step = "idle" THEN 1 ELSE 2

Unasks(q, k, a) ==
  \E i \in k..Len(q) :
    q[i] = [kind |-> StopOf[a], by |-> "app"] \/ q[i].kind = "stop"

Restarts(q, k, a) ==
  \E i \in k..Len(q) : /\ q[i].kind = StartOf[a]
                       /\ \A j \in i+1..Len(q) : q[j].kind # StopOf[a]

\* What was asked for is a target, or about to be taken back.
AsksFit ==
  \A a \in Acts : asked[a] =>
    started /\ ~stopping /\ (target[a] \/ Unasks(queue, From, a))

\* A start that waits and is not crossed has its way, or is taken back.
StartsFit ==
  \A a \in Acts : \A k \in From..Len(queue) :
    ~crossed[a] /\ queue[k] = [kind |-> StartOf[a], by |-> "app"]
      => Restarts(queue, k, a) \/ Unasks(queue, k, a)

\* What was asked for runs with the radio, or will, or is about to be taken back.
ReachFits ==
  \A a \in Acts : networkState = "on" /\ asked[a] /\ ~crossed[a] =>
    \/ Runs(a) /\ ~Has(queue, StopOf[a])
    \/ Restarts(queue, 1, a)
    \/ Unasks(queue, From, a)

\* A server with an old USN is being restarted, or will be stopped.
LatestFits ==
  /\ ~stopping /\ current["advertising"] /\ ~latest =>
       step = "restartStop" \/ Has(queue, "stopAdvertising")
  /\ step \in {"serverStart", "restartStart"} => latest

RestFits == AsksFit /\ StartsFit /\ ReachFits /\ LatestFits

=============================================================================
