------------------- MODULE ThaliWifiInfrastructure_proofs -------------------
(***************************************************************************)
(* Theorems about the Wi-Fi infrastructure, for a promise queue of any     *)
(* bound.                                                                  *)
(***************************************************************************)
EXTENDS ThaliWifiInfrastructure, SequenceTheorems, TLAPS

-----------------------------------------------------------------------------
(* Facts about the queue *)

\* What a radio change puts into the queue are calls.
LEMMA RestoredType ==
  ASSUME TypeOK
  PROVE  /\ ByRadio(Restored) \in Seq(Calls)
         /\ ByRadio(<<"stopAdvertising", "stopListening">>) \in Seq(Calls)
<1>1. ASSUME NEW kind \in Kinds \ {"start", "stop"}
      PROVE  [kind |-> kind, by |-> "radio"] \in Calls
  BY DEF Calls
<1>2. ASSUME NEW kinds \in Seq(Kinds \ {"start", "stop"})
      PROVE  ByRadio(kinds) \in Seq(Calls)
  BY <1>1 DEF ByRadio
<1>3. /\ <<>> \in Seq(Kinds \ {"start", "stop"})
      /\ <<"startListening">> \in Seq(Kinds \ {"start", "stop"})
      /\ <<"startAdvertising">> \in Seq(Kinds \ {"start", "stop"})
      /\ <<"stopAdvertising", "stopListening">> \in Seq(Kinds \ {"start", "stop"})
  BY DEF Kinds
<1>4. Restored \in Seq(Kinds \ {"start", "stop"})
  BY <1>3, ConcatProperties DEF Restored
<1> QED BY <1>2, <1>3, <1>4

\* Calls that queue up behind others leave the running one alone.
LEMMA QueueGrows ==
  ASSUME NEW q \in Seq(Calls), NEW more \in Seq(Calls)
  PROVE  /\ q \o more \in Seq(Calls)
         /\ q # <<>> => q \o more # <<>> /\ Head(q \o more) = Head(q)
  OBVIOUS

\* A call of the application is one more at the end.
LEMMA QueueAppends ==
  ASSUME NEW q \in Seq(Calls), NEW c \in Calls
  PROVE  /\ Append(q, c) \in Seq(Calls)
         /\ q # <<>> => Append(q, c) # <<>> /\ Head(Append(q, c)) = Head(q)
  BY AppendProperties, HeadTailAppend

\* The end of a call leaves the calls behind it.
LEMMA QueueShrinks ==
  ASSUME NEW q \in Seq(Calls), q # <<>>
  PROVE  Tail(q) \in Seq(Calls) /\ Head(q) \in Calls
  BY HeadTailProperties

-----------------------------------------------------------------------------
(* The invariant *)

\* A call of the application changes a target and the end of the queue.
LEMMA CallKeeps ==
  ASSUME IInv, NEW kind \in Kinds, Call(kind)
  PROVE  IInv'
<1>1. /\ queue' \in Seq(Calls) /\ target' \in [Acts -> BOOLEAN]
      /\ queue # <<>> => queue' # <<>> /\ Head(queue') = Head(queue)
  <2>1. [kind |-> kind, by |-> "app"] \in Calls
    BY DEF Calls
  <2> QED BY <2>1, QueueAppends DEF Call, IInv, TypeOK, Acts
<1>2. UNCHANGED <<radio, registered, step, status, started, stopping,
                  networkState, current, system, asked>>
  BY DEF Call
<1>a. crossed' \in [Acts -> BOOLEAN]
  <2> DEFINE f == [a \in Acts |-> crossed[a] /\ kind # StartOf[a]]
  <2>1. f \in [Acts -> BOOLEAN] /\ crossed' = f
    BY Zenon DEF Call
  <2> QED BY <2>1, Zenon
<1>3. TypeOK'
  BY <1>1, <1>2, <1>a DEF IInv, TypeOK, system
<1>4. StepFits'
  BY <1>1, <1>2 DEF IInv, StepFits, Running
<1>5. SystemFits'
  BY <1>1, <1>2 DEF IInv, StepFits, SystemFits, Running, system
<1>6. RadioFits'
  BY <1>2 DEF IInv, RadioFits
<1> QED BY <1>3, <1>4, <1>5, <1>6 DEF IInv

\* A change of the radio reaches the Wi-Fi state at once and the rest through
\* the end of the queue.
LEMMA RadioKeeps ==
  ASSUME IInv, NEW wifi \in {"on", "off"}, RadioChanges(wifi)
  PROVE  IInv'
<1>1. /\ queue' \in Seq(Calls)
      /\ queue # <<>> => queue' # <<>> /\ Head(queue') = Head(queue)
  <2>1. \/ UNCHANGED queue
        \/ queue' = queue \o ByRadio(Restored)
        \/ queue' = queue \o ByRadio(<<"stopAdvertising", "stopListening">>)
    BY DEF RadioChanges
  <2> QED BY <2>1, RestoredType, QueueGrows DEF IInv, TypeOK
<1>2. /\ radio' = wifi
      /\ networkState' = IF registered /\ ~stopping THEN wifi ELSE networkState
  BY DEF RadioChanges
<1>3. UNCHANGED <<registered, step, status, started, stopping, target, current,
                  system, asked>>
  BY DEF RadioChanges
<1>a. crossed' \in [Acts -> BOOLEAN]
  <2> DEFINE f == [a \in Acts |-> IF wifi = "on" THEN crossed[a] /\ ~target[a]
                                ELSE crossed[a] \/ Waits(StartOf[a])]
  <2>1. \A a \in Acts : crossed[a] \in BOOLEAN
    BY DEF IInv, TypeOK
  <2>2. \A kind : Waits(kind) \in BOOLEAN
    BY Zenon DEF Waits
  <2>3. f \in [Acts -> BOOLEAN]
    BY <2>1, <2>2, Zenon
  <2>4. crossed' = f \/ crossed' = crossed
    BY Zenon DEF RadioChanges, Crosses
  <2>5. crossed \in [Acts -> BOOLEAN]
    BY DEF IInv, TypeOK
  <2> QED BY <2>3, <2>4, <2>5, Zenon
<1>4. TypeOK'
  BY <1>1, <1>2, <1>3, <1>a DEF IInv, TypeOK, Radio, system
<1>5. StepFits'
  BY <1>1, <1>3 DEF IInv, StepFits, Running
<1>6. SystemFits'
  BY <1>1, <1>3 DEF IInv, StepFits, SystemFits, Running, system
<1>7. RadioFits'
  BY <1>2, <1>3 DEF IInv, StepFits, RadioFits, Running
<1> QED BY <1>4, <1>5, <1>6, <1>7 DEF IInv

\* The beginning of a turn keeps the invariant.
LEMMA BeginKeeps ==
  ASSUME IInv, BeginTurn
  PROVE  IInv'
<1> USE DEF Turn, Running, Finish, Await, Acts, Steps, system, states
<1>1. queue \in Seq(Calls) /\ queue # <<>> /\ Tail(queue) \in Seq(Calls)
  BY QueueShrinks DEF BeginTurn, BeginStart, BeginStop, BeginStartListening,
     BeginStopListening, BeginStartAdvertising, BeginStopAdvertising, IInv,
     TypeOK
<1>2. asked' \in [Acts -> BOOLEAN]
  <2>1. asked \in [Acts -> BOOLEAN] /\ Nobody \in [Acts -> BOOLEAN]
    BY DEF IInv, TypeOK, Nobody
  <2>2. ASSUME NEW acts, NEW wanted \in BOOLEAN, Asks(acts, wanted)
        PROVE  asked' \in [Acts -> BOOLEAN]
    <3> DEFINE f == [a \in Acts |-> IF a \in acts THEN wanted ELSE asked[a]]
    <3>1. f \in [Acts -> BOOLEAN]
      BY <2>1, Zenon
    <3>2. asked' = f \/ asked' = asked
      BY <2>2, Zenon DEF Asks
    <3> QED BY <2>1, <3>1, <3>2, Zenon
  <2>3. \/ asked' = asked \/ asked' = Nobody
        \/ Asks({"listening"}, TRUE) \/ Asks({"listening"}, FALSE)
        \/ Asks({"advertising"}, TRUE) \/ Asks({"advertising"}, FALSE)
    BY DEF BeginTurn, BeginStart, BeginStop, BeginStartListening,
       BeginStopListening, BeginStartAdvertising, BeginStopAdvertising
  <2> QED BY <2>1, <2>2, <2>3, Zenon
<1>3. CASE BeginStart
  <2>1. TypeOK'
    BY <1>3, <1>1, <1>2 DEF BeginStart, IInv, TypeOK
  <2>2. StepFits' /\ SystemFits' /\ RadioFits'
    BY <1>3, <1>1 DEF BeginStart, IInv, TypeOK, StepFits, SystemFits, RadioFits
  <2> QED BY <2>1, <2>2 DEF IInv
<1>4. CASE BeginStop
  <2>1. TypeOK'
    BY <1>4, <1>1, <1>2 DEF BeginStop, IInv, TypeOK
  <2>2. StepFits' /\ SystemFits' /\ RadioFits'
    BY <1>4, <1>1 DEF BeginStop, IInv, TypeOK, StepFits, SystemFits, RadioFits
  <2> QED BY <2>1, <2>2 DEF IInv
<1>5. CASE BeginStartListening
  <2>1. TypeOK'
    BY <1>5, <1>1, <1>2 DEF BeginStartListening, IInv, TypeOK
  <2>2. StepFits' /\ SystemFits' /\ RadioFits'
    BY <1>5, <1>1 DEF BeginStartListening, IInv, TypeOK, StepFits, SystemFits, RadioFits
  <2> QED BY <2>1, <2>2 DEF IInv
<1>6. CASE BeginStopListening
  <2>1. TypeOK'
    BY <1>6, <1>1, <1>2 DEF BeginStopListening, IInv, TypeOK
  <2>2. StepFits' /\ SystemFits' /\ RadioFits'
    BY <1>6, <1>1 DEF BeginStopListening, IInv, TypeOK, StepFits, SystemFits, RadioFits
  <2> QED BY <2>1, <2>2 DEF IInv
<1>7. CASE BeginStartAdvertising
  <2>1. TypeOK'
    BY <1>7, <1>1, <1>2 DEF BeginStartAdvertising, IInv, TypeOK
  <2>2. StepFits' /\ SystemFits' /\ RadioFits'
    BY <1>7, <1>1 DEF BeginStartAdvertising, IInv, TypeOK, StepFits, SystemFits, RadioFits
  <2> QED BY <2>1, <2>2 DEF IInv
<1>8. CASE BeginStopAdvertising
  <2>1. TypeOK'
    BY <1>8, <1>1, <1>2 DEF BeginStopAdvertising, IInv, TypeOK
  <2>2. StepFits' /\ SystemFits' /\ RadioFits'
    BY <1>8, <1>1 DEF BeginStopAdvertising, IInv, TypeOK, StepFits, SystemFits, RadioFits
  <2> QED BY <2>1, <2>2 DEF IInv
<1> QED BY <1>3, <1>4, <1>5, <1>6, <1>7, <1>8 DEF BeginTurn

\* The callbacks keep the invariant.
LEMMA CallbackKeeps ==
  ASSUME IInv, Callback
  PROVE  IInv'
<1> USE DEF Running, Finish, Await, Acts, Steps, Radio, Nobody, system, states
<1>1. queue \in Seq(Calls) /\ queue # <<>> /\ Tail(queue) \in Seq(Calls)
  BY QueueShrinks DEF Callback, StatusRead, StatusAnswered, StopListeningToo,
     Reset, ClientStarted, ClientStopped, RouterListens, RouterFails,
     ServerStarted, RestartStopped, RestartStarted, ServerStopped,
     RouterClosed, IInv, TypeOK, StepFits
<1>2. CASE StatusRead
  <2>1. TypeOK'
    BY <1>2, <1>1 DEF StatusRead, IInv, TypeOK
  <2>2. StepFits' /\ SystemFits' /\ RadioFits'
    BY <1>2, <1>1 DEF StatusRead, IInv, TypeOK, StepFits, SystemFits, RadioFits
  <2> QED BY <2>1, <2>2 DEF IInv
<1>3. CASE StatusAnswered
  <2>1. TypeOK'
    BY <1>3, <1>1 DEF StatusAnswered, IInv, TypeOK
  <2>2. StepFits' /\ SystemFits' /\ RadioFits'
    BY <1>3, <1>1 DEF StatusAnswered, IInv, TypeOK, StepFits, SystemFits, RadioFits
  <2> QED BY <2>1, <2>2 DEF IInv
<1>4. CASE StopListeningToo
  <2>1. TypeOK'
    BY <1>4, <1>1 DEF StopListeningToo, IInv, TypeOK
  <2>2. StepFits' /\ SystemFits' /\ RadioFits'
    BY <1>4, <1>1 DEF StopListeningToo, IInv, TypeOK, StepFits, SystemFits, RadioFits
  <2> QED BY <2>1, <2>2 DEF IInv
<1>5. CASE Reset
  <2>1. TypeOK'
    BY <1>5, <1>1 DEF Reset, IInv, TypeOK
  <2>2. StepFits' /\ SystemFits' /\ RadioFits'
    BY <1>5, <1>1 DEF Reset, IInv, TypeOK, StepFits, SystemFits, RadioFits
  <2> QED BY <2>1, <2>2 DEF IInv
<1>6. CASE ClientStarted
  <2>1. TypeOK'
    BY <1>6, <1>1 DEF ClientStarted, IInv, TypeOK
  <2>2. StepFits' /\ SystemFits' /\ RadioFits'
    BY <1>6, <1>1 DEF ClientStarted, IInv, TypeOK, StepFits, SystemFits, RadioFits
  <2> QED BY <2>1, <2>2 DEF IInv
<1>7. CASE ClientStopped
  <2>1. TypeOK'
    <3>1. queue' \in Seq(Calls) /\ step' \in Steps
      BY <1>7, <1>1 DEF ClientStopped, IInv, TypeOK
    <3>2. current' \in [Acts -> BOOLEAN]
      BY <1>7 DEF ClientStopped, IInv, TypeOK
    <3>3. /\ client' \in BOOLEAN
          /\ UNCHANGED <<radio, registered, status, started, stopping,
                         networkState, target, ssdp, latest, router, asked,
                         crossed>>
      BY <1>7 DEF ClientStopped
    <3> QED BY <3>1, <3>2, <3>3 DEF IInv, TypeOK
  <2>2. StepFits' /\ SystemFits' /\ RadioFits'
    BY <1>7, <1>1 DEF ClientStopped, IInv, TypeOK, StepFits, SystemFits, RadioFits
  <2> QED BY <2>1, <2>2 DEF IInv
<1>8. CASE RouterListens
  <2>1. TypeOK'
    BY <1>8, <1>1 DEF RouterListens, IInv, TypeOK
  <2>2. StepFits' /\ SystemFits' /\ RadioFits'
    BY <1>8, <1>1 DEF RouterListens, IInv, TypeOK, StepFits, SystemFits, RadioFits
  <2> QED BY <2>1, <2>2 DEF IInv
<1>9. CASE RouterFails
  <2>1. TypeOK'
    BY <1>9, <1>1 DEF RouterFails, IInv, TypeOK
  <2>2. StepFits' /\ SystemFits' /\ RadioFits'
    BY <1>9, <1>1 DEF RouterFails, IInv, TypeOK, StepFits, SystemFits, RadioFits
  <2> QED BY <2>1, <2>2 DEF IInv
<1>10. CASE ServerStarted
  <2>1. TypeOK'
    BY <1>10, <1>1 DEF ServerStarted, IInv, TypeOK
  <2>2. StepFits' /\ SystemFits' /\ RadioFits'
    BY <1>10, <1>1 DEF ServerStarted, IInv, TypeOK, StepFits, SystemFits, RadioFits
  <2> QED BY <2>1, <2>2 DEF IInv
<1>11. CASE RestartStopped
  <2>1. TypeOK'
    <3>1. queue' \in Seq(Calls) /\ step' \in Steps
      BY <1>11, <1>1 DEF RestartStopped, IInv, TypeOK
    <3>2. current' \in [Acts -> BOOLEAN]
      BY <1>11 DEF RestartStopped, IInv, TypeOK
    <3>3. /\ ssdp' \in BOOLEAN /\ latest' \in BOOLEAN
          /\ UNCHANGED <<radio, registered, status, started, stopping,
                         networkState, target, current, client, router, asked,
                         crossed>>
      BY <1>11 DEF RestartStopped
    <3> QED BY <3>1, <3>2, <3>3 DEF IInv, TypeOK
  <2>2. StepFits' /\ SystemFits' /\ RadioFits'
    BY <1>11, <1>1 DEF RestartStopped, IInv, TypeOK, StepFits, SystemFits, RadioFits
  <2> QED BY <2>1, <2>2 DEF IInv
<1>12. CASE RestartStarted
  <2>1. TypeOK'
    BY <1>12, <1>1 DEF RestartStarted, IInv, TypeOK
  <2>2. StepFits' /\ SystemFits' /\ RadioFits'
    BY <1>12, <1>1 DEF RestartStarted, IInv, TypeOK, StepFits, SystemFits, RadioFits
  <2> QED BY <2>1, <2>2 DEF IInv
<1>13. CASE ServerStopped
  <2>1. TypeOK'
    <3>1. queue' \in Seq(Calls) /\ step' \in Steps
      BY <1>13, <1>1 DEF ServerStopped, IInv, TypeOK
    <3>2. current' \in [Acts -> BOOLEAN]
      BY <1>13 DEF ServerStopped, IInv, TypeOK
    <3>3. /\ ssdp' \in BOOLEAN
          /\ UNCHANGED <<radio, registered, status, started, stopping,
                         networkState, target, current, client, latest, router,
                         asked, crossed>>
      BY <1>13 DEF ServerStopped
    <3> QED BY <3>1, <3>2, <3>3 DEF IInv, TypeOK
  <2>2. StepFits' /\ SystemFits' /\ RadioFits'
    BY <1>13, <1>1 DEF ServerStopped, IInv, TypeOK, StepFits, SystemFits, RadioFits
  <2> QED BY <2>1, <2>2 DEF IInv
<1>14. CASE RouterClosed
  <2>1. TypeOK'
    BY <1>14, <1>1 DEF RouterClosed, IInv, TypeOK
  <2>2. StepFits' /\ SystemFits' /\ RadioFits'
    BY <1>14, <1>1 DEF RouterClosed, IInv, TypeOK, StepFits, SystemFits, RadioFits
  <2> QED BY <2>1, <2>2 DEF IInv
<1> QED BY <1>2, <1>3, <1>4, <1>5, <1>6, <1>7, <1>8,
  <1>9, <1>10, <1>11, <1>12, <1>13, <1>14 DEF Callback

\* The invariant: calls, states and what really runs fit at every step.
THEOREM BooksKept == Spec => []IInv
<1>1. Init => IInv
  <2> SUFFICES ASSUME Init PROVE IInv
    OBVIOUS
  <2>1. TypeOK
    <3>1. <<>> \in Seq(Calls) /\ Nobody \in [Acts -> BOOLEAN]
      BY DEF Nobody
    <3> QED BY <3>1 DEF Init, TypeOK, Steps, Radio
  <2>2. StepFits /\ SystemFits /\ RadioFits
    BY DEF Init, StepFits, SystemFits, RadioFits, Running, Nobody, Acts
  <2> QED BY <2>1, <2>2 DEF IInv
<1>2. IInv /\ [Next]_vars => IInv'
  <2> SUFFICES ASSUME IInv, [Next]_vars
               PROVE  IInv'
    OBVIOUS
  <2>1. CASE UNCHANGED vars
    BY <2>1 DEF vars, turns, states, system, IInv, TypeOK, StepFits,
                SystemFits, RadioFits, Running
  <2> QED BY <2>1, CallKeeps, RadioKeeps, BeginKeeps, CallbackKeeps DEF Next
<1> QED BY <1>1, <1>2, PTL DEF Spec

\* Types: the queue holds calls, whatever the radio puts into it.
THEOREM TypeCorrect == Spec => []TypeOK
<1>1. IInv => TypeOK
  BY DEF IInv
<1> QED BY <1>1, BooksKept, PTL

\* The Wi-Fi state that decides is the radio's.
THEOREM Fresh == Spec => []StateIsFresh
<1>1. IInv => StateIsFresh
  BY DEF IInv, RadioFits, StateIsFresh
<1> QED BY <1>1, BooksKept, PTL

\* What is not started neither hears nor says anything.
THEOREM Silent == Spec => []StoppedIsSilent
<1>1. IInv => StoppedIsSilent
  BY DEF IInv, TypeOK, StepFits, SystemFits, RadioFits, StoppedIsSilent
<1> QED BY <1>1, BooksKept, PTL

\* What SSDP advertises is a router server that is up.
THEOREM Served == Spec => []AdvertisedIsServed
<1>1. IInv => AdvertisedIsServed
  BY DEF IInv, SystemFits, AdvertisedIsServed
<1> QED BY <1>1, BooksKept, PTL

-----------------------------------------------------------------------------
(* Nothing runs unwanted *)

\* A call that waits goes on waiting when others come.
LEMMA HasGrows ==
  ASSUME NEW q \in Seq(Calls), NEW more \in Seq(Calls), NEW kind
  PROVE  /\ Has(q, kind) => Has(q \o more, kind)
         /\ Has(more, kind) => Has(q \o more, kind)
<1>1. ASSUME NEW i \in 1..Len(q), q[i].kind = kind
      PROVE  Has(q \o more, kind)
  BY <1>1, i \in 1..Len(q \o more), (q \o more)[i] = q[i] DEF Has
<1>2. ASSUME NEW i \in 1..Len(more), more[i].kind = kind
      PROVE  Has(q \o more, kind)
  <2> DEFINE j == Len(q) + i
  <2>1. j \in 1..Len(q \o more) /\ (q \o more)[j] = more[i]
    OBVIOUS
  <2> QED BY <1>2, <2>1 DEF Has
<1> QED BY <1>1, <1>2 DEF Has

\* It goes on waiting when a call of another kind ends.
LEMMA HasShrinks ==
  ASSUME NEW q \in Seq(Calls), NEW kind, q # <<>>, Head(q).kind # kind,
         Has(q, kind)
  PROVE  Has(Tail(q), kind)
<1>1. PICK i \in 1..Len(q) : q[i].kind = kind
  BY DEF Has
<1>2. i # 1
  BY <1>1
<1>3. i - 1 \in 1..Len(Tail(q)) /\ Tail(q)[i - 1] = q[i]
  BY <1>2
<1> QED BY <1>1, <1>3 DEF Has

\* A stop method that clears its target queues the call that stops.
LEMMA CallWants ==
  ASSUME IInv, RunsAreWanted, NEW kind \in Kinds, Call(kind)
  PROVE  RunsAreWanted'
<1> DEFINE c == [kind |-> kind, by |-> "app"]
<1>1. c \in Calls /\ <<c>> \in Seq(Calls) /\ queue \in Seq(Calls)
  BY DEF Calls, IInv, TypeOK
<1>2. queue' = queue \o <<c>>
  BY <1>1, AppendIsConcat DEF Call
<1>3. Has(<<c>>, kind)
  BY DEF Has
<1> HIDE DEF c
<1>4. /\ \A k \in Kinds : Has(queue, k) => Has(queue, k)'
      /\ Has(queue, kind)'
  BY <1>1, <1>2, <1>3, HasGrows DEF Has
<1>5. /\ target'["listening"] = target["listening"] \/ kind = "stopListening"
      /\ target'["advertising"] = target["advertising"] \/ kind = "stopAdvertising"
      /\ UNCHANGED <<step, stopping, networkState, current>>
  BY DEF Call, IInv, TypeOK, Acts
<1> QED BY <1>4, <1>5 DEF RunsAreWanted, Kinds

\* When Wi-Fi is lost both stops are queued; a change that is not a loss takes
\* nothing away.
LEMMA RadioWants ==
  ASSUME IInv, RunsAreWanted, NEW wifi \in {"on", "off"}, RadioChanges(wifi)
  PROVE  RunsAreWanted'
<1>1. UNCHANGED <<step, stopping, target, current>>
  BY DEF RadioChanges
<1>2. CASE ~(registered /\ ~stopping /\ wifi # networkState)
  BY <1>1, <1>2 DEF RadioChanges, RunsAreWanted
<1>3. CASE registered /\ ~stopping /\ wifi # networkState
  <2> DEFINE stops == ByRadio(<<"stopAdvertising", "stopListening">>)
             more == IF wifi = "on" THEN ByRadio(Restored) ELSE stops
  <2>1. queue' = queue \o more /\ networkState' = wifi
    BY <1>3 DEF RadioChanges
  <2>2. Has(stops, "stopAdvertising") /\ Has(stops, "stopListening")
    <3>1. /\ 1 \in 1..Len(stops) /\ stops[1].kind = "stopAdvertising"
          /\ 2 \in 1..Len(stops) /\ stops[2].kind = "stopListening"
      BY DEF ByRadio
    <3> QED BY <3>1 DEF Has
  <2>3. more \in Seq(Calls) /\ queue \in Seq(Calls)
    BY RestoredType DEF IInv, TypeOK
  <2> HIDE DEF stops
  <2>4. CASE wifi = "on"
    <3>1. \A k \in Kinds : Has(queue, k) => Has(queue, k)'
      BY <2>1, <2>3, HasGrows DEF Has
    <3> QED BY <1>1, <2>1, <2>4, <3>1 DEF RunsAreWanted, Kinds
  <2>5. CASE wifi # "on"
    <3>1. queue' = queue \o stops /\ stops \in Seq(Calls)
      BY <2>1, <2>3, <2>5
    <3>2. Has(queue', "stopAdvertising") /\ Has(queue', "stopListening")
      BY <2>2, <2>3, <3>1, HasGrows
    <3> QED BY <3>2 DEF RunsAreWanted, Has
  <2> QED BY <2>4, <2>5
<1> QED BY <1>2, <1>3

\* The end of a turn takes one call away, and only the stop of what has been
\* stopped.
LEMMA TurnWants ==
  ASSUME IInv, RunsAreWanted, BeginTurn \/ Callback
  PROVE  RunsAreWanted'
<1> USE DEF Turn, Running, Finish, Await, system, states
<1>1. queue \in Seq(Calls) /\ queue # <<>>
  BY DEF BeginTurn, BeginStart, BeginStop, BeginStartListening,
     BeginStopListening, BeginStartAdvertising, BeginStopAdvertising,
     Callback, StatusRead, StatusAnswered, StopListeningToo, Reset,
     ClientStarted, ClientStopped, RouterListens, RouterFails, ServerStarted,
     RestartStopped, RestartStarted, ServerStopped, RouterClosed, IInv,
     TypeOK, StepFits
<1>2. queue' = queue \/ queue' = Tail(queue)
  BY DEF BeginTurn, BeginStart, BeginStop, BeginStartListening,
     BeginStopListening, BeginStartAdvertising, BeginStopAdvertising,
     Callback, StatusRead, StatusAnswered, StopListeningToo, Reset,
     ClientStarted, ClientStopped, RouterListens, RouterFails, ServerStarted,
     RestartStopped, RestartStarted, ServerStopped, RouterClosed
<1>3. \A k \in Kinds : Has(queue, k) /\ Head(queue).kind # k => Has(queue, k)'
  <2>1. \A k \in Kinds :
          Has(queue, k) /\ Head(queue).kind # k => Has(queue', k)
    BY <1>1, <1>2, HasShrinks
  <2> QED BY <2>1 DEF Has
<1>4. \A k \in Kinds : Has(queue, k) /\ queue' = queue => Has(queue, k)'
  BY DEF Has
<1>5. {"stopListening", "stopAdvertising"} \subseteq Kinds
  BY DEF Kinds
<1>6. CASE BeginStart
  BY <1>6, <1>3, <1>4, <1>5 DEF BeginStart, RunsAreWanted, IInv, TypeOK, StepFits,
     SystemFits, RadioFits, Acts, Nobody
<1>7. CASE BeginStop
  BY <1>7, <1>3, <1>4, <1>5 DEF BeginStop, RunsAreWanted, IInv, TypeOK, StepFits,
     SystemFits, RadioFits, Acts, Nobody
<1>8. CASE BeginStartListening
  BY <1>8, <1>3, <1>4, <1>5 DEF BeginStartListening, RunsAreWanted, IInv, TypeOK, StepFits,
     SystemFits, RadioFits, Acts, Nobody
<1>9. CASE BeginStopListening
  BY <1>9, <1>3, <1>4, <1>5 DEF BeginStopListening, RunsAreWanted, IInv, TypeOK, StepFits,
     SystemFits, RadioFits, Acts, Nobody
<1>10. CASE BeginStartAdvertising
  BY <1>10, <1>3, <1>4, <1>5 DEF BeginStartAdvertising, RunsAreWanted, IInv, TypeOK, StepFits,
     SystemFits, RadioFits, Acts, Nobody
<1>11. CASE BeginStopAdvertising
  BY <1>11, <1>3, <1>4, <1>5 DEF BeginStopAdvertising, RunsAreWanted, IInv, TypeOK, StepFits,
     SystemFits, RadioFits, Acts, Nobody
<1>12. CASE StatusRead
  BY <1>12, <1>3, <1>4, <1>5 DEF StatusRead, RunsAreWanted, IInv, TypeOK, StepFits,
     SystemFits, RadioFits, Acts, Nobody
<1>13. CASE StatusAnswered
  BY <1>13, <1>3, <1>4, <1>5 DEF StatusAnswered, RunsAreWanted, IInv, TypeOK, StepFits,
     SystemFits, RadioFits, Acts, Nobody
<1>14. CASE StopListeningToo
  BY <1>14, <1>3, <1>4, <1>5 DEF StopListeningToo, RunsAreWanted, IInv, TypeOK, StepFits,
     SystemFits, RadioFits, Acts, Nobody
<1>15. CASE Reset
  BY <1>15, <1>3, <1>4, <1>5 DEF Reset, RunsAreWanted, IInv, TypeOK, StepFits,
     SystemFits, RadioFits, Acts, Nobody
<1>16. CASE ClientStarted
  BY <1>16, <1>3, <1>4, <1>5 DEF ClientStarted, RunsAreWanted, IInv, TypeOK, StepFits,
     SystemFits, RadioFits, Acts, Nobody
<1>17. CASE ClientStopped
  BY <1>17, <1>3, <1>4, <1>5 DEF ClientStopped, RunsAreWanted, IInv, TypeOK, StepFits,
     SystemFits, RadioFits, Acts, Nobody
<1>18. CASE RouterListens
  BY <1>18, <1>3, <1>4, <1>5 DEF RouterListens, RunsAreWanted, IInv, TypeOK, StepFits,
     SystemFits, RadioFits, Acts, Nobody
<1>19. CASE RouterFails
  BY <1>19, <1>3, <1>4, <1>5 DEF RouterFails, RunsAreWanted, IInv, TypeOK, StepFits,
     SystemFits, RadioFits, Acts, Nobody
<1>20. CASE ServerStarted
  BY <1>20, <1>3, <1>4, <1>5 DEF ServerStarted, RunsAreWanted, IInv, TypeOK, StepFits,
     SystemFits, RadioFits, Acts, Nobody
<1>21. CASE RestartStopped
  BY <1>21, <1>3, <1>4, <1>5 DEF RestartStopped, RunsAreWanted, IInv, TypeOK, StepFits,
     SystemFits, RadioFits, Acts, Nobody
<1>22. CASE RestartStarted
  BY <1>22, <1>3, <1>4, <1>5 DEF RestartStarted, RunsAreWanted, IInv, TypeOK, StepFits,
     SystemFits, RadioFits, Acts, Nobody
<1>23. CASE ServerStopped
  BY <1>23, <1>3, <1>4, <1>5 DEF ServerStopped, RunsAreWanted, IInv, TypeOK, StepFits,
     SystemFits, RadioFits, Acts, Nobody
<1>24. CASE RouterClosed
  BY <1>24, <1>3, <1>4, <1>5 DEF RouterClosed, RunsAreWanted, IInv, TypeOK, StepFits,
     SystemFits, RadioFits, Acts, Nobody
<1> QED BY <1>6, <1>7, <1>8, <1>9, <1>10, <1>11, <1>12, <1>13,
  <1>14, <1>15, <1>16, <1>17, <1>18, <1>19, <1>20, <1>21, <1>22,
  <1>23, <1>24 DEF BeginTurn, Callback

\* What runs or is being started is wanted, or the call that stops it is in the
\* queue, before and after every step.
LEMMA Wanted == Spec => []RunsAreWanted
<1>1. Init => RunsAreWanted
  BY DEF Init, RunsAreWanted, Nobody, Acts
<1>2. IInv /\ RunsAreWanted /\ [Next]_vars => RunsAreWanted'
  <2> SUFFICES ASSUME IInv, RunsAreWanted, [Next]_vars
               PROVE  RunsAreWanted'
    OBVIOUS
  <2>1. CASE UNCHANGED vars
    BY <2>1 DEF vars, turns, states, RunsAreWanted, Has
  <2> QED BY <2>1, CallWants, RadioWants, TurnWants DEF Next
<1> QED BY <1>1, <1>2, BooksKept, PTL DEF Spec

\* Once the queue has been worked off, all that runs has its target and its
\* radio.
THEOREM Unwanted == Spec => []NothingRunsUnwanted
<1>1. IInv /\ RunsAreWanted => NothingRunsUnwanted
  <2> SUFFICES ASSUME IInv, RunsAreWanted, AtRest, NEW a \in Acts, current[a]
               PROVE  target[a] /\ networkState = "on"
    BY DEF NothingRunsUnwanted
  <2>1. ~stopping /\ step = "idle"
    BY DEF AtRest, IInv, StepFits
  <2>2. \A k : ~Has(queue, k)
    BY DEF AtRest, Has
  <2> QED BY <2>1, <2>2 DEF RunsAreWanted, Acts
<1> QED BY <1>1, Wanted, BooksKept, PTL

-----------------------------------------------------------------------------
(* What was asked for last *)

\* The two acts, and the methods that start and stop them.
LEMMA ActsAre ==
  /\ Acts = {"listening", "advertising"}
  /\ StartOf["listening"] = "startListening" /\ StartOf["advertising"] = "startAdvertising"
  /\ StopOf["listening"] = "stopListening" /\ StopOf["advertising"] = "stopAdvertising"
BY DEF Acts, StartOf, StopOf

\* What waits goes on waiting when others come.
LEMMA Grown ==
  ASSUME NEW q \in Seq(Calls), NEW more \in Seq(Calls), NEW a \in Acts,
         NEW k \in Nat \ {0}
  PROVE  /\ Unasks(q, k, a) => Unasks(q \o more, k, a)
         /\ Restarts(q, k, a) => Restarts(q \o more, k, a) \/ Has(more, StopOf[a])
<1>1. /\ Len(q \o more) = Len(q) + Len(more) /\ Len(q) \in Nat /\ Len(more) \in Nat
      /\ \A i \in 1..Len(q) : (q \o more)[i] = q[i]
      /\ \A i \in Len(q)+1..Len(q) + Len(more) : (q \o more)[i] = more[i - Len(q)]
  BY ConcatProperties
<1>2. \A i \in k..Len(q) : i \in k..Len(q \o more) /\ (q \o more)[i] = q[i]
  BY <1>1
<1>3. Unasks(q, k, a) => Unasks(q \o more, k, a)
  BY <1>2 DEF Unasks
<1>4. ASSUME Restarts(q, k, a), ~Has(more, StopOf[a])
      PROVE  Restarts(q \o more, k, a)
  <2>1. PICK i \in k..Len(q) : /\ q[i].kind = StartOf[a]
                               /\ \A j \in i+1..Len(q) : q[j].kind # StopOf[a]
    BY <1>4 DEF Restarts
  <2>2. ASSUME NEW j \in i+1..Len(q \o more)
        PROVE  (q \o more)[j].kind # StopOf[a]
    <3>1. CASE j <= Len(q)
      BY <1>1, <2>1, <3>1
    <3>2. CASE j > Len(q)
      <4>1. j - Len(q) \in 1..Len(more) /\ (q \o more)[j] = more[j - Len(q)]
        BY <1>1, <2>2, <3>2
      <4> QED BY <1>4, <4>1 DEF Has
    <3> QED BY <1>1, <2>1, <2>2, <3>1, <3>2
  <2> QED BY <1>2, <2>1, <2>2 DEF Restarts
<1> QED BY <1>3, <1>4

\* What comes waits behind all that waits.
LEMMA Come ==
  ASSUME NEW q \in Seq(Calls), NEW more \in Seq(Calls), NEW a \in Acts,
         NEW k \in Nat \ {0}, k <= Len(q) + 1
  PROVE  /\ Unasks(more, 1, a) => Unasks(q \o more, k, a)
         /\ Restarts(more, 1, a) => Restarts(q \o more, k, a)
<1>1. /\ Len(q \o more) = Len(q) + Len(more) /\ Len(q) \in Nat /\ Len(more) \in Nat
      /\ \A i \in Len(q)+1..Len(q) + Len(more) : (q \o more)[i] = more[i - Len(q)]
  BY ConcatProperties
<1>2. \A i \in 1..Len(more) : /\ Len(q) + i \in k..Len(q \o more)
                              /\ (q \o more)[Len(q) + i] = more[i]
  BY <1>1
<1>3. Unasks(more, 1, a) => Unasks(q \o more, k, a)
  BY <1>2 DEF Unasks
<1>4. ASSUME Restarts(more, 1, a)
      PROVE  Restarts(q \o more, k, a)
  <2>1. PICK i \in 1..Len(more) : /\ more[i].kind = StartOf[a]
                                  /\ \A j \in i+1..Len(more) : more[j].kind # StopOf[a]
    BY <1>4 DEF Restarts
  <2>2. ASSUME NEW j \in (Len(q) + i)+1..Len(q \o more)
        PROVE  (q \o more)[j].kind # StopOf[a]
    <3>1. /\ j - Len(q) \in i+1..Len(more)
          /\ (q \o more)[j] = more[j - Len(q)]
      BY <1>1, <2>2
    <3> QED BY <2>1, <3>1
  <2> QED BY <1>2, <2>1, <2>2 DEF Restarts
<1> QED BY <1>3, <1>4

\* What waits behind the head goes on waiting without it.
LEMMA Shrunk ==
  ASSUME NEW q \in Seq(Calls), q # <<>>, NEW a \in Acts
  PROVE  /\ \A k \in 2..Len(q) : Unasks(q, k, a) => Unasks(Tail(q), k - 1, a)
         /\ Unasks(q, 2, a) => Unasks(Tail(q), 1, a)
         /\ \A k \in 2..Len(q) : Restarts(q, k, a) => Restarts(Tail(q), k - 1, a)
         /\ Restarts(q, 1, a) =>
              \/ Restarts(Tail(q), 1, a)
              \/ Head(q).kind = StartOf[a] /\ ~Has(Tail(q), StopOf[a])
         /\ ~Has(q, StopOf[a]) => ~Has(Tail(q), StopOf[a])
<1>1. /\ Len(Tail(q)) = Len(q) - 1 /\ Len(q) \in Nat \ {0} /\ Head(q) = q[1]
      /\ \A i \in 1..Len(Tail(q)) : Tail(q)[i] = q[i + 1]
  BY HeadTailProperties
<1>2. \A k \in Nat \ {0, 1} : \A i \in k..Len(q) :
        i - 1 \in k-1..Len(Tail(q)) /\ Tail(q)[i - 1] = q[i]
  BY <1>1
<1>3. ASSUME NEW k \in Nat \ {0, 1}
      PROVE  Unasks(q, k, a) => Unasks(Tail(q), k - 1, a)
  BY <1>2 DEF Unasks
<1>4. ASSUME NEW k \in Nat \ {0}, NEW i \in k..Len(q), i > 1, q[i].kind = StartOf[a],
             \A j \in i+1..Len(q) : q[j].kind # StopOf[a]
      PROVE  \A m \in 1..i-1 : Restarts(Tail(q), m, a)
  <2>1. \A m \in 1..i-1 : i - 1 \in m..Len(Tail(q))
    BY <1>1, <1>4
  <2>2. Tail(q)[i - 1].kind = StartOf[a]
    BY <1>1, <1>4
  <2>3. \A j \in (i-1)+1..Len(Tail(q)) : Tail(q)[j].kind # StopOf[a]
    BY <1>1, <1>4
  <2> QED BY <2>1, <2>2, <2>3 DEF Restarts
<1>5. ASSUME NEW k \in 2..Len(q), Restarts(q, k, a)
      PROVE  Restarts(Tail(q), k - 1, a)
  <2>1. PICK i \in k..Len(q) : /\ q[i].kind = StartOf[a]
                               /\ \A j \in i+1..Len(q) : q[j].kind # StopOf[a]
    BY <1>5 DEF Restarts
  <2>2. k \in Nat \ {0} /\ i > 1 /\ k - 1 \in 1..i-1
    BY <1>1, <1>5, <2>1
  <2> QED BY <1>4, <2>1, <2>2
<1>6. ASSUME Restarts(q, 1, a), ~Restarts(Tail(q), 1, a)
      PROVE  Head(q).kind = StartOf[a] /\ ~Has(Tail(q), StopOf[a])
  <2>1. PICK i \in 1..Len(q) : /\ q[i].kind = StartOf[a]
                               /\ \A j \in i+1..Len(q) : q[j].kind # StopOf[a]
    BY <1>6 DEF Restarts
  <2>2. i = 1
    <3>1. ASSUME i # 1
          PROVE  FALSE
      <4>1. i > 1 /\ 1 \in 1..i-1
        BY <3>1, <2>1
      <4> QED BY <1>4, <1>6, <2>1, <4>1
    <3> QED BY <3>1
  <2> QED BY <1>1, <2>1, <2>2 DEF Has
<1>7. ~Has(q, StopOf[a]) => ~Has(Tail(q), StopOf[a])
  BY <1>1 DEF Has
<1> QED BY <1>3, <1>5, <1>6, <1>7

\* A turn takes the head away or begins it, and leaves the calls behind it.
Passes ==
  /\ queue # <<>> /\ UNCHANGED crossed
  /\ \/ queue' = queue /\ step' # "idle"
     \/ queue' = Tail(queue) /\ step' = "idle"

\* Every turn does so.
LEMMA TurnPasses ==
  ASSUME IInv, BeginTurn \/ Callback
  PROVE  Passes
<1> USE DEF Turn, Running, Finish, Await, Passes, IInv, StepFits
<1>1. CASE BeginTurn
  BY <1>1 DEF BeginTurn, BeginStart, BeginStop, BeginStartListening,
     BeginStopListening, BeginStartAdvertising, BeginStopAdvertising
<1>2. CASE Callback
  BY <1>2 DEF Callback, StatusRead, StatusAnswered, StopListeningToo, Reset,
     ClientStarted, ClientStopped, RouterListens, RouterFails, ServerStarted,
     RestartStopped, RestartStarted, ServerStopped, RouterClosed
<1> QED BY <1>1, <1>2

\* The head takes back what was asked.
HeadUnasks(a) ==
  step = "idle" /\ (Head(queue) = [kind |-> StopOf[a], by |-> "app"]
                      \/ Head(queue).kind = "stop")

\* Behind the head nothing is lost but what the head itself was waiting for.
LEMMA PassingKeeps ==
  ASSUME IInv, StartsFit, Passes
  PROVE  /\ StartsFit'
         /\ \A a \in Acts :
              /\ Unasks(queue, From, a) => HeadUnasks(a) \/ Unasks(queue, From, a)'
              /\ Restarts(queue, 1, a) =>
                   \/ Restarts(queue, 1, a)'
                   \/ /\ queue' = Tail(queue) /\ Head(queue).kind = StartOf[a]
                      /\ ~Has(queue, StopOf[a])'
              /\ ~Has(queue, StopOf[a]) => ~Has(queue, StopOf[a])'
<1>1. /\ queue \in Seq(Calls) /\ queue # <<>> /\ Head(queue) = queue[1]
      /\ Len(queue) \in Nat \ {0} /\ Len(Tail(queue)) = Len(queue) - 1
      /\ \A i \in 1..Len(Tail(queue)) : Tail(queue)[i] = queue[i + 1]
  BY HeadTailProperties DEF Passes, IInv, TypeOK
<1>2. From \in {1, 2} /\ (From = 1 => step = "idle")
  BY DEF From
<1>3. \A a \in Acts : Unasks(queue, From, a) => HeadUnasks(a) \/ Unasks(queue, 2, a)
  <2> SUFFICES ASSUME NEW a \in Acts, Unasks(queue, From, a), ~HeadUnasks(a)
               PROVE  Unasks(queue, 2, a)
    OBVIOUS
  <2>1. PICK i \in From..Len(queue) :
          queue[i] = [kind |-> StopOf[a], by |-> "app"] \/ queue[i].kind = "stop"
    BY DEF Unasks
  <2>2. i # 1
    BY <1>1, <1>2, <2>1 DEF HeadUnasks
  <2>3. i \in 2..Len(queue)
    BY <1>2, <2>1, <2>2
  <2> QED BY <2>1, <2>3 DEF Unasks
<1>4. CASE queue' = queue /\ step' # "idle"
  <2>1. From' = 2
    BY <1>4 DEF From
  <2>2. StartsFit'
    <3>1. \A k \in 2..Len(queue) : k \in From..Len(queue)
      BY <1>2
    <3>2. crossed' = crossed
      BY DEF Passes
    <3> QED BY <1>4, <2>1, <3>1, <3>2 DEF StartsFit, Restarts, Unasks
  <2>3. /\ \A a \in Acts : Unasks(queue, 2, a) => Unasks(queue, From, a)'
        /\ \A a \in Acts : Restarts(queue, 1, a) => Restarts(queue, 1, a)'
        /\ \A a \in Acts : ~Has(queue, StopOf[a]) => ~Has(queue, StopOf[a])'
    BY <1>4, <2>1 DEF Unasks, Restarts, Has
  <2> QED BY <1>3, <2>2, <2>3
<1>5. CASE queue' = Tail(queue) /\ step' = "idle"
  <2>1. From' = 1
    BY <1>5 DEF From
  <2>2. StartsFit'
    <3> SUFFICES ASSUME NEW a \in Acts, NEW k \in 1..Len(queue'), ~crossed[a],
                        queue'[k] = [kind |-> StartOf[a], by |-> "app"]
                 PROVE  Restarts(queue', k, a) \/ Unasks(queue', k, a)
      BY <2>1 DEF StartsFit, Restarts, Unasks, Passes
    <3>1. k + 1 \in 2..Len(queue) /\ queue'[k] = queue[k + 1] /\ k + 1 \in From..Len(queue)
      BY <1>1, <1>2, <1>5
    <3>2. Restarts(queue, k + 1, a) \/ Unasks(queue, k + 1, a)
      BY <3>1 DEF StartsFit
    <3>3. Restarts(Tail(queue), (k + 1) - 1, a) \/ Unasks(Tail(queue), (k + 1) - 1, a)
      BY <1>1, <3>1, <3>2, Shrunk
    <3>4. (k + 1) - 1 = k
      OBVIOUS
    <3> QED BY <1>5, <3>3, <3>4
  <2>3. ASSUME NEW a \in Acts
        PROVE  /\ Unasks(queue, 2, a) => Unasks(queue', 1, a)
               /\ Restarts(queue, 1, a) =>
                    \/ Restarts(queue', 1, a)
                    \/ Head(queue).kind = StartOf[a] /\ ~Has(queue', StopOf[a])
               /\ ~Has(queue, StopOf[a]) => ~Has(queue', StopOf[a])
    BY <1>1, <1>5, Shrunk
  <2>4. \A a \in Acts :
          /\ Unasks(queue', 1, a) => Unasks(queue, From, a)'
          /\ Restarts(queue', 1, a) => Restarts(queue, 1, a)'
          /\ Has(queue', StopOf[a]) <=> Has(queue, StopOf[a])'
    BY <2>1 DEF Unasks, Restarts, Has
  <2> QED BY <1>3, <1>5, <2>2, <2>3, <2>4
<1> QED BY <1>4, <1>5 DEF Passes

\* What a turn does about one of the two acts, if it is asked for after it.
Does(a) ==
  asked'[a] =>
    /\ started' /\ ~stopping' /\ ~HeadUnasks(a)
    /\ \/ asked[a] /\ (target[a] => target'[a])
       \/ /\ step = "idle" /\ Head(queue) = [kind |-> StartOf[a], by |-> "app"]
          /\ target'[a]
    /\ networkState' = networkState
    /\ Runs(a) /\ ~Has(queue, StopOf[a]) =>
         Runs(a)' \/ (queue' = queue /\ Head(queue).kind = StartOf[a])
    /\ networkState = "on" /\ queue' = Tail(queue) /\ Head(queue).kind = StartOf[a]
         => Runs(a)'

\* If each act is dealt with so, what is asked and reached stays right.
LEMMA DoesKeeps ==
  ASSUME IInv, RestFits, Passes, \A a \in Acts : Does(a)
  PROVE  AsksFit' /\ StartsFit' /\ ReachFits'
<1>1. /\ StartsFit'
      /\ \A a \in Acts :
           /\ Unasks(queue, From, a) => HeadUnasks(a) \/ Unasks(queue, From, a)'
           /\ Restarts(queue, 1, a) =>
                \/ Restarts(queue, 1, a)'
                \/ /\ queue' = Tail(queue) /\ Head(queue).kind = StartOf[a]
                   /\ ~Has(queue, StopOf[a])'
           /\ ~Has(queue, StopOf[a]) => ~Has(queue, StopOf[a])'
  BY PassingKeeps DEF RestFits
<1>2. AsksFit'
  BY <1>1 DEF Does, RestFits, AsksFit
<1>3. ReachFits'
  <2> SUFFICES ASSUME NEW a \in Acts, networkState' = "on", asked'[a], ~crossed'[a]
               PROVE  \/ Runs(a)' /\ ~Has(queue, StopOf[a])'
                      \/ Restarts(queue, 1, a)'
                      \/ Unasks(queue, From, a)'
    BY DEF ReachFits
  <2>1. crossed' = crossed /\ Len(queue) \in Nat \ {0} /\ Head(queue) = queue[1]
    BY HeadTailProperties DEF Passes, IInv, TypeOK
  <2>2. \/ Runs(a) /\ ~Has(queue, StopOf[a])
        \/ Restarts(queue, 1, a)
        \/ Unasks(queue, From, a)
    <3>1. CASE asked[a]
      BY <2>1, <3>1 DEF Does, RestFits, ReachFits
    <3>2. CASE ~asked[a]
      <4>1. step = "idle" /\ queue[1] = [kind |-> StartOf[a], by |-> "app"]
        BY <2>1, <3>2 DEF Does
      <4>2. From = 1 /\ 1 \in From..Len(queue)
        BY <2>1, <4>1 DEF From
      <4> QED BY <2>1, <4>1, <4>2 DEF RestFits, StartsFit
    <3> QED BY <3>1, <3>2
  <2>3. CASE Runs(a) /\ ~Has(queue, StopOf[a])
    <3>1. CASE Runs(a)'
      BY <1>1, <2>3, <3>1
    <3>2. CASE queue' = queue /\ Head(queue).kind = StartOf[a]
      <4>1. 1 \in 1..Len(queue) /\ \A j \in 1+1..Len(queue) : queue[j].kind # StopOf[a]
        BY <2>1, <2>3 DEF Has
      <4>2. Restarts(queue, 1, a)
        BY <2>1, <3>2, <4>1 DEF Restarts
      <4> QED BY <3>2, <4>2 DEF Restarts
    <3> QED BY <2>3, <3>1, <3>2 DEF Does
  <2>4. CASE Restarts(queue, 1, a)
    BY <1>1, <2>4 DEF Does
  <2>5. CASE Unasks(queue, From, a)
    BY <1>1, <2>5 DEF Does
  <2> QED BY <2>2, <2>3, <2>4, <2>5
<1> QED BY <1>1, <1>2, <1>3

\* Every turn deals with each act so.
LEMMA TurnDoes ==
  ASSUME IInv, RestFits, BeginTurn \/ Callback, NEW a \in Acts
  PROVE  Does(a)
<1>1. asked[a] => started /\ ~stopping
  BY DEF RestFits, AsksFit
<1>a. /\ queue # <<>> /\ queue \in Seq(Calls) /\ Head(queue) = queue[1]
      /\ Len(queue) \in Nat \ {0} /\ queue # Tail(queue)
  <2>1. queue # <<>> /\ queue \in Seq(Calls)
    BY TurnPasses DEF Passes, IInv, TypeOK
  <2>2. Len(Tail(queue)) = Len(queue) - 1 /\ Len(queue) \in Nat \ {0}
    BY <2>1, HeadTailProperties
  <2>3. queue # Tail(queue)
    <3>1. \A n \in Nat : n # n - 1
      OBVIOUS
    <3>2. Len(queue) # Len(Tail(queue))
      BY <2>2, <3>1
    <3> QED BY <3>2, Zenon
  <2>4. Head(queue) = queue[1]
    BY <2>1, HeadTailProperties
  <2> QED BY <2>1, <2>2, <2>3, <2>4
<1>b. ~Has(queue, StopOf[a]) => Head(queue).kind # StopOf[a]
  <2>1. 1 \in 1..Len(queue)
    BY <1>a
  <2> QED BY <1>a, <2>1 DEF Has
<1>c. ASSUME NEW b \in Acts, NEW wanted \in BOOLEAN, Asks({b}, wanted), asked'[a]
      PROVE  IF Head(queue).by = "app" /\ a = b THEN wanted ELSE asked[a]
  <2>1. CASE Head(queue).by = "app" /\ a = b
    <3>1. asked'[a] = wanted
      BY <1>c, <2>1 DEF Asks
    <3> QED BY <1>c, <2>1, <3>1
  <2>2. CASE ~(Head(queue).by = "app" /\ a = b)
    <3>1. asked'[a] = asked[a]
      BY <1>c, <2>2 DEF Asks
    <3> QED BY <1>c, <2>2, <3>1
  <2> QED BY <2>1, <2>2
<1>d. BeginStop => Does(a)
  <2>1. BeginStop => asked'[a] = FALSE
    BY DEF BeginStop, Nobody
  <2> QED BY <2>1 DEF Does
<1>e. /\ Asks({"listening"}, TRUE) /\ asked'[a]
           => asked[a] \/ (Head(queue).by = "app" /\ a = "listening")
      /\ Asks({"listening"}, FALSE) /\ asked'[a]
           => asked[a] /\ ~(Head(queue).by = "app" /\ a = "listening")
      /\ Asks({"advertising"}, TRUE) /\ asked'[a]
           => asked[a] \/ (Head(queue).by = "app" /\ a = "advertising")
      /\ Asks({"advertising"}, FALSE) /\ asked'[a]
           => asked[a] /\ ~(Head(queue).by = "app" /\ a = "advertising")
  BY <1>c DEF Acts
<1>f. /\ Head(queue) = [kind |-> Head(queue).kind, by |-> Head(queue).by]
      /\ \A k, b : [kind |-> k, by |-> b].kind = k /\ [kind |-> k, by |-> b].by = b
  <2>1. Head(queue) \in Calls
    BY <1>a, HeadTailProperties
  <2> QED BY <2>1 DEF Calls
<1>2. CASE BeginStop
  BY <1>2, <1>d
<1>3. CASE BeginStopListening
  <2>1. /\ Head(queue).kind = "stopListening" /\ Asks({"listening"}, FALSE)
        /\ UNCHANGED states /\ UNCHANGED system
    BY <1>3 DEF BeginStopListening, Turn, Running
  <2>2. UNCHANGED <<started, stopping, networkState, target, current, router>>
    BY <2>1 DEF states, system
  <2>3. asked'[a] => asked[a] /\ ~(Head(queue).by = "app" /\ a = "listening")
    BY <1>e, <2>1
  <2>4. HeadUnasks(a) => Head(queue).by = "app" /\ a = "listening"
    BY <1>f, <2>1, ActsAre DEF HeadUnasks
  <2>5. Runs(a)' <=> Runs(a)
    BY <2>2 DEF Runs
  <2>6. Head(queue).kind # StartOf[a]
    BY <2>1, ActsAre
  <2> QED BY <1>1, <2>2, <2>3, <2>4, <2>5, <2>6 DEF Does
<1>g. ASSUME NEW b \in Acts, step = "idle", Head(queue).kind = StartOf[b], started, started',
             ~stopping', networkState' = networkState, Asks({b}, TRUE),
             target' = [target EXCEPT ![b] = TRUE],
             Runs(a) => Runs(a)' \/ (a = b /\ queue' = queue),
             networkState = "on" /\ queue' = Tail(queue) /\ a = b => Runs(a)'
      PROVE  Does(a)
  <2>1. Head(queue).kind # "stop" /\ Head(queue).kind # StopOf[a]
    BY <1>g, ActsAre
  <2>2. ~HeadUnasks(a)
    BY <1>f, <2>1 DEF HeadUnasks
  <2>3. asked'[a] => asked[a] \/ (Head(queue).by = "app" /\ a = b)
    BY <1>c, <1>g
  <2>4. (target[a] => target'[a]) /\ (a = b => target'[a])
    BY <1>g DEF IInv, TypeOK
  <2>5. a = b /\ Head(queue).by = "app" => Head(queue) = [kind |-> StartOf[a], by |-> "app"]
    BY <1>f, <1>g
  <2>6. Head(queue).kind = StartOf[a] <=> a = b
    BY <1>g, ActsAre
  <2> QED BY <1>g, <2>2, <2>3, <2>4, <2>5, <2>6 DEF Does
<1>h. ASSUME UNCHANGED asked, ~started
      PROVE  Does(a)
  BY <1>1, <1>h DEF Does
<1>4. CASE BeginStartListening
  <2>1. CASE ~started
    BY <1>4, <1>h, <2>1 DEF BeginStartListening
  <2>2. CASE started
    <3>1. /\ step = "idle" /\ Head(queue).kind = StartOf["listening"]
          /\ UNCHANGED <<started, stopping, networkState, current, router>>
          /\ Asks({"listening"}, TRUE) /\ target' = [target EXCEPT !["listening"] = TRUE]
          /\ networkState = "on" /\ ~current["listening"] => queue' = queue
      BY <1>4, <2>2, ActsAre DEF BeginStartListening, Turn, Running, system, Await
    <3>2. ~stopping'
      BY <3>1 DEF IInv, StepFits
    <3>3. Runs(a) => Runs(a)'
      BY <3>1 DEF Runs
    <3>4. networkState = "on" /\ queue' = Tail(queue) /\ a = "listening" => Runs(a)'
      BY <1>a, <3>1 DEF Runs
    <3>5. "listening" \in Acts
      BY DEF Acts
    <3> QED BY <1>g, <2>2, <3>1, <3>2, <3>3, <3>4, <3>5
  <2> QED BY <2>1, <2>2
<1>5. CASE BeginStartAdvertising
  <2>1. CASE ~started
    BY <1>5, <1>h, <2>1 DEF BeginStartAdvertising
  <2>2. CASE started
    <3>1. /\ step = "idle" /\ Head(queue).kind = StartOf["advertising"]
          /\ UNCHANGED <<started, stopping, networkState, current>>
          /\ Asks({"advertising"}, TRUE) /\ target' = [target EXCEPT !["advertising"] = TRUE]
          /\ networkState = "on" => queue' = queue
          /\ networkState # "on" => router' = router
      BY <1>5, <2>2, ActsAre DEF BeginStartAdvertising, Turn, Running, Await
    <3>2. ~stopping'
      BY <3>1 DEF IInv, StepFits
    <3>3. Runs(a) => Runs(a)' \/ (a = "advertising" /\ queue' = queue)
      BY <3>1 DEF Runs
    <3>4. networkState = "on" /\ queue' = Tail(queue) /\ a = "advertising" => Runs(a)'
      BY <1>a, <3>1
    <3>5. "advertising" \in Acts
      BY DEF Acts
    <3> QED BY <1>g, <2>2, <3>1, <3>2, <3>3, <3>4, <3>5
  <2> QED BY <2>1, <2>2
<1> USE ActsAre DEF Turn, Running, Finish, Await, system, states, IInv, TypeOK, StepFits,
     SystemFits, RadioFits, Nobody, Does, Runs, HeadUnasks
<1>6. CASE BeginStart
  BY <1>6, <1>1, <1>a, <1>b DEF BeginStart
<1>7. CASE BeginStopAdvertising
  BY <1>7, <1>1, <1>a, <1>b, <1>e, <1>f DEF BeginStopAdvertising
<1>8. CASE StatusRead
  BY <1>8, <1>1, <1>a, <1>b DEF StatusRead
<1>9. CASE StatusAnswered
  BY <1>9, <1>1, <1>a, <1>b DEF StatusAnswered
<1>10. CASE StopListeningToo
  BY <1>10, <1>1, <1>a, <1>b DEF StopListeningToo
<1>11. CASE Reset
  BY <1>11, <1>1, <1>a, <1>b DEF Reset
<1>12. CASE ClientStarted
  BY <1>12, <1>1, <1>a, <1>b DEF ClientStarted
<1>13. CASE ClientStopped
  BY <1>13, <1>1, <1>a, <1>b DEF ClientStopped
<1>14. CASE RouterListens
  BY <1>14, <1>1, <1>a, <1>b DEF RouterListens
<1>15. CASE RouterFails
  BY <1>15, <1>1, <1>a, <1>b DEF RouterFails
<1>16. CASE ServerStarted
  BY <1>16, <1>1, <1>a, <1>b DEF ServerStarted
<1>17. CASE RestartStopped
  BY <1>17, <1>1, <1>a, <1>b DEF RestartStopped
<1>18. CASE RestartStarted
  BY <1>18, <1>1, <1>a, <1>b DEF RestartStarted
<1>19. CASE ServerStopped
  BY <1>19, <1>1, <1>a, <1>b DEF ServerStopped
<1>20. CASE RouterClosed
  BY <1>20, <1>1, <1>a, <1>b DEF RouterClosed
<1> QED
  BY <1>2, <1>3, <1>4, <1>5, <1>6, <1>7, <1>8, <1>9, <1>10, <1>11, <1>12, <1>13, <1>14,
     <1>15, <1>16, <1>17, <1>18, <1>19, <1>20 DEF BeginTurn, Callback

\* When calls come, what is asked, started and reached of one act stays right if
\* they bring what it needs.
LEMMA ComingKeeps ==
  ASSUME IInv, RestFits, NEW more \in Seq(Calls), queue' = queue \o more,
         UNCHANGED <<step, started, stopping, current, router, asked>>, NEW a \in Acts,
         NEW brings \in BOOLEAN,
         brings => Restarts(more, 1, a) \/ Unasks(more, 1, a),
         \A i \in 1..Len(more) :
           more[i] = [kind |-> StartOf[a], by |-> "app"] => i = 1 /\ brings,
         target[a] /\ ~target'[a] => Unasks(more, 1, a),
         ~crossed'[a] => \/ brings
                         \/ ~crossed[a] /\ ~Has(more, StopOf[a])
                         \/ ~crossed[a] /\ ~Waits(StartOf[a]),
         networkState' = "on" /\ ~crossed'[a] =>
           \/ brings
           \/ networkState = "on" /\ ~crossed[a] /\ ~Has(more, StopOf[a])
           \/ ~target[a]
  PROVE  /\ asked'[a] => started' /\ ~stopping' /\ (target'[a] \/ Unasks(queue, From, a)')
         /\ \A k \in From'..Len(queue') :
              ~crossed'[a] /\ queue'[k] = [kind |-> StartOf[a], by |-> "app"]
                => Restarts(queue, k, a)' \/ Unasks(queue, k, a)'
         /\ networkState' = "on" /\ asked'[a] /\ ~crossed'[a] =>
              \/ Runs(a)' /\ ~Has(queue, StopOf[a])'
              \/ Restarts(queue, 1, a)'
              \/ Unasks(queue, From, a)'
<1>1. /\ queue \in Seq(Calls) /\ Len(queue) \in Nat /\ Len(more) \in Nat
      /\ Len(queue') = Len(queue) + Len(more)
      /\ \A i \in 1..Len(queue) : queue'[i] = queue[i]
      /\ \A i \in Len(queue)+1..Len(queue') : queue'[i] = more[i - Len(queue)]
  BY ConcatProperties DEF IInv, TypeOK
<1>2. From' = From /\ From \in {1, 2} /\ From <= Len(queue) + 1
  <2>1. From' = From /\ From \in {1, 2}
    BY DEF From
  <2>2. step # "idle" => queue # <<>>
    BY DEF IInv, StepFits
  <2>3. queue # <<>> => Len(queue) >= 1
    BY <1>1, EmptySeq
  <2> QED BY <1>1, <2>1, <2>2, <2>3 DEF From
<1>3. \A k \in Nat \ {0} :
        /\ Unasks(queue, k, a) => Unasks(queue', k, a)
        /\ Restarts(queue, k, a) => Restarts(queue', k, a) \/ Has(more, StopOf[a])
  BY <1>1, Grown
<1>4. \A k \in Nat \ {0} : k <= Len(queue) + 1 =>
        /\ Unasks(more, 1, a) => Unasks(queue', k, a)
        /\ Restarts(more, 1, a) => Restarts(queue', k, a)
  BY <1>1, Come
<1>5. /\ \A k : Unasks(queue', k, a) <=> Unasks(queue, k, a)'
      /\ \A k : Restarts(queue', k, a) <=> Restarts(queue, k, a)'
      /\ Unasks(queue', From, a) <=> Unasks(queue, From, a)'
  BY <1>2 DEF Unasks, Restarts
<1>6. Unasks(queue, From, a) => Unasks(queue, From, a)'
  BY <1>2, <1>3, <1>5
<1>7. Unasks(more, 1, a) => Unasks(queue, From, a)'
  BY <1>2, <1>4, <1>5
<1>8. Restarts(more, 1, a) => Restarts(queue, 1, a)'
  BY <1>1, <1>4, <1>5
<1>9. asked[a] => started /\ ~stopping /\ (target[a] \/ Unasks(queue, From, a))
  BY DEF RestFits, AsksFit
<1>10. asked'[a] => started' /\ ~stopping' /\ (target'[a] \/ Unasks(queue, From, a)')
  BY <1>6, <1>7, <1>9
<1>11. ASSUME NEW k \in From'..Len(queue'), ~crossed'[a],
              queue'[k] = [kind |-> StartOf[a], by |-> "app"]
       PROVE  Restarts(queue', k, a) \/ Unasks(queue', k, a)
  <2>1. k \in Nat \ {0}
    BY <1>2, <1>11
  <2>2. CASE k > Len(queue)
    <3>1. k - Len(queue) \in 1..Len(more) /\ more[k - Len(queue)] = queue'[k]
      BY <1>1, <1>11, <2>1, <2>2
    <3>2. k = Len(queue) + 1 /\ brings
      BY <1>1, <1>11, <2>1, <3>1
    <3> QED BY <1>1, <1>4, <2>1, <3>2
  <2>3. CASE ~(k > Len(queue))
    <3>1. k \in From..Len(queue) /\ queue'[k] = queue[k]
      BY <1>1, <1>2, <1>11, <2>1, <2>3
    <3>2. CASE brings
      BY <1>1, <1>4, <2>1, <2>3, <3>2
    <3>3. CASE ~crossed[a] /\ ~Has(more, StopOf[a])
      <4>1. Restarts(queue, k, a) \/ Unasks(queue, k, a)
        BY <1>11, <3>1, <3>3 DEF RestFits, StartsFit
      <4> QED BY <1>3, <2>1, <3>3, <4>1
    <3>4. CASE ~Waits(StartOf[a])
      <4>1. k \in 1..Len(queue) /\ (k > 1 \/ step = "idle")
        BY <1>2, <3>1 DEF From
      <4> QED BY <1>11, <3>1, <3>4, <4>1 DEF Waits
    <3> QED BY <1>11, <3>2, <3>3, <3>4
  <2> QED BY <2>2, <2>3
<1>12. ASSUME networkState' = "on", asked'[a], ~crossed'[a]
       PROVE  \/ Runs(a)' /\ ~Has(queue, StopOf[a])'
              \/ Restarts(queue, 1, a)'
              \/ Unasks(queue, From, a)'
  <2>1. CASE brings
    BY <1>7, <1>8, <2>1
  <2>2. CASE networkState = "on" /\ ~crossed[a] /\ ~Has(more, StopOf[a])
    <3>1. \/ Runs(a) /\ ~Has(queue, StopOf[a])
          \/ Restarts(queue, 1, a)
          \/ Unasks(queue, From, a)
      BY <1>12, <2>2 DEF RestFits, ReachFits
    <3>2. CASE Runs(a) /\ ~Has(queue, StopOf[a])
      <4>1. Runs(a)'
        BY <3>2 DEF Runs
      <4>2. ASSUME NEW i \in 1..Len(queue')
            PROVE  queue'[i].kind # StopOf[a]
        <5>1. CASE i <= Len(queue)
          BY <1>1, <3>2, <5>1 DEF Has
        <5>2. CASE i > Len(queue)
          <6>1. i - Len(queue) \in 1..Len(more) /\ queue'[i] = more[i - Len(queue)]
            BY <1>1, <4>2, <5>2
          <6> QED BY <2>2, <6>1 DEF Has
        <5> QED BY <1>1, <4>2, <5>1, <5>2
      <4> QED BY <4>1, <4>2 DEF Has
    <3>3. CASE Restarts(queue, 1, a)
      BY <1>1, <1>3, <1>5, <2>2, <3>3
    <3> QED BY <1>6, <3>1, <3>2, <3>3
  <2>3. CASE ~target[a]
    BY <1>6, <1>9, <1>12, <2>3
  <2> QED BY <1>12, <2>1, <2>2, <2>3
<1> QED BY <1>5, <1>10, <1>11, <1>12

\* A call of the application brings its own start or stop to the end of the
\* queue; a stop that clears its target there and then is that stop.
LEMMA CallRests ==
  ASSUME IInv, RestFits, NEW kind \in Kinds, Call(kind)
  PROVE  AsksFit' /\ StartsFit' /\ ReachFits'
<1> DEFINE c == [kind |-> kind, by |-> "app"]
           more == <<c>>
           brings(a) == kind = StartOf[a] \/ kind = StopOf[a] \/ kind = "stop"
<1>1. c \in Calls /\ more \in Seq(Calls) /\ queue \in Seq(Calls)
  BY DEF Calls, IInv, TypeOK
<1>2. queue' = queue \o more
  BY <1>1, AppendIsConcat DEF Call
<1>3. /\ UNCHANGED <<step, started, stopping, networkState, current, router, asked>>
      /\ \A a \in Acts : target[a] /\ ~target'[a] => kind = StopOf[a]
  BY ActsAre DEF Call, system, IInv, TypeOK
<1>4. \A a \in Acts : crossed'[a] <=> crossed[a] /\ kind # StartOf[a]
  BY DEF Call, IInv, TypeOK
<1>5. Len(more) = 1 /\ more[1] = c /\ c.kind = kind
  OBVIOUS
<1>6. ASSUME NEW a \in Acts
      PROVE  /\ brings(a) => Restarts(more, 1, a) \/ Unasks(more, 1, a)
             /\ \A i \in 1..Len(more) :
                  more[i] = [kind |-> StartOf[a], by |-> "app"] => i = 1 /\ brings(a)
             /\ kind = StopOf[a] => Unasks(more, 1, a)
             /\ kind # StopOf[a] => ~Has(more, StopOf[a])
  <2>1. kind = StartOf[a] => Restarts(more, 1, a)
    BY <1>5 DEF Restarts
  <2>2. kind = StopOf[a] \/ kind = "stop" => Unasks(more, 1, a)
    BY <1>5 DEF Unasks
  <2>3. \A i \in 1..Len(more) :
          more[i] = [kind |-> StartOf[a], by |-> "app"] => i = 1 /\ kind = StartOf[a]
    BY <1>5
  <2>4. kind # StopOf[a] => ~Has(more, StopOf[a])
    BY <1>5 DEF Has
  <2> QED BY <2>1, <2>2, <2>3, <2>4
<1>7. \A a \in Acts : brings(a) \in BOOLEAN
  OBVIOUS
<1> HIDE DEF c, more
<1>8. ASSUME NEW a \in Acts
      PROVE  /\ asked'[a] => started' /\ ~stopping' /\ (target'[a] \/ Unasks(queue, From, a)')
             /\ \A k \in From'..Len(queue') :
                  ~crossed'[a] /\ queue'[k] = [kind |-> StartOf[a], by |-> "app"]
                    => Restarts(queue, k, a)' \/ Unasks(queue, k, a)'
             /\ networkState' = "on" /\ asked'[a] /\ ~crossed'[a] =>
                  \/ Runs(a)' /\ ~Has(queue, StopOf[a])'
                  \/ Restarts(queue, 1, a)'
                  \/ Unasks(queue, From, a)'
  <2>1. /\ brings(a) => Restarts(more, 1, a) \/ Unasks(more, 1, a)
        /\ \A i \in 1..Len(more) :
             more[i] = [kind |-> StartOf[a], by |-> "app"] => i = 1 /\ brings(a)
        /\ target[a] /\ ~target'[a] => Unasks(more, 1, a)
    BY <1>3, <1>6
  <2>2. ~crossed'[a] => brings(a) \/ (~crossed[a] /\ ~Has(more, StopOf[a]))
    BY <1>4, <1>6
  <2>3. brings(a) \in BOOLEAN
    BY <1>7
  <2> HIDE DEF brings
  <2> QED BY <1>1, <1>2, <1>3, <2>1, <2>2, <2>3, ComingKeeps
<1> QED BY <1>8 DEF AsksFit, StartsFit, ReachFits

\* When Wi-Fi is lost what waits is crossed by the two stops; when it is back
\* the targets are started again.
LEMMA RadioRests ==
  ASSUME IInv, RestFits, NEW wifi \in {"on", "off"}, RadioChanges(wifi)
  PROVE  AsksFit' /\ StartsFit' /\ ReachFits'
<1>1. UNCHANGED <<step, started, stopping, target, current, router, asked>>
  BY DEF RadioChanges, system
<1>2. CASE ~(registered /\ ~stopping /\ wifi # networkState)
  <2>1. UNCHANGED <<networkState, queue, crossed>>
    BY <1>2 DEF RadioChanges
  <2> QED BY <1>1, <2>1 DEF RestFits, AsksFit, StartsFit, ReachFits, From, Runs, Has,
          Restarts, Unasks
<1>3. CASE registered /\ ~stopping /\ wifi # networkState
  <2> DEFINE stops == ByRadio(<<"stopAdvertising", "stopListening">>)
             more == IF wifi = "on" THEN ByRadio(Restored) ELSE stops
             brings(a) == wifi = "on" /\ target[a]
  <2>1. queue' = queue \o more /\ networkState' = wifi
    BY <1>3 DEF RadioChanges
  <2>2. more \in Seq(Calls) /\ queue \in Seq(Calls)
    BY RestoredType DEF IInv, TypeOK
  <2>3. \A a \in Acts :
          crossed'[a] <=> IF wifi = "on" THEN crossed[a] /\ ~target[a]
                                         ELSE crossed[a] \/ Waits(StartOf[a])
    <3>1. Crosses(wifi)
      BY <1>3 DEF RadioChanges
    <3> QED BY <3>1, Zenon DEF Crosses
  <2>4. \A i \in 1..Len(more) : more[i].by = "radio"
    BY DEF ByRadio
  <2>5. wifi = "on" => \A a \in Acts :
          ~Has(more, StopOf[a]) /\ (target[a] => Restarts(more, 1, a))
    <3> SUFFICES ASSUME wifi = "on", NEW a \in Acts
                 PROVE  ~Has(more, StopOf[a]) /\ (target[a] => Restarts(more, 1, a))
      OBVIOUS
    <3>1. more = ByRadio(Restored)
      OBVIOUS
    <3>2. CASE target["listening"] /\ target["advertising"]
      <4>1. /\ Len(more) = 2 /\ more[1].kind = "startListening"
            /\ more[2].kind = "startAdvertising"
        BY <3>1, <3>2 DEF ByRadio, Restored
      <4> HIDE DEF more
      <4>2. 1 \in 1..Len(more) /\ 2 \in 1..Len(more)
        BY <4>1
      <4> QED BY <4>1, <4>2, ActsAre DEF Has, Restarts
    <3>3. CASE target["listening"] /\ ~target["advertising"]
      <4>1. Len(more) = 1 /\ more[1].kind = "startListening"
        BY <3>1, <3>3 DEF ByRadio, Restored
      <4> HIDE DEF more
      <4> QED BY <3>3, <4>1, ActsAre DEF Has, Restarts
    <3>4. CASE ~target["listening"] /\ target["advertising"]
      <4>1. Len(more) = 1 /\ more[1].kind = "startAdvertising"
        BY <3>1, <3>4 DEF ByRadio, Restored
      <4> HIDE DEF more
      <4> QED BY <3>4, <4>1, ActsAre DEF Has, Restarts
    <3>5. CASE ~target["listening"] /\ ~target["advertising"]
      <4>1. Len(more) = 0
        BY <3>1, <3>5 DEF ByRadio, Restored
      <4> HIDE DEF more
      <4> QED BY <3>5, <4>1, ActsAre DEF Has
    <3> QED BY <3>2, <3>3, <3>4, <3>5
  <2>6. \A a \in Acts : brings(a) \in BOOLEAN
    BY DEF IInv, TypeOK
  <2> HIDE DEF more, stops
  <2>7. ASSUME NEW a \in Acts
        PROVE  /\ asked'[a] => started' /\ ~stopping' /\ (target'[a] \/ Unasks(queue, From, a)')
               /\ \A k \in From'..Len(queue') :
                    ~crossed'[a] /\ queue'[k] = [kind |-> StartOf[a], by |-> "app"]
                      => Restarts(queue, k, a)' \/ Unasks(queue, k, a)'
               /\ networkState' = "on" /\ asked'[a] /\ ~crossed'[a] =>
                    \/ Runs(a)' /\ ~Has(queue, StopOf[a])'
                    \/ Restarts(queue, 1, a)'
                    \/ Unasks(queue, From, a)'
    <3>1. /\ brings(a) => Restarts(more, 1, a) \/ Unasks(more, 1, a)
          /\ \A i \in 1..Len(more) :
               more[i] = [kind |-> StartOf[a], by |-> "app"] => i = 1 /\ brings(a)
          /\ target[a] /\ ~target'[a] => Unasks(more, 1, a)
      BY <1>1, <2>4, <2>5
    <3>2. ~crossed'[a] => \/ brings(a)
                          \/ ~crossed[a] /\ ~Has(more, StopOf[a])
                          \/ ~crossed[a] /\ ~Waits(StartOf[a])
      BY <2>3, <2>5
    <3>3. networkState' = "on" => brings(a) \/ ~target[a]
      BY <2>1
    <3>4. brings(a) \in BOOLEAN
      BY <2>6
    <3> HIDE DEF brings
    <3> QED BY <1>1, <2>1, <2>2, <3>1, <3>2, <3>3, <3>4, ComingKeeps
  <2> QED BY <2>7 DEF AsksFit, StartsFit, ReachFits
<1> QED BY <1>2, <1>3

\* A server with an old USN is restarted or stopped, whatever comes meanwhile.
LEMMA ComingLatest ==
  ASSUME IInv, LatestFits,
         \/ \E kind \in Kinds : Call(kind)
         \/ \E wifi \in {"on", "off"} : RadioChanges(wifi)
  PROVE  LatestFits'
<1>1. UNCHANGED <<step, stopping, current, latest>>
  BY DEF Call, RadioChanges, system
<1>2. Has(queue, "stopAdvertising") => Has(queue', "stopAdvertising")
  <2>1. queue \in Seq(Calls)
    BY DEF IInv, TypeOK
  <2>2. CASE \E kind \in Kinds : Call(kind)
    <3>1. PICK kind \in Kinds : Call(kind)
      BY <2>2
    <3> DEFINE c == [kind |-> kind, by |-> "app"]
    <3>2. c \in Calls /\ <<c>> \in Seq(Calls)
      BY DEF Calls
    <3>3. queue' = queue \o <<c>>
      BY <2>1, <3>1, <3>2, AppendIsConcat DEF Call
    <3> HIDE DEF c
    <3> QED BY <2>1, <3>2, <3>3, HasGrows
  <2>3. CASE \E wifi \in {"on", "off"} : RadioChanges(wifi)
    <3>1. \/ UNCHANGED queue
          \/ queue' = queue \o ByRadio(Restored)
          \/ queue' = queue \o ByRadio(<<"stopAdvertising", "stopListening">>)
      BY <2>3 DEF RadioChanges
    <3> QED BY <2>1, <3>1, RestoredType, HasGrows DEF IInv
  <2> QED BY <2>2, <2>3
<1>3. Has(queue', "stopAdvertising") <=> Has(queue, "stopAdvertising")'
  BY DEF Has
<1> QED BY <1>1, <1>2, <1>3 DEF LatestFits

\* A turn that makes a USN old restarts the server in the same turn, unless the
\* radio is off and the server about to be stopped.
LEMMA TurnLatest ==
  ASSUME IInv, RunsAreWanted, LatestFits, BeginTurn \/ Callback
  PROVE  LatestFits'
<1>1. queue \in Seq(Calls) /\ queue # <<>> /\ (queue' = queue \/ queue' = Tail(queue))
  BY TurnPasses DEF Passes, IInv, TypeOK
<1>2. Has(queue, "stopAdvertising") =>
        \/ Head(queue).kind = "stopAdvertising" /\ queue' = Tail(queue)
        \/ Has(queue, "stopAdvertising")'
  <2>1. Has(queue, "stopAdvertising") =>
          \/ Head(queue).kind = "stopAdvertising" /\ queue' = Tail(queue)
          \/ Has(queue', "stopAdvertising")
    BY <1>1, HasShrinks
  <2> QED BY <2>1 DEF Has
<1> USE DEF Turn, Running, Finish, Await, system, states, IInv, TypeOK, StepFits,
     SystemFits, RadioFits, LatestFits, Acts
<1>3. CASE BeginStart
  BY <1>3, <1>1, <1>2 DEF BeginStart
<1>4. CASE BeginStop
  BY <1>4, <1>1, <1>2 DEF BeginStop
<1>5. CASE BeginStartListening
  BY <1>5, <1>1, <1>2 DEF BeginStartListening
<1>6. CASE BeginStopListening
  BY <1>6, <1>1, <1>2 DEF BeginStopListening
<1>7. CASE BeginStartAdvertising
  BY <1>7, <1>1, <1>2 DEF BeginStartAdvertising, RunsAreWanted
<1>8. CASE BeginStopAdvertising
  BY <1>8, <1>1, <1>2 DEF BeginStopAdvertising
<1>9. CASE StatusRead
  BY <1>9, <1>1, <1>2 DEF StatusRead
<1>10. CASE StatusAnswered
  BY <1>10, <1>1, <1>2 DEF StatusAnswered
<1>11. CASE StopListeningToo
  BY <1>11, <1>1, <1>2 DEF StopListeningToo
<1>12. CASE Reset
  BY <1>12, <1>1, <1>2 DEF Reset, Nobody
<1>13. CASE ClientStarted
  BY <1>13, <1>1, <1>2 DEF ClientStarted
<1>14. CASE ClientStopped
  BY <1>14, <1>1, <1>2 DEF ClientStopped
<1>15. CASE RouterListens
  BY <1>15, <1>1, <1>2 DEF RouterListens
<1>16. CASE RouterFails
  BY <1>16, <1>1, <1>2 DEF RouterFails
<1>17. CASE ServerStarted
  BY <1>17, <1>1, <1>2 DEF ServerStarted
<1>18. CASE RestartStopped
  BY <1>18, <1>1, <1>2 DEF RestartStopped
<1>19. CASE RestartStarted
  BY <1>19, <1>1, <1>2 DEF RestartStarted
<1>20. CASE ServerStopped
  BY <1>20, <1>1, <1>2 DEF ServerStopped
<1>21. CASE RouterClosed
  BY <1>21, <1>1, <1>2 DEF RouterClosed
<1> QED BY <1>3, <1>4, <1>5, <1>6, <1>7, <1>8, <1>9, <1>10, <1>11, <1>12, <1>13,
  <1>14, <1>15, <1>16, <1>17, <1>18, <1>19, <1>20, <1>21 DEF BeginTurn, Callback

\* What was asked for runs, will, or is about to be taken back, and an old USN is
\* about to be replaced, before and after every step.
LEMMA RestKept == Spec => []RestFits
<1>1. Init => RestFits
  BY DEF Init, RestFits, AsksFit, StartsFit, ReachFits, LatestFits, From, Nobody, Acts
<1>2. IInv /\ RunsAreWanted /\ RestFits /\ [Next]_vars => RestFits'
  <2> SUFFICES ASSUME IInv, RunsAreWanted, RestFits, [Next]_vars
               PROVE  RestFits'
    OBVIOUS
  <2>1. CASE UNCHANGED vars
    BY <2>1 DEF vars, turns, states, system, RestFits, AsksFit, StartsFit, ReachFits,
       LatestFits, From, Runs, Has, Restarts, Unasks
  <2>2. CASE (\E kind \in Kinds : Call(kind))
               \/ (\E wifi \in {"on", "off"} : RadioChanges(wifi))
    <3>1. AsksFit' /\ StartsFit' /\ ReachFits'
      BY <2>2, CallRests, RadioRests
    <3>2. LatestFits'
      BY <2>2, ComingLatest DEF RestFits
    <3> QED BY <3>1, <3>2 DEF RestFits
  <2>3. CASE BeginTurn \/ Callback
    <3>1. AsksFit' /\ StartsFit' /\ ReachFits'
      BY <2>3, TurnPasses, TurnDoes, DoesKeeps
    <3>2. LatestFits'
      BY <2>3, TurnLatest DEF RestFits
    <3> QED BY <3>1, <3>2 DEF RestFits
  <2> QED BY <2>1, <2>2, <2>3 DEF Next
<1> QED BY <1>1, <1>2, BooksKept, Wanted, PTL DEF Spec

\* Once the queue has been worked off with the radio on, what the application
\* asked for last runs, unless the radio went off while the call that asked
\* was waiting, and what is advertised has the USN of the last update.
THEOREM RestIsRight == Spec => []RestIsAsAsked
<1>1. IInv /\ RestFits => RestIsAsAsked
  <2> SUFFICES ASSUME IInv, RestFits, AtRest
               PROVE  RestIsAsAsked
    BY DEF RestIsAsAsked, AskedIsRunning, LatestIsAdvertised
  <2>1. Len(queue) = 0 /\ From = 1 /\ step = "idle" /\ ~stopping
    BY DEF AtRest, From, IInv, StepFits
  <2>2. \A a \in Acts : ~Restarts(queue, 1, a) /\ ~Unasks(queue, From, a)
    BY <2>1 DEF Restarts, Unasks
  <2>3. AskedIsRunning
    BY <2>2 DEF RestFits, ReachFits, AskedIsRunning
  <2>4. LatestIsAdvertised
    BY <2>1 DEF RestFits, LatestFits, LatestIsAdvertised, Has
  <2> QED BY <2>3, <2>4 DEF RestIsAsAsked
<1> QED BY <1>1, RestKept, BooksKept, PTL

=============================================================================
