------------------------- MODULE ThaliManager_proofs -------------------------
(***************************************************************************)
(* Theorems about starting and stopping Thali, for queues of any bound.    *)
(***************************************************************************)
EXTENDS ThaliManager, SequenceTheorems, TLAPS

-----------------------------------------------------------------------------
(* The invariant *)

StopKinds == {"stop", "stopListening", "stopAdvertising"}

\* What the manager waits for, in each of its states.
StateFits ==
  /\ state \in {"created", "started", "stopped"} => awaits = "none"
  /\ state = "starting" =>
       awaits \in {"none", "start", "startListening", "startAdvertising"}
  /\ state = "stopping" => awaits \in StopKinds \cup {"sending", "pool"}
  /\ answer # "none" => awaits \in Kinds

\* One call of the manager waits in thaliMobile's queue, while it waits for that.
ManagerFits ==
  \A i \in 1 .. Len(queue) : queue[i].by = "manager" =>
    /\ awaits = queue[i].kind /\ answer = "none"
    /\ \A j \in 1 .. Len(queue) : queue[j].by = "manager" => j = i

\* Only a manager that is stopping stops anything; what send notification asks
\* for itself comes before what the manager asks for.
StopsFit ==
  \A i \in 1 .. Len(queue) : queue[i].kind \in StopKinds =>
    /\ state = "stopping"
    /\ \/ queue[i].by = "manager"
       \/ awaits = "pool"
       \/ \E j \in i + 1 .. Len(queue) :
            queue[j].by = "manager" /\ queue[j].kind = "stopAdvertising"

\* How far start has come, and thaliMobile with it.
UpFits ==
  /\ StartedIsUp
  /\ state = "starting" =>
       /\ awaits = "start" /\ answer = "ok" => started
       /\ awaits \in {"startListening", "startAdvertising"} => started
       /\ awaits = "startListening" /\ answer = "ok" => listening
       /\ awaits = "startAdvertising" => listening
       /\ awaits = "startAdvertising" /\ answer = "ok" => advertising

\* thaliMobile's states are those that the running call has set.
MobileFits ==
  /\ ~started => ~listening /\ ~advertising
  /\ running =>
       /\ queue # <<>>
       /\ Head(queue).kind = "start" => started /\ ~listening /\ ~advertising
       /\ Head(queue).kind = "stop"  => ~started
       /\ Head(queue).kind = "startListening"   => listening
       /\ Head(queue).kind = "stopListening"    => ~listening
       /\ Head(queue).kind = "startAdvertising" => advertising
       /\ Head(queue).kind = "stopAdvertising"  => ~advertising

\* The wrapper has the call that thaliMobile runs, and perhaps its own stop.
OwnStop == Call("stop", "wrapper")
CallsFit ==
  \/ ~running /\ calls \in {<<>>, <<OwnStop>>}
  \/ running /\ calls \in {<<Head(queue)>>, <<OwnStop, Head(queue)>>,
                           <<Head(queue), OwnStop>>}

\* What the callback that the wrapper waits for belongs to.
StepFits ==
  /\ step # "idle" => calls # <<>>
  /\ step \in {"listen", "servers"} =>
       Head(calls) = Call("start", "manager") /\ ~ready
  /\ step = "native" => /\ Head(calls).kind \notin {"start", "stop"}
                        /\ Head(calls).kind \notin StopKinds => ready
  /\ step \in {"stopAdvertising", "stopListening", "close"} =>
       Head(calls).kind = "stop" /\ ~ready

\* A stack that is not started, nor on its way there or back, is silent.
SilentUnlessReady ==
  ~ready =>
    /\ step \notin {"servers", "stopAdvertising", "stopListening", "close"} => ~router
    /\ step # "stopAdvertising" => ~accepting
    /\ step \notin {"stopAdvertising", "stopListening"} => ~discovering

\* Between a stop and the next start the wrapper is not started, nor does it wait
\* for anything.
StoppedFits ==
  state \in {"created", "stopped"} \/ (awaits = "stop" /\ answer = "ok")
    => ~ready /\ step = "idle"

\* The radio will be told: a network event or a call is on its way.
Coming(kind) ==
  \/ afterStart > 0
  \/ \E i \in 1 .. Len(queue) : queue[i] = Call("start", "event") \/ queue[i].kind = kind

\* The native layer does what thaliMobile's states say, or is about to.
NativeFits ==
  /\ discovering /\ ~listening =>
       running /\ Head(queue).kind \in {"stop", "stopListening"}
  /\ accepting /\ ~advertising =>
       running /\ Head(queue).kind \in {"stop", "stopAdvertising"}
  /\ started /\ ready /\ radio /\ listening /\ ~discovering => Coming("startListening")
  /\ started /\ ready /\ radio /\ advertising /\ ~accepting => Coming("startAdvertising")

IInv ==
  /\ TypeOK
  /\ StateFits /\ ManagerFits /\ StopsFit /\ UpFits
  /\ MobileFits /\ CallsFit /\ StepFits /\ SilentUnlessReady /\ StoppedFits
  /\ NativeFits

-----------------------------------------------------------------------------
(* Queues *)

Asked == [kind : Kinds, by : {"manager", "event", "sending"}]

\* New calls go to the end of thaliMobile's queue.
Grows(E) ==
  /\ queue' \in Seq(Asked) /\ Len(queue) <= Len(queue')
  /\ \A i \in 1 .. Len(queue) : queue'[i] = queue[i]
  /\ \A i \in Len(queue) + 1 .. Len(queue') : queue'[i] \in E
  /\ queue # <<>> => queue' # <<>> /\ Head(queue') = Head(queue)

\* One call more at the end of the queue.
LEMMA AppendGrows ==
  ASSUME queue \in Seq(Asked), NEW c \in Asked, queue' = Append(queue, c)
  PROVE  Grows({c}) /\ Len(queue') = Len(queue) + 1
<1>1. /\ queue' \in Seq(Asked) /\ Len(queue') = Len(queue) + 1
      /\ queue'[Len(queue) + 1] = c /\ Len(queue) \in Nat
      /\ \A i \in 1 .. Len(queue) : queue'[i] = queue[i]
  BY AppendProperties
<1>2. queue # <<>> => queue' # <<>> /\ Head(queue') = Head(queue)
  BY HeadTailAppend, AppendProperties
<1> QED BY <1>1, <1>2 DEF Grows

\* A queue that stays as it is has grown by nothing.
LEMMA NothingGrows ==
  ASSUME queue \in Seq(Asked), queue' = queue, NEW E
  PROVE  Grows(E)
  BY DEF Grows

\* What a network event adds once its start has settled.
LEMMA EventGrows ==
  ASSUME queue \in Seq(Asked), EventStarted
  PROVE  /\ Grows([kind : {"startListening", "startAdvertising"}, by : {"event"}])
         /\ listening => \E i \in 1 .. Len(queue') : queue'[i].kind = "startListening"
         /\ advertising => \E i \in 1 .. Len(queue') : queue'[i].kind = "startAdvertising"
<1> DEFINE l == Call("startListening", "event")
           a == Call("startAdvertising", "event")
           E == [kind : {"startListening", "startAdvertising"}, by : {"event"}]
<1>1. /\ l \in Asked /\ a \in Asked /\ l \in E /\ a \in E
      /\ l.kind = "startListening" /\ a.kind = "startAdvertising"
  BY DEF Asked, Call, Kinds
<1>2. PICK first, second \in Seq(Asked) :
        /\ first = IF listening THEN <<l>> ELSE <<>>
        /\ second = IF advertising THEN <<a>> ELSE <<>>
  <2> HIDE DEF l, a
  <2>1. <<l>> \in Seq(Asked) /\ <<a>> \in Seq(Asked) /\ <<>> \in Seq(Asked)
    BY <1>1
  <2> QED BY <2>1
<1>3. queue' = queue \o first \o second
  BY <1>2 DEF EventStarted
<1>4. /\ Len(first) = (IF listening THEN 1 ELSE 0)
      /\ Len(second) = (IF advertising THEN 1 ELSE 0)
      /\ listening => first[1] = l
      /\ advertising => second[1] = a
  BY <1>2
<1>5. /\ Len(queue \o first) = Len(queue) + Len(first) /\ queue \o first \in Seq(Asked)
      /\ \A i \in 1 .. Len(queue) + Len(first) :
           (queue \o first)[i] = IF i <= Len(queue) THEN queue[i] ELSE first[i - Len(queue)]
  BY ConcatProperties
<1> HIDE DEF l, a, E
<1>6. PICK q \in Seq(Asked) : q = queue \o first
  BY <1>5
<1>7. /\ Len(queue') = Len(q) + Len(second) /\ queue' \in Seq(Asked)
      /\ \A i \in 1 .. Len(q) + Len(second) :
           queue'[i] = IF i <= Len(q) THEN q[i] ELSE second[i - Len(q)]
  BY <1>3, <1>6, ConcatProperties
<1>8. /\ Len(queue) \in Nat /\ Len(q) = Len(queue) + Len(first)
      /\ \A i \in 1 .. Len(queue) : q[i] = queue[i]
      /\ \A i \in 1 .. Len(queue) : queue'[i] = queue[i]
  BY <1>4, <1>5, <1>6, <1>7
<1>b. Len(first) \in {0, 1} /\ Len(second) \in {0, 1} /\ Len(q) \in Nat
  BY <1>4, <1>6
<1>9. ASSUME listening
      PROVE  queue'[Len(queue) + 1] = l /\ Len(queue) + 1 \in 1 .. Len(queue')
  BY <1>4, <1>5, <1>6, <1>7, <1>8, <1>9
<1>10. ASSUME advertising
       PROVE  queue'[Len(queue')] = a /\ Len(queue') \in 1 .. Len(queue')
  BY <1>4, <1>7, <1>8, <1>10
<1>11. ASSUME NEW i \in Len(queue) + 1 .. Len(queue')
       PROVE  queue'[i] \in E
  <2>0. /\ Len(q) \in Nat /\ Len(queue) \in Nat /\ i \in Int /\ i <= Len(queue')
        /\ Len(queue') = Len(q) + (IF advertising THEN 1 ELSE 0)
    <3>1. Len(q) \in Nat /\ Len(queue) \in Nat /\ Len(queue') \in Nat
      BY <1>7, <1>8, <1>b
    <3>2. i \in Int /\ i <= Len(queue')
      BY <3>1
    <3> QED BY <1>4, <1>7, <3>1, <3>2
  <2>1. CASE i <= Len(q)
    <3>1. listening /\ i = Len(queue) + 1
      BY <1>4, <1>8, <2>1
    <3> QED BY <1>1, <1>9, <3>1
  <2>2. CASE i > Len(q)
    <3>1. advertising /\ i = Len(queue')
      BY <2>0, <2>2
    <3> QED BY <1>1, <1>10, <3>1
  <2> QED BY <2>0, <2>1, <2>2
<1>a. Len(queue) <= Len(queue')
  BY <1>7, <1>8, <1>b
<1>12. queue # <<>> => queue' # <<>> /\ Head(queue') = Head(queue)
  <2>1. queue # <<>> => /\ Len(queue) >= 1 /\ Head(queue) = queue[1]
    BY HeadTailProperties
  <2>2. queue' # <<>> => Head(queue') = queue'[1]
    BY <1>7, HeadTailProperties
  <2>3. queue # <<>> => queue' # <<>> /\ 1 \in 1 .. Len(queue)
    BY <1>a, <1>7, <1>8, <2>1
  <2> QED BY <1>8, <2>1, <2>2, <2>3
<1>13. Grows(E)
  BY <1>a, <1>7, <1>8, <1>11, <1>12 DEF Grows
<1> QED BY <1>1, <1>9, <1>10, <1>13 DEF E

\* What a settled call leaves: each of the others comes one place forward.
LEMMA TailShrinks ==
  ASSUME queue \in Seq(Asked), queue # <<>>, queue' = Tail(queue)
  PROVE  /\ queue' \in Seq(Asked) /\ Len(queue') = Len(queue) - 1 /\ Len(queue) >= 1
         /\ Len(queue) \in Nat
         /\ Head(queue) = queue[1] /\ Head(queue) \in Asked
         /\ \A i \in 1 .. Len(queue') : queue'[i] = queue[i + 1]
  BY HeadTailProperties

-----------------------------------------------------------------------------
(* The wrapper's queue *)

Called == [kind : Kinds, by : {"manager", "event", "sending", "wrapper"}]

\* The head of thaliMobile's queue is a call that the wrapper can have.
LEMMA HeadIs ==
  ASSUME TypeOK, queue # <<>>
  PROVE  /\ Head(queue) \in Asked /\ Head(queue) = queue[1] /\ 1 \in 1 .. Len(queue)
         /\ Head(queue) \in Called /\ Head(queue).by # "wrapper"
         /\ Head(queue).kind \in Kinds
         /\ Call(Head(queue).kind, Head(queue).by) = Head(queue)
<1>1. queue \in Seq(Asked)
  BY DEF TypeOK, Asked
<1>2. Head(queue) \in Asked /\ Head(queue) = queue[1] /\ 1 \in 1 .. Len(queue)
  BY <1>1, HeadTailProperties, EmptySeq
<1> QED BY <1>2 DEF Asked, Called, Call

\* The wrapper's own stop is told from all calls of thaliMobile.
LEMMA OwnStopIs ==
  OwnStop \in Called /\ OwnStop.by = "wrapper" /\ OwnStop.kind = "stop"
BY DEF OwnStop, Call, Called, Kinds

\* The head of the wrapper's queue is its own stop or what thaliMobile runs.
LEMMA CallsAre ==
  ASSUME TypeOK, CallsFit, MobileFits, calls # <<>>
  PROVE  \/ Head(calls) = OwnStop /\ ~running /\ calls = <<OwnStop>> /\ Tail(calls) = <<>>
         \/ Head(calls) = OwnStop /\ running /\ calls = <<OwnStop, Head(queue)>>
              /\ Tail(calls) = <<Head(queue)>>
         \/ Head(calls) = Head(queue) /\ running /\ queue # <<>>
              /\ Head(queue).by # "wrapper" /\ Tail(calls) \in {<<>>, <<OwnStop>>}
<1>1. running => queue # <<>> /\ Head(queue).by # "wrapper"
  BY HeadIs DEF MobileFits
<1> DEFINE h == Head(queue)
           o == OwnStop
<1>2. h = Head(queue) /\ o = OwnStop
  OBVIOUS
<1> HIDE DEF h, o
<1>3. /\ Head(<<o>>) = o /\ Tail(<<o>>) = <<>> /\ Head(<<h>>) = h /\ Tail(<<h>>) = <<>>
      /\ Head(<<o, h>>) = o /\ Tail(<<o, h>>) = <<h>>
      /\ Head(<<h, o>>) = h /\ Tail(<<h, o>>) = <<o>>
  OBVIOUS
<1>4. CASE ~running
  BY <1>2, <1>3, <1>4 DEF CallsFit
<1>5. CASE running
  BY <1>1, <1>2, <1>3, <1>5 DEF CallsFit
<1> QED BY <1>4, <1>5

\* Two calls, one behind the other.
LEMMA Pair ==
  ASSUME NEW a, NEW b
  PROVE  <<a>> \o <<b>> = <<a, b>>
<1> DEFINE S == {a, b}
<1>1. /\ <<a>> \in Seq(S) /\ <<b>> \in Seq(S) /\ <<a, b>> \in Seq(S)
      /\ Len(<<a>>) = 1 /\ Len(<<b>>) = 1 /\ Len(<<a, b>>) = 2
      /\ <<a>>[1] = a /\ <<b>>[1] = b /\ <<a, b>>[1] = a /\ <<a, b>>[2] = b
  OBVIOUS
<1> HIDE DEF S
<1>2. /\ <<a>> \o <<b>> \in Seq(S) /\ Len(<<a>> \o <<b>>) = 2
      /\ (<<a>> \o <<b>>)[1] = a /\ (<<a>> \o <<b>>)[2] = b
  BY <1>1, ConcatProperties
<1>3. \A i \in 1 .. 2 : i = 1 \/ i = 2
  OBVIOUS
<1> QED BY <1>1, <1>2, <1>3, SeqEqual

\* Where the wrapper's own stop goes.
LEMMA StopGoesToTop ==
  ASSUME TypeOK, CallsFit, MobileFits, StepFits, StopAtTop
  PROVE  \/ ~running /\ calls = <<>> /\ calls' = <<OwnStop>>
         \/ running /\ calls = <<Head(queue)>>
              /\ calls' = (IF step = "idle" THEN <<OwnStop, Head(queue)>>
                                            ELSE <<Head(queue), OwnStop>>)
<1> DEFINE h == Head(queue)
           o == OwnStop
           runs == IF step = "idle" THEN 0 ELSE 1
<1>1. h = Head(queue) /\ o = OwnStop /\ o.by = "wrapper" /\ runs \in {0, 1}
  BY OwnStopIs
<1>2. /\ \A i \in 1 .. Len(calls) : calls[i].by # "wrapper"
      /\ calls' = SubSeq(calls, 1, runs) \o <<o>> \o SubSeq(calls, runs + 1, Len(calls))
  BY DEF StopAtTop, OwnStop
<1>3. calls = <<>> => runs = 0
  BY DEF StepFits
<1>4. runs = IF step = "idle" THEN 0 ELSE 1
  OBVIOUS
<1> HIDE DEF h, o, runs
<1>5. calls # <<o>> /\ calls # <<o, h>> /\ calls # <<h, o>>
  <2>1. /\ Len(<<o>>) = 1 /\ Len(<<o, h>>) = 2 /\ Len(<<h, o>>) = 2
        /\ <<o>>[1] = o /\ <<o, h>>[1] = o /\ <<h, o>>[2] = o
    OBVIOUS
  <2> QED BY <1>1, <1>2, <2>1
<1>6. /\ SubSeq(<<>>, 1, 0) \o <<o>> \o SubSeq(<<>>, 1, 0) = <<o>>
      /\ SubSeq(<<h>>, 1, 0) \o <<o>> \o SubSeq(<<h>>, 1, 1) = <<o, h>>
      /\ SubSeq(<<h>>, 1, 1) \o <<o>> \o SubSeq(<<h>>, 2, 1) = <<h, o>>
      /\ Len(<<>>) = 0 /\ Len(<<h>>) = 1
  <2>a. /\ <<h>> \in Seq({h, o}) /\ <<o>> \in Seq({h, o}) /\ <<>> \in Seq({h, o})
        /\ <<h, o>> \in Seq({h, o}) /\ Len(<<h>>) = 1 /\ Len(<<>>) = 0
    OBVIOUS
  <2>1. SubSeq(<<>>, 1, 0) = <<>> /\ SubSeq(<<h>>, 1, 0) = <<>> /\ SubSeq(<<h>>, 2, 1) = <<>>
          /\ SubSeq(<<h>>, 1, 1) = <<h>>
    <3>1. 0 \in Int /\ 1 \in Int /\ 2 \in Int /\ 0 < 1 /\ 1 < 2
      OBVIOUS
    <3>2. SubSeq(<<>>, 1, 0) = <<>> /\ SubSeq(<<h>>, 1, 0) = <<>> /\ SubSeq(<<h>>, 2, 1) = <<>>
      BY <3>1, SubSeqEmpty
    <3>3. SubSeq(<<h>>, 1, Len(<<h>>)) = <<h>>
      BY <2>a, SubSeqFull
    <3> QED BY <2>a, <3>2, <3>3
  <2>2. <<>> \o <<o>> \o <<>> = <<o>> /\ <<>> \o <<o>> \o <<h>> = <<o, h>>
          /\ <<h>> \o <<o>> \o <<>> = <<h, o>>
    BY <2>a, ConcatEmptySeq, Pair
  <2> QED BY <2>1, <2>2
<1>7. CASE ~running
  <2>1. calls = <<>>
    BY <1>1, <1>5, <1>7 DEF CallsFit
  <2>2. calls' = <<o>>
    BY <1>2, <1>3, <1>6, <2>1
  <2> QED BY <1>1, <1>7, <2>1, <2>2
<1>8. CASE running
  <2>1. calls = <<h>>
    BY <1>1, <1>5, <1>8 DEF CallsFit
  <2>2. CASE runs = 0
    BY <1>1, <1>2, <1>4, <1>6, <1>8, <2>1, <2>2
  <2>3. CASE runs = 1
    BY <1>1, <1>2, <1>4, <1>6, <1>8, <2>1, <2>3
  <2> QED BY <1>1, <2>2, <2>3
<1> QED BY <1>7, <1>8

-----------------------------------------------------------------------------
(* What the steps of the two queues do *)

\* The promise of a call settles: only the manager hears of it, and a start by a
\* network event leaves its second half to be done.
LEMMA SettlesIs ==
  ASSUME TypeOK, queue # <<>>, NEW outcome \in {"ok", "rejected"}, Settles(outcome)
  PROVE  /\ queue' = Tail(queue) /\ queue' \in Seq(Asked) /\ running' = FALSE
         /\ answer' = IF Head(queue).by = "manager" THEN outcome ELSE answer
         /\ afterStart' \in Nat
         /\ afterStart > 0 \/ Head(queue) = Call("start", "event") => afterStart' > 0
<1>1. queue \in Seq(Asked) /\ afterStart \in Nat
  BY DEF TypeOK, Asked
<1> QED BY <1>1, HeadTailProperties DEF Settles, Call

\* thaliMobile hands the head of its queue down, behind an own stop if there is one.
LEMMA ForwardsIs ==
  ASSUME TypeOK, CallsFit, queue # <<>>, ~running, Forwards(Head(queue).kind)
  PROVE  /\ calls' = Append(calls, Head(queue)) /\ calls' \in Seq(Called) /\ CallsFit'
         /\ running' = TRUE /\ UNCHANGED <<queue, answer, afterStart>>
         /\ calls # <<>> => calls' # <<>> /\ Head(calls') = Head(calls)
<1>1. /\ calls' = Append(calls, Head(queue)) /\ running' = TRUE
      /\ UNCHANGED <<queue, answer, afterStart>>
  BY HeadIs DEF Forwards
<1>2. calls \in Seq(Called) /\ Head(queue) \in Called
  BY HeadIs DEF TypeOK, Called
<1> DEFINE h == Head(queue)
           o == OwnStop
<1>3. h = Head(queue) /\ o = OwnStop
  OBVIOUS
<1> HIDE DEF h, o
<1>4. Append(<<>>, h) = <<h>> /\ Append(<<o>>, h) = <<o, h>>
  <2>1. <<>> \in Seq({h, o}) /\ <<o>> \in Seq({h, o}) /\ <<h>> \in Seq({h, o})
    OBVIOUS
  <2>2. Append(<<>>, h) = <<>> \o <<h>> /\ Append(<<o>>, h) = <<o>> \o <<h>>
    BY <2>1, AppendIsConcat
  <2> QED BY <2>1, <2>2, Pair, ConcatEmptySeq
<1>5. CallsFit'
  BY <1>1, <1>3, <1>4 DEF CallsFit, OwnStop
<1>6. calls # <<>> => calls' # <<>> /\ Head(calls') = Head(calls)
  BY <1>1, <1>2, HeadTailAppend, AppendProperties
<1> QED BY <1>1, <1>2, <1>5, <1>6, AppendProperties

\* The wrapper's call is done: its own stop concerns nobody, any other is the one
\* that thaliMobile runs.
LEMMA DoneIs ==
  ASSUME TypeOK, CallsFit, MobileFits, calls # <<>>, Done
  PROVE  /\ step' = "idle" /\ calls' \in Seq(Called) /\ CallsFit'
         /\ \/ Head(calls) = OwnStop /\ UNCHANGED <<queue, running, answer, afterStart>>
            \/ Head(calls) = Head(queue) /\ running /\ queue # <<>> /\ Settles("ok")
<1>1. step' = "idle" /\ calls' = Tail(calls) /\ calls' \in Seq(Called)
  BY HeadTailProperties DEF Done, TypeOK, Called
<1>2. CASE Head(calls) = OwnStop
  <2>1. UNCHANGED <<queue, running, answer, afterStart>>
    BY <1>2, OwnStopIs DEF Done
  <2>2. Tail(calls) = IF running THEN <<Head(queue)>> ELSE <<>>
    BY <1>2, CallsAre, OwnStopIs
  <2> QED BY <1>1, <1>2, <2>1, <2>2 DEF CallsFit
<1>3. CASE Head(calls) # OwnStop
  <2>1. /\ Head(calls) = Head(queue) /\ running /\ queue # <<>> /\ Head(queue).by # "wrapper"
        /\ Tail(calls) \in {<<>>, <<OwnStop>>}
    BY <1>3, CallsAre
  <2>2. Settles("ok") /\ running' = FALSE
    BY <2>1 DEF Done, Settles
  <2> QED BY <1>1, <2>1, <2>2 DEF CallsFit, OwnStop
<1> QED BY <1>1, <1>2, <1>3

Waits == {"listen", "servers", "native", "stopAdvertising", "stopListening", "close"}

\* A step of the wrapper ends its call or waits for the next callback.
LEMMA WrapperSteps ==
  ASSUME TypeOK, StepFits, Wrapper
  PROVE  /\ calls # <<>> /\ Untouched
         /\ Done \/ \E s \in Waits : Awaiting(s)
         /\ ready' \in BOOLEAN /\ router' \in BOOLEAN
         /\ discovering' \in BOOLEAN /\ accepting' \in BOOLEAN
<1>1. CASE WrapperStarts
  BY <1>1 DEF WrapperStarts, TypeOK, StepFits, Turn, Waits
<1>2. CASE WrapperStops
  BY <1>2 DEF WrapperStops, TypeOK, StepFits, Turn, Waits
<1>3. CASE WrapperListens
  BY <1>3 DEF WrapperListens, TypeOK, StepFits, Turn, Waits
<1>4. CASE WrapperAdvertises
  BY <1>4 DEF WrapperAdvertises, TypeOK, StepFits, Turn, Waits
<1> QED BY <1>1, <1>2, <1>3, <1>4 DEF Wrapper

\* The methods of thaliMobile: a call is rejected, or it is forwarded.
Rejects ==
  /\ Settles("rejected") /\ UNCHANGED <<calls, started, listening, advertising>>
  /\ \/ Head(queue).kind = "start" /\ started
     \/ Head(queue).kind \in {"startListening", "startAdvertising"} /\ ~started
Sets(kind) ==
  CASE kind = "start" -> ~started /\ started' = TRUE /\ UNCHANGED <<listening, advertising>>
    [] kind = "stop"  -> started' = FALSE /\ listening' = FALSE /\ advertising' = FALSE
    [] kind = "startListening" ->
         started /\ listening' = TRUE /\ UNCHANGED <<started, advertising>>
    [] kind = "stopListening" -> listening' = FALSE /\ UNCHANGED <<started, advertising>>
    [] kind = "startAdvertising" ->
         started /\ advertising' = TRUE /\ UNCHANGED <<started, listening>>
    [] kind = "stopAdvertising" -> advertising' = FALSE /\ UNCHANGED <<started, listening>>

\* thaliMobile rejects the head of its queue or hands it down.
LEMMA MobileSteps ==
  ASSUME TypeOK, CallsFit, Mobile
  PROVE  /\ queue # <<>> /\ ~running
         /\ UNCHANGED <<state, awaits, failed, chained, sending, step, ready, router,
                        native>>
         /\ Rejects \/ (Forwards(Head(queue).kind) /\ Sets(Head(queue).kind))
<1> USE DEF Begins, Rejects, Sets
<1>1. CASE BeginStart
  BY <1>1 DEF BeginStart
<1>2. CASE BeginStop
  BY <1>2 DEF BeginStop
<1>3. CASE BeginStartListening
  BY <1>3 DEF BeginStartListening
<1>4. CASE BeginStopListening
  BY <1>4 DEF BeginStopListening
<1>5. CASE BeginStartAdvertising
  BY <1>5 DEF BeginStartAdvertising
<1>6. CASE BeginStopAdvertising
  BY <1>6 DEF BeginStopAdvertising
<1> QED BY <1>1, <1>2, <1>3, <1>4, <1>5, <1>6 DEF Mobile

\* What the manager and send notification do without a call.
Alone ==
  /\ UNCHANGED queue
  /\ \/ UNCHANGED <<state, awaits, answer>>
     \/ /\ state = "started" /\ state' = "stopping"
        /\ awaits' = "sending" /\ answer' = "none"
     \/ /\ state = "starting" /\ state' = state /\ answer # "none"
        /\ awaits' = "none" /\ answer' = "none"
     \/ /\ state = "stopping" /\ awaits = "stop" /\ answer = "ok"
        /\ state' = "stopped" /\ awaits' = "none" /\ answer' = "none"
     \/ /\ state = "starting" /\ awaits = "startAdvertising" /\ answer = "ok"
        /\ state' = "started" /\ awaits' = "none" /\ answer' = "none"

\* The manager's next call of thaliMobile.
NextCall(kind) ==
  \/ state \in {"created", "stopped"} /\ state' = "starting" /\ kind = "start"
  \/ /\ state' = state /\ answer = "ok"
     /\ <<awaits, kind>> \in {<<"start", "startListening">>,
                              <<"startListening", "startAdvertising">>,
                              <<"stopAdvertising", "stopListening">>,
                              <<"stopListening", "stop">>}
  \/ state' = state /\ awaits = "pool" /\ kind = "stopAdvertising"

\* Send notification's.
Adds ==
  \/ /\ UNCHANGED <<state, awaits, answer>>
     /\ queue' = Append(queue, Call("startAdvertising", "sending"))
  \/ /\ state = "starting" /\ awaits = "startAdvertising" /\ answer = "ok"
     /\ state' = "started" /\ awaits' = "none" /\ answer' = "none"
     /\ queue' = Append(queue, Call("startAdvertising", "sending"))
  \/ /\ awaits = "sending" /\ awaits' = "pool" /\ UNCHANGED <<state, answer>>
     /\ queue' = Append(queue, Call("stopAdvertising", "sending"))

\* The manager's steps ask thaliMobile for at most one call, at the end of the queue.
LEMMA ManagerSteps ==
  ASSUME Start \/ Stop \/ Chain \/ BeaconsRenewed
  PROVE  /\ UNCHANGED <<running, started, listening, advertising, afterStart, wrapper, native>>
         /\ \/ Alone
            \/ Adds
            \/ \E kind \in Kinds : Asks(kind) /\ NextCall(kind)
<1> DEFINE Others == <<running, started, listening, advertising, afterStart, wrapper, native>>
<1>1. ASSUME StartFirst
      PROVE  Asks("start") /\ NextCall("start")
  BY <1>1 DEF StartFirst, NextCall
<1>2. ASSUME StopFirst
      PROVE  Alone /\ UNCHANGED mobile
  BY <1>2 DEF StopFirst, Alone, mobile
<1>3. \A k \in {"start", "startListening", "startAdvertising", "stopAdvertising",
               "stopListening", "stop"} : k \in Kinds
  BY DEF Kinds
<1>4. CASE Start
  BY <1>1, <1>3, <1>4 DEF Start, StartFirst, Alone, mobile
<1>5. CASE Stop
  BY <1>2, <1>5 DEF Stop, Alone, mobile
<1>6. CASE BeaconsRenewed
  BY <1>6 DEF BeaconsRenewed, Adds, manager
<1>7. CASE ChainedStart
  BY <1>1, <1>3, <1>7 DEF ChainedStart, StartFirst, Alone, mobile
<1>8. CASE ChainedStop
  BY <1>2, <1>8 DEF ChainedStop, Alone, mobile
<1>9. CASE Resume
  <2>1. PICK k \in Kinds, n \in Kinds : After(k, n) /\ NextCall(n)
    BY <1>3, <1>9 DEF Resume, After, NextCall
  <2> QED BY <1>9, <2>1 DEF Resume, After
<1>10. CASE \E peers \in BOOLEAN : SendStarted(peers)
  BY <1>10 DEF SendStarted, Alone, Adds
<1>11. CASE StartFails
  BY <1>11 DEF StartFails, Alone, mobile
<1>12. CASE SendStopped
  BY <1>12 DEF SendStopped, Adds
<1>13. CASE PoolStopped
  BY <1>3, <1>13 DEF PoolStopped, NextCall
<1>14. CASE Stopped
  BY <1>14 DEF Stopped, Alone, mobile
<1> QED
  BY <1>4, <1>5, <1>6, <1>7, <1>8, <1>9, <1>10, <1>11, <1>12, <1>13, <1>14 DEF Chain

\* Types, for every step of the three layers.
LEMMA TypeKept == IInv /\ Next => TypeOK'
<1> SUFFICES ASSUME IInv, Next
             PROVE  TypeOK'
  OBVIOUS
<1>1. TypeOK /\ queue \in Seq(Asked) /\ calls \in Seq(Called)
  BY DEF IInv, TypeOK, Asked, Called
<1>2. ASSUME queue' \in Seq(Asked), calls' \in Seq(Called), afterStart' \in Nat,
             state' \in {"created", "starting", "started", "stopping", "stopped"},
             awaits' \in Kinds \cup {"none", "sending", "pool"},
             answer' \in {"none", "ok", "rejected"}, failed' \in BOOLEAN,
             chained' \subseteq {"start", "stop"}, sending' \in BOOLEAN,
             running' \in BOOLEAN, started' \in BOOLEAN, listening' \in BOOLEAN,
             advertising' \in BOOLEAN, step' \in Waits \cup {"idle"},
             ready' \in BOOLEAN, router' \in BOOLEAN, radio' \in BOOLEAN,
             discovering' \in BOOLEAN, accepting' \in BOOLEAN
      PROVE  TypeOK'
  BY <1>2 DEF TypeOK, Asked, Called, Waits
<1>3. step \in Waits \cup {"idle"}
  BY <1>1 DEF TypeOK, Waits
<1>4. \A k \in Kinds, b \in {"manager", "event", "sending"} : Call(k, b) \in Asked
  BY DEF Call, Asked
<1>5. CASE Start \/ Stop \/ Chain \/ BeaconsRenewed
  <2>1. /\ UNCHANGED <<running, started, listening, advertising, afterStart, wrapper, native>>
        /\ Alone \/ Adds \/ \E kind \in Kinds : Asks(kind) /\ NextCall(kind)
    BY <1>5, ManagerSteps
  <2>2. /\ state' \in {"created", "starting", "started", "stopping", "stopped"}
        /\ awaits' \in Kinds \cup {"none", "sending", "pool"}
        /\ answer' \in {"none", "ok", "rejected"}
    BY <1>1, <2>1 DEF TypeOK, Alone, Adds, Asks, NextCall
  <2>3. queue' \in Seq(Asked)
    <3>1. CASE Alone
      BY <1>1, <3>1 DEF Alone
    <3>2. ASSUME NEW c \in Asked, queue' = Append(queue, c)
          PROVE  queue' \in Seq(Asked)
      BY <1>1, <3>2, AppendProperties
    <3> QED BY <1>4, <2>1, <3>1, <3>2 DEF Adds, Asks, Kinds
  <2>4. failed' \in BOOLEAN /\ chained' \subseteq {"start", "stop"} /\ sending' \in BOOLEAN
    BY <1>1, <1>5 DEF TypeOK, Start, Stop, Chain, BeaconsRenewed, ChainedStart, ChainedStop,
       Resume, StartFails, SendStarted, SendStopped, PoolStopped, Stopped, manager
  <2> QED BY <1>1, <1>2, <1>3, <2>1, <2>2, <2>3, <2>4 DEF TypeOK, wrapper, native
<1>6. CASE Mobile
  <2>1. /\ queue # <<>> /\ ~running
        /\ UNCHANGED <<state, awaits, failed, chained, sending, step, ready, router, native>>
        /\ Rejects \/ (Forwards(Head(queue).kind) /\ Sets(Head(queue).kind))
    BY <1>1, <1>6, MobileSteps DEF IInv
  <2>2. CASE Rejects
    <3>1. /\ queue' \in Seq(Asked) /\ running' = FALSE
          /\ answer' \in {"none", "ok", "rejected"} /\ afterStart' \in Nat
      BY <1>1, <2>1, <2>2, SettlesIs DEF Rejects, TypeOK
    <3>2. UNCHANGED <<calls, started, listening, advertising>>
      BY <2>2 DEF Rejects
    <3>3. /\ started' \in BOOLEAN /\ listening' \in BOOLEAN /\ advertising' \in BOOLEAN
          /\ calls' \in Seq(Called)
      BY <1>1, <3>2 DEF TypeOK
    <3>4. running' \in BOOLEAN
      BY <3>1
    <3> QED BY <1>1, <1>2, <1>3, <2>1, <3>1, <3>3, <3>4 DEF TypeOK, native
  <2>3. CASE Forwards(Head(queue).kind) /\ Sets(Head(queue).kind)
    <3>1. /\ calls' \in Seq(Called) /\ running' = TRUE
          /\ UNCHANGED <<queue, answer, afterStart>>
      BY <1>1, <2>1, <2>3, ForwardsIs DEF IInv
    <3>2. started' \in BOOLEAN /\ listening' \in BOOLEAN /\ advertising' \in BOOLEAN
      BY <1>1, <2>1, <2>3, HeadIs DEF Sets, TypeOK, Kinds
    <3> QED BY <1>1, <1>2, <1>3, <2>1, <3>1, <3>2 DEF TypeOK, native
  <2> QED BY <2>1, <2>2, <2>3
<1>7. CASE EventStarted
  <2>1. queue' \in Seq(Asked) /\ afterStart' \in Nat
    BY <1>1, <1>7, EventGrows DEF EventStarted, Grows, TypeOK
  <2> QED BY <1>1, <1>2, <1>3, <1>7, <2>1 DEF EventStarted, TypeOK, manager, wrapper, native
<1>8. ASSUME NEW bluetooth \in BOOLEAN, NEW other \in BOOLEAN,
             NetworkChanged(bluetooth, other)
      PROVE  TypeOK'
  <2>1. queue' \in Seq(Asked)
    BY <1>1, <1>4, <1>8, AppendProperties DEF NetworkChanged, Kinds
  <2> QED BY <1>1, <1>2, <1>3, <1>8, <2>1 DEF NetworkChanged, TypeOK, manager, wrapper
<1>9. CASE Wrapper
  <2>1. /\ calls # <<>> /\ Untouched
        /\ Done \/ \E s \in Waits : Awaiting(s)
        /\ ready' \in BOOLEAN /\ router' \in BOOLEAN
        /\ discovering' \in BOOLEAN /\ accepting' \in BOOLEAN
    BY <1>1, <1>9, WrapperSteps DEF IInv
  <2>2. CASE Done
    <3>1. /\ step' = "idle" /\ calls' \in Seq(Called)
          /\ \/ UNCHANGED <<queue, running, answer, afterStart>>
             \/ queue # <<>> /\ Settles("ok")
      BY <2>1, <2>2, DoneIs DEF IInv
    <3>2. /\ queue' \in Seq(Asked) /\ running' \in BOOLEAN
          /\ answer' \in {"none", "ok", "rejected"} /\ afterStart' \in Nat
      BY <1>1, <3>1, SettlesIs DEF TypeOK
    <3> QED BY <1>1, <1>2, <2>1, <3>1, <3>2 DEF TypeOK, Untouched
  <2>3. CASE \E s \in Waits : Awaiting(s)
    BY <1>1, <1>2, <2>1, <2>3 DEF Awaiting, Untouched, TypeOK
  <2> QED BY <2>1, <2>2, <2>3
<1>10. CASE PortFails \/ RouterPortConnectionFailed
  <2>1. StopAtTop
    BY <1>10 DEF PortFails, RouterPortConnectionFailed
  <2>2. calls' \in Seq(Called)
    <3>1. running => Head(queue) \in Called
      BY <1>1, HeadIs DEF IInv, MobileFits
    <3> DEFINE h == Head(queue)
               o == OwnStop
    <3>2. o \in Called /\ (running => h \in Called)
      BY <3>1, OwnStopIs
    <3>3. calls' = <<o>> \/ (running /\ calls' \in {<<o, h>>, <<h, o>>})
      BY <1>1, <2>1, StopGoesToTop DEF IInv
    <3> HIDE DEF h, o
    <3>4. <<o>> \in Seq(Called)
      BY <3>2
    <3>5. running => <<o, h>> \in Seq(Called) /\ <<h, o>> \in Seq(Called)
      BY <3>2
    <3> QED BY <3>3, <3>4, <3>5
  <2> QED BY <1>1, <1>2, <1>3, <2>1, <2>2 DEF StopAtTop, TypeOK, manager, mobile, native
<1> QED BY <1>5, <1>6, <1>7, <1>8, <1>9, <1>10 DEF Next

-----------------------------------------------------------------------------
(* The manager's calls *)

QueueFits == StateFits /\ ManagerFits /\ StopsFit

\* A manager that waits for something else has no call in the queue.
LEMMA NoManager ==
  ASSUME TypeOK, ManagerFits, awaits \notin Kinds \/ answer # "none"
  PROVE  \A i \in 1 .. Len(queue) : queue[i].by # "manager"
<1>1. queue \in Seq(Asked)
  BY DEF TypeOK, Asked
<1>2. \A i \in 1 .. Len(queue) : queue[i] \in Asked
  BY <1>1, ElementOfSeq
<1> QED BY <1>2 DEF ManagerFits, Asked

\* There is no stop in the queue but on the way down.
LEMMA NoStops ==
  ASSUME StopsFit, NEW i \in 1 .. Len(queue),
         \/ state # "stopping"
         \/ awaits # "pool" /\ \A j \in 1 .. Len(queue) : queue[j].by # "manager"
  PROVE  queue[i].kind \notin StopKinds
BY DEF StopsFit

\* Calls that are not the manager's, and stop nothing, change nothing.
LEMMA HarmlessGrows ==
  ASSUME TypeOK, QueueFits, NEW E, Grows(E), UNCHANGED <<state, awaits, answer>>,
         \A c \in E : c.by # "manager" /\ c.kind \notin StopKinds
  PROVE  QueueFits'
<1>1. Len(queue) \in Nat /\ Len(queue') \in Nat
  BY DEF TypeOK, Grows, Asked
<1>2. ASSUME NEW i \in 1 .. Len(queue'),
             queue'[i].by = "manager" \/ queue'[i].kind \in StopKinds
      PROVE  i \in 1 .. Len(queue) /\ queue'[i] = queue[i]
  BY <1>1, <1>2 DEF Grows
<1>3. ManagerFits'
  BY <1>2 DEF QueueFits, ManagerFits
<1>4. StopsFit'
  BY <1>1, <1>2 DEF QueueFits, StopsFit, Grows
<1> QED BY <1>3, <1>4 DEF QueueFits, StateFits

\* A call settles, and the manager hears of its own.
LEMMA QueueSettles ==
  ASSUME TypeOK, QueueFits, queue # <<>>, NEW outcome \in {"ok", "rejected"},
         Settles(outcome), UNCHANGED <<state, awaits>>
  PROVE  QueueFits'
<1>1. /\ Len(queue') = Len(queue) - 1 /\ Len(queue) >= 1 /\ Len(queue) \in Nat
      /\ Head(queue) = queue[1] /\ Head(queue) \in Asked
      /\ \A i \in 1 .. Len(queue') : queue'[i] = queue[i + 1]
  BY SettlesIs, TailShrinks DEF TypeOK, Asked
<1>2. answer' = IF queue[1].by = "manager" THEN outcome ELSE answer
  BY <1>1, SettlesIs
<1>3. \A i \in 1 .. Len(queue') : i + 1 \in 1 .. Len(queue) /\ i + 1 # 1
  BY <1>1
<1>4. 1 \in 1 .. Len(queue)
  BY <1>1
<1>5. StateFits'
  BY <1>1, <1>2, <1>4 DEF QueueFits, StateFits, ManagerFits, Asked
<1>6. ManagerFits'
  <2> SUFFICES ASSUME NEW i \in 1 .. Len(queue'), queue'[i].by = "manager"
               PROVE  /\ awaits = queue'[i].kind /\ answer' = "none"
                      /\ \A j \in 1 .. Len(queue') : queue'[j].by = "manager" => j = i
    BY DEF ManagerFits
  <2>1. queue[i + 1].by = "manager" /\ i + 1 \in 1 .. Len(queue) /\ queue[1].by # "manager"
    BY <1>1, <1>3, <1>4 DEF QueueFits, ManagerFits
  <2>2. ASSUME NEW j \in 1 .. Len(queue'), queue'[j].by = "manager"
        PROVE  j = i
    <3>1. j + 1 = i + 1
      BY <1>1, <1>3, <2>1, <2>2 DEF QueueFits, ManagerFits
    <3> QED BY <3>1
  <2> QED BY <1>1, <1>2, <2>1, <2>2 DEF QueueFits, ManagerFits
<1>7. StopsFit'
  <2> SUFFICES ASSUME NEW i \in 1 .. Len(queue'), queue'[i].kind \in StopKinds
               PROVE  /\ state = "stopping"
                      /\ \/ queue'[i].by = "manager"
                         \/ awaits = "pool"
                         \/ \E j \in i + 1 .. Len(queue') :
                              queue'[j].by = "manager" /\ queue'[j].kind = "stopAdvertising"
    BY DEF StopsFit
  <2>1. i + 1 \in 1 .. Len(queue) /\ queue'[i] = queue[i + 1]
    BY <1>1, <1>3
  <2>2. ASSUME NEW j \in (i + 1) + 1 .. Len(queue)
        PROVE  j - 1 \in i + 1 .. Len(queue') /\ queue'[j - 1] = queue[j]
    BY <1>1
  <2> QED BY <2>1, <2>2 DEF QueueFits, StopsFit
<1> QED BY <1>5, <1>6, <1>7 DEF QueueFits

\* What is added when no call of the manager waits.
LEMMA QuietGrows ==
  ASSUME TypeOK, NEW E, Grows(E), StateFits',
         \A i \in 1 .. Len(queue) : queue[i].by # "manager",
         \A c \in E : c.by # "manager",
         \/ state' = "stopping" /\ awaits' = "pool"
         \/ /\ \A i \in 1 .. Len(queue) : queue[i].kind \notin StopKinds
            /\ \A c \in E : c.kind \notin StopKinds
  PROVE  QueueFits'
<1>1. Len(queue) \in Nat /\ Len(queue') \in Nat
  BY DEF TypeOK, Grows, Asked
<1>2. ASSUME NEW i \in 1 .. Len(queue')
      PROVE  \/ i \in 1 .. Len(queue) /\ queue'[i] = queue[i]
             \/ queue'[i] \in E
  BY <1>1, <1>2 DEF Grows
<1>3. ManagerFits'
  BY <1>2 DEF ManagerFits
<1>4. StopsFit'
  BY <1>2 DEF StopsFit
<1> QED BY <1>3, <1>4 DEF QueueFits

\* The manager asks for its next call.
LEMMA QueueAsks ==
  ASSUME TypeOK, QueueFits, NEW kind \in Kinds, Asks(kind), NextCall(kind)
  PROVE  QueueFits' /\ Grows({Call(kind, "manager")})
<1> DEFINE c == Call(kind, "manager")
<1>1. c \in Asked /\ c.by = "manager" /\ c.kind = kind
  BY DEF Call, Asked
<1>2. /\ Grows({c}) /\ Len(queue') = Len(queue) + 1 /\ Len(queue) \in Nat
      /\ awaits' = kind /\ answer' = "none"
  <2>1. queue \in Seq(Asked)
    BY DEF TypeOK, Asked
  <2> QED BY <1>1, <2>1, AppendGrows DEF Asks
<1>3. awaits \notin Kinds \/ answer # "none"
  BY DEF NextCall, QueueFits, StateFits, Kinds
<1>4. \A i \in 1 .. Len(queue) : queue[i].by # "manager"
  BY <1>3, NoManager DEF QueueFits
<1> HIDE DEF c
<1>5. ASSUME NEW i \in 1 .. Len(queue')
      PROVE  \/ i \in 1 .. Len(queue) /\ queue'[i] = queue[i]
             \/ i = Len(queue) + 1 /\ queue'[i] = c
  BY <1>2, <1>5 DEF Grows
<1>6. Len(queue') \in 1 .. Len(queue') /\ queue'[Len(queue')] = c
  BY <1>2 DEF Grows
<1>7. StateFits'
  BY <1>2 DEF NextCall, QueueFits, StateFits, StopKinds, Kinds
<1>8. ManagerFits'
  BY <1>1, <1>2, <1>4, <1>5 DEF ManagerFits
<1>9. StopsFit'
  <2> SUFFICES ASSUME NEW i \in 1 .. Len(queue'), queue'[i].kind \in StopKinds
               PROVE  /\ state' = "stopping"
                      /\ \/ queue'[i].by = "manager"
                         \/ awaits' = "pool"
                         \/ \E j \in i + 1 .. Len(queue') :
                              queue'[j].by = "manager" /\ queue'[j].kind = "stopAdvertising"
    BY DEF StopsFit
  <2>1. CASE i = Len(queue) + 1 /\ queue'[i] = c
    <3>1. kind \in StopKinds => state' = "stopping"
      BY DEF NextCall, QueueFits, StateFits, StopKinds, TypeOK
    <3> QED BY <1>1, <2>1, <3>1
  <2>2. CASE i \in 1 .. Len(queue) /\ queue'[i] = queue[i]
    <3>1. state = "stopping" /\ awaits = "pool"
      BY <1>4, <2>2, NoStops DEF QueueFits
    <3>2. state' = "stopping" /\ kind = "stopAdvertising"
      BY <3>1 DEF NextCall
    <3>3. Len(queue') \in i + 1 .. Len(queue')
      BY <1>2, <2>2
    <3> QED BY <1>1, <1>6, <3>2, <3>3
  <2> QED BY <1>5, <2>1, <2>2
<1> QED BY <1>2, <1>7, <1>8, <1>9 DEF QueueFits, c

\* The manager's other steps.
LEMMA QueueAlone ==
  ASSUME TypeOK, QueueFits, Alone \/ Adds
  PROVE  /\ QueueFits'
         /\ \/ Grows({})
            \/ Grows({Call("startAdvertising", "sending")})
            \/ Grows({Call("stopAdvertising", "sending")}) /\ state = "stopping"
<1> DEFINE a == Call("startAdvertising", "sending")
           b == Call("stopAdvertising", "sending")
<1>1. /\ a \in Asked /\ a.by # "manager" /\ a.kind \notin StopKinds
      /\ b \in Asked /\ b.by # "manager"
  BY DEF Call, Asked, Kinds, StopKinds
<1>2. a = Call("startAdvertising", "sending") /\ b = Call("stopAdvertising", "sending")
  OBVIOUS
<1> HIDE DEF a, b
<1>3. queue \in Seq(Asked)
  BY DEF TypeOK, Asked
<1>4. CASE UNCHANGED <<state, awaits, answer>> /\ (Alone \/ queue' = Append(queue, a))
  <2>1. Grows({}) \/ Grows({a})
    BY <1>1, <1>3, <1>4, NothingGrows, AppendGrows DEF Alone
  <2>2. QueueFits'
    BY <1>1, <1>4, <2>1, HarmlessGrows
  <2> QED BY <1>2, <2>1, <2>2
<1>5. CASE awaits = "sending" /\ awaits' = "pool" /\ UNCHANGED <<state, answer>>
             /\ queue' = Append(queue, b)
  <2>1. state = "stopping" /\ StateFits' /\ state' = "stopping"
    BY <1>5 DEF QueueFits, StateFits, Kinds, StopKinds, TypeOK
  <2>2. \A i \in 1 .. Len(queue) : queue[i].by # "manager"
    BY <1>5, NoManager DEF QueueFits, Kinds
  <2>3. Grows({b})
    BY <1>1, <1>3, <1>5, AppendGrows
  <2> QED BY <1>2, <1>1, <1>5, <2>1, <2>2, <2>3, QuietGrows
<1>6. CASE ~(UNCHANGED <<state, awaits, answer>>) /\ ~(awaits = "sending" /\ awaits' = "pool")
  <2>1. Grows({}) \/ Grows({a})
    BY <1>2, <1>1, <1>3, <1>6, NothingGrows, AppendGrows DEF Alone, Adds
  <2>2. /\ StateFits'
        /\ awaits \notin Kinds \/ answer # "none"
        /\ state # "stopping" \/ (awaits # "pool" /\ answer # "none")
    <3>1. /\ awaits \notin Kinds \/ answer # "none"
          /\ state # "stopping" \/ (awaits # "pool" /\ answer # "none")
      BY <1>6 DEF Alone, Adds, QueueFits, StateFits, Kinds
    <3>2. StateFits'
      BY <1>6 DEF Alone, Adds, QueueFits, StateFits, Kinds, StopKinds
    <3> QED BY <3>1, <3>2
  <2>3. \A i \in 1 .. Len(queue) : queue[i].by # "manager"
    BY <2>2, NoManager DEF QueueFits
  <2>4. \A i \in 1 .. Len(queue) : queue[i].kind \notin StopKinds
    BY <2>2, <2>3, NoStops DEF QueueFits
  <2>5. QueueFits'
    <3>1. PICK E \in {{}, {a}} : Grows(E)
      BY <2>1
    <3>2. /\ \A c \in E : c.by # "manager"
          /\ \A c \in E : c.kind \notin StopKinds
      BY <1>1, <3>1
    <3>3. StateFits'
      BY <2>2
    <3> QED BY <2>3, <2>4, <3>1, <3>2, <3>3, QuietGrows
  <2> QED BY <1>2, <2>1, <2>5
<1> QED BY <1>2, <1>4, <1>5, <1>6 DEF Alone, Adds

-----------------------------------------------------------------------------
(* Steps that only add calls *)

\* What runs is not disturbed.
LEMMA GrowsKeeps ==
  ASSUME IInv, NEW E, Grows(E),
         UNCHANGED <<running, started, listening, advertising, calls, step, ready, router>>,
         discovering' => discovering, accepting' => accepting
  PROVE  /\ MobileFits' /\ CallsFit' /\ StepFits' /\ SilentUnlessReady'
         /\ discovering' /\ ~listening' =>
              running' /\ Head(queue').kind \in {"stop", "stopListening"}
         /\ accepting' /\ ~advertising' =>
              running' /\ Head(queue').kind \in {"stop", "stopAdvertising"}
<1>1. running => queue # <<>> /\ queue' # <<>> /\ Head(queue') = Head(queue)
  BY DEF IInv, MobileFits, Grows
<1>2. MobileFits'
  BY <1>1 DEF IInv, MobileFits
<1>3. CallsFit'
  BY <1>1 DEF IInv, CallsFit, OwnStop, Call
<1>4. StepFits' /\ SilentUnlessReady'
  BY DEF IInv, StepFits, SilentUnlessReady, Call
<1> QED BY <1>1, <1>2, <1>3, <1>4 DEF IInv, NativeFits

\* A call that is on its way stays so when others queue up behind it.
LEMMA ComingGrows ==
  ASSUME TypeOK, NEW E, Grows(E), afterStart' = afterStart, NEW kind, Coming(kind)
  PROVE  Coming(kind)'
<1>1. Len(queue) \in Nat /\ Len(queue') \in Nat /\ Len(queue) <= Len(queue')
  BY DEF TypeOK, Grows, Asked
<1>2. \A i \in 1 .. Len(queue) : i \in 1 .. Len(queue') /\ queue'[i] = queue[i]
  BY <1>1 DEF Grows
<1> QED BY <1>2 DEF Coming, Call

\* start, stop, the links of their chains and the renewal of beacons.
LEMMA ManagerKeeps ==
  ASSUME IInv, TypeOK', Start \/ Stop \/ Chain \/ BeaconsRenewed
  PROVE  IInv'
<1>1. /\ UNCHANGED <<running, started, listening, advertising, afterStart, wrapper, native>>
      /\ Alone \/ Adds \/ \E kind \in Kinds : Asks(kind) /\ NextCall(kind)
  BY ManagerSteps
<1>2. QueueFits' /\ \E E : Grows(E)
  <2>1. TypeOK /\ QueueFits
    BY DEF IInv, QueueFits
  <2>2. CASE Alone \/ Adds
    BY <2>1, <2>2, QueueAlone
  <2>3. CASE \E kind \in Kinds : Asks(kind) /\ NextCall(kind)
    BY <2>1, <2>3, QueueAsks
  <2> QED BY <1>1, <2>2, <2>3
<1>3. PICK E : Grows(E)
  BY <1>2
<1>4. /\ MobileFits' /\ CallsFit' /\ StepFits' /\ SilentUnlessReady' /\ NativeFits'
  <2>1. /\ MobileFits' /\ CallsFit' /\ StepFits' /\ SilentUnlessReady'
        /\ discovering' /\ ~listening' =>
              running' /\ Head(queue').kind \in {"stop", "stopListening"}
        /\ accepting' /\ ~advertising' =>
              running' /\ Head(queue').kind \in {"stop", "stopAdvertising"}
    BY <1>1, <1>3, GrowsKeeps DEF wrapper, native
  <2>2. \A kind : Coming(kind) => Coming(kind)'
    BY <1>1, <1>3, ComingGrows DEF IInv
  <2> QED BY <1>1, <2>1, <2>2 DEF IInv, NativeFits, native, wrapper
<1>5. UpFits'
  <2>1. CASE Alone
    BY <1>1, <2>1 DEF Alone, IInv, UpFits, StartedIsUp
  <2>2. CASE Adds
    BY <1>1, <2>2 DEF Adds, IInv, UpFits, StartedIsUp
  <2>3. CASE \E kind \in Kinds : Asks(kind) /\ NextCall(kind)
    BY <1>1, <2>3 DEF Asks, NextCall, IInv, UpFits, StartedIsUp, StateFits
  <2> QED BY <1>1, <2>1, <2>2, <2>3
<1>6. StoppedFits'
  <2>1. CASE Alone
    BY <1>1, <2>1 DEF Alone, IInv, StoppedFits, wrapper
  <2>2. CASE Adds
    BY <1>1, <2>2 DEF Adds, IInv, StoppedFits, wrapper
  <2>3. CASE \E kind \in Kinds : Asks(kind) /\ NextCall(kind)
    BY <1>1, <2>3 DEF Asks, NextCall, IInv, StoppedFits, StateFits, wrapper
  <2> QED BY <1>1, <2>1, <2>2, <2>3
<1> QED BY <1>2, <1>4, <1>5, <1>6 DEF IInv, QueueFits

\* The second half of handleNetworkChanged, after its start.
LEMMA EventKeeps ==
  ASSUME IInv, TypeOK', EventStarted
  PROVE  IInv'
<1> DEFINE E == [kind : {"startListening", "startAdvertising"}, by : {"event"}]
<1>1. /\ Grows(E)
      /\ listening => \E i \in 1 .. Len(queue') : queue'[i].kind = "startListening"
      /\ advertising => \E i \in 1 .. Len(queue') : queue'[i].kind = "startAdvertising"
  <2>1. queue \in Seq(Asked)
    BY DEF IInv, TypeOK, Asked
  <2> QED BY <2>1, EventGrows
<1>2. UNCHANGED <<manager, sending, running, started, listening, advertising, wrapper, native>>
  BY DEF EventStarted
<1>3. QueueFits'
  <2>1. \A c \in E : c.by # "manager" /\ c.kind \notin StopKinds
    BY DEF StopKinds
  <2> HIDE DEF E
  <2> QED BY <1>1, <1>2, <2>1, HarmlessGrows DEF IInv, QueueFits, manager
<1> HIDE DEF E
<1>4. /\ MobileFits' /\ CallsFit' /\ StepFits' /\ SilentUnlessReady'
      /\ discovering' /\ ~listening' =>
            running' /\ Head(queue').kind \in {"stop", "stopListening"}
      /\ accepting' /\ ~advertising' =>
            running' /\ Head(queue').kind \in {"stop", "stopAdvertising"}
  BY <1>1, <1>2, GrowsKeeps DEF wrapper, native
<1>5. NativeFits'
  BY <1>1, <1>2, <1>4 DEF NativeFits, Coming
<1>6. UpFits' /\ StoppedFits'
  BY <1>2 DEF IInv, UpFits, StartedIsUp, StoppedFits, manager, wrapper
<1> QED BY <1>3, <1>4, <1>5, <1>6 DEF IInv, QueueFits

\* The first half: the radio comes or goes at any moment.
LEMMA NetworkKeeps ==
  ASSUME IInv, TypeOK', NEW bluetooth \in BOOLEAN, NEW other \in BOOLEAN,
         NetworkChanged(bluetooth, other)
  PROVE  IInv'
<1> DEFINE c == Call("start", "event")
<1>1. c \in Asked /\ c.by # "manager" /\ c.kind \notin StopKinds
  BY DEF Call, Asked, Kinds, StopKinds
<1>2. queue \in Seq(Asked)
  BY DEF IInv, TypeOK, Asked
<1>3. /\ UNCHANGED <<manager, sending, running, started, listening, advertising,
                     afterStart, wrapper>>
  BY DEF NetworkChanged
<1>4. /\ radio' = bluetooth
      /\ discovering' => discovering
      /\ accepting' => accepting
      /\ queue' = IF started /\ (bluetooth \/ other) THEN Append(queue, c) ELSE queue
  BY DEF NetworkChanged
<1> HIDE DEF c
<1>5. /\ \E E \in {{}, {c}} : Grows(E)
      /\ started /\ radio' => Grows({c}) /\ Len(queue') = Len(queue) + 1
  BY <1>1, <1>2, <1>4, NothingGrows, AppendGrows
<1>6. PICK E \in {{}, {c}} : Grows(E)
  BY <1>5
<1>7. QueueFits'
  <2>1. \A x \in E : x.by # "manager" /\ x.kind \notin StopKinds
    BY <1>1, <1>6
  <2> QED BY <1>3, <1>6, <2>1, HarmlessGrows DEF IInv, QueueFits, manager
<1>8. /\ MobileFits' /\ CallsFit' /\ StepFits' /\ SilentUnlessReady'
      /\ discovering' /\ ~listening' =>
            running' /\ Head(queue').kind \in {"stop", "stopListening"}
      /\ accepting' /\ ~advertising' =>
            running' /\ Head(queue').kind \in {"stop", "stopAdvertising"}
  BY <1>3, <1>4, <1>6, GrowsKeeps DEF wrapper
<1>9. started /\ radio' => \A kind : Coming(kind)'
  <2> SUFFICES ASSUME started, radio', NEW kind
               PROVE  Coming(kind)'
    OBVIOUS
  <2>1. Len(queue) \in Nat /\ Len(queue') = Len(queue) + 1 /\ Grows({c})
    BY <1>2, <1>5
  <2>2. queue'[Len(queue')] = c /\ Len(queue') \in 1 .. Len(queue')
    BY <2>1 DEF Grows
  <2> QED BY <2>2 DEF Coming, c, Call
<1>10. NativeFits'
  BY <1>3, <1>8, <1>9 DEF NativeFits, wrapper
<1>11. UpFits' /\ StoppedFits'
  BY <1>3 DEF IInv, UpFits, StartedIsUp, StoppedFits, manager, wrapper
<1> QED BY <1>7, <1>8, <1>10, <1>11 DEF IInv, QueueFits

-----------------------------------------------------------------------------
(* Steps of thaliMobile *)

\* What is on its way is still on its way when the head leaves, unless it was that.
LEMMA ComingSettles ==
  ASSUME TypeOK, queue # <<>>, NEW outcome \in {"ok", "rejected"}, Settles(outcome),
         NEW kind, Coming(kind), Head(queue).kind # kind
  PROVE  Coming(kind)'
<1>1. /\ queue' = Tail(queue) /\ queue' \in Seq(Asked) /\ queue \in Seq(Asked)
      /\ afterStart' \in Nat
  BY SettlesIs DEF TypeOK, Asked
<1>2. /\ afterStart > 0 => afterStart' > 0
      /\ Head(queue) = Call("start", "event") => afterStart' > 0
  BY SettlesIs
<1>3. /\ Len(queue') = Len(queue) - 1 /\ Len(queue) \in Nat /\ Head(queue) = queue[1]
      /\ \A i \in 1 .. Len(queue') : queue'[i] = queue[i + 1]
  BY <1>1, TailShrinks
<1>4. CASE afterStart > 0
  BY <1>2, <1>4 DEF Coming
<1>5. CASE ~(afterStart > 0)
  <2>1. PICK i \in 1 .. Len(queue) : queue[i] = Call("start", "event") \/ queue[i].kind = kind
    BY <1>5 DEF Coming
  <2>2. CASE i = 1
    BY <1>2, <1>3, <2>1, <2>2 DEF Coming
  <2>3. CASE i # 1
    <3>1. i - 1 \in 1 .. Len(queue') /\ queue'[i - 1] = queue[i]
      BY <1>3, <2>1, <2>3
    <3> QED BY <2>1, <3>1 DEF Coming, Call
  <2> QED BY <2>2, <2>3
<1> QED BY <1>4, <1>5

\* The head of thaliMobile's queue gets its turn.
LEMMA MobileKeeps ==
  ASSUME IInv, TypeOK', Mobile
  PROVE  IInv'
<1>1. /\ queue # <<>> /\ ~running
      /\ UNCHANGED <<state, awaits, failed, chained, sending, step, ready, router,
                     native>>
      /\ Rejects \/ (Forwards(Head(queue).kind) /\ Sets(Head(queue).kind))
  BY MobileSteps DEF IInv
<1> DEFINE kind == Head(queue).kind
<1>2. kind \in Kinds /\ Head(queue) = queue[1] /\ 1 \in 1 .. Len(queue)
  BY <1>1, HeadIs DEF IInv
<1>3. CASE Rejects
  <2>1. /\ running' = FALSE /\ (answer' = "ok" => answer = "ok")
        /\ UNCHANGED <<calls, started, listening, advertising>>
        /\ Settles("rejected")
        /\ kind = "start" \/ (kind \in {"startListening", "startAdvertising"} /\ ~started)
    BY <1>1, <1>3, SettlesIs DEF Rejects, IInv
  <2>2. QueueFits'
    BY <1>1, <2>1, QueueSettles DEF IInv, QueueFits
  <2>3. UpFits' /\ StoppedFits'
    BY <1>1, <2>1 DEF IInv, UpFits, StartedIsUp, StoppedFits
  <2>4. MobileFits' /\ CallsFit' /\ StepFits' /\ SilentUnlessReady'
    <3>1. MobileFits'
      BY <2>1 DEF IInv, MobileFits
    <3>2. CallsFit'
      BY <1>1, <2>1 DEF IInv, CallsFit, OwnStop, Call
    <3>3. StepFits' /\ SilentUnlessReady'
      BY <1>1, <2>1 DEF IInv, StepFits, SilentUnlessReady, Call, native
    <3> QED BY <3>1, <3>2, <3>3
  <2>5. NativeFits'
    <3>1. \A k : Coming(k) /\ kind # k => Coming(k)'
      BY <1>1, <2>1, ComingSettles DEF IInv
    <3>2. /\ started => kind # "startListening" /\ kind # "startAdvertising"
      BY <2>1
    <3> HIDE DEF kind
    <3>3. /\ started /\ Coming("startListening") => Coming("startListening")'
          /\ started /\ Coming("startAdvertising") => Coming("startAdvertising")'
      BY <3>1, <3>2
    <3> QED BY <1>1, <2>1, <3>3 DEF IInv, NativeFits, native
  <2> QED BY <2>2, <2>3, <2>4, <2>5 DEF IInv, QueueFits
<1>4. CASE Forwards(kind) /\ Sets(kind)
  <2>1. /\ running' = TRUE /\ UNCHANGED <<queue, answer, afterStart>> /\ CallsFit'
        /\ calls # <<>> => calls' # <<>> /\ Head(calls') = Head(calls)
    BY <1>1, <1>4, ForwardsIs DEF IInv
  <2>2. QueueFits'
    BY <1>1, <2>1 DEF IInv, QueueFits, StateFits, ManagerFits, StopsFit
  <2>3. \/ kind \in StopKinds
        \/ /\ kind \in {"start", "startListening", "startAdvertising"}
           /\ (started => started') /\ (listening => listening') /\ (advertising => advertising')
    BY <1>2, <1>4 DEF Sets, Kinds, StopKinds
  <2>4. kind \in StopKinds => state = "stopping"
    BY <1>2 DEF IInv, StopsFit
  <2>5. UpFits'
    BY <1>1, <2>1, <2>3, <2>4 DEF IInv, UpFits, StartedIsUp
  <2>6. MobileFits'
    BY <1>1, <1>2, <1>4, <2>1 DEF IInv, MobileFits, Sets, Kinds
  <2>7. StepFits' /\ SilentUnlessReady' /\ StoppedFits'
    BY <1>1, <2>1 DEF IInv, StepFits, SilentUnlessReady, StoppedFits, Call, native
  <2>8. NativeFits'
    <3>1. /\ kind = "startListening" => Coming("startListening")'
          /\ kind = "startAdvertising" => Coming("startAdvertising")'
      BY <1>2, <2>1 DEF Coming
    <3>2. \A k : Coming(k) => Coming(k)'
      BY <2>1 DEF Coming
    <3>3. /\ discovering /\ ~listening' => kind \in {"stop", "stopListening"}
          /\ accepting /\ ~advertising' => kind \in {"stop", "stopAdvertising"}
      BY <1>1, <1>2, <1>4 DEF IInv, NativeFits, Sets, Kinds
    <3>4. /\ started' /\ listening' => kind = "startListening" \/ (started /\ listening)
          /\ started' /\ advertising' => kind = "startAdvertising" \/ (started /\ advertising)
      BY <1>2, <1>4 DEF IInv, MobileFits, Sets, Kinds
    <3>5. UNCHANGED <<ready, radio, discovering, accepting>> /\ kind' = kind /\ running'
      BY <1>1, <2>1 DEF native
    <3> HIDE DEF kind
    <3>6. /\ discovering' /\ ~listening' =>
               running' /\ kind' \in {"stop", "stopListening"}
          /\ accepting' /\ ~advertising' =>
               running' /\ kind' \in {"stop", "stopAdvertising"}
      BY <3>3, <3>5
    <3>7. /\ started' /\ ready' /\ radio' /\ listening' /\ ~discovering' =>
               Coming("startListening")'
          /\ started' /\ ready' /\ radio' /\ advertising' /\ ~accepting' =>
               Coming("startAdvertising")'
      BY <3>1, <3>2, <3>4, <3>5 DEF IInv, NativeFits
    <3> QED BY <3>6, <3>7 DEF NativeFits, kind
  <2> QED BY <2>1, <2>2, <2>5, <2>6, <2>7, <2>8 DEF IInv, QueueFits
<1> QED BY <1>1, <1>3, <1>4

-----------------------------------------------------------------------------
(* Steps of the wrapper *)

\* A failing port puts a stop at the head of the queue of the wrapper.
LEMMA StopAtTopKeeps ==
  ASSUME IInv, TypeOK', PortFails \/ RouterPortConnectionFailed
  PROVE  IInv'
<1>1. StopAtTop /\ ready
  BY DEF PortFails, RouterPortConnectionFailed
<1>2. UNCHANGED <<manager, sending, mobile, step, ready, router, native>>
  BY <1>1 DEF StopAtTop
<1>3. \/ ~running /\ calls = <<>> /\ calls' = <<OwnStop>>
      \/ running /\ calls = <<Head(queue)>>
           /\ calls' = (IF step = "idle" THEN <<OwnStop, Head(queue)>>
                                         ELSE <<Head(queue), OwnStop>>)
  BY <1>1, StopGoesToTop DEF IInv
<1>4. CallsFit'
  BY <1>2, <1>3 DEF CallsFit, OwnStop, Call, mobile
<1>5. step # "idle" => calls' # <<>> /\ Head(calls') = Head(calls)
  <2>1. step # "idle" => calls # <<>>
    BY DEF IInv, StepFits
  <2> DEFINE h == Head(queue)
             o == OwnStop
  <2>2. step # "idle" => calls = <<h>> /\ calls' = <<h, o>>
    BY <1>3, <2>1
  <2> HIDE DEF h, o
  <2>3. Head(<<h>>) = h /\ Head(<<h, o>>) = h /\ <<h, o>> # <<>>
    OBVIOUS
  <2> QED BY <2>2, <2>3
<1>6. StepFits'
  BY <1>2, <1>5 DEF IInv, StepFits, Call
<1>7. /\ QueueFits' /\ UpFits' /\ MobileFits' /\ SilentUnlessReady' /\ StoppedFits'
      /\ NativeFits'
  BY <1>2 DEF IInv, QueueFits, StateFits, ManagerFits, StopsFit, UpFits, StartedIsUp,
     MobileFits, SilentUnlessReady, StoppedFits, NativeFits, Coming, Call,
     manager, mobile, native
<1> QED BY <1>4, <1>6, <1>7 DEF IInv, QueueFits

\* Once Thali has stopped, and until it starts, what the wrapper may have left
\* is another's call of a start.
LEMMA QuietCalls ==
  ASSUME IInv, calls # <<>>,
         state \in {"created", "stopped"} \/ (awaits = "stop" /\ answer = "ok")
  PROVE  \/ Head(calls) = OwnStop
         \/ Head(calls).by # "manager" /\ Head(calls).kind \notin StopKinds
<1>1. \/ Head(calls) = OwnStop
      \/ running /\ queue # <<>> /\ Head(calls) = Head(queue)
  BY CallsAre DEF IInv
<1>2. /\ awaits \notin Kinds \/ answer # "none"
      /\ state # "stopping" \/ awaits # "pool"
  BY DEF IInv, StateFits, Kinds
<1>3. \A i \in 1 .. Len(queue) : queue[i].by # "manager"
  BY <1>2, NoManager DEF IInv
<1>4. \A i \in 1 .. Len(queue) : queue[i].kind \notin StopKinds
  BY <1>2, <1>3, NoStops DEF IInv
<1> QED BY <1>1, <1>3, <1>4, HeadIs DEF IInv

\* What the wrapper does before it waits for a callback,
WaitDoes ==
  \/ /\ step = "idle" /\ step' = "listen"
     /\ Head(calls) = Call("start", "manager") /\ ~ready
     /\ UNCHANGED <<ready, router, discovering, accepting>>
  \/ /\ step = "listen" /\ step' = "servers" /\ router' = TRUE
     /\ UNCHANGED <<ready, discovering, accepting>>
  \/ /\ step = "idle" /\ step' = "stopAdvertising"
     /\ Head(calls).kind = "stop" /\ ready /\ ready' = FALSE
     /\ UNCHANGED <<router, discovering, accepting>>
  \/ /\ step = "stopAdvertising" /\ step' = "stopListening" /\ accepting' = FALSE
     /\ UNCHANGED <<ready, router, discovering>>
  \/ /\ step = "stopListening" /\ step' = "close" /\ discovering' = FALSE
     /\ UNCHANGED <<ready, router, accepting>>
  \/ /\ step = "idle" /\ step' = "native"
     /\ Head(calls).kind \notin {"start", "stop"}
     /\ Head(calls).kind \notin StopKinds => ready
     /\ UNCHANGED <<ready, router, discovering, accepting>>

\* and in the last step of a call.
DoneDoes ==
  /\ ~ready' => ~router' /\ ~accepting' /\ ~discovering'
  /\ Head(calls).kind = "stop" => ~ready'
  /\ ready' => ready \/ Head(calls) = Call("start", "manager")
  /\ step = "idle" => ready' = ready
  /\ \/ Head(calls).kind = "startListening" /\ (discovering' <=> (ready' /\ radio))
     \/ Head(calls).kind = "stopListening" /\ ~discovering'
     \/ Head(calls).kind \notin {"startListening", "stopListening"}
          /\ discovering' = discovering
  /\ \/ Head(calls).kind = "startAdvertising" /\ (accepting' <=> (ready' /\ radio))
     \/ Head(calls).kind = "stopAdvertising" /\ ~accepting'
     \/ Head(calls).kind \notin {"startAdvertising", "stopAdvertising"}
          /\ accepting' = accepting

\* What the end of a call, or the wait for a callback, does to router and radio.
LEMMA WrapperDoes ==
  ASSUME IInv, Wrapper
  PROVE  (Done /\ DoneDoes) \/ ((\E s \in Waits : Awaiting(s)) /\ WaitDoes)
<1>1. calls # <<>>
  BY WrapperSteps DEF IInv
<1>2. Head(calls) \in Called
  BY <1>1, HeadTailProperties DEF IInv, TypeOK, Called
<1>3. Head(calls).kind = "start" /\ Head(calls).by = "manager"
        => Head(calls) = Call("start", "manager")
  BY <1>2 DEF Called, Call
<1>4. StepFits /\ SilentUnlessReady /\ TypeOK
  BY DEF IInv
<1> DEFINE h == Head(calls)
           manages == Call("start", "manager")
<1>5. /\ step \in {"listen", "servers"} => h = manages /\ ~ready
      /\ step = "native" => h.kind \notin {"start", "stop"}
      /\ step = "native" => (h.kind \notin StopKinds => ready)
      /\ step \in {"stopAdvertising", "stopListening", "close"} => h.kind = "stop" /\ ~ready
      /\ manages.kind = "start"
      /\ h.kind = "start" /\ h.by = "manager" => h = manages
  BY <1>3, <1>4 DEF StepFits, Call
<1>6. /\ ~ready /\ step \in {"idle", "native", "listen"} => ~router /\ ~accepting /\ ~discovering
      /\ ~ready /\ step = "servers" => ~accepting /\ ~discovering
      /\ ~ready /\ step = "close" => ~accepting /\ ~discovering
  BY <1>4 DEF SilentUnlessReady
<1>7. /\ ready \in BOOLEAN /\ router \in BOOLEAN /\ radio \in BOOLEAN
      /\ discovering \in BOOLEAN /\ accepting \in BOOLEAN
  BY <1>4 DEF TypeOK
<1>8. h = Head(calls) /\ manages = Call("start", "manager")
  OBVIOUS
<1> HIDE DEF h, manages
<1>9. CASE WrapperStarts
  <2>1. CASE Turn("start") /\ (ready \/ h.by # "manager") /\ Done /\ UNCHANGED <<ready, router>>
    BY <1>6, <1>8, <1>9, <2>1 DEF WrapperStarts, Turn, DoneDoes
  <2>2. CASE Turn("start") /\ ~ready /\ h.by = "manager" /\ Awaiting("listen")
               /\ UNCHANGED <<ready, router>>
    BY <1>5, <1>8, <1>9, <2>2 DEF WrapperStarts, Turn, WaitDoes, Waits, Awaiting
  <2>3. CASE step = "listen" /\ router' = TRUE /\ Awaiting("servers") /\ UNCHANGED ready
    BY <1>8, <1>9, <2>3 DEF WrapperStarts, WaitDoes, Waits, Awaiting
  <2>4. CASE step = "servers" /\ ready' = TRUE /\ Done /\ UNCHANGED router
    BY <1>5, <1>8, <1>9, <2>4 DEF WrapperStarts, DoneDoes
  <2> QED BY <1>8, <1>9, <2>1, <2>2, <2>3, <2>4 DEF WrapperStarts
<1>10. CASE WrapperStops
  BY <1>5, <1>6, <1>8, <1>10 DEF WrapperStops, Turn, DoneDoes, WaitDoes, Waits, Awaiting
<1>11. CASE WrapperListens
  BY <1>5, <1>6, <1>7, <1>8, <1>11
     DEF WrapperListens, Turn, DoneDoes, WaitDoes, Waits, Awaiting, StopKinds
<1>12. CASE WrapperAdvertises
  BY <1>5, <1>6, <1>7, <1>8, <1>12
     DEF WrapperAdvertises, Turn, DoneDoes, WaitDoes, Waits, Awaiting, StopKinds
<1> QED BY <1>9, <1>10, <1>11, <1>12 DEF Wrapper

\* The wrapper begins a call and waits, or goes from one callback to the next.
LEMMA WaitKeeps ==
  ASSUME IInv, TypeOK', Untouched, calls # <<>>, NEW s \in Waits, Awaiting(s), WaitDoes
  PROVE  IInv'
<1>1. /\ step' # "idle"
      /\ UNCHANGED <<state, awaits, failed, chained, sending, started, listening,
                     advertising, radio, calls, queue, running, answer, afterStart>>
  BY DEF Untouched, Awaiting, Waits
<1>2. /\ QueueFits' /\ UpFits' /\ MobileFits' /\ CallsFit'
  BY <1>1 DEF IInv, QueueFits, StateFits, ManagerFits, StopsFit, UpFits, StartedIsUp,
     MobileFits, CallsFit, OwnStop, Call
<1>3. StepFits'
  BY <1>1 DEF IInv, StepFits, WaitDoes, Call
<1>4. SilentUnlessReady'
  BY <1>1 DEF IInv, SilentUnlessReady, WaitDoes, StepFits
<1>5. ASSUME state \in {"created", "stopped"} \/ (awaits = "stop" /\ answer = "ok")
      PROVE  FALSE
  <2>1. ~ready /\ step = "idle"
    BY <1>5 DEF IInv, StoppedFits
  <2>2. \/ Head(calls) = OwnStop
        \/ Head(calls).by # "manager" /\ Head(calls).kind \notin StopKinds
    BY <1>5, QuietCalls
  <2>3. Call("start", "manager").by = "manager" /\ OwnStop.by = "wrapper"
          /\ OwnStop.kind = "stop"
    BY DEF Call, OwnStop
  <2> QED BY <2>1, <2>2, <2>3 DEF WaitDoes
<1>6. StoppedFits'
  BY <1>1, <1>5 DEF StoppedFits
<1>7. NativeFits'
  <2>1. \A kind : Coming(kind) => Coming(kind)'
    BY <1>1 DEF Coming
  <2>2. /\ discovering' => discovering
        /\ accepting' => accepting
        /\ ready' => ready /\ discovering' = discovering /\ accepting' = accepting
    <3>1. step \in {"listen", "stopAdvertising", "stopListening"} => ~ready
      BY DEF IInv, StepFits
    <3> QED BY <3>1 DEF WaitDoes
  <2> QED BY <1>1, <2>1, <2>2 DEF IInv, NativeFits
<1> QED BY <1>2, <1>3, <1>4, <1>6, <1>7 DEF IInv, QueueFits

\* The wrapper ends a call and thaliMobile hears of it.
LEMMA DoneKeeps ==
  ASSUME IInv, TypeOK', Untouched, calls # <<>>, Done, DoneDoes
  PROVE  IInv'
<1>1. /\ step' = "idle" /\ CallsFit'
      /\ \/ Head(calls) = OwnStop /\ UNCHANGED <<queue, running, answer, afterStart>>
         \/ Head(calls) = Head(queue) /\ running /\ queue # <<>> /\ Settles("ok")
  BY DoneIs DEF IInv
<1>2. UNCHANGED <<state, awaits, failed, chained, sending, started, listening,
                  advertising, radio>>
  BY DEF Untouched
<1>3. StepFits'
  BY <1>1 DEF StepFits
<1>4. SilentUnlessReady'
  BY <1>1 DEF SilentUnlessReady, DoneDoes
<1>5. (state \in {"created", "stopped"} \/ (awaits = "stop" /\ answer = "ok")) => ~ready'
  BY DEF IInv, StoppedFits, DoneDoes
<1>6. CASE Head(calls) = OwnStop /\ UNCHANGED <<queue, running, answer, afterStart>>
  <2>1. QueueFits' /\ UpFits' /\ MobileFits'
    BY <1>2, <1>6 DEF IInv, QueueFits, StateFits, ManagerFits, StopsFit, UpFits, StartedIsUp,
       MobileFits
  <2>2. Head(calls).kind = "stop"
    BY <1>6 DEF OwnStop, Call
  <2>3. StoppedFits'
    BY <1>1, <1>2, <1>5, <1>6 DEF StoppedFits
  <2>4. NativeFits'
    BY <1>2, <1>6, <2>2 DEF IInv, NativeFits, DoneDoes
  <2> QED BY <1>1, <1>3, <1>4, <2>1, <2>3, <2>4 DEF IInv, QueueFits
<1>7. CASE Head(calls) = Head(queue) /\ running /\ queue # <<>> /\ Settles("ok")
  <2> DEFINE h == Head(queue)
  <2>1. /\ h = queue[1] /\ 1 \in 1 .. Len(queue) /\ h.kind \in Kinds
        /\ Head(calls) = h
    BY <1>7, HeadIs DEF IInv
  <2>2. running' = FALSE /\ answer' = IF h.by = "manager" THEN "ok" ELSE answer
    BY <1>7, SettlesIs DEF IInv
  <2>3. QueueFits'
    BY <1>2, <1>7, QueueSettles DEF IInv, QueueFits
  <2>4. answer' = "ok" => answer = "ok" \/ awaits = h.kind
    BY <2>1, <2>2 DEF IInv, ManagerFits
  <2>5. UpFits'
    BY <1>2, <1>7, <2>4 DEF IInv, UpFits, StartedIsUp, MobileFits
  <2>6. MobileFits'
    BY <1>2, <2>2 DEF IInv, MobileFits
  <2>7. StoppedFits'
    <3>1. awaits = "stop" /\ answer' = "ok" => ~ready'
      BY <1>5, <2>1, <2>4 DEF DoneDoes
    <3> QED BY <1>1, <1>2, <1>5, <3>1 DEF StoppedFits
  <2>8. \A kind : Coming(kind) /\ h.kind # kind => Coming(kind)'
    BY <1>7, ComingSettles DEF IInv
  <2>9. /\ h.kind = "start" => started /\ ~listening /\ ~advertising
        /\ h.kind = "startListening"   => listening
        /\ h.kind = "stopListening"    => ~listening
        /\ h.kind = "startAdvertising" => advertising
        /\ h.kind = "stopAdvertising"  => ~advertising
    BY <1>7 DEF IInv, MobileFits
  <2>10. ready' => ready \/ h.kind = "start"
    BY <2>1 DEF DoneDoes, Call
  <2>11. /\ ~ready' => ~accepting' /\ ~discovering'
         /\ h.kind = "stop" => ~ready'
         /\ \/ h.kind = "startListening" /\ (discovering' <=> (ready' /\ radio))
            \/ h.kind = "stopListening" /\ ~discovering'
            \/ h.kind \notin {"startListening", "stopListening"}
                 /\ discovering' = discovering
         /\ \/ h.kind = "startAdvertising" /\ (accepting' <=> (ready' /\ radio))
            \/ h.kind = "stopAdvertising" /\ ~accepting'
            \/ h.kind \notin {"startAdvertising", "stopAdvertising"}
                 /\ accepting' = accepting
    BY <2>1 DEF DoneDoes
  <2>12. /\ discovering /\ ~listening => h.kind \in {"stop", "stopListening"}
         /\ accepting /\ ~advertising => h.kind \in {"stop", "stopAdvertising"}
         /\ started /\ ready /\ radio /\ listening /\ ~discovering => Coming("startListening")
         /\ started /\ ready /\ radio /\ advertising /\ ~accepting => Coming("startAdvertising")
    BY DEF IInv, NativeFits
  <2> HIDE DEF h
  <2>13. ~(discovering' /\ ~listening') /\ ~(accepting' /\ ~advertising')
    BY <1>2, <2>9, <2>11, <2>12
  <2>14. started' /\ ready' /\ radio' /\ listening' /\ ~discovering' => Coming("startListening")'
    BY <1>2, <2>8, <2>9, <2>10, <2>11, <2>12
  <2>15. started' /\ ready' /\ radio' /\ advertising' /\ ~accepting' => Coming("startAdvertising")'
    BY <1>2, <2>8, <2>9, <2>10, <2>11, <2>12
  <2>16. NativeFits'
    BY <2>13, <2>14, <2>15 DEF NativeFits
  <2> QED BY <1>1, <1>3, <1>4, <2>3, <2>5, <2>6, <2>7, <2>16 DEF IInv, QueueFits
<1> QED BY <1>1, <1>6, <1>7

-----------------------------------------------------------------------------
(* The theorems *)

\* Nothing is started at first.
LEMMA InitFits == Init => IInv
<1> SUFFICES ASSUME Init
             PROVE  IInv
  OBVIOUS
<1>1. queue = <<>> /\ calls = <<>> /\ Len(queue) = 0 /\ 1 .. Len(queue) = {}
  BY DEF Init
<1>2. TypeOK
  <2>1. queue \in Seq(Asked) /\ calls \in Seq(Called)
    BY <1>1, EmptySeq
  <2> QED BY <2>1 DEF Init, TypeOK, Kinds, Asked, Called
<1>3. StateFits /\ ManagerFits /\ StopsFit /\ UpFits
  BY <1>1 DEF Init, StateFits, ManagerFits, StopsFit, UpFits, StartedIsUp
<1>4. MobileFits /\ CallsFit /\ StepFits /\ SilentUnlessReady /\ StoppedFits /\ NativeFits
  BY <1>1 DEF Init, MobileFits, CallsFit, StepFits, SilentUnlessReady, StoppedFits, NativeFits
<1> QED BY <1>2, <1>3, <1>4 DEF IInv

\* Every step of the three layers keeps the invariant.
LEMMA NextKeeps == IInv /\ [Next]_vars => IInv'
<1>1. ASSUME IInv, Next
      PROVE  IInv'
  <2>1. TypeOK'
    BY <1>1, TypeKept
  <2>2. CASE Start \/ Stop \/ Chain \/ BeaconsRenewed
    BY <1>1, <2>1, <2>2, ManagerKeeps
  <2>3. CASE Mobile
    BY <1>1, <2>1, <2>3, MobileKeeps
  <2>4. CASE EventStarted
    BY <1>1, <2>1, <2>4, EventKeeps
  <2>5. CASE \E bluetooth, other \in BOOLEAN : NetworkChanged(bluetooth, other)
    BY <1>1, <2>1, <2>5, NetworkKeeps
  <2>6. CASE Wrapper
    <3>1. calls # <<>> /\ Untouched
      BY <1>1, <2>6, WrapperSteps DEF IInv
    <3>2. (Done /\ DoneDoes) \/ ((\E s \in Waits : Awaiting(s)) /\ WaitDoes)
      BY <1>1, <2>6, WrapperDoes
    <3> QED BY <1>1, <2>1, <3>1, <3>2, DoneKeeps, WaitKeeps
  <2>7. CASE PortFails \/ RouterPortConnectionFailed
    BY <1>1, <2>1, <2>7, StopAtTopKeeps
  <2> QED BY <1>1, <2>2, <2>3, <2>4, <2>5, <2>6, <2>7 DEF Next
<1>2. ASSUME IInv, UNCHANGED vars
      PROVE  IInv'
  <2>1. /\ UNCHANGED <<state, awaits, answer, failed, chained>> /\ UNCHANGED sending
        /\ UNCHANGED <<queue, running, started, listening, advertising, afterStart>>
        /\ UNCHANGED <<calls, step, ready, router>>
        /\ UNCHANGED <<radio, discovering, accepting>>
    BY <1>2 DEF vars, manager, mobile, wrapper, native
  <2>2. TypeOK' /\ StateFits' /\ ManagerFits' /\ StopsFit' /\ UpFits'
    BY <1>2, <2>1 DEF IInv, TypeOK, StateFits, ManagerFits, StopsFit, UpFits, StartedIsUp
  <2>3. MobileFits' /\ CallsFit' /\ StepFits'
    BY <1>2, <2>1 DEF IInv, MobileFits, CallsFit, StepFits, OwnStop, Call
  <2>4. SilentUnlessReady' /\ StoppedFits' /\ NativeFits'
    BY <1>2, <2>1 DEF IInv, SilentUnlessReady, StoppedFits, NativeFits, Coming, Call
  <2> QED BY <2>2, <2>3, <2>4 DEF IInv
<1> QED BY <1>1, <1>2

\* What the three layers (thaliManager.js, thaliMobile.js, the native wrapper) know
\* of each other holds at every moment: one call of the manager at a time, nobody
\* stops anything but a manager that is stopping, the wrapper runs what thaliMobile
\* runs, a wrapper that is not started is silent, and what the native layer does not
\* do yet is on its way.
THEOREM ManagerInvariant == Spec => []IInv
<1>1. Init => IInv
  BY InitFits
<1>2. IInv /\ [Next]_vars => IInv'
  BY NextKeeps
<1> QED BY <1>1, <1>2, PTL DEF Spec

\* A manager that says it is started has a thaliMobile that listens and advertises,
\* and one that says it is stopped has a silent device (thaliManager.js's
\* start and stop), whatever network events, beacons and failing ports come between
\* their calls.
THEOREM LayersAlwaysAgree == Spec => []LayersAgree
<1>1. IInv => LayersAgree
  BY DEF IInv, LayersAgree, UpFits, SilentUnlessReady, StoppedFits, QuietWhenStopped
<1> QED BY <1>1, ManagerInvariant, PTL

\* Whenever nothing is under way the native layer does what was asked of thaliMobile
\* and nothing else (thaliMobile.js's handler of networkChangedNonTCP), however
\* often the radio went and came.
THEOREM RestIsAlwaysAsAsked == Spec => []RestIsAsAsked
<1>1. IInv => RestIsAsAsked
  <2> SUFFICES ASSUME IInv, Settled
               PROVE  /\ (discovering => listening) /\ (accepting => advertising)
                      /\ started /\ ready /\ radio =>
                           (listening => discovering) /\ (advertising => accepting)
    BY DEF RestIsAsAsked
  <2>1. ~running
    BY DEF IInv, MobileFits, Settled
  <2>2. \A kind : ~Coming(kind)
    BY DEF Settled, Coming
  <2> QED BY <2>1, <2>2 DEF IInv, NativeFits
<1> QED BY <1>1, ManagerInvariant, PTL

=============================================================================
