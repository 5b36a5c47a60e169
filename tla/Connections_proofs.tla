-------------------------- MODULE Connections_proofs --------------------------
(***************************************************************************)
(* Proofs about the connections between two devices.                       *)
(*                                                                         *)
(* Of ConnectionHelper: nothing of a connection outlives its removal from  *)
(* the ConnectionModel, for any peers, connections and faults; and every   *)
(* call of connect is kept, if no attempt fails to start.  Both where a    *)
(* connection that is being set up is not overtaken (~Preempts), without   *)
(* which neither holds.  No two of the threads wait for each other's       *)
(* monitors even where it is, whatever fails.                              *)
(*                                                                         *)
(* Of ThaliMuxLink: the multiplexed connections that run over these, for   *)
(* any number of applications and of servers one after the other.          *)
(***************************************************************************)
EXTENDS ConnectionHelper, ThaliMuxLink, SequenceTheorems, WellFoundedInduction,
        TLAPS

-----------------------------------------------------------------------------
(* The inductive invariant of ConnectionHelper. *)

Early == {"none", "connecting", "made", "added", "started"}
Out == ToSet(mOutgoingSocketThreads)

\* A connection is closed when it leaves the model and not before.
ClosedInTime(c, t) ==
  /\ c \in InModel => /\ ~t.mIsClosing
                      /\ t.pc \in {"bound", "accepting"} => t.server
                      /\ t.pc \in {"assigned", "ready", "copying"} => t.local # "null"
  /\ t.pc \in {"added", "started", "accepted"} => c \in InModel
  /\ (t.pc \notin {"none", "connecting", "made"} /\ c \notin InModel) =>
       /\ ~t.server /\ ~t.bluetooth /\ t.local = "null"
       /\ ~t.mIsClosing => t.pc = "over" /\ \A w \in Ways : t.copy[w] = "none"

\* What holds of connection c with the thread t.
Sound(c, t) ==
  /\ t.pc = "none" <=> t.dir = "none"
  /\ t.dir # "none" => t.peer \in Peers
  /\ t.pc \in Early => /\ ~t.server /\ t.local = "null" /\ ~t.mIsClosing
  /\ t.pc \in {"none", "connecting"} => ~t.bluetooth
  /\ t.pc = "connecting" => t.dir = "out"
  /\ t.pc \notin {"copying", "over"} => \A w \in Ways : t.copy[w] = "none"
  /\ c \in Out => t.dir = "out"
  /\ c \in mIncomingSocketThreads => t.dir = "in"
  /\ t.twin => t.dir = "in"
  /\ t.dir = "in" => t.pc # "refusing" /\ (t.pc = "ready" => t.local # "null")
  /\ c \in InModel => t.pc \notin {"none", "connecting", "made", "refusing"}
  /\ t.pc \in {"bound", "unbound", "accepting", "accepted", "assigned"} => t.dir = "out"
  /\ ~t.twin => ClosedInTime(c, t)
  /\ (t.pc \in {"connecting", "made"} /\ t.dir = "out") =>
       mOutgoingConnectionCallbacks[t.peer] = c

\* The connection to its peer, there or coming.
Setup(c)  == thread[c].dir = "out" /\ (thread[c].pc = "made" \/ c \in Out)
Active(c) == Setup(c) \/ thread[c].pc = "connecting"
Spent(c)  == /\ thread[c].pc = "over"
             /\ \A w \in Ways : thread[c].copy[w] \in {"none", "over"}

OneAtATime ==
  \A c, d \in Ids :
    (c # d /\ thread[c].dir = "out" /\ thread[d].dir = "out"
       /\ thread[c].peer = thread[d].peer /\ Active(d))
      => ~Active(c) /\ (Setup(d) => Spent(c))

NoneTwice == \A i, j \in DOMAIN mOutgoingSocketThreads :
               mOutgoingSocketThreads[i] = mOutgoingSocketThreads[j] => i = j

\* Of two incoming connections of a peer either may leave the model for the other.
TwinsKnown ==
  \A c, d \in mIncomingSocketThreads :
    c # d /\ thread[c].peer = thread[d].peer => thread[c].twin

Inv == /\ TypeOK /\ NoneTwice /\ OneAtATime /\ TwinsKnown
       /\ \A c \in Ids : Sound(c, thread[c])

Awaited(c) ==
  /\ thread[c].dir = "out"
  /\ \/ thread[c].pc \in {"connecting", "made"}
     \/ c \in Out /\ thread[c].pc \in {"added", "started", "bound"}
Answering(c) ==
  /\ Awaited(c) <=> call[c] = "waiting"
  /\ Awaited(c) => /\ mOutgoingConnectionCallbacks[thread[c].peer] = c
                   /\ thread[c].pc # "connecting" => thread[c].callback = c
  /\ call[c] = "lost" => thread[c].pc = "unbound" /\ thread[c].callback = c
  /\ call[c] # "twice"
  /\ thread[c].pc = "accepting" => port[c] = c
Kept ==
  /\ \A c \in Ids : Answering(c)
  /\ \A p \in Peers : LET k == mOutgoingConnectionCallbacks[p]
                      IN  k # None => Awaited(k) /\ thread[k].peer = p

-----------------------------------------------------------------------------
LEMMA InitSound == Init => Inv
<1> SUFFICES ASSUME Init PROVE Inv
  OBVIOUS
<1>1. /\ NoThread.dir = "none" /\ NoThread.peer = None /\ NoThread.pc = "none"
      /\ NoThread.callback = None /\ NoThread.local = "null" /\ NoThread.app = "none"
      /\ NoThread.copy = [w \in Ways |-> "none"]
  BY DEF NoThread
<1>2. /\ ~NoThread.mIsClosing /\ ~NoThread.server /\ ~NoThread.bluetooth
      /\ ~NoThread.twin
  BY DEF NoThread
<1>3. NoThread \in Threads
  BY DEF NoThread, Threads
<1>4. mOutgoingSocketThreads = <<>> /\ mIncomingSocketThreads = {}
      /\ \A c \in Ids : thread[c] = NoThread
  BY DEF Init
<1>5. TypeOK
  BY <1>3, EmptySeq DEF Init, TypeOK
<1>6. NoneTwice
  BY <1>4 DEF NoneTwice
<1>7. Out = {} /\ InModel = {}
  BY <1>4 DEF Out, InModel, ToSet
<1>8. OneAtATime
  BY <1>1, <1>4 DEF OneAtATime
<1>9. \A c \in Ids : Sound(c, thread[c])
  BY <1>1, <1>2, <1>4, <1>7 DEF Sound, ClosedInTime, Early
<1>10. TwinsKnown
  BY <1>4 DEF TwinsKnown
<1> QED
  BY <1>5, <1>6, <1>8, <1>9, <1>10 DEF Inv

-----------------------------------------------------------------------------
(* Steps that change one connection, and its place in the model at most. *)

\* An incoming connection that gets company.
Marked(t) == [t EXCEPT !.twin = TRUE]

LEMMA MarkedIs ==
  ASSUME NEW t \in Threads
  PROVE  /\ Marked(t) \in Threads /\ Marked(t).dir = t.dir /\ Marked(t).peer = t.peer
         /\ Marked(t).pc = t.pc /\ Marked(t).callback = t.callback
         /\ Marked(t).local = t.local /\ Marked(t).copy = t.copy
         /\ Marked(t).mIsClosing = t.mIsClosing /\ Marked(t).server = t.server
         /\ Marked(t).bluetooth = t.bluetooth /\ Marked(t).twin
BY DEF Marked, Threads

LEMMA OneChanges ==
  ASSUME Inv, TypeOK', NEW c \in Ids, NEW u \in Threads, thread'[c] = u,
         \A d \in Ids \ {c} :
           \/ thread'[d] = thread[d]
           \/ d \in mIncomingSocketThreads /\ thread'[d] = Marked(thread[d]),
         u.dir = thread[c].dir, u.peer = thread[c].peer,
         NoneTwice', TwinsKnown',
         \A d \in Ids \ {c} : d \in Out' <=> d \in Out,
         \A d \in Ids \ {c} :
           /\ d \in mIncomingSocketThreads' => d \in mIncomingSocketThreads
           /\ ~thread[d].twin /\ d \in mIncomingSocketThreads =>
                d \in mIncomingSocketThreads',
         \A d \in Ids \ {c} :
           Active(d) => mOutgoingConnectionCallbacks'[thread[d].peer]
                          = mOutgoingConnectionCallbacks[thread[d].peer],
         Sound(c, u)',
         Active(c)' => Active(c), Setup(c)' => Setup(c), Spent(c) => Spent(c)'
  PROVE  Inv'
<1>1. /\ thread \in [Ids -> Threads]
      /\ \A d \in Ids : Sound(d, thread[d])
      /\ mIncomingSocketThreads \subseteq Ids
  BY DEF Inv, TypeOK
<1>2. ASSUME NEW d \in Ids \ {c}
      PROVE  /\ thread'[d].dir = thread[d].dir /\ thread'[d].peer = thread[d].peer
             /\ thread'[d].pc = thread[d].pc /\ thread'[d].copy = thread[d].copy
             /\ thread'[d].local = thread[d].local
             /\ thread'[d].mIsClosing = thread[d].mIsClosing
             /\ thread'[d].server = thread[d].server
             /\ thread'[d].bluetooth = thread[d].bluetooth
             /\ thread'[d].twin <=>
                  \/ thread[d].twin
                  \/ d \in mIncomingSocketThreads /\ thread'[d] = Marked(thread[d])
             /\ thread[d].twin => thread'[d].twin
  BY <1>1, MarkedIs
<1>3. \A d \in Ids \ {c} : /\ Active(d)' <=> Active(d) 
                           /\ Setup(d)' <=> Setup(d)
                           /\ Spent(d)' <=> Spent(d)
  BY <1>2 DEF Active, Setup, Spent
<1>4. OneAtATime'
  BY <1>2, <1>3 DEF Inv, OneAtATime
<1>5. ASSUME NEW d \in Ids \ {c} PROVE Sound(d, thread[d])'
  <2>1. Sound(d, thread[d])
    BY <1>1
  <2>2. /\ d \in InModel' => d \in InModel
        /\ ~thread[d].twin /\ d \in InModel => d \in InModel'
    BY DEF InModel, Out
  <2>3. Active(d) <=> /\ thread[d].dir = "out"
                      /\ thread[d].pc \in {"connecting", "made"} \/ d \in Out
    BY <2>1 DEF Active, Setup, Sound
  <2>4. d \in mIncomingSocketThreads => d \in InModel /\ thread[d].dir = "in"
    BY <2>1 DEF InModel, Sound
  <2>5. ~thread'[d].twin => ~thread[d].twin /\ (d \in InModel <=> d \in InModel')
    BY <1>2, <2>2
  <2>6. ~thread'[d].twin => ClosedInTime(d, thread[d])'
    BY <1>2, <2>1, <2>5 DEF Sound, ClosedInTime
  <2> QED
    BY <1>2, <2>1, <2>2, <2>3, <2>4, <2>6 DEF Sound, Early
<1>6. \A d \in Ids : Sound(d, thread[d])'
  BY <1>5
<1> QED
  BY <1>4, <1>6 DEF Inv

\* The same, and nothing else changes.
Elsewhere == <<mOutgoingSocketThreads, mIncomingSocketThreads,
               mOutgoingConnectionCallbacks>>
Begins == {"none", "connecting", "made"}

LEMMA ThreadChanges ==
  ASSUME Inv, NEW c \in Ids, NEW u \in Threads,
         thread' = [thread EXCEPT ![c] = u], UNCHANGED Elsewhere,
         call' \in [Ids -> {"none", "waiting", "port", "error", "dropped", "late",
                           "lost", "twice"}],
         port' \in [Ids -> Ids \cup {None}],
         u.dir = thread[c].dir, u.peer = thread[c].peer,
         u.pc = thread[c].pc \/ (u.pc \notin Begins /\ thread[c].pc \notin Begins),
         Spent(c) => u.pc = "over" /\ \A w \in Ways : u.copy[w] \in {"none", "over"},
         u.twin = thread[c].twin, Sound(c, u)
  PROVE  Inv'
<1>1. /\ mOutgoingSocketThreads' = mOutgoingSocketThreads
      /\ mIncomingSocketThreads' = mIncomingSocketThreads
      /\ mOutgoingConnectionCallbacks' = mOutgoingConnectionCallbacks
  BY DEF Elsewhere
<1>2. thread \in [Ids -> Threads] /\ thread' \in [Ids -> Threads] /\ thread'[c] = u
  BY DEF Inv, TypeOK
<1>3. TypeOK'
  BY <1>1, <1>2 DEF Inv, TypeOK
<1>4. NoneTwice' /\ Out' = Out /\ InModel' = InModel
  BY <1>1 DEF Inv, NoneTwice, Out, InModel
<1>5. Sound(c, u)'
  BY <1>1, <1>4 DEF Sound, ClosedInTime
<1>6. /\ Active(c)' => Active(c)
      /\ Setup(c)' => Setup(c)
      /\ Spent(c) => Spent(c)'
  BY <1>2, <1>4 DEF Active, Setup, Spent, Begins
<1>7. \A d \in Ids \ {c} : thread'[d] = thread[d]
  BY <1>2
<1>8. TwinsKnown'
  BY <1>1, <1>2, <1>7 DEF Inv, TypeOK, TwinsKnown
<1> QED
  BY <1>1, <1>2, <1>3, <1>4, <1>5, <1>6, <1>7, <1>8, OneChanges

LEMMA MovesStep ==
  ASSUME Inv, NEW c \in Ids, NEW u \in Threads, Moves(c, u),
         u.dir = thread[c].dir, u.peer = thread[c].peer,
         u.pc = thread[c].pc \/ (u.pc \notin Begins /\ thread[c].pc \notin Begins),
         Spent(c) => u.pc = "over" /\ \A w \in Ways : u.copy[w] \in {"none", "over"},
         u.twin = thread[c].twin, Sound(c, u)
  PROVE  Inv'
BY ThreadChanges DEF Moves, Elsewhere, Inv, TypeOK

\* The steps of run.
LEMMA RunSteps ==
  ASSUME Inv, NEW c \in Ids,
         \/ StartThread(c) \/ Bind(c) \/ NotListening(c) \/ Accept(c) \/ Streams(c)
         \/ NoStreams(c) \/ ConnectsToRouter(c) \/ StartCopying(c)
         \/ NothingToCopy(c) \/ Exit(c)
  PROVE  Inv'
<1> DEFINE t == thread[c]
<1>1. t \in Threads /\ Sound(c, t)
  BY DEF Inv, TypeOK
<1>2. CASE StartThread(c)
  <2> DEFINE u == [t EXCEPT !.pc = "started"]
  <2>1. Moves(c, u) /\ t.pc = "added"
    BY <1>2 DEF StartThread, Moves, Is
  <2>2. u \in Threads /\ u.dir = t.dir /\ u.peer = t.peer /\ u.pc = "started"
        /\ u.twin = t.twin
    BY <1>1 DEF Threads
  <2>3. Sound(c, u)
    BY <1>1, <2>1, <2>2 DEF Sound, ClosedInTime, Early, Threads
  <2> QED
    BY <2>1, <2>2, <2>3, MovesStep DEF Spent, Begins
<1>3. CASE Bind(c)
  <2> DEFINE u == [t EXCEPT !.mIsClosing = FALSE, !.server = TRUE, !.pc = "bound"]
  <2>1. Moves(c, u) /\ t.pc = "started" /\ t.dir = "out"
    BY <1>3 DEF Bind, Is
  <2>2. u \in Threads /\ u.dir = t.dir /\ u.peer = t.peer /\ u.pc = "bound"
        /\ u.twin = t.twin
    BY <1>1 DEF Threads
  <2>3. Sound(c, u)
    BY <1>1, <2>1, <2>2 DEF Sound, ClosedInTime, Early, Threads
  <2> QED
    BY <2>1, <2>2, <2>3, MovesStep DEF Spent, Begins
<1>4. CASE NotListening(c)
  <2> DEFINE u == [t EXCEPT !.pc = "over"]
  <2>1. Moves(c, u) /\ t.pc \in {"bound", "accepting"} /\ ~t.server
    BY <1>4 DEF NotListening, Is
  <2>2. u \in Threads /\ u.dir = t.dir /\ u.peer = t.peer /\ u.pc = "over"
        /\ u.twin = t.twin
    BY <1>1 DEF Threads
  <2>3. Sound(c, u)
    BY <1>1, <2>1, <2>2 DEF Sound, ClosedInTime, Early, Threads
  <2> QED
    BY <2>1, <2>2, <2>3, MovesStep DEF Spent, Begins
<1>5. CASE Accept(c)
  <2> DEFINE u == [t EXCEPT !.local = "open", !.pc = "assigned"]
  <2>1. Moves(c, u) /\ t.pc = "accepted"
    BY <1>5 DEF Accept, Is
  <2>2. u \in Threads /\ u.dir = t.dir /\ u.peer = t.peer /\ u.pc = "assigned"
        /\ u.twin = t.twin
    BY <1>1 DEF Threads
  <2>3. Sound(c, u)
    BY <1>1, <2>1, <2>2 DEF Sound, ClosedInTime, Early, Threads
  <2> QED
    BY <2>1, <2>2, <2>3, MovesStep DEF Spent, Begins
<1>6. CASE Streams(c)
  <2> DEFINE u == [t EXCEPT !.pc = "ready"]
  <2>1. Moves(c, u) /\ t.pc = "assigned" /\ t.server /\ t.local # "null"
    BY <1>6 DEF Streams, Is
  <2>2. u \in Threads /\ u.dir = t.dir /\ u.peer = t.peer /\ u.pc = "ready"
        /\ u.twin = t.twin
    BY <1>1 DEF Threads
  <2>3. Sound(c, u)
    BY <1>1, <2>1, <2>2 DEF Sound, ClosedInTime, Early, Threads
  <2> QED
    BY <2>1, <2>2, <2>3, MovesStep DEF Spent, Begins
<1>7. CASE NoStreams(c)
  <2> DEFINE u == [t EXCEPT !.pc = "over"]
  <2>1. Moves(c, u) /\ t.pc = "assigned"
    BY <1>7 DEF NoStreams, Is
  <2>2. u \in Threads /\ u.dir = t.dir /\ u.peer = t.peer /\ u.pc = "over"
        /\ u.twin = t.twin
    BY <1>1 DEF Threads
  <2>3. Sound(c, u)
    BY <1>1, <2>1, <2>2 DEF Sound, ClosedInTime, Early, Threads
  <2> QED
    BY <2>1, <2>2, <2>3, MovesStep DEF Spent, Begins
<1>8. CASE ConnectsToRouter(c)
  <2> DEFINE u == [t EXCEPT !.mIsClosing = FALSE, !.local = "open", !.app = "open",
                         !.pc = "ready"]
  <2>1. Moves(c, u) /\ t.pc = "started" /\ t.dir = "in"
    BY <1>8 DEF ConnectsToRouter, Is
  <2>2. u \in Threads /\ u.dir = t.dir /\ u.peer = t.peer /\ u.pc = "ready"
        /\ u.twin = t.twin
    BY <1>1 DEF Threads
  <2>3. Sound(c, u)
    BY <1>1, <2>1, <2>2 DEF Sound, ClosedInTime, Early, Threads
  <2> QED
    BY <2>1, <2>2, <2>3, MovesStep DEF Spent, Begins
<1>9. CASE StartCopying(c)
  <2> DEFINE u == [t EXCEPT !.copy = [w \in Ways |-> "running"], !.pc = "copying"]
  <2>1. Moves(c, u) /\ t.pc = "ready" /\ t.local # "null"
    BY <1>9 DEF StartCopying, Is
  <2>2. u \in Threads /\ u.dir = t.dir /\ u.peer = t.peer /\ u.pc = "copying"
        /\ u.twin = t.twin
    BY <1>1 DEF Threads
  <2>3. Sound(c, u)
    BY <1>1, <2>1, <2>2 DEF Sound, ClosedInTime, Early, Threads
  <2> QED
    BY <2>1, <2>2, <2>3, MovesStep DEF Spent, Begins
<1>10. CASE NothingToCopy(c)
  <2> DEFINE u == [t EXCEPT !.pc = "refusing"]
  <2>1. Moves(c, u) /\ t.pc = "ready" /\ t.local = "null"
    BY <1>10 DEF NothingToCopy, Is
  <2>2. u \in Threads /\ u.dir = t.dir /\ u.peer = t.peer /\ u.pc = "refusing"
        /\ u.twin = t.twin
    BY <1>1 DEF Threads
  <2>3. Sound(c, u)
    BY <1>1, <2>1, <2>2 DEF Sound, ClosedInTime, Early, Threads
  <2> QED
    BY <2>1, <2>2, <2>3, MovesStep DEF Spent, Begins
<1>11. CASE Exit(c)
  <2> DEFINE u == [t EXCEPT !.server = FALSE, !.pc = "over"]
  <2>1. Moves(c, u) /\ t.pc = "copying"
    BY <1>11 DEF Exit, Is
  <2>2. u \in Threads /\ u.dir = t.dir /\ u.peer = t.peer /\ u.pc = "over"
        /\ u.twin = t.twin
    BY <1>1 DEF Threads
  <2>3. Sound(c, u)
    BY <1>1, <2>1, <2>2 DEF Sound, ClosedInTime, Early, Threads
  <2> QED
    BY <2>1, <2>2, <2>3, MovesStep DEF Spent, Begins
<1> QED
  BY <1>2, <1>3, <1>4, <1>5, <1>6, <1>7, <1>8, <1>9, <1>10, <1>11

\* The steps of the copying threads, the radio and JavaScript's sockets.
LEMMA CopySteps ==
  ASSUME Inv, NEW c \in Ids, NEW w \in Ways,
         InputDone(c, w) \/ CopyingDone(c, w) \/ CopyingFails(c, w)
  PROVE  Inv'
<1> DEFINE t == thread[c]
<1>1. /\ t \in Threads /\ Sound(c, t)
      /\ t.copy \in [Ways -> {"none", "running", "end", "done", "telling", "failing", "over"}]
  BY DEF Inv, TypeOK, Threads
<1>2. t.copy[w] \in {"running", "end"}
  BY DEF InputDone, CopyingDone, CopyingFails
<1>3. /\ t.pc \in {"copying", "over"}
      /\ ~t.twin /\ c \notin InModel => t.mIsClosing
  BY <1>1, <1>2 DEF Sound, ClosedInTime
<1>4. ASSUME NEW u \in Threads, Moves(c, u), u.dir = t.dir, u.peer = t.peer,
             u.pc = t.pc, u.twin = t.twin, u.mIsClosing = t.mIsClosing, u.server = t.server,
             t.local = "null" <=> u.local = "null", u.bluetooth => t.bluetooth
      PROVE  Inv'
  <2>1. Sound(c, u)
    BY <1>1, <1>3, <1>4 DEF Sound, ClosedInTime, Early, Threads
  <2>2. ~Spent(c)
    BY <1>2 DEF Spent
  <2> QED
    BY <1>4, <2>1, <2>2, MovesStep
<1>5. ASSUME NEW s \in Threads, s.copy = t.copy, s.dir = t.dir, s.peer = t.peer,
             s.pc = t.pc, s.twin = t.twin, s.mIsClosing = t.mIsClosing, s.server = t.server,
             t.local = "null" <=> s.local = "null", s.bluetooth => t.bluetooth,
             NEW x \in {"end", "done", "telling", "over", "failing"},
             Moves(c, [s EXCEPT !.copy[w] = x])
      PROVE  Inv'
  <2> DEFINE u == [s EXCEPT !.copy[w] = x]
  <2>1. u \in Threads /\ u.dir = s.dir /\ u.peer = s.peer /\ u.pc = s.pc
        /\ u.local = s.local
    BY <1>1, <1>5 DEF Threads
  <2>2. u.mIsClosing = s.mIsClosing /\ u.server = s.server
        /\ u.bluetooth = s.bluetooth /\ u.twin = s.twin
    BY <1>1, <1>5 DEF Threads
  <2>3. Moves(c, u)
    BY <1>5
  <2> HIDE DEF u
  <2> QED
    BY <1>4, <1>5, <2>1, <2>2, <2>3
<1>6. CASE InputDone(c, w)
  <2> DEFINE s == OutputClosed(t, w)
  <2>1. /\ s \in Threads /\ s.copy = t.copy /\ s.dir = t.dir /\ s.peer = t.peer
        /\ s.pc = t.pc
    <3>1. CASE w = "send"
      <4>1. s = [t EXCEPT !.bluetooth = FALSE]
        BY <3>1 DEF OutputClosed
      <4> QED
        BY <1>1, <4>1 DEF Threads
    <3>2. CASE w # "send"
      <4> DEFINE l == IF t.local = "open" THEN "closed" ELSE t.local
                 a == IF t.local = "open" THEN "closed" ELSE t.app
      <4>1. s = [t EXCEPT !.local = l, !.app = a]
        BY <3>2 DEF OutputClosed
      <4>2. l \in {"null", "open", "closed"} /\ a \in {"none", "open", "closed"}
        BY <1>1 DEF Threads
      <4> HIDE DEF l, a, s
      <4> QED
        BY <1>1, <4>1, <4>2 DEF Threads
    <3> QED
      BY <3>1, <3>2
  <2>2. (t.local = "null" <=> s.local = "null")
    BY <1>1 DEF OutputClosed, Threads
  <2>3. s.mIsClosing = t.mIsClosing /\ s.server = t.server /\ s.twin = t.twin
    BY <1>1 DEF OutputClosed, Threads
  <2>4. s.bluetooth => t.bluetooth
    BY <1>1 DEF OutputClosed, Threads
  <2>5. Moves(c, [s EXCEPT !.copy[w] = "end"])
    BY <1>6 DEF InputDone
  <2> HIDE DEF s
  <2> QED
    BY <1>5, <2>1, <2>2, <2>3, <2>4, <2>5
<1>7. CASE CopyingDone(c, w)
  <2>1. PICK x \in {"done", "telling"} : Moves(c, [t EXCEPT !.copy[w] = x])
    BY <1>7 DEF CopyingDone
  <2> QED
    BY <1>1, <1>5, <2>1
<1>8. CASE CopyingFails(c, w)
  <2>1. PICK x \in {"over", "failing"} : Moves(c, [t EXCEPT !.copy[w] = x])
    BY <1>8 DEF CopyingFails
  <2> QED
    BY <1>1, <1>5, <2>1
<1> QED
  BY <1>6, <1>7, <1>8

LEMMA SocketSteps ==
  ASSUME Inv, NEW c \in Ids,
         BluetoothBreaks(c) \/ AppCloses(c) \/ \E k \in Ids : port[k] = c /\ AppConnects(k)
  PROVE  Inv'
<1> DEFINE t == thread[c]
<1>1. t \in Threads /\ Sound(c, t) /\ thread \in [Ids -> Threads]
  BY DEF Inv, TypeOK
<1>2. ASSUME NEW u \in Threads, Moves(c, u), u.dir = t.dir, u.peer = t.peer,
             u.pc = t.pc, u.twin = t.twin, u.mIsClosing = t.mIsClosing, u.server = t.server,
             u.local = t.local, u.copy = t.copy, u.bluetooth => t.bluetooth
      PROVE  Inv'
  <2>1. Sound(c, u)
    BY <1>1, <1>2 DEF Sound, ClosedInTime, Early, Threads
  <2> QED
    BY <1>2, <2>1, MovesStep DEF Spent
<1>3. ASSUME NEW a \in {"none", "open", "closed"}, Moves(c, [t EXCEPT !.app = a])
      PROVE  Inv'
  <2> DEFINE u == [t EXCEPT !.app = a]
  <2>1. u \in Threads /\ u.dir = t.dir /\ u.peer = t.peer /\ u.pc = t.pc
        /\ u.local = t.local /\ u.copy = t.copy
    BY <1>1 DEF Threads
  <2>2. u.mIsClosing = t.mIsClosing /\ u.server = t.server /\ u.bluetooth = t.bluetooth
        /\ u.twin = t.twin
    BY <1>1 DEF Threads
  <2> QED
    BY <1>2, <1>3, <2>1, <2>2
<1>4. CASE BluetoothBreaks(c)
  <2> DEFINE u == [t EXCEPT !.bluetooth = FALSE]
  <2>1. u \in Threads /\ u.dir = t.dir /\ u.peer = t.peer /\ u.pc = t.pc
        /\ u.local = t.local /\ u.copy = t.copy
    BY <1>1 DEF Threads
  <2>2. u.mIsClosing = t.mIsClosing /\ u.server = t.server /\ ~u.bluetooth
        /\ u.twin = t.twin
    BY <1>1 DEF Threads
  <2> QED
    BY <1>2, <1>4, <2>1, <2>2 DEF BluetoothBreaks
<1>5. CASE AppCloses(c)
  BY <1>1, <1>3, <1>5 DEF AppCloses, Moves
<1>6. ASSUME NEW k \in Ids, port[k] = c, AppConnects(k), ~t.server PROVE Inv'
  BY <1>1, <1>3, <1>6 DEF AppConnects, Moves
<1>7. ASSUME NEW k \in Ids, port[k] = c, AppConnects(k), t.server PROVE Inv'
  <2> DEFINE u == [t EXCEPT !.app = "open", !.pc = "accepted"]
  <2>1. Moves(c, u) /\ t.pc = "accepting"
    BY <1>1, <1>7 DEF AppConnects, Moves, Is
  <2>2. u \in Threads /\ u.dir = t.dir /\ u.peer = t.peer /\ u.pc = "accepted"
        /\ u.twin = t.twin
    BY <1>1 DEF Threads
  <2>3. Sound(c, u)
    BY <1>1, <1>7, <2>1, <2>2 DEF Sound, ClosedInTime, Early, Threads
  <2> QED
    BY <2>1, <2>2, <2>3, MovesStep DEF Spent, Begins
<1> QED
  BY <1>4, <1>5, <1>6, <1>7

-----------------------------------------------------------------------------
(* The sequence of outgoing connections. *)

\* Every set of numbers that is not empty has a smallest.
LessThan == {ss \in Nat \X Nat : ss[1] < ss[2]}
LEMMA Least ==
  ASSUME NEW T \in SUBSET Nat, T # {}
  PROVE  \E x \in T : \A y \in T : x <= y
<1>1. IsWellFoundedOn(LessThan, Nat)
  BY NatLessThanWellFounded, Zenon DEF OpToRel, LessThan
<1>2. PICK x \in T : \A y \in T : <<y, x>> \notin LessThan
  BY <1>1, WFMin
<1>3. ASSUME NEW y \in T, y < x PROVE FALSE
  BY <1>2, <1>3 DEF LessThan
<1> QED
  BY <1>3

LEMMA Smallest ==
  ASSUME NEW T \in SUBSET Nat, T # {}
  PROVE  Min(T) \in T /\ \A y \in T : Min(T) <= y
BY Least DEF Min

LEMMA PlaceFound ==
  ASSUME TypeOK, NEW p
  PROVE  LET i == FindSocketThread(p)
         IN  /\ i = 0 => \A c \in Out : thread[c].peer # p
             /\ i # 0 => /\ i \in DOMAIN mOutgoingSocketThreads
                        /\ mOutgoingSocketThreads[i] \in Out
                        /\ mOutgoingSocketThreads[i] \in Ids
                        /\ thread[mOutgoingSocketThreads[i]].peer = p
<1> DEFINE list == mOutgoingSocketThreads
           places == {i \in 1 .. Len(list) : thread[list[i]].peer = p}
<1>1. list \in Seq(Ids)
  BY DEF TypeOK
<1>2. FindSocketThread(p) = IF places # {} THEN Min(places) ELSE 0
  BY DEF FindSocketThread, SelectInSeq
<1>3. CASE places = {}
  BY <1>1, <1>2, <1>3 DEF Out, ToSet
<1>4. CASE places # {}
  <2>1. places \in SUBSET Nat
    BY <1>1
  <2>2. Min(places) \in places
    <3> HIDE DEF places
    <3> QED
      BY <1>4, <2>1, Smallest
  <2>3. FindSocketThread(p) \in places
    BY <1>2, <1>4, <2>2
  <2> QED
    BY <1>1, <2>3 DEF Out, ToSet
<1> QED
  BY <1>3, <1>4

LEMMA SocketThreadFound ==
  ASSUME Inv, NEW p
  PROVE  LET i == FindSocketThread(p)
         IN  /\ i = 0 => \A c \in Out : thread[c].peer # p
             /\ i # 0 => /\ i \in DOMAIN mOutgoingSocketThreads
                        /\ mOutgoingSocketThreads[i] \in Out
                        /\ mOutgoingSocketThreads[i] \in Ids
                        /\ thread[mOutgoingSocketThreads[i]].peer = p
BY PlaceFound DEF Inv

LEMMA RemovedFromSeq ==
  ASSUME NEW list \in Seq(Ids), NEW i \in 1 .. Len(list),
         \A j, k \in DOMAIN list : list[j] = list[k] => j = k
  PROVE  LET rest == RemoveAt(list, i)
         IN  /\ rest \in Seq(Ids) /\ ToSet(rest) = ToSet(list) \ {list[i]}
             /\ \A j, k \in DOMAIN rest : rest[j] = rest[k] => j = k
<1> DEFINE rest == RemoveAt(list, i)
           n == Len(list)
<1>1. n \in Nat /\ DOMAIN list = 1 .. n
  OBVIOUS
<1>2. i \in Int /\ i >= 1 /\ (i + 1 <= n \/ i = n)
  <2>1. i \in 1 .. n
    OBVIOUS
  <2> HIDE DEF n, rest
  <2> QED
    BY <1>1, <2>1
<1>3. /\ rest \in Seq(Ids) /\ Len(rest) = n - 1
      /\ \A j \in 1 .. n - 1 : rest[j] = IF j < i THEN list[j] ELSE list[j + 1]
  <2> DEFINE front == SubSeq(list, 1, i - 1)
             back == SubSeq(list, i + 1, n)
  <2>1. front \in Seq(Ids) /\ Len(front) = i - 1
        /\ \A j \in 1 .. i - 1 : front[j] = list[j]
    BY <1>1
  <2>2. back \in Seq(Ids) /\ Len(back) = n - i
        /\ \A j \in 1 .. n - i : back[j] = list[i + j]
    <3>1. i \in 1 .. n /\ n = Len(list)
      OBVIOUS
    <3> HIDE DEF n
    <3>2. back \in Seq(Ids) /\ Len(back) = n - i
      <4>1. i + 1 \in Int /\ n \in Int /\ \A j \in i + 1 .. n : list[j] \in Ids
        BY <1>1, <3>1
      <4>2. /\ back \in Seq(Ids)
            /\ Len(back) = IF i + 1 <= n THEN n - (i + 1) + 1 ELSE 0
        BY <4>1, SubSeqProperties
      <4> HIDE DEF back, front, rest
      <4>4. CASE i + 1 <= n
        BY <1>2, <1>1, <4>2, <4>4
      <4>5. CASE i = n
        BY <1>2, <1>1, <4>2, <4>5
      <4> QED
        BY <1>2, <4>4, <4>5
    <3>3. \A j \in 1 .. n - i : back[j] = list[i + j]
      BY <1>1, <3>1
    <3> QED
      BY <3>2, <3>3
  <2>3. rest = front \o back
    BY DEF RemoveAt
  <2> HIDE DEF rest, front, back
  <2>0. i \in 1 .. n
    OBVIOUS
  <2> HIDE DEF n
  <2>4. rest \in Seq(Ids) /\ Len(rest) = n - 1
    <3>1. rest \in Seq(Ids) /\ Len(rest) = Len(front) + Len(back)
      BY <2>1, <2>2, <2>3, ConcatProperties
    <3> QED
      BY <1>1, <2>0, <2>1, <2>2, <3>1
  <2>5. \A j \in 1 .. i - 1 : rest[j] = list[j]
    BY <1>1, <2>0, <2>1, <2>2, <2>3
  <2>6. ASSUME NEW j \in i .. n - 1 PROVE rest[j] = list[j + 1]
    <3>1. j - (i - 1) \in 1 .. n - i /\ i + (j - (i - 1)) = j + 1
      BY <1>1, <2>0
    <3>2. rest[j] = back[j - (i - 1)]
      BY <1>1, <2>0, <2>1, <2>2, <2>3
    <3> QED
      BY <2>2, <3>1, <3>2
  <2> QED
    BY <1>1, <2>0, <2>4, <2>5, <2>6
<1> i \in 1 .. n
  OBVIOUS
<1> HIDE DEF rest, n
<1>4. DOMAIN rest = 1 .. n - 1
  BY <1>1, <1>3
<1>5. \A j, k \in DOMAIN rest : rest[j] = rest[k] => j = k
  <2> SUFFICES ASSUME NEW j \in 1 .. n - 1, NEW k \in 1 .. n - 1, rest[j] = rest[k]
               PROVE  j = k
    BY <1>4
  <2>1. j \in 1 .. n /\ j + 1 \in 1 .. n /\ k \in 1 .. n /\ k + 1 \in 1 .. n
    BY <1>1
  <2>2. CASE j < i /\ k < i
    BY <1>1, <1>3, <2>1, <2>2
  <2>3. CASE ~(j < i) /\ ~(k < i)
    <3>1. j + 1 = k + 1
      BY <1>1, <1>3, <2>1, <2>3
    <3> QED
      BY <1>1, <3>1
  <2>4. CASE j < i /\ ~(k < i)
    <3>1. j = k + 1
      BY <1>1, <1>3, <2>1, <2>4
    <3> QED
      BY <1>1, <2>4, <3>1
  <2>5. CASE ~(j < i) /\ k < i
    <3>1. j + 1 = k
      BY <1>1, <1>3, <2>1, <2>5
    <3> QED
      BY <1>1, <2>5, <3>1
  <2> QED
    BY <2>2, <2>3, <2>4, <2>5
<1>6. ASSUME NEW x \in ToSet(rest) PROVE x \in ToSet(list) \ {list[i]}
  <2>1. PICK j \in 1 .. n - 1 : x = rest[j]
    BY <1>4 DEF ToSet
  <2>2. j \in 1 .. n /\ j + 1 \in 1 .. n
    BY <1>1
  <2>3. PICK k \in 1 .. n : x = list[k] /\ k # i
    BY <1>1, <1>3, <2>1, <2>2
  <2> QED
    BY <1>1, <2>3 DEF ToSet
<1>7. ASSUME NEW x \in ToSet(list) \ {list[i]} PROVE x \in ToSet(rest)
  <2>1. PICK k \in 1 .. n : x = list[k]
    BY <1>1 DEF ToSet
  <2>2. CASE k < i
    <3>1. k \in 1 .. n - 1
      BY <1>1, <2>2
    <3> QED
      BY <1>3, <1>4, <2>1, <2>2, <3>1 DEF ToSet
  <2>3. CASE ~(k < i)
    <3>1. k > i
      BY <1>1, <2>1, <2>3
    <3>2. k - 1 \in 1 .. n - 1 /\ ~(k - 1 < i) /\ (k - 1) + 1 = k
      BY <1>1, <3>1
    <3>3. rest[k - 1] = x
      BY <1>3, <2>1, <3>2
    <3> QED
      BY <1>4, <3>2, <3>3 DEF ToSet
  <2> QED
    BY <2>2, <2>3
<1> QED
  BY <1>3, <1>5, <1>6, <1>7 DEF rest

-----------------------------------------------------------------------------
(* Connections that leave the model. *)

\* What close makes of a thread.
LEMMA ClosedIs ==
  ASSUME NEW t \in Threads
  PROVE  /\ Closed(t) \in Threads
         /\ Closed(t).dir = t.dir /\ Closed(t).peer = t.peer /\ Closed(t).pc = t.pc
         /\ Closed(t).callback = t.callback /\ Closed(t).local = "null"
         /\ Closed(t).mIsClosing = TRUE /\ ~Closed(t).server /\ ~Closed(t).bluetooth
         /\ Closed(t).twin = t.twin
         /\ \A w \in Ways :
              /\ t.copy[w] = "none" => Closed(t).copy[w] = "none"
              /\ t.copy[w] = "over" => Closed(t).copy[w] = "over"
<1>1. t.copy \in [Ways -> {"none", "running", "end", "done", "telling", "failing",
                         "over"}]
  BY DEF Threads
<1> DEFINE copies == [w \in Ways |-> IF t.copy[w] \in {"running", "end", "done"}
                                    THEN "over" ELSE t.copy[w]]
<1>2. copies \in [Ways -> {"none", "running", "end", "done", "telling", "failing",
                          "over"}]
  BY <1>1
<1>3. Closed(t).copy = copies
  BY DEF Closed, Threads
<1>4. /\ Closed(t).dir = t.dir /\ Closed(t).peer = t.peer /\ Closed(t).pc = t.pc
      /\ Closed(t).callback = t.callback /\ Closed(t).local = "null"
  BY DEF Closed, Threads
<1>5. Closed(t).mIsClosing = TRUE /\ ~Closed(t).server /\ ~Closed(t).bluetooth
      /\ Closed(t).twin = t.twin
  BY DEF Closed, Threads
<1>6. Closed(t) \in Threads
  <2> DEFINE a == IF t.local = "open" THEN "closed" ELSE t.app
  <2>1. Closed(t) = [t EXCEPT !.mIsClosing = TRUE, !.server = FALSE,
                              !.bluetooth = FALSE, !.local = "null", !.app = a,
                              !.copy = copies]
    BY <1>1 DEF Closed
  <2>2. a \in {"none", "open", "closed"}
    BY DEF Threads
  <2> HIDE DEF a, copies
  <2> QED
    BY <1>2, <2>1, <2>2 DEF Threads
<1> QED
  BY <1>1, <1>3, <1>4, <1>5, <1>6

\* Of the connections to a peer the one that is not spent is the one in the model.
LEMMA FoundIsOwn ==
  ASSUME Inv, NEW c \in Ids, thread[c].dir = "out", ~Spent(c)
  PROVE  LET i == FindSocketThread(thread[c].peer)
         IN  /\ i = 0 => c \notin Out
             /\ i # 0 => /\ i \in DOMAIN mOutgoingSocketThreads
                        /\ mOutgoingSocketThreads[i] = c /\ c \in Out
<1> DEFINE i == FindSocketThread(thread[c].peer)
           d == mOutgoingSocketThreads[i]
<1>1. i = 0 => c \notin Out
  BY SocketThreadFound
<1>2. ASSUME i # 0
      PROVE  i \in DOMAIN mOutgoingSocketThreads /\ d = c /\ c \in Out
  <2>1. /\ i \in DOMAIN mOutgoingSocketThreads /\ d \in Out /\ d \in Ids
        /\ thread[d].peer = thread[c].peer
    BY <1>2, SocketThreadFound
  <2> HIDE DEF i, d
  <2>2. thread[d].dir = "out"
    BY <2>1 DEF Inv, Sound
  <2>3. Setup(d) /\ Active(d)
    BY <2>1, <2>2 DEF Setup, Active
  <2>4. c = d
    BY <2>1, <2>2, <2>3 DEF Inv, OneAtATime
  <2> QED
    BY <2>1, <2>4
<1> QED
  BY <1>1, <1>2

\* onDone, onDisconnected and onTransferError of connection c, whose own thread
\* becomes u.
LEMMA DisconnectedStep ==
  ASSUME Inv, NEW c \in Ids, NEW u \in Threads,
         Disconnected(c, [thread EXCEPT ![c] = u]),
         u.dir = thread[c].dir, u.peer = thread[c].peer, u.twin = thread[c].twin,
         thread[c].pc \notin Begins, ~Spent(c),
         u.pc \in {"over", "copying"} \/ (u.pc = "unbound" /\ u.dir = "out"),
         u.pc = "unbound" => \A w \in Ways : u.copy[w] = "none",
         c \notin InModel => Sound(c, u)
  PROVE  /\ Inv' /\ Out' = Out \ {c} /\ port' = port
         /\ thread' = [thread EXCEPT ![c] = IF c \in InModel THEN Closed(u) ELSE u]
         /\ c \notin Out => UNCHANGED <<mOutgoingConnectionCallbacks, call>>
         /\ c \in Out =>
              LET p == thread[c].peer
                  k == mOutgoingConnectionCallbacks[p]
              IN  /\ mOutgoingConnectionCallbacks' =
                       [mOutgoingConnectionCallbacks EXCEPT ![p] = None]
                  /\ call' = IF k # None THEN [call EXCEPT ![k] = "lost"] ELSE call
<1> DEFINE th == [thread EXCEPT ![c] = u]
           p == thread[c].peer
           i == FindSocketThread(p)
<1>1. /\ thread \in [Ids -> Threads] /\ mOutgoingSocketThreads \in Seq(Ids)
      /\ mIncomingSocketThreads \subseteq Ids /\ thread[c] \in Threads
      /\ Sound(c, thread[c])
  BY DEF Inv, TypeOK
<1>2. th \in [Ids -> Threads] /\ th[c] = u /\ \A d \in Ids \ {c} : th[d] = thread[d]
  BY <1>1
<1>3. PICK x \in Threads : x = IF c \in InModel THEN Closed(u) ELSE u
  BY ClosedIs
<1>4. x.dir = thread[c].dir /\ x.peer = thread[c].peer /\ x.pc = u.pc
      /\ x.twin = thread[c].twin
  BY <1>3, ClosedIs
<1>5. /\ c \in InModel <=> c \in Out \/ c \in mIncomingSocketThreads
      /\ c \in Out => thread[c].dir = "out"
      /\ c \in mIncomingSocketThreads => thread[c].dir = "in"
  BY <1>1 DEF InModel, Out, Sound
<1>6. CASE thread[c].dir = "out" /\ i = 0
  <2>1. thread' = th /\ UNCHANGED Elsewhere /\ UNCHANGED <<call, port>>
    BY <1>6 DEF Disconnected, CloseAndRemoveOutgoing, Elsewhere
  <2>2. c \notin InModel
    BY <1>5, <1>6, FoundIsOwn
  <2>3. x = u /\ Sound(c, u)
    BY <1>3, <2>2
  <2>4. UNCHANGED <<Out, InModel>>
    BY <2>1 DEF Elsewhere, Out, InModel
  <2>5. Inv'
    BY <2>1, <2>3, ThreadChanges DEF Begins, Inv, TypeOK
  <2> QED
    BY <1>5, <2>1, <2>2, <2>4, <2>5 DEF Elsewhere
<1>7. CASE thread[c].dir = "out" /\ i # 0
  <2>1. i \in DOMAIN mOutgoingSocketThreads /\ mOutgoingSocketThreads[i] = c /\ c \in Out
    BY <1>7, FoundIsOwn
  <2>2. /\ thread' = [th EXCEPT ![c] = Closed(@)]
        /\ mOutgoingSocketThreads' = RemoveAt(mOutgoingSocketThreads, i)
        /\ mOutgoingConnectionCallbacks' =
             [mOutgoingConnectionCallbacks EXCEPT ![p] = None]
        /\ LET k == mOutgoingConnectionCallbacks[p]
           IN  call' = IF k # None THEN [call EXCEPT ![k] = "lost"] ELSE call
        /\ UNCHANGED <<mIncomingSocketThreads, port>>
    BY <1>7, <2>1 DEF Disconnected, CloseAndRemoveOutgoing
  <2>3. c \in InModel /\ x = Closed(u)
    BY <1>3, <1>5, <2>1
  <2>4. thread' = [thread EXCEPT ![c] = x]
    BY <1>1, <1>2, <2>2, <2>3
  <2>5. /\ mOutgoingSocketThreads' \in Seq(Ids) /\ NoneTwice' /\ Out' = Out \ {c}
    <3>1. i \in 1 .. Len(mOutgoingSocketThreads)
      BY <1>1, <2>1
    <3> HIDE DEF i
    <3> QED
      BY <1>1, <2>1, <2>2, <3>1, RemovedFromSeq DEF Inv, NoneTwice, Out
  <2>6. call' \in [Ids -> {"none", "waiting", "port", "error", "dropped", "late",
                          "lost", "twice"}]
    BY <2>2 DEF Inv, TypeOK
  <2>7. mOutgoingConnectionCallbacks' \in [Peers -> Ids \cup {None}]
    BY <2>2 DEF Inv, TypeOK
  <2>8. TypeOK'
    BY <1>1, <2>2, <2>4, <2>5, <2>6, <2>7 DEF Inv, TypeOK
  <2>9. c \notin InModel' /\ c \notin Out' /\ c \notin mIncomingSocketThreads'
    BY <1>5, <1>7, <2>2, <2>5 DEF InModel, Out
  <2>10. /\ x.local = "null" /\ x.mIsClosing /\ ~x.server /\ ~x.bluetooth
         /\ u.pc = "unbound" => \A w \in Ways : x.copy[w] = "none"
    BY <2>3, ClosedIs
  <2>11. Sound(c, x)'
    BY <1>1, <1>4, <2>9, <2>10 DEF Sound, ClosedInTime, Early, Begins
  <2>12. ASSUME NEW d \in Ids \ {c}, Active(d)
         PROVE  mOutgoingConnectionCallbacks'[thread[d].peer]
                  = mOutgoingConnectionCallbacks[thread[d].peer]
    <3>1. Setup(c) /\ Active(c)
      BY <1>7, <2>1 DEF Setup, Active
    <3>2. thread[d].dir = "out" /\ thread[d].peer \in Peers
      BY <2>12 DEF Inv, Sound, Active, Setup
    <3>3. thread[d].peer # p
      BY <1>7, <2>12, <3>1, <3>2 DEF Inv, OneAtATime
    <3> QED
      BY <2>2, <3>2, <3>3 DEF Inv, TypeOK
  <2>13. ~Active(c)' /\ ~Setup(c)'
    BY <1>1, <1>4, <2>4, <2>9 DEF Active, Setup
  <2>14. thread'[c] = x /\ \A d \in Ids \ {c} : thread'[d] = thread[d]
    BY <1>1, <2>4
  <2>15. TwinsKnown'
    BY <1>1, <1>4, <2>2, <2>14 DEF Inv, TwinsKnown
  <2>16. Inv'
    BY <1>4, <2>2, <2>5, <2>8, <2>11, <2>12, <2>13, <2>14, <2>15, OneChanges
  <2> QED
    BY <1>3, <2>1, <2>2, <2>4, <2>5, <2>9, <2>16
<1>8. CASE thread[c].dir = "in" /\ c \notin mIncomingSocketThreads
  <2>1. thread' = th /\ UNCHANGED Elsewhere /\ UNCHANGED <<call, port>>
    BY <1>8 DEF Disconnected, CloseAndRemoveIncoming, Elsewhere
  <2>2. c \notin InModel /\ c \notin Out
    BY <1>5, <1>8
  <2>3. x = u /\ Sound(c, u)
    BY <1>3, <2>2
  <2>4. UNCHANGED <<Out, InModel>>
    BY <2>1 DEF Elsewhere, Out, InModel
  <2>5. Inv'
    BY <1>8, <2>1, <2>3, ThreadChanges DEF Begins, Inv, TypeOK
  <2> QED
    BY <1>5, <2>1, <2>2, <2>4, <2>5 DEF Elsewhere
<1>9. CASE thread[c].dir = "in" /\ c \in mIncomingSocketThreads
  <2> DEFINE e == Min(Equals(c))
  <2>1. /\ thread' = [th EXCEPT ![c] = Closed(@)]
        /\ mIncomingSocketThreads' = mIncomingSocketThreads \ {e}
        /\ UNCHANGED <<mOutgoingSocketThreads, mOutgoingConnectionCallbacks, call, port>>
    BY <1>9 DEF Disconnected, CloseAndRemoveIncoming
  <2>2. /\ e \in mIncomingSocketThreads
        /\ e # c => thread[c].twin /\ thread[e].twin
    <3>1. Equals(c) \subseteq mIncomingSocketThreads /\ c \in Equals(c)
      BY <1>9 DEF Equals
    <3>2. Equals(c) \in SUBSET Nat /\ Equals(c) # {}
      BY <1>1, <3>1, ConnectionAssumption
    <3>3. e \in Equals(c)
      BY <3>2, Smallest
    <3> HIDE DEF e
    <3> QED
      BY <1>9, <3>3 DEF Equals, Inv, TwinsKnown
  <2> HIDE DEF e
  <2>3. c \in InModel /\ x = Closed(u)
    BY <1>3, <1>5, <1>9
  <2>4. thread' = [thread EXCEPT ![c] = x]
    BY <1>1, <1>2, <2>1, <2>3
  <2>5. thread'[c] = x /\ \A d \in Ids \ {c} : thread'[d] = thread[d]
    BY <1>1, <2>4
  <2>6. NoneTwice' /\ Out' = Out /\ c \notin Out'
    BY <1>5, <1>9, <2>1 DEF Inv, NoneTwice, Out
  <2>7. TypeOK'
    BY <1>1, <2>1, <2>4 DEF Inv, TypeOK
  <2>8. TwinsKnown'
    BY <1>1, <1>4, <2>1, <2>5 DEF Inv, TwinsKnown
  <2>9. Sound(c, x)'
    <3>1. /\ x.local = "null" /\ x.mIsClosing /\ ~x.server /\ ~x.bluetooth
          /\ u.pc \in {"over", "copying"}
      BY <1>9, <2>3, ClosedIs
    <3>2. ~x.twin => c \notin InModel'
      BY <1>4, <2>1, <2>2, <2>6 DEF InModel, Out
    <3> QED
      BY <1>1, <1>4, <1>9, <2>6, <3>1, <3>2 DEF Sound, ClosedInTime, Early
  <2>10. ~Active(c)' /\ ~Setup(c)'
    BY <1>1, <1>4, <1>9, <2>5, <2>6 DEF Active, Setup
  <2>11. Inv'
    BY <1>4, <2>1, <2>2, <2>5, <2>6, <2>7, <2>8, <2>9, <2>10, OneChanges
  <2> QED
    BY <1>3, <1>5, <1>9, <2>1, <2>4, <2>6, <2>11
<1> QED
  BY <1>6, <1>7, <1>8, <1>9 DEF Disconnected

Endings == {"unbound", "over", "copying"}

\* The steps that end a connection, each with what it makes of the thread.
LEMMA EndsStep ==
  ASSUME Inv, NEW c \in Ids,
         \/ BindFails(c) \/ StreamsFail(c) \/ RouterFails(c) \/ Refuse(c)
         \/ \E w \in Ways : Tell(c, w)
  PROVE  \E u \in Threads :
           /\ Disconnected(c, [thread EXCEPT ![c] = u])
           /\ u.dir = thread[c].dir /\ u.peer = thread[c].peer
           /\ u.twin = thread[c].twin /\ u.callback = thread[c].callback
           /\ thread[c].pc \notin Begins /\ ~Spent(c)
           /\ \/ u.pc \in {"over", "copying"}
              \/ u.pc = "unbound" /\ u.dir = "out" /\ c \in InModel
           /\ u.pc = "unbound" => \A w \in Ways : u.copy[w] = "none"
           /\ c \notin InModel => Sound(c, u)
           /\ u.pc = "unbound" => thread[c].pc = "started"
           /\ u.pc # "unbound" =>
                \/ thread[c].dir = "in"
                \/ thread[c].pc \in {"assigned", "refusing", "copying", "over"}
<1> DEFINE t == thread[c]
<1>1. t \in Threads /\ Sound(c, t) /\ thread \in [Ids -> Threads]
  BY DEF Inv, TypeOK
<1>2. CASE BindFails(c)
  <2> DEFINE u == [t EXCEPT !.mIsClosing = FALSE, !.pc = "unbound"]
  <2>1. [thread EXCEPT ![c].mIsClosing = FALSE, ![c].pc = "unbound"]
          = [thread EXCEPT ![c] = u]
    BY <1>1
  <2>2. Disconnected(c, [thread EXCEPT ![c] = u])
    BY <1>2, <2>1 DEF BindFails
  <2>3. t.pc = "started" /\ t.dir = "out"
    BY <1>2 DEF BindFails, Is
  <2>4. u \in Threads /\ u.dir = t.dir /\ u.peer = t.peer /\ u.pc = "unbound"
        /\ u.callback = t.callback /\ u.twin = t.twin /\ u.copy = t.copy
    BY <1>1 DEF Threads
  <2>5. c \in InModel /\ \A w \in Ways : t.copy[w] = "none"
    BY <1>1, <2>3 DEF Sound, ClosedInTime
  <2> HIDE DEF u
  <2> QED
    BY <2>2, <2>3, <2>4, <2>5 DEF Begins, Spent
<1>3. CASE StreamsFail(c)
  <2> DEFINE u == [t EXCEPT !.pc = "over", !.server = FALSE]
  <2>1. [thread EXCEPT ![c].pc = "over", ![c].server = FALSE]
          = [thread EXCEPT ![c] = u]
    BY <1>1
  <2>2. Disconnected(c, [thread EXCEPT ![c] = u])
    BY <1>3, <2>1 DEF StreamsFail
  <2>3. t.pc = "assigned" /\ ~t.mIsClosing
    BY <1>3 DEF StreamsFail, Is
  <2>4. u \in Threads /\ u.dir = t.dir /\ u.peer = t.peer /\ u.pc = "over"
        /\ u.callback = t.callback /\ u.twin = t.twin
    BY <1>1 DEF Threads
  <2>5. c \in InModel
    BY <1>1, <2>3 DEF Sound, ClosedInTime
  <2> HIDE DEF u
  <2> QED
    BY <2>2, <2>3, <2>4, <2>5 DEF Begins, Spent
<1>4. CASE RouterFails(c)
  <2> DEFINE u == [t EXCEPT !.mIsClosing = FALSE, !.pc = "over"]
  <2>1. [thread EXCEPT ![c].mIsClosing = FALSE, ![c].pc = "over"]
          = [thread EXCEPT ![c] = u]
    BY <1>1
  <2>2. Disconnected(c, [thread EXCEPT ![c] = u])
    BY <1>4, <2>1 DEF RouterFails
  <2>3. t.pc = "started" /\ t.dir = "in"
    BY <1>4 DEF RouterFails, Is
  <2>4. u \in Threads /\ u.dir = t.dir /\ u.peer = t.peer /\ u.pc = "over"
        /\ u.callback = t.callback /\ u.twin = t.twin
    BY <1>1 DEF Threads
  <2>5. Sound(c, u) \/ c \in InModel
    BY <1>1, <2>3, <2>4 DEF Sound, ClosedInTime, Early
  <2> HIDE DEF u
  <2> QED
    BY <2>2, <2>3, <2>4, <2>5 DEF Begins, Spent
<1>5. CASE Refuse(c)
  <2> DEFINE u == [t EXCEPT !.pc = "over"]
  <2>1. [thread EXCEPT ![c].pc = "over"] = [thread EXCEPT ![c] = u]
    BY <1>1
  <2>2. Disconnected(c, [thread EXCEPT ![c] = u])
    BY <1>5, <2>1 DEF Refuse
  <2>3. t.pc = "refusing"
    BY <1>5 DEF Refuse, Is
  <2>4. u \in Threads /\ u.dir = t.dir /\ u.peer = t.peer /\ u.pc = "over"
        /\ u.callback = t.callback /\ u.twin = t.twin
    BY <1>1 DEF Threads
  <2>5. Sound(c, u)
    BY <1>1, <2>3, <2>4 DEF Sound, ClosedInTime, Early, Threads
  <2> HIDE DEF u
  <2> QED
    BY <2>2, <2>3, <2>4, <2>5 DEF Begins, Spent
<1>6. ASSUME NEW w \in Ways, Tell(c, w)
      PROVE  \E u \in Threads :
               /\ Disconnected(c, [thread EXCEPT ![c] = u])
               /\ u.dir = t.dir /\ u.peer = t.peer /\ u.pc = t.pc
               /\ u.callback = t.callback /\ u.twin = t.twin
               /\ t.pc \in {"over", "copying"} /\ ~Spent(c) /\ Sound(c, u)
  <2> DEFINE u == [t EXCEPT !.copy[w] = "over"]
  <2>1. [thread EXCEPT ![c].copy[w] = "over"] = [thread EXCEPT ![c] = u]
    BY <1>1
  <2>2. Disconnected(c, [thread EXCEPT ![c] = u]) /\ t.copy[w] \in {"telling", "failing"}
    BY <1>6, <2>1 DEF Tell
  <2>3. t.pc \in {"over", "copying"}
    BY <1>1, <2>2 DEF Sound
  <2>4. u \in Threads /\ u.dir = t.dir /\ u.peer = t.peer /\ u.pc = t.pc
        /\ u.callback = t.callback /\ u.twin = t.twin /\ u.local = t.local
    BY <1>1 DEF Threads
  <2>5. u.mIsClosing = t.mIsClosing /\ u.server = t.server /\ u.bluetooth = t.bluetooth
    BY <1>1 DEF Threads
  <2>6. ~t.twin /\ c \notin InModel => t.mIsClosing
    BY <1>1, <2>2 DEF Sound, ClosedInTime
  <2>7. Sound(c, u)
    BY <1>1, <2>3, <2>4, <2>5, <2>6 DEF Sound, ClosedInTime, Early
  <2>8. ~Spent(c)
    BY <2>2 DEF Spent
  <2> HIDE DEF u
  <2> QED
    BY <2>2, <2>3, <2>4, <2>7, <2>8
<1> QED
  BY <1>2, <1>3, <1>4, <1>5, <1>6 DEF Begins

LEMMA EndsKeepInv ==
  ASSUME Inv, NEW c \in Ids,
         \/ BindFails(c) \/ StreamsFail(c) \/ RouterFails(c) \/ Refuse(c)
         \/ \E w \in Ways : Tell(c, w)
  PROVE  Inv'
BY EndsStep, DisconnectedStep

-----------------------------------------------------------------------------
(* Connections that begin. *)

\* The answer to a call, as the type of call.
Answers == {"none", "waiting", "port", "error", "dropped", "late", "lost", "twice"}

LEMMA AnswerTyped ==
  ASSUME TypeOK, NEW k \in Ids \cup {None}, NEW a \in {"port", "error"}
  PROVE  Heard(call, k, a) \in [Ids -> Answers]
BY DEF TypeOK, Heard, Answers

LEMMA HeardTyped ==
  ASSUME Inv, NEW k \in Ids \cup {None}, NEW a \in {"port", "error"}
  PROVE  Heard(call, k, a) \in [Ids -> Answers]
BY AnswerTyped DEF Inv

LEMMA OnlyOneActive ==
  ASSUME Inv, NEW c \in Ids, Active(c), NEW d \in Ids \ {c}, Active(d)
  PROVE  /\ thread[c].dir = "out" /\ thread[d].dir = "out"
         /\ thread[d].peer # thread[c].peer
<1>1. Sound(c, thread[c]) /\ Sound(d, thread[d]) /\ OneAtATime
  BY DEF Inv
<1>2. thread[c].dir = "out" /\ thread[d].dir = "out"
  BY <1>1 DEF Active, Setup, Sound
<1> QED
  BY <1>1, <1>2 DEF OneAtATime

LEMMA ListeningStep ==
  ASSUME Inv, NEW c \in Ids, Listening(c)
  PROVE  Inv'
<1> DEFINE t == thread[c]
<1>1. t \in Threads /\ Sound(c, t) /\ thread \in [Ids -> Threads]
  BY DEF Inv, TypeOK
<1>2. t.pc = "bound" /\ t.server
  BY DEF Listening, Is
<1>3. PICK u \in Threads : /\ u = [t EXCEPT !.pc = "accepting"]
                          /\ u.dir = t.dir /\ u.peer = t.peer /\ u.pc = "accepting"
                          /\ u.twin = t.twin
  <2> DEFINE u == [t EXCEPT !.pc = "accepting"]
  <2>1. u \in Threads /\ u.dir = t.dir /\ u.peer = t.peer /\ u.pc = "accepting"
        /\ u.twin = t.twin
    BY <1>1 DEF Threads
  <2> QED
    BY <2>1, Zenon
<1>4. thread' = [thread EXCEPT ![c] = u]
      /\ UNCHANGED <<mOutgoingSocketThreads, mIncomingSocketThreads>>
  BY <1>1, <1>3 DEF Listening
<1>5. c \in Out /\ Active(c) /\ t.peer \in Peers
  BY <1>1, <1>2 DEF Sound, ClosedInTime, InModel, Out, Active, Setup
<1>6. /\ NoneTwice' /\ Out' = Out /\ InModel' = InModel /\ TwinsKnown'
      /\ thread'[c] = u /\ \A d \in Ids \ {c} : thread'[d] = thread[d]
  BY <1>1, <1>3, <1>4 DEF Inv, NoneTwice, Out, InModel, TwinsKnown
<1>7. call' \in [Ids -> Answers] /\ port' \in [Ids -> Ids \cup {None}]
  BY <1>1, HeardTyped DEF Listening, Threads, Inv, TypeOK
<1>8. mOutgoingConnectionCallbacks' \in [Peers -> Ids \cup {None}]
  BY DEF Inv, TypeOK, Listening
<1>9. TypeOK'
  BY <1>8, <1>1, <1>3, <1>4, <1>7 DEF Inv, TypeOK, Answers
<1>10. Sound(c, u)'
  BY <1>1, <1>2, <1>3, <1>4, <1>6 DEF Sound, ClosedInTime, Early, Threads
<1>11. ASSUME NEW d \in Ids \ {c}, Active(d)
       PROVE  mOutgoingConnectionCallbacks'[thread[d].peer]
                = mOutgoingConnectionCallbacks[thread[d].peer]
  BY <1>5, <1>11, OnlyOneActive DEF Listening, Inv, TypeOK
<1>12. /\ Active(c)' => Active(c) /\ (Setup(c)' => Setup(c))
       /\ Spent(c) => Spent(c)'
  BY <1>1, <1>2, <1>3, <1>4, <1>5, <1>6 DEF Active, Setup, Spent
<1> QED
  BY <1>3, <1>4, <1>6, <1>9, <1>10, <1>11, <1>12, OneChanges DEF Active

LEMMA ConnectionFailsStep ==
  ASSUME Inv, NEW c \in Ids, ConnectionFails(c)
  PROVE  Inv'
<1> DEFINE t == thread[c]
<1>1. t \in Threads /\ Sound(c, t) /\ thread \in [Ids -> Threads]
  BY DEF Inv, TypeOK
<1>2. t.pc = "connecting" /\ t.dir = "out" /\ t.peer \in Peers
  BY <1>1 DEF ConnectionFails, Is, Sound
<1>3. PICK u \in Threads : /\ u = [t EXCEPT !.pc = "over"]
                          /\ u.dir = t.dir /\ u.peer = t.peer /\ u.pc = "over"
                          /\ u.twin = t.twin
  <2> DEFINE u == [t EXCEPT !.pc = "over"]
  <2>1. u \in Threads /\ u.dir = t.dir /\ u.peer = t.peer /\ u.pc = "over"
        /\ u.twin = t.twin
    BY <1>1 DEF Threads
  <2> QED
    BY <2>1, Zenon
<1>4. thread' = [thread EXCEPT ![c] = u]
      /\ UNCHANGED <<mOutgoingSocketThreads, mIncomingSocketThreads, port>>
  BY <1>1, <1>3 DEF ConnectionFails
<1>5. Active(c) /\ c \notin InModel /\ c \notin Out
  BY <1>1, <1>2 DEF Sound, InModel, Out, Active
<1>6. /\ NoneTwice' /\ Out' = Out /\ InModel' = InModel /\ TwinsKnown'
      /\ thread'[c] = u /\ \A d \in Ids \ {c} : thread'[d] = thread[d]
  BY <1>1, <1>3, <1>4 DEF Inv, NoneTwice, Out, InModel, TwinsKnown
<1>7. call' \in [Ids -> Answers]
  BY <1>1, <1>2, HeardTyped DEF ConnectionFails, Inv, TypeOK
<1>8. TypeOK'
  BY <1>1, <1>3, <1>4, <1>7 DEF Inv, TypeOK, Answers, ConnectionFails
<1>9. Sound(c, u)'
  BY <1>1, <1>2, <1>3, <1>4, <1>5, <1>6 DEF Sound, ClosedInTime, Early, Threads
<1>10. ASSUME NEW d \in Ids \ {c}, Active(d)
       PROVE  mOutgoingConnectionCallbacks'[thread[d].peer]
                = mOutgoingConnectionCallbacks[thread[d].peer]
  BY <1>5, <1>10, OnlyOneActive DEF ConnectionFails, Inv, TypeOK
<1>11. ~Active(c)' /\ ~Setup(c)' /\ ~Spent(c)
  BY <1>1, <1>2, <1>3, <1>4, <1>5, <1>6 DEF Active, Setup, Spent
<1> QED
  BY <1>3, <1>4, <1>6, <1>8, <1>9, <1>10, <1>11, OneChanges

\* What addConnectionThread makes of the threads: an outgoing connection stands
\* alone; an incoming one and those it equals become twins.
LEMMA AddedIs ==
  ASSUME TypeOK, NEW c \in Ids, c \notin mIncomingSocketThreads,
         AddConnectionThread(c)
  PROVE  /\ thread' \in [Ids -> Threads]
         /\ UNCHANGED <<mOutgoingConnectionCallbacks, call, port>>
         /\ thread'[c].dir = thread[c].dir /\ thread'[c].peer = thread[c].peer
         /\ thread'[c].pc = "added" /\ thread'[c].callback = thread[c].callback
         /\ thread'[c].local = thread[c].local /\ thread'[c].copy = thread[c].copy
         /\ thread'[c].mIsClosing = thread[c].mIsClosing
         /\ thread'[c].server = thread[c].server
         /\ thread'[c].bluetooth = thread[c].bluetooth
         /\ thread'[c].twin <=>
              thread[c].twin \/ (thread[c].dir # "out" /\ Equals(c) # {})
         /\ \A d \in Ids \ {c} :
              \/ thread'[d] = thread[d]
              \/ d \in mIncomingSocketThreads /\ thread'[d] = Marked(thread[d])
         /\ \A d \in Equals(c) : thread[c].dir # "out" => thread'[d] = Marked(thread[d])
<1> DEFINE t == thread[c]
<1>1. t \in Threads /\ thread \in [Ids -> Threads]
      /\ Equals(c) \subseteq mIncomingSocketThreads /\ mIncomingSocketThreads \subseteq Ids
  BY DEF TypeOK, Equals
<1>2. UNCHANGED <<mOutgoingConnectionCallbacks, call, port>> /\ c \notin Equals(c)
  BY <1>1 DEF AddConnectionThread
<1>3. CASE t.dir = "out"
  <2>1. thread' = [thread EXCEPT ![c] = [t EXCEPT !.pc = "added"]]
    BY <1>1, <1>3 DEF AddConnectionThread
  <2>2. [t EXCEPT !.pc = "added"] \in Threads
    BY <1>1 DEF Threads
  <2>3. thread' \in [Ids -> Threads] /\ thread'[c] = [t EXCEPT !.pc = "added"]
        /\ \A d \in Ids \ {c} : thread'[d] = thread[d]
    BY <1>1, <2>1, <2>2
  <2> QED
    BY <1>1, <1>2, <1>3, <2>3 DEF Threads
<1>4. CASE t.dir # "out"
  <2>1. thread' = [d \in Ids |->
           [thread[d] EXCEPT !.pc = IF d = c THEN "added" ELSE @,
                             !.twin = \/ @ \/ d \in Equals(c)
                                      \/ d = c /\ Equals(c) # {}]]
    BY <1>4 DEF AddConnectionThread
  <2>2. PICK b \in BOOLEAN : b = (t.twin \/ Equals(c) # {})
    OBVIOUS
  <2>3. thread'[c] = [t EXCEPT !.pc = "added", !.twin = b]
    <3>1. thread'[c] = [t EXCEPT !.pc = "added",
                                 !.twin = t.twin \/ c \in Equals(c)
                                            \/ (c = c /\ Equals(c) # {})]
      BY <2>1
    <3>2. (t.twin \/ c \in Equals(c) \/ (c = c /\ Equals(c) # {})) = b
      BY <1>1, <1>2, <2>2 DEF Threads
    <3> QED
      BY <3>1, <3>2
  <2>4. ASSUME NEW d \in Ids \ {c}
        PROVE  /\ d \in Equals(c) => thread'[d] = Marked(thread[d])
               /\ d \notin Equals(c) => thread'[d] = thread[d]
    <3>1. thread[d] \in Threads
      BY <1>1
    <3>2. thread'[d] = [thread[d] EXCEPT !.pc = thread[d].pc,
                                         !.twin = \/ thread[d].twin \/ d \in Equals(c)
                                                  \/ d = c /\ Equals(c) # {}]
      BY <2>1, <2>4
    <3>3. CASE d \in Equals(c)
      <4>1. (thread[d].twin \/ d \in Equals(c) \/ (d = c /\ Equals(c) # {})) = TRUE
        BY <3>3
      <4>2. thread'[d] = [thread[d] EXCEPT !.pc = thread[d].pc, !.twin = TRUE]
        BY <3>2, <4>1
      <4> QED
        BY <3>1, <3>3, <4>2 DEF Marked, Threads
    <3>4. CASE d \notin Equals(c)
      <4>1. (thread[d].twin \/ d \in Equals(c) \/ (d = c /\ Equals(c) # {}))
              = thread[d].twin
        BY <2>4, <3>1, <3>4 DEF Threads
      <4>2. thread'[d] = [thread[d] EXCEPT !.pc = thread[d].pc,
                                           !.twin = thread[d].twin]
        BY <3>2, <4>1
      <4> QED
        BY <3>1, <3>4, <4>2 DEF Threads
    <3> QED
      BY <3>3, <3>4
  <2>5. thread'[c] \in Threads
    BY <1>1, <2>3 DEF Threads
  <2>6. \A d \in Ids : thread'[d] \in Threads
    BY <1>1, <2>4, <2>5, MarkedIs
  <2>7. thread' \in [Ids -> Threads]
    BY <2>1, <2>6
  <2>8. \A d \in Equals(c) : d \in Ids \ {c} /\ d \in mIncomingSocketThreads
    BY <1>1, <1>2
  <2>9. /\ thread'[c].dir = t.dir /\ thread'[c].peer = t.peer
        /\ thread'[c].pc = "added" /\ thread'[c].callback = t.callback
        /\ thread'[c].local = t.local /\ thread'[c].copy = t.copy
        /\ thread'[c].mIsClosing = t.mIsClosing /\ thread'[c].server = t.server
        /\ thread'[c].bluetooth = t.bluetooth /\ thread'[c].twin = b
    BY <1>1, <2>3 DEF Threads
  <2> QED
    BY <1>2, <1>4, <2>2, <2>4, <2>7, <2>8, <2>9
<1> QED
  BY <1>3, <1>4

LEMMA AddConnectionThreadStep ==
  ASSUME Inv, NEW c \in Ids, AddConnectionThread(c)
  PROVE  Inv'
<1> DEFINE t == thread[c]
           list == mOutgoingSocketThreads
<1>1. t \in Threads /\ Sound(c, t) /\ thread \in [Ids -> Threads]
      /\ list \in Seq(Ids) /\ mIncomingSocketThreads \subseteq Ids
  BY DEF Inv, TypeOK
<1>2. t.pc = "made" /\ t.dir \in {"out", "in"}
  BY <1>1 DEF AddConnectionThread, Is, Sound, Threads
<1>3. c \notin InModel /\ c \notin Out /\ c \notin mIncomingSocketThreads
  BY <1>1, <1>2 DEF Sound, InModel, Out
<1>4. /\ thread' \in [Ids -> Threads]
      /\ UNCHANGED <<mOutgoingConnectionCallbacks, call, port>>
      /\ \A d \in Ids \ {c} :
           \/ thread'[d] = thread[d]
           \/ d \in mIncomingSocketThreads /\ thread'[d] = Marked(thread[d])
      /\ \A d \in Equals(c) : t.dir # "out" => thread'[d] = Marked(thread[d])
  BY <1>3, AddedIs DEF Inv
<1>5. PICK u \in Threads :
        /\ thread'[c] = u
        /\ u.dir = t.dir /\ u.peer = t.peer /\ u.pc = "added"
        /\ u.local = t.local /\ u.copy = t.copy /\ u.mIsClosing = t.mIsClosing
        /\ u.server = t.server /\ u.bluetooth = t.bluetooth
        /\ u.twin <=> t.twin \/ (t.dir # "out" /\ Equals(c) # {})
  <2>1. thread'[c] \in Threads
    BY <1>4
  <2> QED
    BY <1>3, <2>1, AddedIs, Zenon DEF Inv
<1>6. \A d \in Ids \ {c} : /\ thread'[d].peer = thread[d].peer
                           /\ thread[d].twin => thread'[d].twin
  BY <1>1, <1>4, MarkedIs
<1>7. CASE t.dir = "out"
  <2>1. mOutgoingSocketThreads' = Append(list, c)
        /\ mIncomingSocketThreads' = mIncomingSocketThreads
    BY <1>7 DEF AddConnectionThread
  <2>2. /\ Len(Append(list, c)) = Len(list) + 1 /\ Append(list, c) \in Seq(Ids)
        /\ \A i \in 1 .. Len(list) : Append(list, c)[i] = list[i]
        /\ Append(list, c)[Len(list) + 1] = c
        /\ Len(list) \in Nat
    BY <1>1
  <2>3. /\ DOMAIN list = 1 .. Len(list)
        /\ DOMAIN Append(list, c) = 1 .. Len(list) + 1
    BY <1>1, <2>2
  <2>4. \A i \in DOMAIN list : list[i] # c
    BY <1>3 DEF Out, ToSet
  <2>5. Out' = Out \cup {c}
    BY <2>1, <2>2, <2>3 DEF Out, ToSet
  <2>6. NoneTwice'
    BY <2>1, <2>2, <2>3, <2>4 DEF Inv, NoneTwice
  <2>7. TypeOK'
    BY <1>1, <1>4, <2>1, <2>2 DEF Inv, TypeOK
  <2>8. TwinsKnown'
    BY <1>1, <1>3, <1>6, <2>1 DEF Inv, TwinsKnown
  <2>9. Sound(c, u)'
    BY <1>1, <1>2, <1>3, <1>4, <1>5, <1>7, <2>1, <2>5
       DEF Sound, ClosedInTime, Early, InModel, Out
  <2>10. Active(c) /\ Setup(c) /\ ~Spent(c)
    BY <1>2, <1>7 DEF Active, Setup, Spent
  <2> HIDE DEF list
  <2> QED
    BY <1>4, <1>5, <2>1, <2>5, <2>6, <2>7, <2>8, <2>9, <2>10, OneChanges
<1>8. CASE t.dir = "in"
  <2>1. mOutgoingSocketThreads' = list
        /\ mIncomingSocketThreads' = mIncomingSocketThreads \cup {c}
    BY <1>8 DEF AddConnectionThread
  <2>2. Out' = Out /\ NoneTwice'
    BY <2>1 DEF Out, ToSet, Inv, NoneTwice
  <2>3. TypeOK'
    BY <1>1, <1>4, <2>1 DEF Inv, TypeOK
  <2>4. \A d \in Equals(c) : thread'[d].twin
    BY <1>1, <1>4, <1>8, MarkedIs DEF Equals
  <2>5. TwinsKnown'
    <3> SUFFICES ASSUME NEW a \in mIncomingSocketThreads \cup {c},
                        NEW b \in mIncomingSocketThreads \cup {c},
                        a # b, thread'[a].peer = thread'[b].peer
                 PROVE  thread'[a].twin
      BY <2>1 DEF TwinsKnown
    <3>1. CASE a = c
      <4>1. b \in Equals(c)
        BY <1>1, <1>5, <1>6, <3>1 DEF Equals
      <4> QED
        BY <1>5, <1>8, <3>1, <4>1
    <3>2. CASE b = c
      <4>1. a \in Equals(c)
        BY <1>1, <1>5, <1>6, <3>2 DEF Equals
      <4> QED
        BY <2>4, <4>1
    <3>3. CASE a # c /\ b # c
      BY <1>1, <1>6, <3>3 DEF Inv, TwinsKnown
    <3> QED
      BY <3>1, <3>2, <3>3
  <2>6. Sound(c, u)'
    BY <1>1, <1>2, <1>3, <1>4, <1>5, <1>8, <2>1, <2>2
       DEF Sound, ClosedInTime, Early, InModel, Out
  <2>7. ~Active(c)' /\ ~Setup(c)' /\ ~Spent(c)
    BY <1>2, <1>5, <1>8 DEF Active, Setup, Spent
  <2> HIDE DEF list
  <2> QED
    BY <1>4, <1>5, <2>1, <2>2, <2>3, <2>5, <2>6, <2>7, OneChanges DEF list
<1> QED
  BY <1>2, <1>7, <1>8

\* The other connections, when c becomes u.
LEMMA OthersSound ==
  ASSUME Inv, NEW c \in Ids, NEW u \in Threads,
         thread' = [thread EXCEPT ![c] = u], c \notin mIncomingSocketThreads,
         UNCHANGED <<mOutgoingSocketThreads, mIncomingSocketThreads>>,
         \A d \in Ids \ {c} :
           Active(d) => mOutgoingConnectionCallbacks'[thread[d].peer]
                          = mOutgoingConnectionCallbacks[thread[d].peer]
  PROVE  /\ NoneTwice' /\ Out' = Out /\ InModel' = InModel /\ thread'[c] = u
         /\ TwinsKnown'
         /\ \A d \in Ids \ {c} : /\ Sound(d, thread[d])' /\ thread'[d] = thread[d]
                                 /\ Active(d)' <=> Active(d)
                                 /\ Setup(d)' <=> Setup(d)
                                 /\ Spent(d)' <=> Spent(d)
<1>1. thread'[c] = u /\ \A d \in Ids \ {c} : thread'[d] = thread[d]
  BY DEF Inv, TypeOK
<1>2. NoneTwice' /\ Out' = Out /\ InModel' = InModel
  BY DEF Inv, NoneTwice, Out, InModel
<1>3. TwinsKnown'
  BY <1>1 DEF Inv, TypeOK, TwinsKnown
<1>4. \A d \in Ids \ {c} : /\ Active(d)' <=> Active(d)
                           /\ Setup(d)' <=> Setup(d)
                           /\ Spent(d)' <=> Spent(d)
  BY <1>1, <1>2 DEF Active, Setup, Spent
<1>5. ASSUME NEW d \in Ids \ {c} PROVE Sound(d, thread[d])'
  <2>1. Sound(d, thread[d])
    BY DEF Inv
  <2>2. Active(d) <=> /\ thread[d].dir = "out"
                      /\ thread[d].pc \in {"connecting", "made"} \/ d \in Out
    BY <2>1 DEF Active, Setup, Sound
  <2> QED
    BY <1>1, <1>2, <2>1, <2>2 DEF Sound, ClosedInTime, Early
<1> QED
  BY <1>1, <1>2, <1>4, <1>5, <1>3

\* A connection that is made is the only one to its peer: the threads of the
\* one before have run off.
LEMMA HandleOutgoingConnectionStep ==
  ASSUME ~Preempts, Inv, NEW c \in Ids, HandleOutgoingConnection(c)
  PROVE  Inv'
<1> DEFINE t == thread[c]
<1>1. t \in Threads /\ Sound(c, t) /\ thread \in [Ids -> Threads]
  BY DEF Inv, TypeOK
<1>2. t.pc = "connecting" /\ t.dir = "out" /\ t.peer \in Peers /\ Active(c)
  BY <1>1 DEF HandleOutgoingConnection, Is, Sound, Active
<1>3. PICK u \in Threads :
        /\ u = [t EXCEPT !.dir = "out", !.peer = t.peer, !.pc = "made",
                         !.bluetooth = TRUE,
                         !.callback = mOutgoingConnectionCallbacks[t.peer]]
        /\ u.dir = "out" /\ u.peer = t.peer /\ u.pc = "made"
        /\ u.copy = t.copy /\ u.local = t.local
        /\ u.server = t.server /\ u.mIsClosing = t.mIsClosing /\ u.twin = t.twin
  <2> DEFINE u == [t EXCEPT !.dir = "out", !.peer = t.peer, !.pc = "made",
                            !.bluetooth = TRUE,
                            !.callback = mOutgoingConnectionCallbacks[t.peer]]
  <2>1. mOutgoingConnectionCallbacks[t.peer] \in Ids \cup {None}
    BY <1>2 DEF Inv, TypeOK
  <2>2. u \in Threads /\ u.dir = "out" /\ u.peer = t.peer /\ u.pc = "made"
        /\ u.copy = t.copy /\ u.local = t.local
    BY <1>1, <1>2, <2>1 DEF Threads
  <2>3. u.server = t.server /\ u.mIsClosing = t.mIsClosing /\ u.twin = t.twin
    BY <1>1 DEF Threads
  <2> QED
    BY <2>2, <2>3, Zenon
<1>4. thread' = [thread EXCEPT ![c] = u]
      /\ UNCHANGED <<mOutgoingSocketThreads, mIncomingSocketThreads,
                     mOutgoingConnectionCallbacks, call, port>>
  <2>1. thread' = [thread EXCEPT ![c] =
                    [@ EXCEPT !.dir = "out", !.peer = t.peer, !.pc = "made",
                              !.bluetooth = TRUE,
                              !.callback = mOutgoingConnectionCallbacks[t.peer]]]
        /\ UNCHANGED <<mOutgoingSocketThreads, mIncomingSocketThreads,
                       mOutgoingConnectionCallbacks, call, port>>
    BY DEF HandleOutgoingConnection, OnConnected
  <2> QED
    BY <1>1, <1>3, <2>1
<1>5. TypeOK'
  BY <1>1, <1>4 DEF Inv, TypeOK
<1>6. /\ NoneTwice' /\ Out' = Out /\ InModel' = InModel /\ thread'[c] = u
      /\ TwinsKnown'
      /\ \A d \in Ids \ {c} : /\ Sound(d, thread[d])' /\ thread'[d] = thread[d]
                              /\ Active(d)' <=> Active(d)
                              /\ Setup(d)' <=> Setup(d)
                              /\ Spent(d)' <=> Spent(d)
  BY <1>1, <1>2, <1>4, OthersSound DEF Sound, InModel
<1>7. Sound(c, u)'
  <2>1. /\ ~t.server /\ t.local = "null" /\ ~t.mIsClosing /\ t.peer \in Peers
        /\ ~t.twin
        /\ \A w \in Ways : t.copy[w] = "none"
        /\ c \notin InModel /\ mOutgoingConnectionCallbacks[t.peer] = c
    BY <1>1, <1>2 DEF Sound, ClosedInTime, Early
  <2>2. c \notin Out' /\ c \notin mIncomingSocketThreads' /\ c \notin InModel'
    BY <1>4, <1>6, <2>1 DEF InModel, Out
  <2>3. mOutgoingConnectionCallbacks'[u.peer] = c
    BY <1>3, <1>4, <2>1
  <2> QED
    BY <1>3, <2>1, <2>2, <2>3 DEF Sound, ClosedInTime, Early
<1>8. ASSUME NEW d \in Ids \ {c}, thread[d].dir = "out", thread[d].peer = t.peer
      PROVE  ~Active(d) /\ Spent(d)
  <2>1. ~Active(d)
    BY <1>2, <1>8 DEF Inv, OneAtATime
  <2>2. Sound(d, thread[d])
    BY DEF Inv
  <2>3. thread[d].pc \notin {"none", "connecting", "made"} /\ d \notin InModel
    BY <1>8, <2>1, <2>2 DEF Active, Setup, InModel, Out, Sound
  <2>4. thread[d].mIsClosing => Spent(d)
    BY <1>8 DEF HandleOutgoingConnection, Settled, Spent
  <2>5. ~thread[d].mIsClosing => Spent(d)
    BY <1>8, <2>2, <2>3 DEF Sound, ClosedInTime, Spent
  <2> QED
    BY <2>1, <2>4, <2>5
<1>9. u.dir = "out" /\ u.peer = t.peer
  BY <1>3, Zenon
<1>10. OneAtATime'
  <2> SUFFICES ASSUME NEW a \in Ids, NEW b \in Ids, a # b, Active(b)',
                      thread'[a].dir = "out", thread'[b].dir = "out",
                      thread'[a].peer = thread'[b].peer
               PROVE  ~Active(a)' /\ (Setup(b)' => Spent(a)')
    BY DEF OneAtATime
  <2>1. CASE a = c
    BY <1>9, <1>6, <1>8, <2>1 DEF Active, Setup, Spent
  <2>2. CASE b = c
    BY <1>9, <1>6, <1>8, <2>2 DEF Active, Setup, Spent
  <2>3. CASE a # c /\ b # c
    BY <1>6, <2>3 DEF Inv, OneAtATime
  <2> QED
    BY <2>1, <2>2, <2>3
<1> QED
  BY <1>5, <1>6, <1>7, <1>10 DEF Inv

LEMMA HandleIncomingConnectionStep ==
  ASSUME Inv, NEW c \in Ids, NEW p \in Peers, HandleIncomingConnection(c, p)
  PROVE  Inv'
<1> DEFINE t == thread[c]
<1>1. t \in Threads /\ Sound(c, t) /\ thread \in [Ids -> Threads]
  BY DEF Inv, TypeOK
<1>2. t.pc = "none" /\ t.dir = "none"
  BY <1>1 DEF HandleIncomingConnection, Fresh, Sound
<1>3. PICK u \in Threads :
        /\ u = [t EXCEPT !.dir = "in", !.peer = p, !.pc = "made",
                         !.bluetooth = TRUE, !.callback = None]
        /\ u.dir = "in" /\ u.peer = p /\ u.pc = "made"
        /\ u.copy = t.copy /\ u.local = t.local
        /\ u.server = t.server /\ u.mIsClosing = t.mIsClosing /\ u.twin = t.twin
  <2> DEFINE u == [t EXCEPT !.dir = "in", !.peer = p, !.pc = "made",
                            !.bluetooth = TRUE, !.callback = None]
  <2>2. u \in Threads /\ u.dir = "in" /\ u.peer = p /\ u.pc = "made"
        /\ u.copy = t.copy /\ u.local = t.local
    BY <1>1 DEF Threads
  <2>3. u.server = t.server /\ u.mIsClosing = t.mIsClosing /\ u.twin = t.twin
    BY <1>1 DEF Threads
  <2> QED
    BY <2>2, <2>3, Zenon
<1>4. thread' = [thread EXCEPT ![c] = u]
      /\ UNCHANGED <<mOutgoingSocketThreads, mIncomingSocketThreads,
                     mOutgoingConnectionCallbacks, call, port>>
  <2>1. thread' = [thread EXCEPT ![c] =
                    [@ EXCEPT !.dir = "in", !.peer = p, !.pc = "made",
                              !.bluetooth = TRUE, !.callback = None]]
        /\ UNCHANGED <<mOutgoingSocketThreads, mIncomingSocketThreads,
                       mOutgoingConnectionCallbacks, call, port>>
    BY DEF HandleIncomingConnection, OnConnected
  <2> QED
    BY <1>1, <1>3, <2>1
<1>5. TypeOK'
  BY <1>1, <1>4 DEF Inv, TypeOK
<1>6. /\ NoneTwice' /\ Out' = Out /\ InModel' = InModel /\ thread'[c] = u
      /\ TwinsKnown'
      /\ \A d \in Ids \ {c} : /\ Sound(d, thread[d])' /\ thread'[d] = thread[d]
                              /\ Active(d)' <=> Active(d)
                              /\ Setup(d)' <=> Setup(d)
                              /\ Spent(d)' <=> Spent(d)
  BY <1>1, <1>2, <1>4, OthersSound DEF Sound, InModel
<1>7. Sound(c, u)'
  BY <1>1, <1>2, <1>3, <1>4, <1>6 DEF Sound, ClosedInTime, Early, Threads, InModel, Out
<1>9. OneAtATime'
  BY <1>3, <1>6 DEF Inv, OneAtATime
<1> QED
  BY <1>5, <1>6, <1>7, <1>9 DEF Inv

\* A call that begins finds no other connection to the peer, nor one that is
\* coming: its callback is there as long as that.
LEMMA NotBusy ==
  ASSUME Inv, NEW p \in Peers, ~Busy(p), NEW d \in Ids, Active(d)
  PROVE  thread[d].peer # p
<1>1. Sound(d, thread[d])
  BY DEF Inv
<1>2. thread[d].dir = "out"
  BY <1>1 DEF Active, Setup, Sound
<1>3. CASE thread[d].pc \in {"connecting", "made"}
  BY <1>1, <1>2, <1>3, ConnectionAssumption DEF Busy, Sound, None
<1>4. CASE d \in Out
  BY <1>4, SocketThreadFound DEF Busy
<1> QED
  BY <1>3, <1>4 DEF Active, Setup

LEMMA ConnectStep ==
  ASSUME Inv, NEW c \in Ids, NEW p \in Peers, Connect(c, p)
  PROVE  Inv'
<1> DEFINE t == thread[c]
<1>1. t \in Threads /\ Sound(c, t) /\ thread \in [Ids -> Threads]
  BY DEF Inv, TypeOK
<1>2. t.pc = "none" /\ t.dir = "none"
  BY <1>1 DEF Connect, Fresh, Sound
<1>3. PICK result \in {"refused", "begins", "start"} :
        /\ result # "refused" => ~Busy(p)
        /\ call' = [call EXCEPT ![c] = IF result = "begins" THEN "waiting" ELSE "error"]
        /\ thread' = [thread EXCEPT ![c] =
             [@ EXCEPT !.dir = "out", !.peer = p,
                       !.pc = IF result = "begins" THEN "connecting" ELSE "over"]]
        /\ mOutgoingConnectionCallbacks' =
             [mOutgoingConnectionCallbacks EXCEPT ![p] =
                IF result = "refused" THEN @ ELSE c]
  BY DEF Connect
<1>4. PICK s \in {"connecting", "over"} :
        s = IF result = "begins" THEN "connecting" ELSE "over"
  OBVIOUS
<1>5. PICK u \in Threads :
        /\ u = [t EXCEPT !.dir = "out", !.peer = p, !.pc = s]
        /\ u.dir = "out" /\ u.peer = p /\ u.pc = s
        /\ u.copy = t.copy /\ u.local = t.local /\ u.bluetooth = t.bluetooth
        /\ u.server = t.server /\ u.mIsClosing = t.mIsClosing /\ u.twin = t.twin
  <2> DEFINE u == [t EXCEPT !.dir = "out", !.peer = p, !.pc = s]
  <2>2. u \in Threads /\ u.dir = "out" /\ u.peer = p /\ u.pc = s
        /\ u.copy = t.copy /\ u.local = t.local
    BY <1>1 DEF Threads
  <2>3. u.server = t.server /\ u.mIsClosing = t.mIsClosing /\ u.twin = t.twin
        /\ u.bluetooth = t.bluetooth
    BY <1>1 DEF Threads
  <2> QED
    BY <2>2, <2>3, Zenon
<1>6. /\ thread' = [thread EXCEPT ![c] = u]
      /\ UNCHANGED <<mOutgoingSocketThreads, mIncomingSocketThreads, port>>
  BY <1>1, <1>3, <1>4, <1>5 DEF Connect
<1>7. /\ call' \in [Ids -> Answers]
      /\ mOutgoingConnectionCallbacks' \in [Peers -> Ids \cup {None}]
  BY <1>3 DEF Inv, TypeOK, Answers
<1>8. TypeOK'
  BY <1>1, <1>6, <1>7 DEF Inv, TypeOK, Answers
<1>9. ASSUME NEW d \in Ids \ {c}, Active(d)
      PROVE  /\ mOutgoingConnectionCallbacks'[thread[d].peer]
                  = mOutgoingConnectionCallbacks[thread[d].peer]
             /\ result # "refused" => thread[d].peer # p
  <2>1. thread[d].peer \in Peers
    BY <1>9 DEF Inv, Sound, Active, Setup
  <2> QED
    BY <1>3, <1>9, <2>1, NotBusy DEF Inv, TypeOK
<1>10. c \notin mIncomingSocketThreads
  BY <1>1, <1>2 DEF Sound
<1>11. /\ NoneTwice' /\ Out' = Out /\ InModel' = InModel /\ thread'[c] = u
       /\ TwinsKnown'
       /\ \A d \in Ids \ {c} : /\ Sound(d, thread[d])' /\ thread'[d] = thread[d]
                               /\ Active(d)' <=> Active(d)
                               /\ Setup(d)' <=> Setup(d)
                               /\ Spent(d)' <=> Spent(d)
  BY <1>6, <1>9, <1>10, OthersSound
<1>12. c \notin InModel /\ c \notin Out /\ c \notin mIncomingSocketThreads
  BY <1>1, <1>2 DEF Sound, InModel, Out
<1>13. s = "connecting" => mOutgoingConnectionCallbacks'[p] = c
  BY <1>3, <1>4 DEF Inv, TypeOK
<1>14. Sound(c, u)'
  BY <1>1, <1>2, <1>5, <1>6, <1>11, <1>12, <1>13 DEF Sound, ClosedInTime, Early
<1>15. ~Setup(c)' /\ (Active(c)' => result # "refused")
  BY <1>4, <1>5, <1>11, <1>12 DEF Active, Setup
<1>16. u.dir = "out" /\ u.peer = p
  BY <1>5, Zenon
<1>17. OneAtATime'
  <2> SUFFICES ASSUME NEW a \in Ids, NEW b \in Ids, a # b, Active(b)',
                      thread'[a].dir = "out", thread'[b].dir = "out",
                      thread'[a].peer = thread'[b].peer
               PROVE  ~Active(a)' /\ (Setup(b)' => Spent(a)')
    BY DEF OneAtATime
  <2>1. CASE a = c
    <3>1. Active(b) /\ thread[b].peer = p
      BY <1>5, <1>11, <2>1
    <3>2. ~Active(c)'
      BY <1>9, <1>15, <2>1, <3>1
    <3>3. s = "over"
      BY <1>4, <1>5, <1>9, <2>1, <3>1
    <3>4. Setup(b)' => Spent(c)'
      BY <1>2, <1>1, <1>5, <1>11, <3>3 DEF Sound, Spent
    <3> QED
      BY <2>1, <3>2, <3>4
  <2>2. CASE b = c
    BY <1>16, <1>9, <1>11, <1>15, <2>2 DEF Active, Setup, Spent
  <2>3. CASE a # c /\ b # c
    BY <1>11, <2>3 DEF Inv, OneAtATime
  <2> QED
    BY <2>1, <2>2, <2>3
<1> QED
  BY <1>8, <1>11, <1>14, <1>17 DEF Inv

\* A stop empties the model and ends the attempts: no connection is being set up.
LEMMA StopStep ==
  ASSUME ~Preempts, Inv, Stop
  PROVE  Inv'
<1>1. /\ thread \in [Ids -> Threads] /\ \A c \in Ids : Sound(c, thread[c])
      /\ mOutgoingSocketThreads \in Seq(Ids)
  BY DEF Inv, TypeOK
<1>2. \A c \in Ids : thread[c].pc \notin {"made", "added", "started", "accepted"}
  BY DEF Stop, Undisturbed, At
<1>3. thread' = [c \in Ids |-> CASE c \in Out -> Closed(thread[c])
                                 [] c \in At("connecting") ->
                                      [thread[c] EXCEPT !.pc = "over"]
                                 [] OTHER -> thread[c]]
  BY DEF Stop, Out
<1>4. ASSUME NEW c \in Ids
       PROVE  /\ c \in Out => thread'[c] = Closed(thread[c])
              /\ (c \notin Out /\ thread[c].pc = "connecting") =>
                   thread'[c] = [thread[c] EXCEPT !.pc = "over"]
              /\ (c \notin Out /\ thread[c].pc # "connecting") =>
                   thread'[c] = thread[c]
  <2>1. c \in At("connecting") <=> thread[c].pc = "connecting"
    BY DEF At
  <2>2. thread'[c] = CASE c \in Out -> Closed(thread[c])
                       [] c \in At("connecting") -> [thread[c] EXCEPT !.pc = "over"]
                       [] OTHER -> thread[c]
    BY <1>3, Zenon
  <2>3. ASSUME c \in Out PROVE c \notin At("connecting")
    BY <1>1, <2>1, <2>3 DEF Sound, InModel, Out
  <2> QED
    BY <2>1, <2>2, <2>3
<1>5. /\ mOutgoingSocketThreads' = <<>>
      /\ mOutgoingConnectionCallbacks' = [p \in Peers |-> None]
      /\ call' = [c \in Ids |-> IF call[c] = "waiting" THEN "dropped" ELSE call[c]]
      /\ UNCHANGED <<mIncomingSocketThreads, port>>
  BY DEF Stop
<1>6. Out' = {} /\ NoneTwice' /\ InModel' = mIncomingSocketThreads
  BY <1>5 DEF Out, ToSet, NoneTwice, InModel
<1>7. ASSUME NEW c \in Ids
      PROVE  \E u \in Threads :
               /\ thread'[c] = u
               /\ u.dir = thread[c].dir /\ u.peer = thread[c].peer
               /\ u.twin = thread[c].twin
               /\ u.pc # "connecting" /\ u.pc # "made"
               /\ Sound(c, u)'
  <2> DEFINE t == thread[c]
  <2>0. t \in Threads /\ Sound(c, t)
    BY <1>1
  <2>1. CASE c \in Out
    <3>1. PICK u \in Threads : u = Closed(t)
      BY <2>0, ClosedIs
    <3>2. /\ u.dir = t.dir /\ u.peer = t.peer /\ u.pc = t.pc /\ u.local = "null"
          /\ u.mIsClosing /\ ~u.server /\ ~u.bluetooth /\ u.twin = t.twin
          /\ \A w \in Ways : t.copy[w] = "none" => u.copy[w] = "none"
      BY <2>0, <3>1, ClosedIs
    <3>3. c \in InModel /\ c \notin mIncomingSocketThreads
      BY <2>0, <2>1 DEF Sound, InModel, Out
    <3>4. c \notin InModel' /\ c \notin Out' /\ t.dir = "out" /\ ~t.twin
      BY <1>6, <2>0, <2>1, <3>3 DEF Sound
    <3>5. Sound(c, u)'
      BY <1>2, <1>5, <2>0, <3>2, <3>3, <3>4 DEF Sound, ClosedInTime, Early
    <3>6. thread'[c] = u
      BY <1>4, <2>1, <3>1
    <3> QED
      BY <1>2, <2>0, <3>2, <3>3, <3>5, <3>6 DEF Sound
  <2>2. CASE c \notin Out /\ t.pc = "connecting"
    <3>1. PICK u \in Threads :
            /\ u = [t EXCEPT !.pc = "over"]
            /\ u.dir = t.dir /\ u.peer = t.peer /\ u.pc = "over"
            /\ u.copy = t.copy /\ u.local = t.local /\ u.bluetooth = t.bluetooth
            /\ u.server = t.server /\ u.mIsClosing = t.mIsClosing /\ u.twin = t.twin
      <4> DEFINE u == [t EXCEPT !.pc = "over"]
      <4>2. u \in Threads /\ u.dir = t.dir /\ u.peer = t.peer /\ u.pc = "over"
            /\ u.copy = t.copy /\ u.local = t.local
        BY <2>0 DEF Threads
      <4>3. u.server = t.server /\ u.mIsClosing = t.mIsClosing /\ u.twin = t.twin
            /\ u.bluetooth = t.bluetooth
        BY <2>0 DEF Threads
      <4> QED
        BY <4>2, <4>3, Zenon
    <3>2. c \notin mIncomingSocketThreads
      BY <2>0, <2>2 DEF Sound, InModel
    <3>3. Sound(c, u)'
      BY <1>5, <1>6, <2>0, <2>2, <3>1, <3>2 DEF Sound, ClosedInTime, Early
    <3>4. thread'[c] = u
      BY <1>4, <2>2, <3>1
    <3> QED
      BY <3>1, <3>3, <3>4
  <2>3. CASE c \notin Out /\ t.pc # "connecting"
    <3>1. PICK u \in Threads : u = t
      BY <2>0
    <3>2. c \in InModel' <=> c \in InModel
      BY <1>6, <2>3 DEF InModel, Out
    <3>3. Sound(c, u)'
      BY <1>2, <1>5, <1>6, <2>0, <2>3, <3>1, <3>2 DEF Sound, ClosedInTime, Early
    <3>4. thread'[c] = u
      BY <1>4, <2>3, <3>1
    <3> QED
      BY <1>2, <2>3, <3>1, <3>3, <3>4
  <2> QED
    BY <2>1, <2>2, <2>3
<1>8. \A c \in Ids : Sound(c, thread[c])' /\ thread'[c] \in Threads /\ ~Active(c)'
  BY <1>6, <1>7 DEF Active, Setup
<1>9. OneAtATime' /\ TwinsKnown'
  BY <1>1, <1>5, <1>7, <1>8 DEF Inv, TypeOK, OneAtATime, TwinsKnown
<1>10. /\ call' \in [Ids -> Answers]
       /\ mOutgoingConnectionCallbacks' \in [Peers -> Ids \cup {None}]
  BY <1>5 DEF Inv, TypeOK, Answers
<1>11. thread' \in [Ids -> Threads]
  BY <1>3, <1>8
<1>12. TypeOK'
  BY <1>5, <1>10, <1>11, EmptySeq DEF Inv, TypeOK, Answers
<1> QED
  BY <1>6, <1>8, <1>9, <1>12 DEF Inv

-----------------------------------------------------------------------------
\* Every step keeps the invariant, when no connection that is being set up is
\* overtaken.
LEMMA StepSound ==
  ASSUME ~Preempts, Inv, [Next]_vars
  PROVE  Inv'
<1>1. CASE UNCHANGED vars
  BY <1>1 DEF vars, Inv, TypeOK, NoneTwice, OneAtATime, TwinsKnown, Active, Setup,
              Spent, Sound, ClosedInTime, InModel, Out, Early
<1>2. CASE JavaScript
  BY <1>2, StopStep, ConnectStep, SocketSteps DEF JavaScript
<1>3. ASSUME NEW c \in Ids, Library(c) \/ Runs(c) PROVE Inv'
  BY <1>3, ConnectionFailsStep, HandleOutgoingConnectionStep,
     AddConnectionThreadStep, RunSteps, EndsKeepInv, ListeningStep
     DEF Library, Runs
<1>4. ASSUME NEW k \in Ids, AppConnects(k) PROVE Inv'
  <2>1. port[k] \in Ids
    BY <1>4 DEF AppConnects, Inv, TypeOK
  <2> QED
    BY <1>4, <2>1, SocketSteps
<1>5. ASSUME NEW c \in Ids, NEW w \in Ways, Copies(c, w) PROVE Inv'
  BY <1>5, CopySteps, EndsKeepInv DEF Copies
<1>6. ASSUME NEW c \in Ids,
             BluetoothBreaks(c) \/ \E p \in Peers : HandleIncomingConnection(c, p)
      PROVE  Inv'
  BY <1>6, SocketSteps, HandleIncomingConnectionStep
<1> QED
  BY <1>1, <1>2, <1>3, <1>4, <1>5, <1>6 DEF Next

\* Nothing of a connection outlives its removal from the model: what close left
\* open, or a thread would open again, and a monitor that is held while the
\* model's is waited for, are found nowhere.
THEOREM NothingEverOutlives ==
  ASSUME ~Preempts PROVE Spec => []NothingOutlives
<1>1. Spec => []Inv
  <2>1. Init => Inv
    BY InitSound
  <2>2. Inv /\ [Next]_vars => Inv'
    BY StepSound
  <2> QED
    BY <2>1, <2>2, PTL DEF Spec
<1>2. Inv => NothingOutlives
  BY DEF Inv, Sound, ClosedInTime, NothingOutlives, GoneIsClosed, NoDeadlock, Gone, At
<1> QED
  BY <1>1, <1>2, PTL

-----------------------------------------------------------------------------
(* The calls: when no attempt fails to start, the callback of a call is there *)
(* exactly as long as its connection is on its way to a port.              *)

\* What a step that changes connection c has to show.
LEMMA CallsKept ==
  ASSUME Inv, Kept, NEW c \in Ids, Answering(c)',
         \A d \in Ids \ {c} :
           /\ thread'[d].dir = thread[d].dir /\ thread'[d].peer = thread[d].peer
           /\ thread'[d].pc = thread[d].pc /\ thread'[d].callback = thread[d].callback
           /\ (d \in Out' <=> d \in Out) /\ call'[d] = call[d] /\ port'[d] = port[d]
           /\ Awaited(d) => mOutgoingConnectionCallbacks'[thread[d].peer]
                              = mOutgoingConnectionCallbacks[thread[d].peer],
         \A p \in Peers :
           \/ /\ mOutgoingConnectionCallbacks'[p] = mOutgoingConnectionCallbacks[p]
              /\ mOutgoingConnectionCallbacks[p] # c
           \/ mOutgoingConnectionCallbacks'[p] = None
           \/ mOutgoingConnectionCallbacks'[p] = c /\ Awaited(c)' /\ thread'[c].peer = p
  PROVE  Kept'
<1>1. ASSUME NEW d \in Ids \ {c} PROVE Answering(d)' /\ (Awaited(d)' <=> Awaited(d))
  BY DEF Kept, Answering, Awaited
<1>2. \A d \in Ids : Answering(d)'
  BY <1>1
<1>3. ASSUME NEW p \in Peers, mOutgoingConnectionCallbacks'[p] # None
      PROVE  Awaited(mOutgoingConnectionCallbacks[p])'
             /\ thread'[mOutgoingConnectionCallbacks'[p]].peer = p
  <2> DEFINE k == mOutgoingConnectionCallbacks[p]
  <2>1. CASE mOutgoingConnectionCallbacks'[p] = c
    BY <1>3, <2>1, ConnectionAssumption DEF None, Awaited
  <2>2. CASE mOutgoingConnectionCallbacks'[p] # c
    <3>1. mOutgoingConnectionCallbacks'[p] = k /\ k # c
      BY <1>3, <2>2
    <3>2. k \in Ids \ {c} /\ Awaited(k) /\ thread[k].peer = p
      BY <1>3, <3>1 DEF Inv, TypeOK, Kept
    <3>3. /\ thread'[k].dir = thread[k].dir /\ thread'[k].peer = thread[k].peer
          /\ thread'[k].pc = thread[k].pc /\ (k \in Out' <=> k \in Out)
      BY <3>2
    <3> QED
      BY <3>1, <3>2, <3>3 DEF Awaited
  <2> QED
    BY <2>1, <2>2
<1> QED
  BY <1>2, <1>3 DEF Kept

\* A step of a thread that answers no call.
AnswersNobody(c) ==
  /\ UNCHANGED <<Elsewhere, call, port>>
  /\ \A d \in Ids \ {c} : thread'[d] = thread[d]
  /\ thread'[c].dir = thread[c].dir /\ thread'[c].peer = thread[c].peer
  /\ thread'[c].callback = thread[c].callback
  /\ \/ thread'[c].pc = thread[c].pc
     \/ thread[c].pc \in {"added", "started"} /\ thread'[c].pc \in {"started", "bound"}
     \/ thread[c].pc = "started" /\ thread'[c].pc = "ready" /\ thread[c].dir = "in"
     \/ thread[c].pc = "bound" /\ thread'[c].pc = "over" /\ ~thread[c].server
     \/ /\ thread[c].pc \in {"accepting", "accepted", "assigned", "ready", "copying"}
        /\ thread'[c].pc \in {"accepted", "assigned", "ready", "refusing", "copying",
                              "over"}

LEMMA QuietSteps ==
  ASSUME Inv, NEW c \in Ids,
         \/ StartThread(c) \/ Bind(c) \/ NotListening(c) \/ Accept(c) \/ Streams(c)
         \/ NoStreams(c) \/ ConnectsToRouter(c) \/ StartCopying(c)
         \/ NothingToCopy(c) \/ Exit(c)
         \/ \E w \in Ways : InputDone(c, w) \/ CopyingDone(c, w) \/ CopyingFails(c, w)
         \/ BluetoothBreaks(c) \/ AppCloses(c)
         \/ \E k \in Ids : port[k] = c /\ AppConnects(k)
  PROVE  AnswersNobody(c)
<1> DEFINE t == thread[c]
<1>1. thread \in [Ids -> Threads] /\ t \in Threads
  BY DEF Inv, TypeOK
<1>2. CASE StartThread(c)
  BY <1>1, <1>2 DEF StartThread, Is, Elsewhere, Threads, AnswersNobody
<1>3. CASE Bind(c)
  BY <1>1, <1>3 DEF Bind, Moves, Is, Elsewhere, Threads, AnswersNobody
<1>4. CASE NotListening(c)
  BY <1>1, <1>4 DEF NotListening, Moves, Is, Elsewhere, Threads, AnswersNobody
<1>5. CASE Accept(c)
  BY <1>1, <1>5 DEF Accept, Moves, Is, Elsewhere, Threads, AnswersNobody
<1>6. CASE Streams(c)
  BY <1>1, <1>6 DEF Streams, Moves, Is, Elsewhere, Threads, AnswersNobody
<1>7. CASE NoStreams(c)
  BY <1>1, <1>7 DEF NoStreams, Moves, Is, Elsewhere, Threads, AnswersNobody
<1>8. CASE ConnectsToRouter(c)
  BY <1>1, <1>8 DEF ConnectsToRouter, Moves, Is, Elsewhere, Threads, AnswersNobody
<1>9. CASE StartCopying(c)
  BY <1>1, <1>9 DEF StartCopying, Moves, Is, Elsewhere, Threads, AnswersNobody
<1>10. CASE NothingToCopy(c)
  BY <1>1, <1>10 DEF NothingToCopy, Moves, Is, Elsewhere, Threads, AnswersNobody
<1>11. CASE Exit(c)
  BY <1>1, <1>11 DEF Exit, Moves, Is, Elsewhere, Threads, AnswersNobody
<1>12. CASE BluetoothBreaks(c)
  BY <1>1, <1>12 DEF BluetoothBreaks, Moves, Is, Elsewhere, Threads, AnswersNobody
<1>13. CASE AppCloses(c)
  BY <1>1, <1>13 DEF AppCloses, Elsewhere, Threads, AnswersNobody
<1>14. ASSUME NEW k \in Ids, port[k] = c, AppConnects(k) PROVE AnswersNobody(c)
  BY <1>1, <1>14 DEF AppConnects, Is, Elsewhere, Threads, AnswersNobody
<1>15. ASSUME NEW w \in Ways,
              InputDone(c, w) \/ CopyingDone(c, w) \/ CopyingFails(c, w)
       PROVE  AnswersNobody(c)
  <2>1. PICK s \in {t, OutputClosed(t, w)},
             x \in {"end", "done", "telling", "over", "failing"} :
          Moves(c, [s EXCEPT !.copy[w] = x])
    BY <1>15 DEF InputDone, CopyingDone, CopyingFails
  <2>2. OutputClosed(t, w) \in Threads
    BY <1>1 DEF OutputClosed, Threads
  <2>3. LET o == OutputClosed(t, w)
        IN  o.dir = t.dir /\ o.peer = t.peer /\ o.callback = t.callback /\ o.pc = t.pc
    BY <1>1 DEF OutputClosed, Threads
  <2> HIDE DEF t
  <2>4. s \in Threads
        /\ s.dir = t.dir /\ s.peer = t.peer /\ s.callback = t.callback /\ s.pc = t.pc
    BY <1>1, <2>2, <2>3
  <2> QED
    BY <1>1, <2>1, <2>4 DEF Moves, Elsewhere, Threads, t, AnswersNobody
<1> QED
  BY <1>2, <1>3, <1>4, <1>5, <1>6, <1>7, <1>8, <1>9, <1>10, <1>11, <1>12, <1>13,
     <1>14, <1>15

LEMMA QuietStepsKeep ==
  ASSUME Inv, Kept, NEW c \in Ids, AnswersNobody(c)
  PROVE  Kept'
<1>1. UNCHANGED <<mOutgoingSocketThreads, mOutgoingConnectionCallbacks, call, port>>
      /\ Out' = Out
  BY DEF Elsewhere, Out, AnswersNobody
<1>2. Sound(c, thread[c]) /\ Answering(c)
  BY DEF Inv, Kept
<1>3. thread[c].pc = "bound" /\ ~thread[c].server => c \notin Out
  BY <1>2 DEF Sound, ClosedInTime, InModel, Out
<1>4. Awaited(c)' <=> Awaited(c)
  BY <1>1, <1>3 DEF Awaited, AnswersNobody
<1>5. Answering(c)'
  BY <1>1, <1>2, <1>4 DEF Answering, Awaited, AnswersNobody
<1>6. ASSUME NEW p \in Peers, mOutgoingConnectionCallbacks[p] = c
      PROVE  Awaited(c)' /\ thread'[c].peer = p
  <2>1. Awaited(c) /\ thread[c].peer = p
    BY <1>6, ConnectionAssumption DEF Kept, None, Awaited
  <2> QED
    BY <1>4, <2>1 DEF AnswersNobody
<1> QED
  BY <1>1, <1>5, <1>6, CallsKept DEF AnswersNobody

\* A connection that ends before its call was answered is one whose server socket
\* could not be bound: the call is lost.
LEMMA EndsKeepCalls ==
  ASSUME Inv, Kept, NEW c \in Ids,
         \/ BindFails(c) \/ StreamsFail(c) \/ RouterFails(c) \/ Refuse(c)
         \/ \E w \in Ways : Tell(c, w)
  PROVE  Kept'
<1> DEFINE t == thread[c]
           p == t.peer
           k == mOutgoingConnectionCallbacks[p]
<1>1. t \in Threads /\ Sound(c, t) /\ thread \in [Ids -> Threads] /\ Answering(c)
  BY DEF Inv, TypeOK, Kept
<1>2. PICK u \in Threads :
        /\ Disconnected(c, [thread EXCEPT ![c] = u])
        /\ u.dir = t.dir /\ u.peer = t.peer /\ u.callback = t.callback
        /\ u.twin = t.twin
        /\ t.pc \notin Begins /\ ~Spent(c)
        /\ \/ u.pc \in {"over", "copying"}
           \/ u.pc = "unbound" /\ u.dir = "out" /\ c \in InModel
        /\ u.pc = "unbound" => \A w \in Ways : u.copy[w] = "none"
        /\ c \notin InModel => Sound(c, u)
        /\ u.pc = "unbound" => t.pc = "started"
        /\ u.pc # "unbound" =>
             t.dir = "in" \/ t.pc \in {"assigned", "refusing", "copying", "over"}
  BY EndsStep
<1>3. /\ Out' = Out \ {c} /\ port' = port
      /\ thread' = [thread EXCEPT ![c] = IF c \in InModel THEN Closed(u) ELSE u]
      /\ c \notin Out => UNCHANGED <<mOutgoingConnectionCallbacks, call>>
      /\ c \in Out => /\ mOutgoingConnectionCallbacks' =
                           [mOutgoingConnectionCallbacks EXCEPT ![p] = None]
                      /\ call' = IF k # None THEN [call EXCEPT ![k] = "lost"] ELSE call
  BY <1>2, DisconnectedStep
<1>4. /\ thread'[c].pc = u.pc /\ thread'[c].dir = t.dir /\ thread'[c].peer = p
      /\ thread'[c].callback = t.callback
      /\ \A d \in Ids \ {c} : thread'[d] = thread[d] /\ (d \in Out' <=> d \in Out)
  BY <1>1, <1>2, <1>3, ClosedIs
<1>5. ~Awaited(c)' /\ thread'[c].pc # "accepting"
  BY <1>1, <1>2, <1>3, <1>4 DEF Awaited, Sound
<1>6. CASE c \notin Out
  <2>1. ~Awaited(c) /\ UNCHANGED <<mOutgoingConnectionCallbacks, call, port>>
    BY <1>2, <1>3, <1>6 DEF Awaited, Begins
  <2>2. t.pc = "unbound" => t.dir = "out"
    BY <1>1 DEF Sound
  <2>3. u.pc # "unbound"
    BY <1>1, <1>2, <1>6 DEF Sound, InModel, Out
  <2>4. call[c] # "lost"
    BY <1>1, <1>2, <2>2, <2>3 DEF Answering
  <2>5. Answering(c)'
    BY <1>1, <1>5, <2>1, <2>4 DEF Answering
  <2>6. \A q \in Peers : mOutgoingConnectionCallbacks[q] # c
    BY <2>1, ConnectionAssumption DEF Kept, None, Awaited
  <2> QED
    BY <1>4, <2>1, <2>5, <2>6, CallsKept
<1>7. ASSUME c \in Out PROVE Active(c) /\ t.dir = "out" /\ p \in Peers
  BY <1>1, <1>7 DEF Active, Setup, Sound
<1>8. ASSUME c \in Out, NEW d \in Ids \ {c}, Awaited(d) PROVE thread[d].peer # p
  BY <1>7, <1>8, OnlyOneActive DEF Awaited, Active, Setup
<1>9. CASE c \in Out /\ u.pc = "unbound"
  <2>1. Awaited(c) /\ k = c /\ t.callback = c
    BY <1>1, <1>2, <1>7, <1>9 DEF Awaited, Answering
  <2>2. call' = [call EXCEPT ![c] = "lost"]
    BY <1>3, <1>9, <2>1, ConnectionAssumption DEF None
  <2>3. call'[c] = "lost" /\ \A d \in Ids \ {c} : call'[d] = call[d]
    BY <2>2 DEF Inv, TypeOK
  <2>4. Answering(c)'
    BY <1>4, <1>5, <1>9, <2>1, <2>3 DEF Answering
  <2>5. \A q \in Peers : \/ mOutgoingConnectionCallbacks'[q] = None
                         \/ /\ mOutgoingConnectionCallbacks'[q]
                                 = mOutgoingConnectionCallbacks[q]
                            /\ mOutgoingConnectionCallbacks[q] # c
    BY <1>3, <1>9, ConnectionAssumption DEF Inv, TypeOK, Kept, None
  <2>6. \A d \in Ids \ {c} :
          Awaited(d) => mOutgoingConnectionCallbacks'[thread[d].peer]
                          = mOutgoingConnectionCallbacks[thread[d].peer]
    BY <1>3, <1>8, <1>9 DEF Inv, TypeOK, Sound, Awaited
  <2> QED
    BY <1>3, <1>4, <2>3, <2>4, <2>5, <2>6, CallsKept
<1>10. CASE c \in Out /\ u.pc # "unbound"
  <2>1. ~Awaited(c) /\ call[c] # "lost"
    BY <1>1, <1>2, <1>7, <1>10 DEF Awaited, Answering
  <2>2. k = None
    <3>1. ASSUME k # None PROVE FALSE
      <4>1. k \in Ids /\ Awaited(k) /\ thread[k].peer = p
        BY <1>7, <1>10, <3>1 DEF Kept, Inv, TypeOK
      <4>2. k # c
        BY <2>1, <4>1
      <4> QED
        BY <1>8, <1>10, <4>1, <4>2
    <3> QED
      BY <3>1
  <2>3. call' = call /\ mOutgoingConnectionCallbacks' = mOutgoingConnectionCallbacks
    BY <1>3, <1>7, <1>10, <2>2 DEF Inv, TypeOK
  <2>4. Answering(c)'
    BY <1>1, <1>5, <2>1, <2>3 DEF Answering
  <2>5. \A q \in Peers : mOutgoingConnectionCallbacks[q] # c
    BY <2>1, ConnectionAssumption DEF Kept, None, Awaited
  <2> QED
    BY <1>3, <1>4, <2>3, <2>4, <2>5, CallsKept
<1> QED
  BY <1>6, <1>9, <1>10

LEMMA ListeningKeepsCalls ==
  ASSUME Inv, Kept, NEW c \in Ids, Listening(c)
  PROVE  Kept'
<1> DEFINE t == thread[c]
           p == t.peer
<1>1. t \in Threads /\ Sound(c, t) /\ thread \in [Ids -> Threads] /\ Answering(c)
      /\ call \in [Ids -> Answers] /\ port \in [Ids -> Ids \cup {None}]
      /\ mOutgoingConnectionCallbacks \in [Peers -> Ids \cup {None}]
  BY DEF Inv, TypeOK, Kept, Answers
<1>2. t.pc = "bound" /\ t.server
  BY DEF Listening, Is
<1>3. c \in Out /\ Active(c) /\ p \in Peers /\ t.dir = "out"
  BY <1>1, <1>2 DEF Sound, ClosedInTime, InModel, Out, Active, Setup
<1>4. Awaited(c) /\ t.callback = c /\ call[c] = "waiting" /\ c # None
  BY <1>1, <1>2, <1>3, ConnectionAssumption DEF Awaited, Answering, None
<1>5. /\ call' = Heard(call, c, "port") /\ port' = [port EXCEPT ![c] = c]
      /\ mOutgoingConnectionCallbacks' = [mOutgoingConnectionCallbacks EXCEPT ![p] = None]
      /\ thread' = [thread EXCEPT ![c].pc = "accepting"]
      /\ mOutgoingSocketThreads' = mOutgoingSocketThreads
  BY <1>4 DEF Listening
<1>6. call' = [call EXCEPT ![c] = "port"]
  BY <1>1, <1>4, <1>5 DEF Heard
<1>7. thread'[c].pc = "accepting" /\ \A d \in Ids \ {c} : thread'[d] = thread[d]
  BY <1>1, <1>5 DEF Threads
<1>8. /\ call'[c] = "port" /\ port'[c] = c /\ Out' = Out
      /\ \A d \in Ids \ {c} : call'[d] = call[d] /\ port'[d] = port[d]
  BY <1>1, <1>5, <1>6 DEF Out
<1>9. Answering(c)'
  BY <1>3, <1>7, <1>8 DEF Answering, Awaited
<1>10. \A q \in Peers : \/ mOutgoingConnectionCallbacks'[q] = None
                        \/ /\ mOutgoingConnectionCallbacks'[q]
                                = mOutgoingConnectionCallbacks[q]
                           /\ mOutgoingConnectionCallbacks[q] # c
  BY <1>1, <1>4, <1>5 DEF Kept
<1>11. ASSUME NEW d \in Ids \ {c}, Awaited(d)
       PROVE  mOutgoingConnectionCallbacks'[thread[d].peer]
                = mOutgoingConnectionCallbacks[thread[d].peer]
  <2>1. Active(d) /\ thread[d].peer \in Peers
    BY <1>11 DEF Awaited, Active, Setup, Inv, Sound
  <2> QED
    BY <1>1, <1>3, <1>5, <2>1, OnlyOneActive
<1> QED
  BY <1>7, <1>8, <1>9, <1>10, <1>11, CallsKept

LEMMA ConnectionFailsKeepsCalls ==
  ASSUME Inv, Kept, NEW c \in Ids, ConnectionFails(c)
  PROVE  Kept'
<1> DEFINE t == thread[c]
           p == t.peer
<1>1. t \in Threads /\ Sound(c, t) /\ thread \in [Ids -> Threads] /\ Answering(c)
      /\ call \in [Ids -> Answers]
      /\ mOutgoingConnectionCallbacks \in [Peers -> Ids \cup {None}]
  BY DEF Inv, TypeOK, Kept, Answers
<1>2. t.pc = "connecting" /\ t.dir = "out" /\ p \in Peers /\ c \notin Out
      /\ Active(c)
  BY <1>1 DEF ConnectionFails, Is, Sound, Active, InModel, Out
<1>4. Awaited(c) /\ mOutgoingConnectionCallbacks[p] = c /\ call[c] = "waiting" /\ c # None
  BY <1>1, <1>2, ConnectionAssumption DEF Awaited, Answering, None
<1>5. /\ call' = Heard(call, c, "error")
      /\ mOutgoingConnectionCallbacks' = [mOutgoingConnectionCallbacks EXCEPT ![p] = None]
      /\ thread' = [thread EXCEPT ![c].pc = "over"]
      /\ UNCHANGED <<mOutgoingSocketThreads, port>>
  BY <1>4 DEF ConnectionFails
<1>6. call' = [call EXCEPT ![c] = "error"]
  BY <1>1, <1>4, <1>5 DEF Heard
<1>7. thread'[c].pc = "over" /\ \A d \in Ids \ {c} : thread'[d] = thread[d]
  BY <1>1, <1>5 DEF Threads
<1>8. call'[c] = "error" /\ Out' = Out /\ \A d \in Ids \ {c} : call'[d] = call[d]
  BY <1>1, <1>5, <1>6 DEF Out
<1>9. Answering(c)'
  BY <1>2, <1>7, <1>8 DEF Answering, Awaited
<1>10. \A q \in Peers : \/ mOutgoingConnectionCallbacks'[q] = None
                        \/ /\ mOutgoingConnectionCallbacks'[q]
                                = mOutgoingConnectionCallbacks[q]
                           /\ mOutgoingConnectionCallbacks[q] # c
  BY <1>1, <1>4, <1>5 DEF Kept
<1>11. ASSUME NEW d \in Ids \ {c}, Awaited(d)
       PROVE  mOutgoingConnectionCallbacks'[thread[d].peer]
                = mOutgoingConnectionCallbacks[thread[d].peer]
  <2>1. Active(d) /\ thread[d].peer \in Peers
    BY <1>11 DEF Awaited, Active, Setup, Inv, Sound
  <2> QED
    BY <1>1, <1>2, <1>5, <2>1, OnlyOneActive
<1> QED
  BY <1>5, <1>7, <1>8, <1>9, <1>10, <1>11, CallsKept

LEMMA AddConnectionThreadKeepsCalls ==
  ASSUME Inv, Kept, NEW c \in Ids, AddConnectionThread(c)
  PROVE  Kept'
<1> DEFINE t == thread[c]
           list == mOutgoingSocketThreads
<1>1. t \in Threads /\ thread \in [Ids -> Threads] /\ list \in Seq(Ids)
      /\ Answering(c)
  BY DEF Inv, TypeOK, Kept
<1>2. t.pc = "made" /\ c \notin mIncomingSocketThreads
  BY DEF AddConnectionThread, Is, Inv, Sound, InModel
<1>3. UNCHANGED <<mOutgoingConnectionCallbacks, call, port>>
  BY <1>2, AddedIs DEF Inv
<1>4. /\ thread'[c].pc = "added" /\ thread'[c].dir = t.dir /\ thread'[c].peer = t.peer
      /\ thread'[c].callback = t.callback
      /\ \A d \in Ids \ {c} :
           /\ thread'[d].dir = thread[d].dir /\ thread'[d].peer = thread[d].peer
           /\ thread'[d].pc = thread[d].pc /\ thread'[d].callback = thread[d].callback
  BY <1>1, <1>2, AddedIs, MarkedIs DEF Inv
<1>5. /\ t.dir = "out" => c \in Out'
      /\ \A d \in Ids \ {c} : d \in Out' <=> d \in Out
  <2>1. CASE t.dir = "out"
    <3>1. mOutgoingSocketThreads' = Append(list, c)
      BY <2>1 DEF AddConnectionThread
    <3>2. /\ \A i \in 1 .. Len(list) : Append(list, c)[i] = list[i]
          /\ Append(list, c)[Len(list) + 1] = c
          /\ DOMAIN list = 1 .. Len(list) /\ Len(list) \in Nat
          /\ DOMAIN Append(list, c) = 1 .. Len(list) + 1
      BY <1>1
    <3> QED
      BY <3>1, <3>2 DEF Out, ToSet
  <2>2. CASE t.dir # "out"
    BY <2>2 DEF AddConnectionThread, Out
  <2> QED
    BY <2>1, <2>2
<1>6. Awaited(c)' <=> Awaited(c)
  BY <1>2, <1>4, <1>5 DEF Awaited
<1>7. Answering(c)'
  BY <1>1, <1>2, <1>3, <1>4, <1>6 DEF Answering
<1>8. ASSUME NEW p \in Peers, mOutgoingConnectionCallbacks[p] = c
      PROVE  Awaited(c)' /\ thread'[c].peer = p
  <2>1. Awaited(c) /\ thread[c].peer = p
    BY <1>8, ConnectionAssumption DEF Kept, None, Awaited
  <2> QED
    BY <1>4, <1>6, <2>1
<1> QED
  BY <1>3, <1>4, <1>5, <1>7, <1>8, CallsKept

LEMMA HandleOutgoingConnectionKeepsCalls ==
  ASSUME Inv, Kept, NEW c \in Ids, HandleOutgoingConnection(c)
  PROVE  Kept'
<1> DEFINE t == thread[c]
<1>1. t \in Threads /\ Sound(c, t) /\ thread \in [Ids -> Threads] /\ Answering(c)
  BY DEF Inv, TypeOK, Kept
<1>2. t.pc = "connecting" /\ t.dir = "out" /\ t.peer \in Peers
  BY <1>1 DEF HandleOutgoingConnection, Is, Sound
<1>3. Awaited(c) /\ mOutgoingConnectionCallbacks[t.peer] = c
  BY <1>1, <1>2 DEF Awaited, Answering
<1>4. /\ thread' = [thread EXCEPT ![c] =
                      [@ EXCEPT !.dir = "out", !.peer = t.peer, !.pc = "made",
                                !.bluetooth = TRUE, !.callback = c]]
      /\ UNCHANGED <<mOutgoingSocketThreads, mOutgoingConnectionCallbacks, call, port>>
  BY <1>3 DEF HandleOutgoingConnection, OnConnected
<1>5. /\ thread'[c].pc = "made" /\ thread'[c].dir = "out" /\ thread'[c].peer = t.peer
      /\ thread'[c].callback = c
      /\ \A d \in Ids \ {c} : thread'[d] = thread[d]
  BY <1>1, <1>4 DEF Threads
<1>6. Awaited(c)' /\ Out' = Out
  BY <1>4, <1>5 DEF Awaited, Out
<1>7. Answering(c)'
  BY <1>1, <1>3, <1>4, <1>5, <1>6 DEF Answering
<1>8. ASSUME NEW p \in Peers, mOutgoingConnectionCallbacks[p] = c
      PROVE  thread'[c].peer = p
  BY <1>5, <1>8, ConnectionAssumption DEF Kept, None, Awaited
<1> QED
  BY <1>4, <1>5, <1>6, <1>7, <1>8, CallsKept

LEMMA HandleIncomingConnectionKeepsCalls ==
  ASSUME Inv, Kept, NEW c \in Ids, NEW p \in Peers, HandleIncomingConnection(c, p)
  PROVE  Kept'
<1> DEFINE t == thread[c]
<1>1. t \in Threads /\ Sound(c, t) /\ thread \in [Ids -> Threads] /\ Answering(c)
  BY DEF Inv, TypeOK, Kept
<1>2. t.pc = "none" /\ t.dir = "none" /\ ~Awaited(c)
  BY <1>1 DEF HandleIncomingConnection, Fresh, Sound, Awaited
<1>4. /\ thread' = [thread EXCEPT ![c] =
                      [@ EXCEPT !.dir = "in", !.peer = p, !.pc = "made",
                                !.bluetooth = TRUE, !.callback = None]]
      /\ UNCHANGED <<mOutgoingSocketThreads, mOutgoingConnectionCallbacks, call, port>>
  BY DEF HandleIncomingConnection, OnConnected
<1>5. /\ thread'[c].pc = "made" /\ thread'[c].dir = "in"
      /\ \A d \in Ids \ {c} : thread'[d] = thread[d]
  BY <1>1, <1>4 DEF Threads
<1>6. ~Awaited(c)' /\ Out' = Out
  BY <1>4, <1>5 DEF Awaited, Out
<1>7. Answering(c)'
  BY <1>1, <1>2, <1>4, <1>5, <1>6 DEF Answering
<1>8. \A q \in Peers : mOutgoingConnectionCallbacks[q] # c
  BY <1>2, ConnectionAssumption DEF Kept, None
<1> QED
  BY <1>4, <1>5, <1>6, <1>7, <1>8, CallsKept

LEMMA ConnectKeepsCalls ==
  ASSUME "start" \notin Faults, Inv, Kept, NEW c \in Ids, NEW p \in Peers,
         Connect(c, p)
  PROVE  Kept'
<1> DEFINE t == thread[c]
<1>1. t \in Threads /\ Sound(c, t) /\ thread \in [Ids -> Threads] /\ Answering(c)
      /\ call \in [Ids -> Answers]
      /\ mOutgoingConnectionCallbacks \in [Peers -> Ids \cup {None}]
  BY DEF Inv, TypeOK, Kept, Answers
<1>2. t.pc = "none" /\ t.dir = "none" /\ ~Awaited(c) /\ c \notin Out
  BY <1>1 DEF Connect, Fresh, Sound, Awaited, InModel, Out
<1>3. PICK result \in {"refused", "begins"} :
        /\ result = "begins" => ~Busy(p)
        /\ call' = [call EXCEPT ![c] = IF result = "begins" THEN "waiting" ELSE "error"]
        /\ thread' = [thread EXCEPT ![c] =
             [@ EXCEPT !.dir = "out", !.peer = p,
                       !.pc = IF result = "begins" THEN "connecting" ELSE "over"]]
        /\ mOutgoingConnectionCallbacks' =
             [mOutgoingConnectionCallbacks EXCEPT ![p] =
                IF result = "refused" THEN @ ELSE c]
        /\ UNCHANGED <<mOutgoingSocketThreads, port>>
  BY DEF Connect
<1>4. /\ \A d \in Ids \ {c} : thread'[d] = thread[d] /\ call'[d] = call[d]
      /\ thread'[c].dir = "out" /\ thread'[c].peer = p /\ Out' = Out
  BY <1>1, <1>3 DEF Threads, Out
<1>5. CASE result = "begins"
  <2>1. thread'[c].pc = "connecting" /\ call'[c] = "waiting"
        /\ mOutgoingConnectionCallbacks'[p] = c
    BY <1>1, <1>3, <1>5 DEF Threads
  <2>2. Awaited(c)'
    BY <1>4, <2>1 DEF Awaited
  <2>3. Answering(c)'
    BY <1>4, <2>1, <2>2 DEF Answering
  <2>4. ASSUME NEW d \in Ids \ {c}, Awaited(d)
        PROVE  mOutgoingConnectionCallbacks'[thread[d].peer]
                 = mOutgoingConnectionCallbacks[thread[d].peer]
    <3>1. Active(d) /\ thread[d].peer \in Peers
      BY <2>4 DEF Awaited, Active, Setup, Inv, Sound
    <3>2. thread[d].peer # p
      BY <1>3, <1>5, <3>1, NotBusy
    <3> QED
      BY <1>1, <1>3, <3>1, <3>2
  <2>5. \A q \in Peers :
          \/ /\ mOutgoingConnectionCallbacks'[q] = mOutgoingConnectionCallbacks[q]
             /\ mOutgoingConnectionCallbacks[q] # c
          \/ mOutgoingConnectionCallbacks'[q] = c /\ thread'[c].peer = q
    BY <1>1, <1>2, <1>3, <1>4, <1>5, ConnectionAssumption DEF Kept, None
  <2> QED
    BY <1>3, <1>4, <2>2, <2>3, <2>4, <2>5, CallsKept
<1>6. CASE result = "refused"
  <2>1. thread'[c].pc = "over" /\ call'[c] = "error"
        /\ mOutgoingConnectionCallbacks' = mOutgoingConnectionCallbacks
    BY <1>1, <1>3, <1>6 DEF Threads
  <2>2. ~Awaited(c)'
    BY <1>2, <1>4, <2>1 DEF Awaited
  <2>3. Answering(c)'
    BY <1>4, <2>1, <2>2 DEF Answering
  <2>4. \A q \in Peers : mOutgoingConnectionCallbacks[q] # c
    BY <1>2, ConnectionAssumption DEF Kept, None
  <2> QED
    BY <1>3, <1>4, <2>1, <2>3, <2>4, CallsKept
<1> QED
  BY <1>5, <1>6

LEMMA StopKeepsCalls ==
  ASSUME ~Preempts, Inv, Kept, Stop
  PROVE  Kept'
<1>1. /\ thread \in [Ids -> Threads] /\ call \in [Ids -> Answers]
      /\ \A c \in Ids : Sound(c, thread[c]) /\ Answering(c)
  BY DEF Inv, TypeOK, Kept, Answers
<1>2. \A c \in Ids : thread[c].pc \notin {"made", "added", "started", "accepted"}
  BY DEF Stop, Undisturbed, At
<1>3. thread' = [c \in Ids |-> CASE c \in Out -> Closed(thread[c])
                                 [] c \in At("connecting") ->
                                      [thread[c] EXCEPT !.pc = "over"]
                                 [] OTHER -> thread[c]]
  BY DEF Stop, Out
<1>4. /\ mOutgoingSocketThreads' = <<>>
      /\ mOutgoingConnectionCallbacks' = [p \in Peers |-> None]
      /\ call' = [c \in Ids |-> IF call[c] = "waiting" THEN "dropped" ELSE call[c]]
      /\ port' = port
  BY DEF Stop
<1>5. Out' = {}
  BY <1>4 DEF Out, ToSet
<1>6. ASSUME NEW c \in Ids PROVE Answering(c)'
  <2> DEFINE t == thread[c]
  <2>1. c \in At("connecting") <=> t.pc = "connecting"
    BY DEF At
  <2>2. thread'[c] = CASE c \in Out -> Closed(t)
                       [] c \in At("connecting") -> [t EXCEPT !.pc = "over"]
                       [] OTHER -> t
    BY <1>3, Zenon
  <2>3. ASSUME c \in Out PROVE c \notin At("connecting")
    BY <1>1, <2>1, <2>3 DEF Sound, InModel, Out
  <2>4. t \in Threads
    BY <1>1
  <2>5. Closed(t).pc = t.pc /\ Closed(t).callback = t.callback
    <3> HIDE DEF t
    <3> QED
      BY <2>4, ClosedIs
  <2>6. /\ thread'[c].pc = IF t.pc = "connecting" THEN "over" ELSE t.pc
        /\ thread'[c].callback = t.callback
    <3>1. CASE c \in Out
      <4>1. thread'[c] = Closed(t) /\ t.pc # "connecting"
        BY <2>1, <2>2, <2>3, <3>1
      <4> QED
        BY <2>5, <4>1
    <3>2. CASE c \notin Out /\ t.pc = "connecting"
      <4>1. thread'[c] = [t EXCEPT !.pc = "over"]
        BY <2>1, <2>2, <3>2
      <4> QED
        BY <2>4, <3>2, <4>1 DEF Threads
    <3>3. CASE c \notin Out /\ t.pc # "connecting"
      BY <2>1, <2>2, <3>3
    <3> QED
      BY <3>1, <3>2, <3>3
  <2>7. ~Awaited(c)'
    BY <1>2, <1>5, <2>6 DEF Awaited
  <2>8. /\ call'[c] # "waiting" /\ call'[c] # "twice"
        /\ call'[c] = "lost" => call[c] = "lost"
    BY <1>1, <1>4 DEF Answering
  <2> QED
    BY <1>1, <1>4, <2>6, <2>7, <2>8 DEF Answering
<1> QED
  BY <1>4, <1>6 DEF Kept

LEMMA StepKeepsCalls ==
  ASSUME ~Preempts, "start" \notin Faults, Inv, Kept, [Next]_vars
  PROVE  Kept'
<1>1. CASE UNCHANGED vars
  BY <1>1 DEF vars, Kept, Answering, Awaited, Out
<1>2. CASE Stop
  BY <1>2, StopKeepsCalls
<1>3. ASSUME NEW c \in Ids, NEW p \in Peers, Connect(c, p) PROVE Kept'
  BY <1>3, ConnectKeepsCalls
<1>4. ASSUME NEW c \in Ids, Library(c) \/ Runs(c) PROVE Kept'
  BY <1>4, ConnectionFailsKeepsCalls, HandleOutgoingConnectionKeepsCalls,
     AddConnectionThreadKeepsCalls, QuietSteps, QuietStepsKeep, EndsKeepCalls,
     ListeningKeepsCalls
     DEF Library, Runs
<1>5. ASSUME NEW k \in Ids, AppConnects(k) PROVE Kept'
  <2>1. port[k] \in Ids
    BY <1>5 DEF AppConnects, Inv, TypeOK
  <2> QED
    BY <1>5, <2>1, QuietSteps, QuietStepsKeep
<1>6. ASSUME NEW c \in Ids, NEW w \in Ways, Copies(c, w) PROVE Kept'
  BY <1>6, QuietSteps, QuietStepsKeep, EndsKeepCalls DEF Copies
<1>7. ASSUME NEW c \in Ids, BluetoothBreaks(c) \/ AppCloses(c) PROVE Kept'
  BY <1>7, QuietSteps, QuietStepsKeep
<1>8. ASSUME NEW c \in Ids, NEW p \in Peers, HandleIncomingConnection(c, p)
      PROVE  Kept'
  BY <1>8, HandleIncomingConnectionKeepsCalls
<1> QED
  BY <1>1, <1>2, <1>3, <1>4, <1>5, <1>6, <1>7, <1>8 DEF Next, JavaScript

LEMMA InitKeepsCalls == Init => Kept
<1> SUFFICES ASSUME Init PROVE Kept
  OBVIOUS
<1>1. \A c \in Ids : thread[c].dir = "none" /\ thread[c].pc = "none" /\ call[c] = "none"
  BY DEF Init, NoThread
<1>2. \A p \in Peers : mOutgoingConnectionCallbacks[p] = None
  BY DEF Init
<1> QED
  BY <1>1, <1>2 DEF Kept, Answering, Awaited

LEMMA KeptMeans == Inv /\ Kept => CallsAreKept
<1> SUFFICES ASSUME Inv, Kept PROVE CallsAreKept
  OBVIOUS
<1>1. \A p \in Peers : LET k == mOutgoingConnectionCallbacks[p]
                       IN  k # None => call[k] = "waiting"
  BY DEF Kept, Answering, Inv, TypeOK
<1>2. \A k \in Ids : call[k] = "waiting" =>
                       mOutgoingConnectionCallbacks[thread[k].peer] = k
  BY DEF Kept, Answering
<1>3. \A k \in Ids : call[k] = "lost" => \E c \in At("unbound") : thread[c].callback = k
  BY DEF Kept, Answering, At
<1>4. AnsweredOnce
  BY DEF Kept, Answering, AnsweredOnce
<1>5. \A c \in At("accepting") \cap InModel : \E k \in Ids : port[k] = c
  BY DEF Kept, Answering, At
<1>6. ASSUME NEW i \in DOMAIN mOutgoingSocketThreads,
             NEW j \in DOMAIN mOutgoingSocketThreads,
             thread[mOutgoingSocketThreads[i]].peer = thread[mOutgoingSocketThreads[j]].peer
      PROVE  i = j
  <2> DEFINE c == mOutgoingSocketThreads[i]
             d == mOutgoingSocketThreads[j]
  <2>1. c \in Out /\ d \in Out /\ c \in Ids /\ d \in Ids
    BY DEF Out, ToSet, Inv, TypeOK
  <2>2. Active(c) /\ Active(d)
    BY <2>1 DEF Active, Setup, Inv, Sound
  <2> HIDE DEF c, d
  <2>3. c = d
    BY <1>6, <2>1, <2>2, OnlyOneActive DEF c, d
  <2> QED
    BY <2>3 DEF Inv, NoneTwice, c, d
<1> QED
  BY <1>1, <1>2, <1>3, <1>4, <1>5, <1>6
     DEF CallsAreKept, CallbackIsAwaited, ConnectionIsKnown, Inv

\* No call of connect is answered twice or forgotten, and no callback stays, where
\* no attempt fails to start: whichever of the library, the threads of earlier and
\* later connections and a stop comes first.
THEOREM CallsAreAlwaysKept ==
  ASSUME ~Preempts, "start" \notin Faults PROVE Spec => []CallsAreKept
<1>1. Init => Inv /\ Kept
  BY InitSound, InitKeepsCalls
<1>2. Inv /\ Kept /\ [Next]_vars => Inv' /\ Kept'
  BY StepSound, StepKeepsCalls
<1>3. Inv /\ Kept => CallsAreKept
  BY KeptMeans
<1> QED
  BY <1>1, <1>2, <1>3, PTL DEF Spec

-----------------------------------------------------------------------------
(* What holds whoever is overtaken, and whatever fails: the types, and     *)
(* that no two threads wait for each other's monitors.                     *)

\* What a connection in the model is: not one that is about to refuse, or will be.
Fits(t) == /\ t.pc \notin Begins \cup {"refusing"}
           /\ t.pc = "ready" => t.local # "null"
\* And what one that is not there yet is.
Starts(t) == /\ t.pc = "connecting" => t.peer \in Peers
             /\ t.pc = "made" => t.dir # "none"
             /\ t.pc \notin {"copying", "over"} => \A w \in Ways : t.copy[w] = "none"
Members ==
  /\ \A c \in Out : thread[c].dir = "out" /\ Fits(thread[c])
  /\ \A c \in mIncomingSocketThreads : thread[c].dir = "in" /\ Fits(thread[c])
  /\ \A c \in Ids : Starts(thread[c])
MembersInv == TypeOK /\ NoneTwice /\ Members

LEMMA MembersStay ==
  ASSUME MembersInv, TypeOK', NoneTwice', Out' \subseteq Out,
         mIncomingSocketThreads' \subseteq mIncomingSocketThreads,
         \A c \in Out' \cup mIncomingSocketThreads' :
           /\ thread'[c].dir = thread[c].dir
           /\ Fits(thread[c]) => Fits(thread'[c]),
         \A c \in Ids : Starts(thread[c]) => Starts(thread'[c])
  PROVE  MembersInv'
BY DEF MembersInv, Members, Fits

\* Steps that leave the model alone.
LEMMA MembersMove ==
  ASSUME MembersInv, NEW c \in Ids, NEW u \in Threads,
         thread' = [thread EXCEPT ![c] = u],
         UNCHANGED <<mOutgoingSocketThreads, mIncomingSocketThreads>>,
         mOutgoingConnectionCallbacks' \in [Peers -> Ids \cup {None}],
         call' \in [Ids -> Answers], port' \in [Ids -> Ids \cup {None}],
         u.dir = thread[c].dir \/ thread[c].pc \in Begins,
         Fits(thread[c]) => Fits(u), Starts(thread[c]) => Starts(u)
  PROVE  MembersInv'
<1>1. thread \in [Ids -> Threads] /\ TypeOK /\ Members
      /\ Out \subseteq Ids /\ mIncomingSocketThreads \subseteq Ids
  BY DEF MembersInv, TypeOK, Out, ToSet
<1>2. TypeOK' /\ NoneTwice' /\ Out' = Out
  BY <1>1 DEF MembersInv, TypeOK, Answers, NoneTwice, Out
<1>3. ASSUME NEW d \in Out \cup mIncomingSocketThreads
      PROVE  /\ thread'[d].dir = thread[d].dir
             /\ Fits(thread[d]) => Fits(thread'[d])
  <2>1. d # c => thread'[d] = thread[d]
    BY <1>1
  <2>2. d = c => thread'[d] = u /\ thread[c].pc \notin Begins
    BY <1>1 DEF Members, Fits
  <2> QED
    BY <2>1, <2>2
<1>4. \A d \in Ids : Starts(thread[d]) => Starts(thread'[d])
  BY <1>1
<1> QED
  BY <1>2, <1>3, <1>4, MembersStay

\* A connection leaves the model, c's own or another one to its peer.
LEMMA MembersLeave ==
  ASSUME MembersInv, NEW c \in Ids, NEW u \in Threads,
         Disconnected(c, [thread EXCEPT ![c] = u]),
         u.dir = thread[c].dir, u.pc # "ready",
         Fits(thread[c]) => Fits(u), Starts(thread[c]) => Starts(u)
  PROVE  MembersInv'
<1> DEFINE th == [thread EXCEPT ![c] = u]
           p == thread[c].peer
           i == FindSocketThread(p)
           list == mOutgoingSocketThreads
<1>1. thread \in [Ids -> Threads] /\ TypeOK /\ Members /\ NoneTwice
      /\ Out \subseteq Ids /\ mIncomingSocketThreads \subseteq Ids
      /\ list \in Seq(Ids)
  BY DEF MembersInv, TypeOK, Out, ToSet
<1>2. th \in [Ids -> Threads]
  BY <1>1
<1>3. \A d \in Ids : /\ th[d].dir = thread[d].dir
                     /\ Fits(thread[d]) => Fits(th[d])
                     /\ Starts(thread[d]) => Starts(th[d])
  <2>1. ASSUME NEW d \in Ids PROVE th[d] = IF d = c THEN u ELSE thread[d]
    BY <1>1
  <2> HIDE DEF th
  <2> QED
    BY <2>1
<1> HIDE DEF th
<1>4. CASE thread' = th
           /\ UNCHANGED <<mOutgoingSocketThreads, mIncomingSocketThreads,
                          mOutgoingConnectionCallbacks, call, port>>
  <2>1. TypeOK' /\ NoneTwice' /\ Out' = Out
    BY <1>1, <1>2, <1>4 DEF TypeOK, NoneTwice, Out
  <2> QED
    BY <1>1, <1>3, <1>4, <2>1, MembersStay
<1>5. CASE thread[c].dir = "out" /\ i # 0
  <2> DEFINE d == list[i]
             k == mOutgoingConnectionCallbacks[p]
  <2>1. i \in 1 .. Len(list) /\ d \in Out /\ d \in Ids
    BY <1>1, <1>5, PlaceFound
  <2>2. /\ thread' = [th EXCEPT ![d] = Closed(@)]
        /\ mOutgoingSocketThreads' = RemoveAt(list, i)
        /\ mOutgoingConnectionCallbacks' =
             [mOutgoingConnectionCallbacks EXCEPT ![p] = None]
        /\ call' = IF k # None THEN [call EXCEPT ![k] = "lost"] ELSE call
        /\ UNCHANGED <<mIncomingSocketThreads, port>>
    BY <1>5 DEF Disconnected, CloseAndRemoveOutgoing, th
  <2>3. /\ mOutgoingSocketThreads' \in Seq(Ids) /\ NoneTwice'
        /\ Out' = Out \ {d}
    <3> HIDE DEF i
    <3> QED
      BY <1>1, <2>1, <2>2, RemovedFromSeq DEF NoneTwice, Out
  <2>4. d \notin mIncomingSocketThreads
    BY <1>1, <2>1 DEF Members
  <2> HIDE DEF d, list
  <2>5. /\ thread' \in [Ids -> Threads] /\ \A e \in Ids \ {d} : thread'[e] = th[e]
        /\ Starts(th[d]) => Starts(thread'[d])
    <3>1. Closed(th[d]) \in Threads /\ (Starts(th[d]) => Starts(Closed(th[d])))
      BY <1>2, <2>1, ClosedIs DEF Starts
    <3> QED
      BY <1>2, <2>1, <2>2, <3>1
  <2>6. TypeOK'
    BY <1>1, <2>2, <2>3, <2>5 DEF TypeOK
  <2> QED
    BY <1>1, <1>3, <2>2, <2>3, <2>4, <2>5, <2>6, MembersStay
<1>6. CASE /\ thread' = [th EXCEPT ![c] = Closed(@)]
           /\ mIncomingSocketThreads' \subseteq mIncomingSocketThreads
           /\ thread[c].dir = "in"
           /\ UNCHANGED <<mOutgoingSocketThreads, mOutgoingConnectionCallbacks,
                          call, port>>
  <2>1. /\ thread' \in [Ids -> Threads] /\ \A e \in Ids \ {c} : thread'[e] = th[e]
        /\ Starts(th[c]) => Starts(thread'[c])
        /\ thread'[c].dir = th[c].dir /\ (Fits(th[c]) => Fits(thread'[c]))
    <3>1. /\ Closed(th[c]) \in Threads /\ (Starts(th[c]) => Starts(Closed(th[c])))
          /\ Closed(th[c]).dir = th[c].dir /\ (Fits(th[c]) => Fits(Closed(th[c])))
      BY <1>1, <1>2, ClosedIs DEF Starts, Fits, th
    <3> QED
      BY <1>2, <1>6, <3>1
  <2>2. TypeOK' /\ NoneTwice' /\ Out' = Out
    BY <1>1, <1>6, <2>1 DEF TypeOK, NoneTwice, Out
  <2>3. c \notin Out
    BY <1>1, <1>6 DEF Members
  <2> QED
    BY <1>1, <1>3, <1>6, <2>1, <2>2, <2>3, MembersStay
<1>7. CASE thread[c].dir = "out" /\ i = 0
  BY <1>4, <1>7 DEF Disconnected, CloseAndRemoveOutgoing, th
<1>8. CASE thread[c].dir = "in" /\ c \in mIncomingSocketThreads
  BY <1>6, <1>8 DEF Disconnected, CloseAndRemoveIncoming, th
<1>9. CASE thread[c].dir = "in" /\ c \notin mIncomingSocketThreads
  BY <1>4, <1>9 DEF Disconnected, CloseAndRemoveIncoming, th
<1> QED
  BY <1>5, <1>7, <1>8, <1>9 DEF Disconnected

\* The steps of run, of the copying threads and of JavaScript's sockets.
LEMMA RunsKeepMembers ==
  ASSUME MembersInv, NEW c \in Ids,
         \/ StartThread(c) \/ Bind(c) \/ NotListening(c) \/ Accept(c) \/ Streams(c)
         \/ NoStreams(c) \/ ConnectsToRouter(c) \/ StartCopying(c)
         \/ NothingToCopy(c) \/ Exit(c) \/ BluetoothBreaks(c) \/ AppCloses(c)
         \/ \E k \in Ids : port[k] = c /\ AppConnects(k)
         \/ \E w \in Ways : InputDone(c, w) \/ CopyingDone(c, w) \/ CopyingFails(c, w)
  PROVE  MembersInv'
<1> DEFINE t == thread[c]
<1>1. t \in Threads /\ thread \in [Ids -> Threads] /\ Starts(t)
  BY DEF MembersInv, TypeOK, Members
<1>2. ASSUME NEW u \in Threads, Moves(c, u), u.dir = t.dir,
             Fits(t) => Fits(u), Starts(t) => Starts(u)
      PROVE  MembersInv'
  BY <1>2, MembersMove DEF Moves, MembersInv, TypeOK, Answers
<1>3. CASE StartThread(c)
  <2> DEFINE u == [t EXCEPT !.pc = "started"]
  <2>1. u \in Threads /\ u.dir = t.dir /\ Fits(u) /\ Starts(u)
    BY <1>1, <1>3 DEF StartThread, Is, Threads, Fits, Starts, Begins
  <2> QED
    BY <1>1, <1>2, <1>3, <2>1 DEF StartThread, Moves
<1>4. CASE Bind(c)
  <2> DEFINE u == [t EXCEPT !.mIsClosing = FALSE, !.server = TRUE, !.pc = "bound"]
  <2>1. u \in Threads /\ u.dir = t.dir /\ Fits(u) /\ Starts(u)
    BY <1>1, <1>4 DEF Bind, Is, Threads, Fits, Starts, Begins
  <2> QED
    BY <1>2, <1>4, <2>1 DEF Bind
<1>5. CASE NotListening(c) \/ NoStreams(c)
  <2> DEFINE u == [t EXCEPT !.pc = "over"]
  <2>1. u \in Threads /\ u.dir = t.dir /\ Fits(u) /\ Starts(u)
    BY <1>1, <1>5 DEF NotListening, NoStreams, Is, Threads, Fits, Starts, Begins
  <2> QED
    BY <1>2, <1>5, <2>1 DEF NotListening, NoStreams
<1>6. CASE Accept(c)
  <2> DEFINE u == [t EXCEPT !.local = "open", !.pc = "assigned"]
  <2>1. u \in Threads /\ u.dir = t.dir /\ Fits(u) /\ Starts(u)
    BY <1>1, <1>6 DEF Accept, Is, Threads, Fits, Starts, Begins
  <2> QED
    BY <1>2, <1>6, <2>1 DEF Accept
<1>7. CASE Streams(c)
  <2> DEFINE u == [t EXCEPT !.pc = "ready"]
  <2>1. u \in Threads /\ u.dir = t.dir /\ Starts(u) /\ (t.local # "null" => Fits(u))
    BY <1>1, <1>7 DEF Streams, Is, Threads, Fits, Starts, Begins
  <2> QED
    BY <1>2, <1>7, <2>1 DEF Streams
<1>8. CASE ConnectsToRouter(c)
  <2> DEFINE u == [t EXCEPT !.mIsClosing = FALSE, !.local = "open", !.app = "open",
                         !.pc = "ready"]
  <2>1. u \in Threads /\ u.dir = t.dir /\ u.pc = "ready" /\ u.local = "open"
        /\ u.copy = t.copy
    BY <1>1 DEF Threads
  <2> HIDE DEF u
  <2>2. Fits(u) /\ Starts(u)
    BY <1>1, <1>8, <2>1 DEF ConnectsToRouter, Is, Fits, Starts, Begins
  <2> QED
    BY <1>2, <1>8, <2>1, <2>2 DEF ConnectsToRouter, u
<1>9. CASE StartCopying(c)
  <2> DEFINE u == [t EXCEPT !.copy = [w \in Ways |-> "running"], !.pc = "copying"]
  <2>1. u \in Threads /\ u.dir = t.dir /\ Fits(u) /\ Starts(u)
    BY <1>1, <1>9 DEF StartCopying, Is, Threads, Fits, Starts, Begins
  <2> QED
    BY <1>2, <1>9, <2>1 DEF StartCopying
<1>10. CASE NothingToCopy(c)
  <2> DEFINE u == [t EXCEPT !.pc = "refusing"]
  <2>1. u \in Threads /\ u.dir = t.dir /\ Starts(u)
    BY <1>1, <1>10 DEF NothingToCopy, Is, Threads, Starts
  <2>2. ~Fits(t)
    BY <1>10 DEF NothingToCopy, Is, Fits
  <2> QED
    BY <1>2, <1>10, <2>1, <2>2 DEF NothingToCopy
<1>11. CASE Exit(c)
  <2> DEFINE u == [t EXCEPT !.server = FALSE, !.pc = "over"]
  <2>1. u \in Threads /\ u.dir = t.dir /\ Fits(u) /\ Starts(u)
    BY <1>1, <1>11 DEF Exit, Is, Threads, Fits, Starts, Begins
  <2> QED
    BY <1>2, <1>11, <2>1 DEF Exit
<1>12. CASE BluetoothBreaks(c)
  <2> DEFINE u == [t EXCEPT !.bluetooth = FALSE]
  <2>1. u \in Threads /\ u.dir = t.dir /\ u.peer = t.peer
        /\ u.pc = t.pc /\ u.local = t.local /\ u.copy = t.copy
    BY <1>1 DEF Threads
  <2> HIDE DEF u
  <2>2. (Fits(t) => Fits(u)) /\ (Starts(t) => Starts(u))
    BY <2>1 DEF Fits, Starts
  <2> QED
    BY <1>2, <1>12, <2>1, <2>2 DEF BluetoothBreaks, u
<1>13. ASSUME NEW a \in {"open", "closed"}, Moves(c, [t EXCEPT !.app = a])
       PROVE  MembersInv'
  <2> DEFINE u == [t EXCEPT !.app = a]
  <2>1. u \in Threads /\ u.dir = t.dir /\ u.peer = t.peer
        /\ u.pc = t.pc /\ u.local = t.local /\ u.copy = t.copy
    BY <1>1 DEF Threads
  <2> HIDE DEF u
  <2>2. (Fits(t) => Fits(u)) /\ (Starts(t) => Starts(u))
    BY <2>1 DEF Fits, Starts
  <2> QED
    BY <1>2, <1>13, <2>1, <2>2 DEF u
<1>14. CASE AppCloses(c)
  BY <1>1, <1>13, <1>14 DEF AppCloses, Moves
<1>15. ASSUME NEW k \in Ids, port[k] = c, AppConnects(k) PROVE MembersInv'
  <2>1. CASE ~t.server
    BY <1>1, <1>13, <1>15, <2>1 DEF AppConnects, Moves
  <2>2. CASE t.server
    <3> DEFINE u == [t EXCEPT !.app = "open", !.pc = "accepted"]
    <3>1. Moves(c, u) /\ t.pc = "accepting"
      BY <1>1, <1>15, <2>2 DEF AppConnects, Moves, Is
    <3>2. u \in Threads /\ u.dir = t.dir /\ u.pc = "accepted" /\ u.copy = t.copy
      BY <1>1 DEF Threads
    <3> HIDE DEF u
    <3>3. Fits(u) /\ Starts(u)
      BY <1>1, <3>1, <3>2 DEF Fits, Starts, Begins
    <3> QED
      BY <1>2, <3>1, <3>2, <3>3
  <2> QED
    BY <2>1, <2>2
<1>16. ASSUME NEW w \in Ways, NEW x \in {"end", "done", "telling", "over", "failing"},
              NEW s \in Threads, s.dir = t.dir, s.peer = t.peer, s.pc = t.pc,
              t.local = "null" <=> s.local = "null", t.copy[w] # "none",
              Moves(c, [s EXCEPT !.copy[w] = x])
       PROVE  MembersInv'
  <2> DEFINE u == [s EXCEPT !.copy[w] = x]
  <2>1. u \in Threads /\ u.dir = s.dir /\ u.peer = s.peer
        /\ u.pc = s.pc /\ u.local = s.local
    BY DEF Threads
  <2>2. t.pc \in {"copying", "over"}
    BY <1>1, <1>16 DEF Starts
  <2> HIDE DEF u
  <2>3. (Fits(t) => Fits(u)) /\ Starts(u)
    BY <1>16, <2>1, <2>2 DEF Fits, Starts
  <2> QED
    BY <1>2, <1>16, <2>1, <2>3 DEF u
<1>17. ASSUME NEW w \in Ways, CopyingDone(c, w) \/ CopyingFails(c, w)
       PROVE  MembersInv'
  BY <1>1, <1>16, <1>17 DEF CopyingDone, CopyingFails
<1>18. ASSUME NEW w \in Ways, InputDone(c, w) PROVE MembersInv'
  <2> DEFINE s == OutputClosed(t, w)
  <2>1. s \in Threads /\ s.dir = t.dir /\ s.peer = t.peer /\ s.pc = t.pc
        /\ (t.local = "null" <=> s.local = "null")
    <3>1. CASE w = "send"
      BY <1>1, <3>1 DEF OutputClosed, Threads
    <3>2. CASE w # "send"
      BY <1>1, <3>2 DEF OutputClosed, Threads
    <3> QED
      BY <3>1, <3>2
  <2> HIDE DEF s
  <2> QED
    BY <1>16, <1>18, <2>1 DEF InputDone, s
<1> QED
  BY <1>3, <1>4, <1>5, <1>6, <1>7, <1>8, <1>9, <1>10, <1>11, <1>12, <1>14,
     <1>15, <1>17, <1>18

\* The steps that end a connection.
LEMMA EndsKeepMembers ==
  ASSUME MembersInv, NEW c \in Ids,
         \/ BindFails(c) \/ StreamsFail(c) \/ RouterFails(c) \/ Refuse(c)
         \/ \E w \in Ways : Tell(c, w)
  PROVE  MembersInv'
<1> DEFINE t == thread[c]
<1>1. t \in Threads /\ thread \in [Ids -> Threads] /\ Starts(t)
  BY DEF MembersInv, TypeOK, Members
<1>2. CASE BindFails(c)
  <2> DEFINE u == [t EXCEPT !.mIsClosing = FALSE, !.pc = "unbound"]
  <2>1. u \in Threads /\ u.dir = t.dir /\ Fits(u) /\ Starts(u) /\ u.pc # "ready"
    BY <1>1, <1>2 DEF BindFails, Is, Threads, Fits, Starts, Begins
  <2>2. [thread EXCEPT ![c].mIsClosing = FALSE, ![c].pc = "unbound"]
          = [thread EXCEPT ![c] = u]
    BY <1>1
  <2> HIDE DEF u
  <2> QED
    BY <1>2, <2>1, <2>2, MembersLeave DEF BindFails
<1>3. CASE StreamsFail(c)
  <2> DEFINE u == [t EXCEPT !.pc = "over", !.server = FALSE]
  <2>1. u \in Threads /\ u.dir = t.dir /\ Fits(u) /\ Starts(u) /\ u.pc # "ready"
    BY <1>1, <1>3 DEF StreamsFail, Is, Threads, Fits, Starts, Begins
  <2>2. [thread EXCEPT ![c].pc = "over", ![c].server = FALSE]
          = [thread EXCEPT ![c] = u]
    BY <1>1
  <2> HIDE DEF u
  <2> QED
    BY <1>3, <2>1, <2>2, MembersLeave DEF StreamsFail
<1>4. CASE RouterFails(c)
  <2> DEFINE u == [t EXCEPT !.mIsClosing = FALSE, !.pc = "over"]
  <2>1. u \in Threads /\ u.dir = t.dir /\ Fits(u) /\ Starts(u) /\ u.pc # "ready"
    BY <1>1, <1>4 DEF RouterFails, Is, Threads, Fits, Starts, Begins
  <2>2. [thread EXCEPT ![c].mIsClosing = FALSE, ![c].pc = "over"]
          = [thread EXCEPT ![c] = u]
    BY <1>1
  <2> HIDE DEF u
  <2> QED
    BY <1>4, <2>1, <2>2, MembersLeave DEF RouterFails
<1>5. CASE Refuse(c)
  <2> DEFINE u == [t EXCEPT !.pc = "over"]
  <2>1. u \in Threads /\ u.dir = t.dir /\ Fits(u) /\ Starts(u) /\ u.pc # "ready"
    BY <1>1, <1>5 DEF Refuse, Is, Threads, Fits, Starts, Begins
  <2>2. [thread EXCEPT ![c].pc = "over"] = [thread EXCEPT ![c] = u]
    BY <1>1
  <2> HIDE DEF u
  <2> QED
    BY <1>5, <2>1, <2>2, MembersLeave DEF Refuse
<1>6. ASSUME NEW w \in Ways, Tell(c, w) PROVE MembersInv'
  <2> DEFINE u == [t EXCEPT !.copy[w] = "over"]
  <2>1. u \in Threads /\ u.dir = t.dir /\ u.peer = t.peer
        /\ u.pc = t.pc /\ u.local = t.local
    BY <1>1 DEF Threads
  <2>2. [thread EXCEPT ![c].copy[w] = "over"] = [thread EXCEPT ![c] = u]
    BY <1>1
  <2>3. u.pc \in {"copying", "over"}
    BY <1>6, <2>1 DEF Tell, MembersInv, Members, Starts
  <2>4. (Fits(t) => Fits(u)) /\ (Starts(t) => Starts(u))
    BY <2>1, <2>3 DEF Fits, Starts
  <2> HIDE DEF u
  <2> QED
    BY <1>6, <2>1, <2>2, <2>3, <2>4, MembersLeave DEF Tell
<1> QED
  BY <1>2, <1>3, <1>4, <1>5, <1>6

\* What JavaScript and the main thread do to a connection that is not in the model
\* yet, and to the callbacks.
LEMMA BeginningsKeepMembers ==
  ASSUME MembersInv, NEW c \in Ids,
         \/ Listening(c) \/ Library(c)
         \/ \E p \in Peers : Connect(c, p) \/ HandleIncomingConnection(c, p)
  PROVE  MembersInv'
<1> DEFINE t == thread[c]
<1>1. t \in Threads /\ thread \in [Ids -> Threads] /\ TypeOK /\ Starts(t)
  BY DEF MembersInv, TypeOK, Members
<1> USE DEF TypeOK, Answers
<1>2. CASE Listening(c)
  <2> DEFINE u == [t EXCEPT !.pc = "accepting"]
  <2>1. u \in Threads /\ u.dir = t.dir /\ Fits(u) /\ Starts(u)
    BY <1>1, <1>2 DEF Listening, Is, Threads, Fits, Starts, Begins
  <2>2. thread' = [thread EXCEPT ![c] = u]
        /\ UNCHANGED <<mOutgoingSocketThreads, mIncomingSocketThreads>>
    BY <1>1, <1>2 DEF Listening
  <2>3. call' \in [Ids -> Answers] /\ port' \in [Ids -> Ids \cup {None}]
    BY <1>1, <1>2, AnswerTyped DEF Listening, Threads
  <2>4. mOutgoingConnectionCallbacks' \in [Peers -> Ids \cup {None}]
    BY <1>1, <1>2 DEF Listening
  <2> HIDE DEF u
  <2> QED
    BY <2>1, <2>2, <2>3, <2>4, MembersMove
<1>3. CASE ConnectionFails(c)
  <2> DEFINE u == [t EXCEPT !.pc = "over"]
             p == t.peer
  <2>1. u \in Threads /\ u.dir = t.dir /\ Fits(u) /\ Starts(u)
    BY <1>1, <1>3 DEF ConnectionFails, Is, Threads, Fits, Starts, Begins
  <2>2. /\ thread' = [thread EXCEPT ![c] = u]
        /\ UNCHANGED <<mOutgoingSocketThreads, mIncomingSocketThreads, port>>
        /\ call' = Heard(call, mOutgoingConnectionCallbacks[p], "error")
        /\ mOutgoingConnectionCallbacks' =
             [mOutgoingConnectionCallbacks EXCEPT ![p] = None]
    BY <1>1, <1>3 DEF ConnectionFails
  <2>3. mOutgoingConnectionCallbacks' \in [Peers -> Ids \cup {None}]
        /\ p \in Peers
    BY <1>1, <1>3, <2>2 DEF ConnectionFails, Is, Starts
  <2>4. call' \in [Ids -> Answers]
    BY <1>1, <2>2, <2>3, AnswerTyped
  <2> HIDE DEF u
  <2> QED
    BY <1>1, <2>1, <2>2, <2>3, <2>4, MembersMove
<1>4. ASSUME NEW dir \in {"out", "in"}, NEW p \in Peers \cup {None},
             OnConnected(c, dir, p), t.pc \in Begins, dir = "out" => p \in Peers
      PROVE  MembersInv'
  <2>1. PICK k \in Ids \cup {None} :
          k = IF dir = "out" THEN mOutgoingConnectionCallbacks[p] ELSE None
    BY <1>1, <1>4
  <2> DEFINE u == [t EXCEPT !.dir = dir, !.peer = p, !.pc = "made",
                            !.bluetooth = TRUE, !.callback = k]
  <2>2. u \in Threads /\ Starts(u) /\ ~Fits(t)
    <3>1. u \in Threads /\ u.dir = dir /\ u.pc = "made" /\ u.copy = t.copy
      BY <1>1, <1>4 DEF Threads
    <3> HIDE DEF u
    <3> QED
      BY <1>1, <1>4, <3>1 DEF Fits, Starts, Begins
  <2>3. thread' = [thread EXCEPT ![c] = u]
        /\ UNCHANGED <<mOutgoingSocketThreads, mIncomingSocketThreads,
                       mOutgoingConnectionCallbacks, call, port>>
    BY <1>1, <1>4, <2>1 DEF OnConnected
  <2> HIDE DEF u
  <2> QED
    BY <1>1, <1>4, <2>2, <2>3, MembersMove
<1>5. CASE HandleOutgoingConnection(c)
  BY <1>1, <1>4, <1>5 DEF HandleOutgoingConnection, Is, Begins, Starts
<1>6. ASSUME NEW p \in Peers, HandleIncomingConnection(c, p) PROVE MembersInv'
  BY <1>4, <1>6 DEF HandleIncomingConnection, Fresh, Begins
<1>7. ASSUME NEW p \in Peers, Connect(c, p) PROVE MembersInv'
  <2>1. PICK s \in {"connecting", "over"}, x \in {"waiting", "error"} :
          /\ call' = [call EXCEPT ![c] = x]
          /\ thread' = [thread EXCEPT ![c] =
               [@ EXCEPT !.dir = "out", !.peer = p, !.pc = s]]
          /\ \/ UNCHANGED mOutgoingConnectionCallbacks
             \/ mOutgoingConnectionCallbacks' =
                  [mOutgoingConnectionCallbacks EXCEPT ![p] = c]
    BY <1>1, <1>7 DEF Connect
  <2> DEFINE u == [t EXCEPT !.dir = "out", !.peer = p, !.pc = s]
  <2>2. t.pc = "none" /\ t.pc \in Begins /\ ~Fits(t)
    BY <1>7 DEF Connect, Fresh, Fits, Begins
  <2>3. u \in Threads /\ Starts(u)
    <3>1. u \in Threads /\ u.peer = p /\ u.pc = s /\ u.copy = t.copy
      BY <1>1 DEF Threads
    <3> HIDE DEF u
    <3> QED
      BY <1>1, <2>2, <3>1 DEF Starts
  <2>4. thread' = [thread EXCEPT ![c] = u]
        /\ UNCHANGED <<mOutgoingSocketThreads, mIncomingSocketThreads, port>>
    BY <1>1, <1>7, <2>1 DEF Connect
  <2>5. call' \in [Ids -> Answers]
        /\ mOutgoingConnectionCallbacks' \in [Peers -> Ids \cup {None}]
    BY <1>1, <2>1
  <2> HIDE DEF u
  <2> QED
    BY <1>1, <2>2, <2>3, <2>4, <2>5, MembersMove
<1> QED
  BY <1>2, <1>3, <1>5, <1>6, <1>7 DEF Library

LEMMA AddConnectionThreadKeepsMembers ==
  ASSUME MembersInv, NEW c \in Ids, AddConnectionThread(c)
  PROVE  MembersInv'
<1> DEFINE t == thread[c]
           list == mOutgoingSocketThreads
<1>1. t \in Threads /\ thread \in [Ids -> Threads] /\ list \in Seq(Ids)
      /\ mIncomingSocketThreads \subseteq Ids /\ Out \subseteq Ids
      /\ TypeOK /\ Members /\ NoneTwice
  BY DEF MembersInv, TypeOK, Out, ToSet
<1>2. c \notin Out /\ c \notin mIncomingSocketThreads
  BY <1>1 DEF AddConnectionThread, Is, Members, Fits, Begins
<1>3. thread' \in [Ids -> Threads]
      /\ UNCHANGED <<mOutgoingConnectionCallbacks, call, port>>
  BY <1>1, <1>2, AddedIs
<1>4. thread'[c].dir = t.dir /\ Fits(thread'[c]) /\ Starts(thread'[c])
  <2>1. /\ thread'[c].dir = t.dir /\ thread'[c].pc = "added"
        /\ thread'[c].copy = t.copy
    BY <1>1, <1>2, AddedIs
  <2>2. \A w \in Ways : t.copy[w] = "none"
    BY <1>1 DEF AddConnectionThread, Is, Members, Starts
  <2> QED
    BY <2>1, <2>2 DEF Fits, Starts, Begins
<1>5. ASSUME NEW d \in Ids \ {c}
      PROVE  /\ thread'[d].dir = thread[d].dir
             /\ Fits(thread[d]) => Fits(thread'[d])
             /\ Starts(thread[d]) => Starts(thread'[d])
  <2>1. /\ thread'[d].dir = thread[d].dir /\ thread'[d].peer = thread[d].peer
        /\ thread'[d].pc = thread[d].pc /\ thread'[d].local = thread[d].local
        /\ thread'[d].copy = thread[d].copy
    BY <1>1, <1>2, AddedIs, MarkedIs
  <2> QED
    BY <2>1 DEF Fits, Starts
<1>6. CASE t.dir = "out"
  <2>1. mOutgoingSocketThreads' = Append(list, c)
        /\ mIncomingSocketThreads' = mIncomingSocketThreads
    BY <1>6 DEF AddConnectionThread
  <2>2. /\ Append(list, c) \in Seq(Ids) /\ Len(list) \in Nat
        /\ \A i \in 1 .. Len(list) : Append(list, c)[i] = list[i]
        /\ Append(list, c)[Len(list) + 1] = c
        /\ DOMAIN list = 1 .. Len(list)
        /\ DOMAIN Append(list, c) = 1 .. Len(list) + 1
    BY <1>1
  <2>3. \A i \in DOMAIN list : list[i] # c
    BY <1>2 DEF Out, ToSet
  <2>4. Out' = Out \cup {c}
    BY <2>1, <2>2 DEF Out, ToSet
  <2>5. NoneTwice'
    BY <1>1, <2>1, <2>2, <2>3 DEF NoneTwice
  <2>6. TypeOK'
    BY <1>1, <1>3, <2>1, <2>2 DEF TypeOK
  <2>7. Members'
    BY <1>1, <1>2, <1>4, <1>5, <1>6, <2>1, <2>4 DEF Members
  <2> QED
    BY <2>5, <2>6, <2>7 DEF MembersInv
<1>7. CASE t.dir # "out"
  <2>1. mOutgoingSocketThreads' = list
        /\ mIncomingSocketThreads' = mIncomingSocketThreads \cup {c}
    BY <1>7 DEF AddConnectionThread
  <2>2. t.dir = "in"
    BY <1>1, <1>7 DEF AddConnectionThread, Is, Members, Starts, Threads
  <2>3. Out' = Out /\ NoneTwice' /\ TypeOK'
    BY <1>1, <1>3, <2>1 DEF Out, NoneTwice, TypeOK
  <2>4. Members'
    BY <1>1, <1>2, <1>4, <1>5, <2>1, <2>2, <2>3 DEF Members
  <2> QED
    BY <2>3, <2>4 DEF MembersInv
<1> QED
  BY <1>6, <1>7

LEMMA StopKeepsMembers ==
  ASSUME MembersInv, Stop PROVE MembersInv'
<1>1. thread \in [Ids -> Threads] /\ TypeOK /\ Members
      /\ mIncomingSocketThreads \subseteq Ids
  BY DEF MembersInv, TypeOK
<1>2. PICK late :
        thread' = [c \in Ids |->
                     CASE c \in ToSet(mOutgoingSocketThreads) -> Closed(thread[c])
                       [] c \in At("connecting") \ late ->
                            [thread[c] EXCEPT !.pc = "over"]
                       [] OTHER -> thread[c]]
  BY DEF Stop
<1>3. /\ mOutgoingSocketThreads' = <<>>
      /\ mOutgoingConnectionCallbacks' = [p \in Peers |-> None]
      /\ call' = [c \in Ids |-> IF call[c] = "waiting" THEN "dropped" ELSE call[c]]
      /\ UNCHANGED <<mIncomingSocketThreads, port>>
  BY DEF Stop
<1>4. Out' = {} /\ NoneTwice'
  BY <1>3 DEF Out, ToSet, NoneTwice
<1>5. ASSUME NEW c \in Ids
      PROVE  thread'[c] \in Threads /\ Starts(thread'[c])
             /\ (c \in mIncomingSocketThreads => thread'[c] = thread[c])
  <2>1. c \in mIncomingSocketThreads => c \notin Out /\ c \notin At("connecting")
    BY <1>1 DEF Members, Fits, At, Begins
  <2>2. thread'[c] = CASE c \in Out -> Closed(thread[c])
                       [] c \in At("connecting") \ late ->
                            [thread[c] EXCEPT !.pc = "over"]
                       [] OTHER -> thread[c]
    BY <1>2, Zenon DEF Out
  <2>3. c \in Out => c \notin At("connecting")
    BY <1>1 DEF Members, Fits, At, Begins
  <2>4. \/ c \in Out /\ thread'[c] = Closed(thread[c])
        \/ c \in At("connecting") /\ thread'[c] = [thread[c] EXCEPT !.pc = "over"]
        \/ thread'[c] = thread[c]
    BY <2>2, <2>3
  <2>5. thread[c] \in Threads /\ Starts(thread[c])
    BY <1>1 DEF Members
  <2>6. Closed(thread[c]) \in Threads /\ Starts(Closed(thread[c]))
    BY <2>5, ClosedIs DEF Starts
  <2>7. [thread[c] EXCEPT !.pc = "over"] \in Threads
        /\ Starts([thread[c] EXCEPT !.pc = "over"])
    BY <2>5 DEF Threads, Starts
  <2> QED
    BY <2>1, <2>4, <2>5, <2>6, <2>7
<1>6. thread' \in [Ids -> Threads]
  BY <1>2, <1>5
<1>7. TypeOK'
  BY <1>1, <1>3, <1>6, EmptySeq DEF TypeOK
<1>8. Members'
  BY <1>1, <1>3, <1>4, <1>5 DEF Members, Fits
<1> QED
  BY <1>4, <1>7, <1>8 DEF MembersInv

LEMMA MembersInvariance == Spec => []MembersInv
<1>1. Init => MembersInv
  <2> SUFFICES ASSUME Init PROVE MembersInv
    OBVIOUS
  <2>1. NoThread \in Threads
    BY DEF NoThread, Threads
  <2>2. TypeOK
    BY <2>1, EmptySeq DEF Init, TypeOK
  <2> QED
    BY <2>2 DEF Init, MembersInv, Members, NoneTwice, Out, ToSet, Starts, NoThread
<1>2. MembersInv /\ [Next]_vars => MembersInv'
  <2> SUFFICES ASSUME MembersInv, [Next]_vars PROVE MembersInv'
    OBVIOUS
  <2>1. CASE UNCHANGED vars
    BY <2>1 DEF vars, MembersInv, TypeOK, NoneTwice, Members, Out
  <2>2. ASSUME NEW k \in Ids, AppConnects(k) PROVE MembersInv'
    <3>1. port[k] \in Ids
      BY <2>2 DEF AppConnects, MembersInv, TypeOK
    <3> QED
      BY <2>2, <3>1, RunsKeepMembers
  <2>3. CASE JavaScript
    BY <2>3, StopKeepsMembers, RunsKeepMembers, BeginningsKeepMembers
       DEF JavaScript
  <2>4. ASSUME NEW c \in Ids, Runs(c) PROVE MembersInv'
    BY <2>4, RunsKeepMembers, EndsKeepMembers, BeginningsKeepMembers,
       AddConnectionThreadKeepsMembers DEF Runs
  <2>5. ASSUME NEW c \in Ids,
               Library(c) \/ \E p \in Peers : HandleIncomingConnection(c, p)
        PROVE  MembersInv'
    BY <2>5, BeginningsKeepMembers
  <2>6. ASSUME NEW c \in Ids,
               BluetoothBreaks(c) \/ \E w \in Ways : Copies(c, w)
        PROVE  MembersInv'
    BY <2>6, RunsKeepMembers, EndsKeepMembers DEF Copies
  <2> QED
    BY <2>1, <2>2, <2>3, <2>4, <2>5, <2>6 DEF Next
<1> QED
  BY <1>1, <1>2, PTL DEF Spec

\* No thread that holds its own monitor and waits for the model's is one that the
\* model's owner would close, even where stops overtake connections and new
\* connections old ones, and whatever fails.
THEOREM NobodyBlocks == Spec => [](TypeOK /\ NoDeadlock)
<1>1. MembersInv => TypeOK /\ NoDeadlock
  BY DEF MembersInv, Members, Fits, NoDeadlock, At, InModel, Out
<1> QED
  BY <1>1, MembersInvariance, PTL

-----------------------------------------------------------------------------
(* ThaliMuxLink: the steps of its two ends, and its inductive invariant. *)

\* The steps of either end, without the native layer's conditions on them.
PeerNext ==
  \/ CreatePeerListener \/ TerminateOutgoingConnection
  \/ RecreatePeerListener \/ StopPeerServers
  \/ \E g \in Servers : \/ Recreate(g) \/ ConnectSucceeds(g) \/ OutgoingFails(g)
                        \/ OutgoingConnects(g) \/ OutgoingCloses(g)
  \/ \E c \in Apps : \/ IncomingConnects(c) \/ CreateStream(c) \/ NoStream(c)
                     \/ IncomingCloses(c) \/ StreamCloses(c)

NativeNext ==
  \/ Native!StopNativeServer
  \/ \E g \in Servers : \/ Native!Connection(g) \/ Native!Timeout(g)
                        \/ Native!IncomingEnds(g) \/ Native!IncomingResets(g)
  \/ \E c \in Apps : \/ Native!RouterCloses(c) \/ Native!RouterFails(c)
                     \/ Native!StreamEnds(c) \/ Native!RouterConnects(c)
                     \/ \E g \in Servers : Native!OnStream(c, g)

PeerType ==
  /\ manager \in {"started", "stopped"}
  /\ server \in [Servers -> {"none", "listening", "retry", "closed"}]
  /\ outgoing \in [Servers -> {"none", "calling", "connecting", "open", "ending",
                               "closed", "failed"}]
  /\ mux \in [Servers -> {"none", "open", "destroyed"}]
  /\ incoming \in [Apps -> Sockets]
  /\ at \in [Apps -> 0 .. MaxServers]
  /\ stream \in [Apps -> {"none", "waiting", "open", "closed", "never"}]

NativeType ==
  /\ nativeServer \in BOOLEAN
  /\ native \in [Servers -> Sockets \cup {"reset"}]
  /\ nativeMux \in [Servers -> Sockets]
  /\ on \in [Apps -> 0 .. MaxServers]
  /\ muxStream \in [Apps -> Sockets]
  /\ router \in [Apps -> {"none", "connecting", "open", "closed"}]

\* A server that has not been created has no tunnel yet, and one that listens
\* still has its own.
ServersSound ==
  \A g \in Servers :
    /\ server[g] = "none" => outgoing[g] = "none" /\ mux[g] = "none"
    /\ server[g] = "listening" => mux[g] # "destroyed"

\* The socket of an application is open only as long as its server listens.
SocketsSound ==
  \A c \in Apps :
    /\ incoming[c] = "open" => at[c] # 0 /\ server[at[c]] = "listening"
    /\ stream[c] = "waiting" => at[c] # 0 /\ incoming[c] # "none"
    /\ stream[c] = "open" => /\ at[c] # 0 /\ incoming[c] = "open"
                             /\ mux[at[c]] # "none"

PeerInv == PeerType /\ ServersSound /\ SocketsSound

-----------------------------------------------------------------------------
\* Every step is one of either end, the other end standing still.
LEMMA StepOfAnEnd ==
  ASSUME PeerType, [LinkNext]_linkVars
  PROVE  /\ PeerNext \/ UNCHANGED peerVars
         /\ NativeNext \/ UNCHANGED nativeVars
<1>1. CASE UNCHANGED linkVars
  BY <1>1 DEF linkVars, peerVars, nativeVars
<1>2. CASE Calls
  BY <1>2 DEF Calls, Here, There, PeerNext, NativeNext, peerVars, nativeVars
<1>3. ASSUME NEW g \in Servers,
             Breaks(g) \/ Connects(g) \/ There(Through(g)) \/ Idle(g) \/ Ends(g)
               \/ Reopens(g)
      PROVE  /\ PeerNext \/ UNCHANGED peerVars
             /\ NativeNext \/ UNCHANGED nativeVars
  BY <1>3 DEF Breaks, Connects, Through, Idle, Ends, Reopens, Here, There,
              PeerNext, NativeNext
<1>4. ASSUME NEW c \in Apps, Continues(c)
      PROVE  /\ PeerNext \/ UNCHANGED peerVars
             /\ NativeNext \/ UNCHANGED nativeVars
  <2>1. at[c] # 0 => at[c] \in Servers
    BY PeerListenerAssumption DEF PeerType, Servers
  <2> QED
    BY <1>4, <2>1 DEF Continues, Opens, Here, There, PeerNext, NativeNext
<1> QED
  BY <1>1, <1>2, <1>3, <1>4 DEF LinkNext

-----------------------------------------------------------------------------
(* This end. *)

LEMMA Reached ==
  ASSUME PeerType, NEW c \in Apps, at[c] # 0
  PROVE  at[c] \in Servers
BY PeerListenerAssumption DEF PeerType, Servers

LEMMA ServersStep == PeerInv /\ (PeerNext \/ UNCHANGED peerVars) => ServersSound'
<1> SUFFICES ASSUME PeerInv, PeerNext \/ UNCHANGED peerVars
             PROVE  ServersSound'
  OBVIOUS
<1> USE DEF PeerInv, PeerType, ServersSound
<1>1. CASE UNCHANGED peerVars
  BY <1>1 DEF peerVars
<1>2. CASE CreatePeerListener
  BY <1>2 DEF CreatePeerListener, FreshServers
<1>3. CASE TerminateOutgoingConnection \/ RecreatePeerListener
  BY <1>3 DEF TerminateOutgoingConnection, RecreatePeerListener, CloseServer,
              ListeningServers
<1>4. CASE StopPeerServers
  BY <1>4 DEF StopPeerServers
<1>5. ASSUME NEW g \in Servers, Recreate(g)
      PROVE  ServersSound'
  BY <1>5 DEF Recreate, FreshServers
<1>6. ASSUME NEW g \in Servers,
             \/ ConnectSucceeds(g) \/ OutgoingFails(g)
             \/ OutgoingConnects(g) \/ OutgoingCloses(g)
      PROVE  ServersSound'
  BY <1>6 DEF ConnectSucceeds, OutgoingFails, OutgoingConnects, OutgoingCloses
<1>7. ASSUME NEW c \in Apps, IncomingConnects(c)
      PROVE  ServersSound'
  BY <1>7 DEF IncomingConnects, ListeningServers
<1>8. ASSUME NEW c \in Apps,
             CreateStream(c) \/ NoStream(c) \/ IncomingCloses(c) \/ StreamCloses(c)
      PROVE  ServersSound'
  BY <1>8 DEF CreateStream, NoStream, IncomingCloses, StreamCloses
<1> QED
  BY <1>1, <1>2, <1>3, <1>4, <1>5, <1>6, <1>7, <1>8 DEF PeerNext

LEMMA PeerTypeStep == PeerInv /\ (PeerNext \/ UNCHANGED peerVars) => PeerType'
<1> SUFFICES ASSUME PeerInv, PeerNext \/ UNCHANGED peerVars
             PROVE  PeerType'
  OBVIOUS
<1> USE DEF PeerInv, PeerType, Sockets
<1>1. CASE UNCHANGED peerVars
  BY <1>1 DEF peerVars
<1>2. CASE CreatePeerListener
  BY <1>2 DEF CreatePeerListener
<1>3. CASE TerminateOutgoingConnection \/ RecreatePeerListener
  BY <1>3 DEF TerminateOutgoingConnection, RecreatePeerListener, CloseServer,
              Destroyed
<1>4. CASE StopPeerServers
  BY <1>4 DEF StopPeerServers, Destroyed
<1>5. ASSUME NEW g \in Servers, Recreate(g)
      PROVE  PeerType'
  BY <1>5 DEF Recreate
<1>6. ASSUME NEW g \in Servers, ConnectSucceeds(g) \/ OutgoingConnects(g)
      PROVE  PeerType'
  BY <1>6 DEF ConnectSucceeds, OutgoingConnects
<1>7. ASSUME NEW g \in Servers, OutgoingFails(g) \/ OutgoingCloses(g)
      PROVE  PeerType'
  BY <1>7 DEF OutgoingFails, OutgoingCloses, Destroyed
<1>8. ASSUME NEW c \in Apps, IncomingConnects(c)
      PROVE  PeerType'
  <2>1. PICK g \in Servers :
          /\ at' = [at EXCEPT ![c] = g]
          /\ outgoing' = [outgoing EXCEPT ![g] = IF @ = "none" THEN "calling" ELSE @]
    BY <1>8 DEF IncomingConnects, ListeningServers
  <2>2. g \in 0 .. MaxServers
    BY PeerListenerAssumption DEF Servers
  <2>3. at' \in [Apps -> 0 .. MaxServers]
    BY <2>1, <2>2
  <2> QED
    BY <1>8, <2>1, <2>3 DEF IncomingConnects
<1>9. ASSUME NEW c \in Apps, CreateStream(c) \/ NoStream(c)
      PROVE  PeerType'
  BY <1>9 DEF CreateStream, NoStream
<1>10. ASSUME NEW c \in Apps, IncomingCloses(c) \/ StreamCloses(c)
      PROVE  PeerType'
  BY <1>10 DEF IncomingCloses, StreamCloses, Destroyed
<1> QED
  BY <1>1, <1>2, <1>3, <1>4, <1>5, <1>6, <1>7, <1>8, <1>9, <1>10 DEF PeerNext

\* Whatever takes a server from those that listen, or its multiplex object
\* away, destroys the sockets of its applications.
LEMMA SocketsStep == PeerInv /\ (PeerNext \/ UNCHANGED peerVars) => SocketsSound'
<1> SUFFICES ASSUME PeerInv, PeerNext \/ UNCHANGED peerVars, NEW c \in Apps
             PROVE  /\ incoming[c]' = "open" => at[c]' # 0 /\ server[at[c]]' = "listening"
                    /\ stream[c]' = "waiting" => at[c]' # 0 /\ incoming[c]' # "none"
                    /\ stream[c]' = "open" => /\ at[c]' # 0 /\ incoming[c]' = "open"
                                             /\ mux[at[c]]' # "none"
  BY DEF SocketsSound
<1>0. at[c] # 0 => at[c] \in Servers
  BY Reached DEF PeerInv
<1> USE DEF PeerInv, PeerType, SocketsSound
<1>1. CASE UNCHANGED peerVars
  BY <1>1 DEF peerVars
<1>2. CASE CreatePeerListener
  BY <1>0, <1>2 DEF CreatePeerListener
<1>3. CASE TerminateOutgoingConnection \/ RecreatePeerListener
  BY <1>0, <1>3 DEF TerminateOutgoingConnection, RecreatePeerListener,
                    CloseServer, Destroyed, AppsOf, ListeningServers
<1>4. CASE StopPeerServers
  BY <1>0, <1>4 DEF StopPeerServers, Destroyed, AppsOf, ListeningServers
<1>5. ASSUME NEW g \in Servers, Recreate(g)
      PROVE  /\ UNCHANGED <<at, incoming, stream, mux>>
             /\ \A h \in Servers : server[h] = "listening" => server'[h] = "listening"
  BY <1>5 DEF Recreate
<1>6. ASSUME NEW g \in Servers, ConnectSucceeds(g) \/ OutgoingConnects(g)
      PROVE  /\ UNCHANGED <<at, incoming, stream, server>>
             /\ \A h \in Servers : mux[h] # "none" => mux'[h] # "none"
  BY <1>6 DEF ConnectSucceeds, OutgoingConnects
<1>7. CASE \E g \in Servers : OutgoingFails(g) \/ OutgoingCloses(g)
  BY <1>0, <1>7 DEF OutgoingFails, OutgoingCloses, Destroyed, AppsOf
<1>8. CASE \E a \in Apps : IncomingConnects(a)
  <2>1. PICK a \in Apps : IncomingConnects(a)
    BY <1>8
  <2>2. CASE a = c
    BY <2>1, <2>2 DEF IncomingConnects, ListeningServers, Servers
  <2>3. CASE a # c
    BY <1>0, <2>1, <2>3 DEF IncomingConnects
  <2> QED
    BY <2>2, <2>3
<1>9. CASE \E a \in Apps : CreateStream(a) \/ NoStream(a)
  BY <1>0, <1>9 DEF CreateStream, NoStream, Sockets
<1>10. CASE \E a \in Apps : IncomingCloses(a) \/ StreamCloses(a)
  BY <1>0, <1>10 DEF IncomingCloses, StreamCloses, Destroyed
<1> QED
  BY <1>0, <1>1, <1>2, <1>3, <1>4, <1>5, <1>6, <1>7, <1>8, <1>9, <1>10
  DEF PeerNext

-----------------------------------------------------------------------------
(* The other end. *)

LEMMA NativeTypeStep ==
  ASSUME NativeType, NativeNext \/ UNCHANGED nativeVars
  PROVE  NativeType'
<1> USE DEF NativeType, Sockets
<1>1. CASE UNCHANGED nativeVars
  BY <1>1 DEF nativeVars
<1>2. CASE Native!StopNativeServer
  BY <1>2 DEF Native!StopNativeServer, Native!MuxesDestroyed
<1>3. ASSUME NEW g \in Servers,
             Native!Connection(g) \/ Native!IncomingResets(g)
      PROVE  NativeType'
  BY <1>3 DEF Native!Connection, Native!IncomingResets
<1>4. ASSUME NEW g \in Servers, Native!Timeout(g) \/ Native!IncomingEnds(g)
      PROVE  NativeType'
  BY <1>4 DEF Native!Timeout, Native!IncomingEnds, Native!MuxesDestroyed
<1>5. ASSUME NEW c \in Apps,
             \/ Native!RouterCloses(c) \/ Native!RouterFails(c)
             \/ Native!StreamEnds(c) \/ Native!RouterConnects(c)
      PROVE  NativeType'
  BY <1>5 DEF Native!RouterCloses, Native!RouterFails, Native!StreamEnds,
              Native!RouterConnects
<1>6. ASSUME NEW c \in Apps, NEW g \in Servers, Native!OnStream(c, g)
      PROVE  NativeType'
  <2>1. g \in 0 .. MaxServers
    BY PeerListenerAssumption DEF Servers
  <2> QED
    BY <1>6, <2>1 DEF Native!OnStream
<1> QED
  BY <1>1, <1>2, <1>3, <1>4, <1>5, <1>6 DEF NativeNext

-----------------------------------------------------------------------------
LinkInv == PeerInv /\ NativeType

LEMMA LinkInitSound == LinkInit => LinkInv
<1> SUFFICES ASSUME LinkInit PROVE LinkInv
  OBVIOUS
<1>1. 0 \in 0 .. MaxServers
  BY PeerListenerAssumption
<1>2. PeerInv
  BY <1>1 DEF LinkInit, PeerInit, PeerInv, PeerType, ServersSound, SocketsSound, Sockets
<1>3. NativeType
  BY <1>1 DEF LinkInit, Native!NativeInit, NativeType, Sockets
<1> QED
  BY <1>2, <1>3 DEF LinkInv

LEMMA LinkStepSound == LinkInv /\ [LinkNext]_linkVars => LinkInv'
BY StepOfAnEnd, PeerTypeStep, ServersStep, SocketsStep, NativeTypeStep
DEF LinkInv, PeerInv

\* The inductive invariant: a socket is open only on a server that listens, and
\* a server that listens has a multiplex object that is not destroyed.
THEOREM BooksKept == LinkSpec => []LinkInv
BY LinkInitSound, LinkStepSound, PTL DEF LinkSpec

\* Every variable of the two ends keeps to its type, whatever breaks.
THEOREM TypeCorrect == LinkSpec => []LinkTypeOK
<1>1. LinkInv => LinkTypeOK
  BY DEF LinkInv, PeerInv, PeerType, NativeType, LinkTypeOK
<1> QED
  BY BooksKept, <1>1, PTL

\* A stream is open only with the application's connection it was made for, on
\* the multiplex object of a server that listens (createPeerListener.js,
\* onNewConnection): neither an application that left early nor a server that
\* was closed while its tunnel was made gets one.
THEOREM StreamsHaveConnections == LinkSpec => []StreamHasConnection
<1>1. ASSUME LinkInv, NEW c \in Apps, stream[c] = "open"
      PROVE  /\ incoming[c] = "open"
             /\ mux[at[c]] = "open" /\ server[at[c]] = "listening"
  <2>1. at[c] \in Servers /\ incoming[c] = "open" /\ mux[at[c]] # "none"
    BY <1>1, Reached DEF LinkInv, PeerInv, SocketsSound
  <2> QED
    BY <1>1, <2>1 DEF LinkInv, PeerInv, PeerType, ServersSound, SocketsSound
<1>2. LinkInv => StreamHasConnection
  BY <1>1 DEF StreamHasConnection
<1> QED
  BY BooksKept, <1>2, PTL
=============================================================================
