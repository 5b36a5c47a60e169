------------------- MODULE ThaliPeerPoolOneAtATime_proofs -------------------
(***************************************************************************)
(* Theorems about the pool and the replications it runs, for any peers,    *)
(* any number of replication actions and of starts and stops.              *)
(***************************************************************************)
EXTENDS ThaliPeerPoolOneAtATime, FiniteSetTheorems, SequenceTheorems, TLAPS

-----------------------------------------------------------------------------
(* The invariant *)

\* What a replication action can be: only the pool's own are tracked, one that
\* has settled is dead, and over Bluetooth only the slot's is at work.
ActionFits(i) ==
  LET r == reps[i]
  IN /\ r.state = "free"    => r = Blank
     /\ r.state # "free"    => r.peer \in Peers
     /\ r.state = "created" => r.peer \in NativePeers /\ r.run = "idle" /\ r.tracked
     /\ r.tracked           => r.state \in {"created", "started"}
     /\ r.run = "settled"   => r.state = "killed"
     /\ r.peer \in NativePeers /\ r.run # "idle" => i = slot /\ turn = "replicating"

\* What the slot holds while the head of the Bluetooth queue is at each of its
\* stages.
SlotFits ==
  /\ turn \in {"idle", "asking"} => slot = None
  /\ turn \in {"replicating", "replicated"} => slot # None
  /\ slot # None =>
       /\ reps[slot].peer \in NativePeers /\ reps[slot].state # "free"
       /\ turn = "answered" => reps[slot].state \in {"created", "killed"}
       /\ turn = "replicating" => reps[slot].run # "idle"
       /\ turn \in {"replicated", "broken"} => reps[slot].state = "killed"

\* Who is asked for beacons: nobody, unless Thali runs.
AsksFit ==
  /\ turn # "idle" => serial # <<>>
  /\ turn = "asking" => serial[1].live
  /\ \A n \in 1 .. Len(serial) : serial[n].live => session = "running"
  /\ asking # {} => session = "running"

IInv ==
  /\ TypeOK
  /\ \A i \in Ids : ActionFits(i)
  /\ SlotFits /\ AsksFit
  /\ IsFiniteSet(Tracked)
  /\ CountIsExact /\ PendingWaitsInSlot /\ StoppedPoolIsEmpty

-----------------------------------------------------------------------------
(* What is done to an action *)

\* A kill leaves a dead action, whose replication is being cancelled.
LEMMA DeadIs ==
  ASSUME NEW r \in Replication
  PROVE  /\ Dead(r) \in Replication /\ Dead(r).peer = r.peer
         /\ Dead(r).state = IF r.state = "free" THEN "free" ELSE "killed"
         /\ Dead(r).tracked => r.tracked /\ r.state \in {"free", "killed"}
         /\ r.state \in {"free", "killed"} => Dead(r) = r
         /\ Dead(r).run = IF r.state \in {"created", "started"} /\ r.run = "open"
                          THEN "closing" ELSE r.run
  BY DEF Dead, Replication, States, Runs

\* What Complete leaves.
Settled(r, how) == [Dead(r) EXCEPT !.run = "settled", !.outcome = how]

\* A promise that has settled leaves a dead action.
LEMMA SettledIs ==
  ASSUME NEW r \in Replication, NEW how \in Outcomes, r.state # "free"
  PROVE  /\ Settled(r, how) \in Replication /\ Settled(r, how).peer = r.peer
         /\ Settled(r, how).state = "killed" /\ Settled(r, how).run = "settled"
         /\ Settled(r, how).tracked => r.tracked /\ r.state = "killed"
  BY DEF Settled, Dead, Replication, States, Runs

\* start leaves an action at work.
LEMMA BegunIs ==
  ASSUME NEW r \in Replication
  PROVE  /\ Begun(r) \in Replication /\ Begun(r).peer = r.peer
         /\ Begun(r).state = "started" /\ Begun(r).run = "opening"
         /\ Begun(r).tracked = r.tracked
  BY DEF Begun, Replication, States, Runs, Outcomes

\* A new action waits, and is tracked.
LEMMA CreatedIs ==
  ASSUME NEW p \in Peers
  PROVE  /\ Created(p) \in Replication /\ Created(p).peer = p
         /\ Created(p).state = "created" /\ Created(p).run = "idle" /\ Created(p).tracked
  BY DEF Created, Blank, Replication, States, Runs, Outcomes

\* An id that is not used.
LEMMA BlankIs ==
  /\ Blank \in Replication /\ Blank.peer = None
  /\ Blank.state = "free" /\ Blank.run = "idle" /\ ~Blank.tracked
BY DEF Blank, Replication, States, Runs, Outcomes

\* An advertisement over Bluetooth that is handled at its turn finds an empty slot
\* and, what comes to the same, nothing in the dictionary.
LEMMA NativeData ==
  ASSUME IInv, turn = "asking", NEW p \in NativePeers, DataForUs(p)
  PROVE  \E i \in Ids :
           /\ Free(i)
           /\ reps' = [reps EXCEPT ![i] = Created(p)]
           /\ pending' = [pending EXCEPT ![p] = i]
           /\ slot' = i
           /\ count' = count
<1>1. PICK i \in Ids : Free(i) /\ EnqueueNative(p, i)
  BY PoolAssumption DEF DataForUs
<1>2. slot = None /\ p \in Peers /\ reps[i] \in Replication
  BY DEF IInv, SlotFits, Peers, TypeOK
<1>3. \A q \in Peers : pending[q] = None
  BY <1>2 DEF IInv, PendingWaitsInSlot
<1>4. {pending[p], slot} \ {None} = {}
  BY <1>2, <1>3
<1>5. reps' = [reps EXCEPT ![i] = Created(p)]
  BY <1>1, <1>4 DEF EnqueueNative, IInv, TypeOK
<1>6. pending' = [pending EXCEPT ![p] = i]
  BY <1>1, <1>4 DEF EnqueueNative, IInv, TypeOK
<1> QED BY <1>1, <1>5, <1>6 DEF EnqueueNative

\* A Wi-Fi peer has data for us: it is dropped, or begins at once and is counted.
LEMMA WifiData ==
  ASSUME NEW p \in WifiPeers, DataForUs(p)
  PROVE  \/ NoData
         \/ \E i \in Ids :
              /\ Free(i) /\ count[p] < 2
              /\ reps' = [reps EXCEPT ![i] = Begun(Created(p))]
              /\ count' = [count EXCEPT ![p] = @ + 1]
              /\ UNCHANGED <<pending, slot>>
  BY DEF DataForUs, EnqueueWifi, NoData

-----------------------------------------------------------------------------
(* Types *)

\* Types, for every step.
LEMMA TypeKept == IInv /\ Next => TypeOK'
<1> SUFFICES ASSUME IInv, Next
             PROVE  TypeOK'
  OBVIOUS
<1> USE DEF TypeOK
<1>1. TypeOK /\ Peers = NativePeers \cup WifiPeers /\ None \notin Ids
  BY PoolAssumption DEF IInv, Peers, None
<1>2. ASSUME NEW n \in 1 .. Len(serial)
      PROVE  /\ serial[n] \in Notification
             /\ [serial EXCEPT ![n].live = FALSE] \in Seq(Notification)
  <2>1. serial \in Seq(Notification) /\ serial[n] \in Notification
    BY <1>1
  <2>2. PICK e \in Notification : e = [serial[n] EXCEPT !.live = FALSE]
    BY <2>1 DEF Notification
  <2>3. [serial EXCEPT ![n] = e] \in Seq(Notification)
    BY <2>1, ExceptSeq
  <2> QED BY <2>1, <2>2, <2>3
<1>3. turn # "idle" => Tail(serial) \in Seq(Notification) /\ serial[1] \in Notification
  BY <1>1, <1>2, HeadTailProperties DEF IInv, AsksFit
<1>4. CASE Start \/ MobileStarted \/ MobileStop \/ ServersStop
  <2>1. session' \in Sessions
    BY <1>4 DEF Start, MobileStarted, MobileStop, ServersStop, Sessions
  <2>2. sessions' \in 0 .. MaxSessions
    BY <1>1, <1>4, PoolAssumption DEF Start, MobileStarted, MobileStop, ServersStop
  <2> QED BY <1>1, <1>4, <2>1, <2>2 DEF Start, MobileStarted, MobileStop, ServersStop
<1>5. CASE PullStop
  <2>1. serial' \in Seq(Notification)
    BY <1>1, <1>2, <1>5 DEF PullStop, Notification
  <2> DEFINE S == {pending[p] : p \in Peers} \ {None}
  <2>2. reps' \in [Ids -> Replication]
    BY <1>1, <1>5, DeadIs DEF PullStop, KillAll
  <2>3. count' = count
    <3>1. \A i \in S : i \in Ids /\ reps[i].state = "created"
      BY <1>1 DEF IInv, PendingWaitsInSlot
    <3>2. \A i \in S : reps[i].peer \notin WifiPeers
      <4>1. \A i \in Ids : reps[i].state = "created" => reps[i].peer \in NativePeers
        BY DEF IInv, ActionFits
      <4> QED BY <3>1, <4>1, PoolAssumption
    <3>a. KillAll(S)
      BY <1>5 DEF PullStop
    <3> HIDE DEF S
    <3>3. ASSUME NEW p \in WifiPeers
          PROVE  Cardinality({i \in S : reps[i].peer = p /\ reps[i].tracked}) = 0
      <4>1. {i \in S : reps[i].peer = p /\ reps[i].tracked} = {}
        BY <3>2
      <4> QED BY <4>1, FS_EmptySet
    <3>4. \A p \in WifiPeers : count'[p] = count[p]
      <4>1. ASSUME NEW p \in WifiPeers
            PROVE  count'[p] = count[p] - 0
        BY <3>a, <3>3 DEF KillAll
      <4> QED BY <1>1, <4>1
    <3> QED BY <1>1, <3>a, <3>4 DEF KillAll
  <2> QED BY <1>1, <1>5, <2>1, <2>2, <2>3 DEF PullStop, KillAll, Turns, Sessions
<1>6. CASE PoolStop
  BY <1>1, <1>6, DeadIs DEF PoolStop, Sessions, Tracked
<1>7. ASSUME NEW p \in WifiPeers, AskWifi(p) \/ WifiAnswer(p)
      PROVE  TypeOK'
  <2>1. CASE AskWifi(p)
    BY <1>1, <2>1 DEF AskWifi
  <2>2. CASE WifiAnswer(p)
    <3>1. CASE DataForUs(p) /\ ~NoData
      <4>1. PICK i \in Ids : /\ reps' = [reps EXCEPT ![i] = Begun(Created(p))]
                             /\ count' = [count EXCEPT ![p] = @ + 1]
                             /\ UNCHANGED <<pending, slot>>
        BY <3>1, WifiData
      <4>2. Begun(Created(p)) \in Replication
        BY <1>1, CreatedIs, BegunIs
      <4> QED BY <1>1, <2>2, <4>1, <4>2 DEF WifiAnswer
    <3>2. CASE NoData
      BY <1>1, <2>2, <3>2 DEF WifiAnswer, NoData
    <3> QED BY <2>2, <3>1, <3>2 DEF WifiAnswer
  <2> QED BY <1>7, <2>1, <2>2
<1>8. ASSUME NEW p \in NativePeers, AskNative(p)
      PROVE  TypeOK'
  <2>1. [peer |-> p, live |-> TRUE] \in Notification
    BY DEF Notification
  <2> QED BY <1>1, <1>8, <2>1 DEF AskNative
<1>9. ASSUME NEW n \in 1 .. Len(serial), KillNotification(n)
      PROVE  TypeOK'
  BY <1>1, <1>2, <1>9 DEF KillNotification, Kill, Turns
<1>10. CASE BeginTurn
  BY <1>1, <1>10 DEF BeginTurn, Turns
<1>11. CASE NativeAnswer
  <2>1. serial' \in Seq(Notification) /\ turn' \in Turns /\ serial[1].peer \in NativePeers
    <3>1. 1 \in 1 .. Len(serial)
      BY <1>1, <1>11 DEF NativeAnswer, IInv, AsksFit
    <3> QED BY <1>2, <1>3, <1>11, <3>1 DEF NativeAnswer, Turns, Notification
  <2>2. CASE DataForUs(serial[1].peer)
    <3>1. PICK i \in Ids : /\ reps' = [reps EXCEPT ![i] = Created(serial[1].peer)]
                           /\ pending' = [pending EXCEPT ![serial[1].peer] = i]
                           /\ slot' = i /\ count' = count
      BY <1>11, <2>1, <2>2, NativeData DEF NativeAnswer
    <3>2. Created(serial[1].peer) \in Replication
      BY <1>1, <2>1, CreatedIs
    <3> QED BY <1>1, <1>11, <2>1, <3>1, <3>2 DEF NativeAnswer
  <2>3. CASE NoData
    BY <1>1, <1>11, <2>1, <2>3 DEF NativeAnswer, NoData
  <2> QED BY <1>11, <2>2, <2>3 DEF NativeAnswer
<1>12. CASE AfterNotification
  <2>1. \A i \in Ids : /\ Begun(reps[i]) \in Replication
                       /\ [reps[i] EXCEPT !.run = "settled", !.outcome = "completed"]
                            \in Replication
    <3>1. \A i \in Ids : reps[i] \in Replication
      BY <1>1
    <3>2. \A r \in Replication :
            [r EXCEPT !.run = "settled", !.outcome = "completed"] \in Replication
      BY DEF Replication, Runs, Outcomes
    <3> QED BY <3>1, <3>2, BegunIs
  <2>2. reps' \in [Ids -> Replication]
    <3>1. CASE slot = None
      BY <1>1, <1>12, <3>1 DEF AfterNotification
    <3>2. CASE slot # None
      <4>1. slot \in Ids
        BY <1>1, <3>2
      <4>2. PICK r \in Replication : reps' = [reps EXCEPT ![slot] = r]
        BY <1>12, <2>1, <3>2, <4>1 DEF AfterNotification
      <4> QED BY <1>1, <4>2
    <3> QED BY <3>1, <3>2
  <2> QED BY <1>1, <1>3, <1>12, <2>2 DEF AfterNotification, Terminate, EndTurn, Turns
<1>13. CASE AfterReplication
  BY <1>1, <1>3, <1>13, BlankIs DEF AfterReplication, Terminate, EndTurn, Turns
<1>14. ASSUME NEW i \in Ids, Open(i) \/ Retry(i) \/ GiveUp(i)
       PROVE  TypeOK'
  <2>1. CASE Open(i)
    BY <1>1, <2>1 DEF Open, Replication, Runs
  <2>2. CASE Retry(i)
    BY <1>1, <2>2, BegunIs DEF Retry
  <2>3. CASE GiveUp(i)
    <3>1. reps[i] \in Replication
      BY <1>1
    <3>2. [[reps[i] EXCEPT !.run = "idle"] EXCEPT !.outcome = "none"] \in Replication
      BY <3>1 DEF Replication, Runs, Outcomes
    <3>3. reps' \in [Ids -> Replication]
      BY <1>1, <2>3, <3>2, BlankIs DEF GiveUp, Finish
    <3> QED BY <1>1, <2>3, <3>3 DEF GiveUp, Finish, Turns
  <2> QED BY <1>14, <2>1, <2>2, <2>3
<1>15. ASSUME NEW i \in Ids, Ends(i) \/ ReplicationCancelled(i)
       PROVE  TypeOK'
  <2>1. PICK how \in Outcomes : Complete(i, how)
    BY <1>15 DEF Ends, ReplicationCancelled, IdleTimeout, ReplicationError, Outcomes
  <2>2. reps[i] # Blank /\ reps[i].state # "free" /\ reps[i].peer \in Peers
    BY <1>15, BlankIs DEF Ends, ReplicationCancelled, IdleTimeout, ReplicationError, IInv,
      ActionFits
  <2>3. reps' \in [Ids -> Replication]
    BY <1>1, <2>1, <2>2, SettledIs DEF Complete, Settled
  <2>4. ASSUME NEW p \in WifiPeers, reps[i].peer = p, reps[i].tracked
        PROVE  count[p] - 1 \in Nat
    <3>1. i \in {j \in Tracked : reps[j].peer = p}
      BY <2>4 DEF Tracked
    <3>2. IsFiniteSet({j \in Tracked : reps[j].peer = p})
      BY FS_Subset DEF IInv
    <3>3. Cardinality({j \in Tracked : reps[j].peer = p}) # 0
      BY <3>1, <3>2, FS_EmptySet
    <3> QED BY <1>1, <3>3 DEF IInv, CountIsExact
  <2>5. count' \in [WifiPeers -> Nat]
    BY <1>1, <2>1, <2>4 DEF Complete
  <2>6. stray' \subseteq Peers
    BY <1>1, <1>15, <2>2 DEF Ends, ReplicationCancelled, IdleTimeout, ReplicationError
  <2> QED
    BY <1>1, <1>15, <2>1, <2>3, <2>5, <2>6 DEF Ends, ReplicationCancelled, IdleTimeout,
       ReplicationError, Complete
<1>16. ASSUME NEW p \in Peers, StrayEnds(p)
       PROVE  TypeOK'
  BY <1>1, <1>16 DEF StrayEnds
<1> QED
  BY <1>4, <1>5, <1>6, <1>7, <1>8, <1>9, <1>10, <1>11, <1>12, <1>13, <1>14, <1>15, <1>16
  DEF Next

-----------------------------------------------------------------------------
(* Who is asked *)

\* The Bluetooth queue is worked on, and beacons asked for, only while Thali runs.
LEMMA AsksKept == IInv /\ Next => AsksFit'
<1> SUFFICES ASSUME IInv, Next
             PROVE  AsksFit'
  OBVIOUS
<1>1. serial \in Seq(Notification) /\ AsksFit
  BY DEF IInv, TypeOK
<1>2. ASSUME UNCHANGED <<serial, turn>>, session' = session \/ session # "running",
             asking' \subseteq asking \/ session' = "running"
      PROVE  AsksFit'
  BY <1>1, <1>2 DEF AsksFit
<1>3. ASSUME UNCHANGED session, asking' \subseteq asking, EndTurn
      PROVE  AsksFit'
  <2>1. CASE serial = <<>>
    BY <1>1, <1>3, <2>1 DEF EndTurn, AsksFit
  <2>2. CASE serial # <<>>
    <3>1. /\ Len(serial') = Len(serial) - 1
          /\ \A n \in 1 .. Len(serial') : n + 1 \in 1 .. Len(serial) /\ serial'[n] = serial[n + 1]
      BY <1>1, <1>3, <2>2, HeadTailProperties DEF EndTurn
    <3> QED BY <1>1, <1>3, <3>1 DEF EndTurn, AsksFit
  <2>3. serial # <<>> \/ turn = "idle"
    BY <1>1 DEF AsksFit
  <2> QED BY <2>1, <2>2
<1>4. ASSUME NEW n \in 1 .. Len(serial), UNCHANGED <<session, asking>>,
             serial' = [serial EXCEPT ![n].live = FALSE],
             turn' = turn \/ turn' = "answered", turn' = "asking" => n # 1
      PROVE  AsksFit'
  <2>1. /\ Len(serial') = Len(serial) /\ serial' # <<>>
        /\ \A m \in 1 .. Len(serial) :
             /\ serial'[m].live => serial[m].live
             /\ m # n => serial'[m] = serial[m]
    <3>1. serial[n] \in Notification /\ serial # <<>>
      BY <1>1
    <3>2. PICK e \in Notification : e = [serial[n] EXCEPT !.live = FALSE]
      BY <3>1 DEF Notification
    <3>3. ~e.live
      BY <3>1, <3>2 DEF Notification
    <3>4. serial' = [serial EXCEPT ![n] = e]
      BY <1>4, <3>2
    <3> QED BY <1>1, <3>1, <3>3, <3>4, ExceptSeq
  <2>2. turn' = "asking" => serial'[1] = serial[1] /\ serial[1].live
    BY <1>1, <1>4, <2>1 DEF AsksFit
  <2> QED BY <1>1, <1>4, <2>1, <2>2 DEF AsksFit
<1>5. turn # "idle" => 1 \in 1 .. Len(serial)
  BY <1>1 DEF AsksFit
<1>6. CASE Start \/ MobileStarted \/ PoolStop \/ MobileStop \/ ServersStop
  <2>1. session # "running" /\ session' # "running" => AsksFit'
    BY <1>1, <1>6 DEF AsksFit, Start, MobileStarted, PoolStop, MobileStop, ServersStop
  <2> QED
    BY <1>2, <1>6, <2>1 DEF Start, MobileStarted, PoolStop, MobileStop, ServersStop
<1>7. CASE PullStop
  BY <1>1, <1>7 DEF PullStop, AsksFit, Notification
<1>8. ASSUME NEW p \in WifiPeers, AskWifi(p) \/ WifiAnswer(p)
      PROVE  AsksFit'
  BY <1>1, <1>2, <1>8 DEF AskWifi, WifiAnswer, AsksFit
<1>9. ASSUME NEW p \in NativePeers, AskNative(p)
      PROVE  AsksFit'
  <2> DEFINE e == [peer |-> p, live |-> TRUE]
  <2>1. e \in Notification
    BY DEF Notification
  <2>2. serial' = Append(serial, e) /\ session = "running"
    BY <1>9 DEF AskNative
  <2> HIDE DEF e
  <2>3. /\ serial' # <<>> /\ serial # <<>> => serial'[1] = serial[1]
    BY <1>1, <2>1, <2>2, AppendProperties
  <2> QED BY <1>1, <1>9, <2>2, <2>3 DEF AskNative, AsksFit
<1>10. ASSUME NEW n \in 1 .. Len(serial), KillNotification(n)
       PROVE  AsksFit'
  BY <1>4, <1>10 DEF KillNotification, Kill
<1>11. CASE BeginTurn
  BY <1>1, <1>11 DEF BeginTurn, AsksFit
<1>12. CASE NativeAnswer
  BY <1>4, <1>5, <1>12 DEF NativeAnswer
<1>13. CASE AfterNotification \/ AfterReplication
  <2>1. UNCHANGED <<session, asking>>
    BY <1>13 DEF AfterNotification, AfterReplication
  <2>2. EndTurn \/ (turn' \in {"broken", "replicating"} /\ turn # "idle" /\ UNCHANGED serial)
    BY <1>13 DEF AfterNotification, AfterReplication, Terminate
  <2> QED BY <1>1, <1>3, <2>1, <2>2 DEF AsksFit
<1>14. ASSUME NEW i \in Ids,
              Open(i) \/ Retry(i) \/ ReplicationCancelled(i) \/ Ends(i)
       PROVE  AsksFit'
  BY <1>2, <1>14 DEF Open, Retry, ReplicationCancelled, Ends, IdleTimeout, ReplicationError
<1>15. ASSUME NEW i \in Ids, GiveUp(i)
       PROVE  AsksFit'
  <2>1. /\ UNCHANGED <<session, asking, serial>>
        /\ turn' = turn \/ (turn' = "replicated" /\ turn # "idle")
    BY <1>15 DEF GiveUp, Finish, IInv, ActionFits, Peers
  <2> QED BY <1>1, <2>1 DEF AsksFit
<1>16. ASSUME NEW p \in Peers, StrayEnds(p)
       PROVE  AsksFit'
  BY <1>2, <1>16 DEF StrayEnds
<1> QED
  BY <1>6, <1>7, <1>8, <1>9, <1>10, <1>11, <1>12, <1>13, <1>14, <1>15, <1>16
  DEF Next

-----------------------------------------------------------------------------
(* The slot, the dictionary and what is at work *)

SlotAgrees == (\A i \in Ids : ActionFits(i)) /\ SlotFits /\ PendingWaitsInSlot

\* A step that leaves the slot, the dictionary and the turn alone and
\* kills, opens, closes, settles or retries one action.
LEMMA OneChanges ==
  ASSUME IInv, NEW i \in Ids, NEW r \in Replication, reps' = [reps EXCEPT ![i] = r],
         UNCHANGED <<slot, turn, pending>>,
         r.peer = reps[i].peer, reps[i].run # "idle", r.run # "idle",
         r.state \in {"started", "killed"},
         r.tracked => r.state = "started",
         r.run = "settled" => r.state = "killed"
  PROVE  SlotAgrees'
<1>1. SlotAgrees /\ TypeOK
  BY DEF IInv, SlotAgrees
<1>2. \A j \in Ids : reps'[j] = IF j = i THEN r ELSE reps[j]
  BY <1>1 DEF TypeOK
<1>3. reps[i].state \in {"started", "killed"} /\ reps[i].peer \in Peers
  BY <1>1, BlankIs DEF SlotAgrees, ActionFits, TypeOK, Replication, States
<1>4. \A j \in Ids : ActionFits(j)'
  <2>1. ActionFits(i)'
    BY <1>1, <1>2, <1>3 DEF SlotAgrees, ActionFits
  <2>2. ASSUME NEW j \in Ids, j # i
        PROVE  ActionFits(j)'
    BY <1>1, <1>2, <2>2 DEF SlotAgrees, ActionFits
  <2> QED BY <2>1, <2>2
<1>5. slot # None => slot \in Ids
  BY <1>1 DEF TypeOK
<1>6. slot = i => turn = "replicating"
  BY <1>1, <1>5, PoolAssumption DEF SlotAgrees, SlotFits, ActionFits
<1>7. SlotFits'
  BY <1>1, <1>2, <1>3, <1>5, <1>6 DEF SlotAgrees, SlotFits
<1>8. \A p \in Peers : pending[p] # i
  BY <1>1, <1>3, PoolAssumption DEF SlotAgrees, PendingWaitsInSlot
<1>9. PendingWaitsInSlot'
  <2>1. slot = i => \A p \in Peers : pending[p] = None
    BY <1>1, <1>8 DEF SlotAgrees, PendingWaitsInSlot
  <2> QED BY <1>1, <1>2, <1>5, <2>1 DEF SlotAgrees, PendingWaitsInSlot
<1> QED BY <1>4, <1>7, <1>9 DEF SlotAgrees

\* A step that kills actions of the pool and forgets them in the dictionary.
LEMMA SomeDie ==
  ASSUME IInv, NEW S \in SUBSET Ids,
         reps' = [i \in Ids |-> IF i \in S THEN Dead(reps[i]) ELSE reps[i]],
         pending' = [p \in Peers |-> IF pending[p] \in S THEN None ELSE pending[p]],
         UNCHANGED slot, turn' = turn \/ (turn = "asking" /\ turn' = "answered")
  PROVE  SlotAgrees'
<1>1. SlotAgrees /\ TypeOK
  BY DEF IInv, SlotAgrees
<1>2. ASSUME NEW i \in Ids
      PROVE  /\ reps[i] \in Replication
             /\ reps'[i].peer = reps[i].peer
             /\ reps'[i] = reps[i] \/ (reps'[i].state = "killed" /\ i \in S)
             /\ reps'[i].tracked => reps[i].tracked /\ reps'[i] = reps[i]
             /\ \/ reps'[i].run = reps[i].run
                \/ reps[i].run = "open" /\ reps'[i].run = "closing"
  <2>1. reps[i] \in Replication
    BY <1>1 DEF TypeOK
  <2>2. CASE i \in S
    <3> DEFINE r == reps[i]
               d == Dead(reps[i])
    <3>1. reps'[i] = d
      BY <2>2
    <3>2. /\ d.peer = r.peer /\ d.state = IF r.state = "free" THEN "free" ELSE "killed"
          /\ d.tracked => r.tracked /\ r.state \in {"free", "killed"}
          /\ r.state \in {"free", "killed"} => d = r
          /\ d.run = IF r.state \in {"created", "started"} /\ r.run = "open"
                     THEN "closing" ELSE r.run
      BY <2>1, DeadIs
    <3> HIDE DEF d, r
    <3>3. reps[i] = r
      BY DEF r
    <3> QED BY <2>1, <2>2, <3>1, <3>2, <3>3
  <2>3. CASE i \notin S
    <3>1. reps'[i] = reps[i]
      BY <2>3
    <3> QED BY <2>1, <3>1
  <2> QED BY <2>1, <2>2, <2>3
<1>3. ASSUME NEW i \in Ids
      PROVE  ActionFits(i)'
  <2>1. ActionFits(i) /\ (reps[i].state # "free" => reps[i].peer \in Peers)
    BY <1>1 DEF SlotAgrees, ActionFits
  <2>2. turn = "replicating" => turn' = turn
    OBVIOUS
  <2>3. CASE reps'[i] = reps[i]
    BY <1>1, <2>1, <2>2, <2>3 DEF ActionFits
  <2>4. CASE reps'[i] # reps[i]
    <3>1. reps'[i].state = "killed" /\ reps[i].state # "free"
      <4>1. reps[i].state = "free" => Dead(reps[i]) = reps[i]
        BY <1>2, DeadIs
      <4> QED BY <1>2, <2>4, <4>1
    <3>2. ~reps'[i].tracked
      BY <1>2, <2>4
    <3> QED BY <1>1, <1>2, <2>1, <2>2, <3>1, <3>2 DEF ActionFits
  <2> QED BY <2>3, <2>4
<1>4. slot # None => slot \in Ids
  BY <1>1 DEF TypeOK
<1>5. SlotFits'
  <2>1. slot # None => /\ reps'[slot].peer \in NativePeers
                       /\ reps'[slot].state # "free"
                       /\ turn # "asking"
    BY <1>1, <1>2, <1>4 DEF SlotAgrees, SlotFits
  <2> QED BY <1>1, <1>2, <1>4, <2>1 DEF SlotAgrees, SlotFits
<1>6. PendingWaitsInSlot'
  <2>1. ASSUME NEW p \in Peers, pending'[p] # None
        PROVE  pending[p] = pending'[p] /\ pending[p] \notin S /\ pending[p] \in Ids
    BY <1>1, <2>1 DEF TypeOK
  <2>2. turn' = "asking" => turn = "asking"
    OBVIOUS
  <2>3. ASSUME NEW i \in Ids, i \notin S
        PROVE  reps'[i] = reps[i]
    BY <2>3
  <2> QED BY <1>1, <2>1, <2>2, <2>3 DEF SlotAgrees, PendingWaitsInSlot
<1> QED BY <1>3, <1>5, <1>6 DEF SlotAgrees

\* The slot holds the action that the head of the Bluetooth queue has got to.
LEMMA SlotKept == IInv /\ Next => SlotAgrees'
<1> SUFFICES ASSUME IInv, Next
             PROVE  SlotAgrees'
  OBVIOUS
<1>1. SlotAgrees /\ TypeOK
  BY DEF IInv, SlotAgrees
<1>2. ASSUME UNCHANGED <<reps, slot, turn, pending>>
      PROVE  SlotAgrees'
  BY <1>1, <1>2 DEF SlotAgrees, ActionFits, SlotFits, PendingWaitsInSlot
<1>3. ASSUME UNCHANGED <<reps, slot, pending>>, turn \in {"idle", "asking"},
             turn' \in {"idle", "asking", "answered"}
      PROVE  SlotAgrees'
  <2>1. slot = None
    BY <1>1, <1>3 DEF SlotAgrees, SlotFits
  <2>2. \A i \in Ids : reps[i].peer \in NativePeers => reps[i].run = "idle"
    BY <1>1, <1>3 DEF SlotAgrees, ActionFits
  <2>3. \A i \in Ids : ActionFits(i)'
    BY <1>1, <1>3, <2>2 DEF SlotAgrees, ActionFits
  <2> QED BY <1>1, <1>3, <2>1, <2>3 DEF SlotAgrees, SlotFits, PendingWaitsInSlot
<1>4. CASE Start \/ MobileStarted \/ MobileStop \/ ServersStop
  BY <1>2, <1>4 DEF Start, MobileStarted, MobileStop, ServersStop
<1>5. CASE PullStop
  <2>1. {pending[p] : p \in Peers} \ {None} \in SUBSET Ids
    BY <1>1 DEF TypeOK
  <2> QED BY <1>5, <2>1, SomeDie DEF PullStop, KillAll
<1>6. CASE PoolStop
  <2>1. Tracked \in SUBSET Ids
    BY DEF Tracked
  <2> QED BY <1>6, <2>1, SomeDie DEF PoolStop
<1>7. ASSUME NEW p \in WifiPeers, AskWifi(p) \/ WifiAnswer(p)
      PROVE  SlotAgrees'
  <2>1. CASE AskWifi(p) \/ (WifiAnswer(p) /\ NoData)
    BY <1>2, <2>1 DEF AskWifi, WifiAnswer, NoData
  <2>2. CASE WifiAnswer(p) /\ ~NoData
    <3>1. PICK i \in Ids : /\ Free(i)
                           /\ reps' = [reps EXCEPT ![i] = Begun(Created(p))]
                           /\ UNCHANGED <<pending, slot, turn>>
      BY <2>2, WifiData DEF WifiAnswer
    <3> DEFINE r == Begun(Created(p))
    <3>2. /\ r.peer = p /\ r.state = "started" /\ r.run = "opening" /\ p \in Peers
          /\ p \notin NativePeers
      BY CreatedIs, BegunIs, PoolAssumption DEF Peers
    <3>3. \A j \in Ids : reps'[j] = IF j = i THEN r ELSE reps[j]
      BY <1>1, <3>1 DEF TypeOK
    <3> HIDE DEF r
    <3>4. slot # i /\ \A q \in Peers : pending[q] # i
      <4>1. i # None
        BY PoolAssumption
      <4> QED BY <1>1, <3>1, <4>1 DEF SlotAgrees, SlotFits, PendingWaitsInSlot, Free
    <3>5. \A j \in Ids : ActionFits(j)'
      BY <1>1, <3>1, <3>2, <3>3 DEF SlotAgrees, ActionFits
    <3>6. slot # None => slot \in Ids
      BY <1>1 DEF TypeOK
    <3> QED BY <1>1, <3>1, <3>3, <3>4, <3>5, <3>6 DEF SlotAgrees, SlotFits, PendingWaitsInSlot
  <2> QED BY <1>7, <2>1, <2>2
<1>8. ASSUME NEW p \in NativePeers, AskNative(p)
      PROVE  SlotAgrees'
  BY <1>2, <1>8 DEF AskNative
<1>9. ASSUME NEW n \in 1 .. Len(serial), KillNotification(n)
      PROVE  SlotAgrees'
  BY <1>2, <1>3, <1>9 DEF KillNotification, Kill
<1>10. CASE BeginTurn
  BY <1>3, <1>10 DEF BeginTurn
<1>11. CASE NativeAnswer
  <2>1. CASE NoData
    BY <1>3, <1>11, <2>1 DEF NativeAnswer, NoData
  <2>2. CASE DataForUs(serial[1].peer)
    <3>1. turn = "asking" /\ turn' = "answered" /\ serial[1].peer \in NativePeers
      <4>1. turn = "asking" /\ turn' = "answered"
        BY <1>11 DEF NativeAnswer
      <4>2. serial \in Seq(Notification) /\ serial # <<>>
        BY <1>1, <4>1 DEF IInv, AsksFit, TypeOK
      <4>3. serial[1] \in Notification
        BY <4>2
      <4> QED BY <4>1, <4>3 DEF Notification
    <3>2. PICK p \in NativePeers : p = serial[1].peer
      BY <3>1
    <3>3. PICK i \in Ids : /\ Free(i)
                           /\ reps' = [reps EXCEPT ![i] = Created(p)]
                           /\ pending' = [pending EXCEPT ![p] = i]
                           /\ slot' = i
      BY <2>2, <3>1, <3>2, NativeData
    <3> DEFINE r == Created(p)
    <3>4. /\ r.peer = p /\ r.state = "created" /\ r.run = "idle" /\ r.tracked
          /\ p \in Peers
      BY CreatedIs DEF Peers
    <3>5. \A j \in Ids : reps'[j] = IF j = i THEN r ELSE reps[j]
      BY <1>1, <3>3 DEF TypeOK
    <3> HIDE DEF r
    <3>6. slot = None /\ \A q \in Peers : pending[q] = None
      BY <1>1, <3>1 DEF SlotAgrees, SlotFits, PendingWaitsInSlot
    <3>7. \A q \in Peers : pending'[q] = IF q = p THEN i ELSE None
      BY <1>1, <3>3, <3>6 DEF TypeOK
    <3>8. \A j \in Ids : reps[j].peer \in NativePeers => reps[j].run = "idle"
      BY <1>1, <3>1 DEF SlotAgrees, ActionFits
    <3>9. \A j \in Ids : ActionFits(j)'
      BY <1>1, <3>1, <3>3, <3>4, <3>5, <3>8 DEF SlotAgrees, ActionFits
    <3>10. SlotFits'
      BY <3>1, <3>3, <3>4, <3>5 DEF SlotFits
    <3>11. PendingWaitsInSlot'
      BY <3>1, <3>3, <3>4, <3>5, <3>7 DEF PendingWaitsInSlot
    <3> QED BY <3>9, <3>10, <3>11 DEF SlotAgrees
  <2> QED BY <1>11, <2>1, <2>2 DEF NativeAnswer
<1>12. CASE AfterNotification
  <2>1. turn = "answered" /\ slot' = slot
    BY <1>12 DEF AfterNotification
  <2>2. \A j \in Ids : reps[j].peer \in NativePeers => reps[j].run = "idle"
    BY <1>1, <2>1 DEF SlotAgrees, ActionFits
  <2>3. CASE slot = None
    <3>1. UNCHANGED <<reps, pending>> /\ turn' \in {"idle", "broken"}
      BY <1>12, <2>3 DEF AfterNotification, Terminate, EndTurn
    <3>2. \A j \in Ids : ActionFits(j)'
      BY <1>1, <2>1, <2>2, <3>1 DEF SlotAgrees, ActionFits
    <3> QED BY <1>1, <2>1, <2>3, <3>1, <3>2 DEF SlotAgrees, SlotFits, PendingWaitsInSlot
  <2>4. CASE slot # None
    <3>1. /\ slot \in Ids /\ reps[slot] \in Replication
          /\ reps[slot].state \in {"created", "killed"} /\ reps[slot].peer \in NativePeers
          /\ ActionFits(slot)
      BY <1>1, <2>1, <2>4 DEF TypeOK, SlotAgrees, SlotFits
    <3> DEFINE s == [reps[slot] EXCEPT !.run = "settled", !.outcome = "completed"]
    <3>2. s.peer = reps[slot].peer /\ s.state = reps[slot].state
            /\ s.tracked = reps[slot].tracked /\ s.run = "settled"
      BY <3>1 DEF Replication
    <3> DEFINE r == IF reps[slot].state = "created" THEN Begun(reps[slot]) ELSE s
    <3>3. /\ r.peer = reps[slot].peer /\ r.run \in {"opening", "settled"}
          /\ r.state \in {"started", "killed"}
          /\ r.tracked => r.state = "started"
          /\ r.run = "settled" => r.state = "killed"
      BY <3>1, <3>2, BegunIs DEF ActionFits
    <3>4. reps' = [reps EXCEPT ![slot] = r] /\ turn' = "replicating"
      BY <1>12, <2>4 DEF AfterNotification
    <3> HIDE DEF r
    <3>5. \A j \in Ids : reps'[j] = IF j = slot THEN r ELSE reps[j]
      BY <1>1, <3>4 DEF TypeOK
    <3>6. \A p \in Peers : pending'[p] = None
      BY <1>1, <1>12, <2>4 DEF AfterNotification, SlotAgrees, PendingWaitsInSlot
    <3>7. ASSUME NEW j \in Ids
          PROVE  ActionFits(j)'
      <4>1. CASE j = slot
        BY <2>1, <3>1, <3>3, <3>4, <3>5, <4>1 DEF ActionFits, Peers
      <4>2. CASE j # slot
        BY <1>1, <2>1, <2>2, <3>4, <3>5, <4>2 DEF SlotAgrees, ActionFits
      <4> QED BY <4>1, <4>2
    <3>8. SlotFits'
      BY <2>1, <2>4, <3>1, <3>3, <3>4, <3>5 DEF SlotFits
    <3> QED BY <3>4, <3>6, <3>7, <3>8 DEF SlotAgrees, PendingWaitsInSlot
  <2> QED BY <2>3, <2>4
<1>13. CASE AfterReplication
  <2>1. /\ turn = "replicated" /\ pending' = pending /\ slot \in Ids /\ slot # None
        /\ reps[slot].state = "killed"
    BY <1>1, <1>13 DEF AfterReplication, SlotAgrees, SlotFits, TypeOK
  <2>2. \A j \in Ids : reps[j].peer \in NativePeers => reps[j].run = "idle"
    BY <1>1, <2>1 DEF SlotAgrees, ActionFits
  <2>3. \A p \in Peers : pending[p] = None
    BY <1>1, <2>1 DEF SlotAgrees, PendingWaitsInSlot
  <2>4. CASE ServersUp
    <3>1. turn' = "idle" /\ slot' = None /\ reps' = [reps EXCEPT ![slot] = Blank]
      BY <1>13, <2>4 DEF AfterReplication, Terminate, EndTurn
    <3>2. \A j \in Ids : reps'[j] = IF j = slot THEN Blank ELSE reps[j]
      BY <1>1, <3>1 DEF TypeOK
    <3>3. \A j \in Ids : ActionFits(j)'
      BY <1>1, <2>1, <2>2, <3>1, <3>2, BlankIs DEF SlotAgrees, ActionFits
    <3> QED BY <2>1, <2>3, <3>1, <3>3 DEF SlotAgrees, SlotFits, PendingWaitsInSlot
  <2>5. CASE ~ServersUp
    <3>1. turn' = "broken" /\ UNCHANGED <<slot, reps>>
      BY <1>13, <2>5 DEF AfterReplication, Terminate
    <3>2. \A j \in Ids : ActionFits(j)'
      BY <1>1, <2>2, <3>1 DEF SlotAgrees, ActionFits
    <3> QED BY <1>1, <2>1, <2>3, <3>1, <3>2 DEF SlotAgrees, SlotFits, PendingWaitsInSlot
  <2> QED BY <2>4, <2>5
<1>14. ASSUME NEW i \in Ids
       PROVE  /\ reps[i] \in Replication /\ ActionFits(i)
              /\ reps[i].run # "idle" => reps[i].state \in {"started", "killed"}
  BY <1>1, BlankIs DEF SlotAgrees, ActionFits, TypeOK, Replication, States
<1>15. ASSUME NEW i \in Ids, Open(i)
       PROVE  SlotAgrees'
  <2> DEFINE r == [reps[i] EXCEPT !.run = "open"]
  <2>1. r \in Replication /\ r.run = "open" /\ r.peer = reps[i].peer
          /\ r.state = reps[i].state /\ r.tracked = reps[i].tracked
    BY <1>14 DEF Replication, Runs
  <2>2. /\ reps[i].run # "idle" /\ reps' = [reps EXCEPT ![i] = r]
        /\ UNCHANGED <<slot, turn, pending>>
    BY <1>15 DEF Open
  <2> HIDE DEF r
  <2> QED BY <1>14, <2>1, <2>2, OneChanges DEF ActionFits
<1>16. ASSUME NEW i \in Ids, Retry(i)
       PROVE  SlotAgrees'
  <2>1. /\ reps[i].run # "idle" /\ reps' = [reps EXCEPT ![i] = Begun(reps[i])]
        /\ UNCHANGED <<slot, turn, pending>>
    BY <1>16 DEF Retry
  <2> QED BY <1>14, <2>1, BegunIs, OneChanges
<1>17. ASSUME NEW i \in Ids, ReplicationCancelled(i) \/ Ends(i)
       PROVE  SlotAgrees'
  <2>1. PICK how \in Outcomes : /\ Complete(i, how) /\ reps[i].run # "idle"
                                /\ UNCHANGED <<slot, turn>>
    BY <1>17 DEF Ends, ReplicationCancelled, IdleTimeout, ReplicationError, Outcomes
  <2> DEFINE r == Settled(reps[i], how)
  <2>2. reps[i].state # "free"
    BY <1>14, <2>1
  <2>3. r \in Replication /\ r.run = "settled" /\ r.peer = reps[i].peer
          /\ r.state = "killed" /\ (r.tracked => reps[i].tracked /\ reps[i].state = "killed")
    BY <1>14, <2>2, SettledIs
  <2>4. reps' = [reps EXCEPT ![i] = r] /\ pending' = pending
    BY <2>1 DEF Complete, Settled
  <2> HIDE DEF r
  <2>5. ~r.tracked
    BY <1>14, <2>3 DEF ActionFits
  <2> QED BY <1>14, <2>1, <2>3, <2>4, <2>5, OneChanges
<1>18. ASSUME NEW i \in Ids, GiveUp(i)
       PROVE  SlotAgrees'
  <2>1. /\ reps[i].run = "settled" /\ reps[i].state = "killed" /\ Finish(i)
        /\ UNCHANGED <<slot, pending>>
    BY <1>14, <1>18 DEF GiveUp, ActionFits
  <2>2. i # None /\ \A p \in Peers : pending[p] # i
    BY <1>1, <2>1, PoolAssumption DEF SlotAgrees, PendingWaitsInSlot
  <2>3. slot # None => slot \in Ids
    BY <1>1 DEF TypeOK
  <2>4. CASE reps[i].peer \in WifiPeers
    <3>1. reps' = [reps EXCEPT ![i] = Blank] /\ turn' = turn
      BY <2>1, <2>4 DEF Finish
    <3>2. \A j \in Ids : reps'[j] = IF j = i THEN Blank ELSE reps[j]
      BY <1>1, <3>1 DEF TypeOK
    <3>3. slot # i
      BY <1>1, <2>2, <2>4, PoolAssumption DEF SlotAgrees, SlotFits
    <3>4. \A j \in Ids : ActionFits(j)'
      BY <1>1, <2>1, <3>1, <3>2, BlankIs DEF SlotAgrees, ActionFits
    <3> QED BY <1>1, <2>1, <2>2, <2>3, <3>1, <3>2, <3>3, <3>4
            DEF SlotAgrees, SlotFits, PendingWaitsInSlot
  <2>5. CASE reps[i].peer \notin WifiPeers
    <3>1. reps[i].peer \in NativePeers
      BY <1>14, <2>1, <2>5 DEF ActionFits, Peers
    <3>2. i = slot /\ turn = "replicating"
      BY <1>14, <2>1, <3>1 DEF ActionFits
    <3> DEFINE r == [[reps[i] EXCEPT !.run = "idle"] EXCEPT !.outcome = "none"]
    <3>3. r.peer = reps[i].peer /\ r.run = "idle" /\ r.state = "killed"
            /\ r.tracked = reps[i].tracked
      BY <1>14, <2>1 DEF Replication
    <3>4. reps' = [reps EXCEPT ![i] = r] /\ turn' = "replicated"
      BY <1>1, <2>1, <2>5 DEF Finish, TypeOK
    <3> HIDE DEF r
    <3>5. \A j \in Ids : reps'[j] = IF j = i THEN r ELSE reps[j]
      BY <1>1, <3>4 DEF TypeOK
    <3>6. ASSUME NEW j \in Ids
          PROVE  ActionFits(j)'
      <4>1. CASE j = i
        BY <1>14, <2>1, <3>1, <3>3, <3>5, <4>1 DEF ActionFits, Peers
      <4>2. CASE j # i
        BY <1>1, <2>1, <3>2, <3>5, <4>2 DEF SlotAgrees, ActionFits
      <4> QED BY <4>1, <4>2
    <3>7. \A p \in Peers : pending[p] = None
      BY <1>1, <2>2, <3>2 DEF SlotAgrees, PendingWaitsInSlot
    <3>8. SlotFits'
      BY <2>1, <2>2, <3>1, <3>2, <3>3, <3>4, <3>5 DEF SlotFits
    <3> QED BY <2>1, <3>4, <3>6, <3>7, <3>8 DEF SlotAgrees, PendingWaitsInSlot
  <2> QED BY <2>4, <2>5
<1>19. ASSUME NEW p \in Peers, StrayEnds(p)
       PROVE  SlotAgrees'
  BY <1>2, <1>19 DEF StrayEnds
<1> QED
  BY <1>4, <1>5, <1>6, <1>7, <1>8, <1>9, <1>10, <1>11, <1>12, <1>13, <1>15, <1>16,
     <1>17, <1>18, <1>19 DEF Next

-----------------------------------------------------------------------------
(* The counts *)

CountsAgree == IsFiniteSet(Tracked) /\ CountIsExact

\* A step that changes neither the counts nor what is tracked for Wi-Fi peers.
LEMMA CountsSame ==
  ASSUME IInv, UNCHANGED count,
         \E i : Tracked' \subseteq Tracked \cup {i},
         \A i \in Ids : \A p \in WifiPeers :
           (reps'[i].peer = p /\ reps'[i].tracked) <=> (reps[i].peer = p /\ reps[i].tracked)
  PROVE  CountsAgree'
<1>1. IsFiniteSet(Tracked')
  <2>1. PICK i : Tracked' \subseteq Tracked \cup {i}
    OBVIOUS
  <2>2. IsFiniteSet(Tracked \cup {i})
    BY FS_AddElement DEF IInv
  <2> QED BY <2>1, <2>2, FS_Subset
<1>2. ASSUME NEW p \in WifiPeers
      PROVE  {i \in Tracked' : reps'[i].peer = p} = {i \in Tracked : reps[i].peer = p}
  BY DEF Tracked
<1>3. CountIsExact'
  BY <1>2 DEF IInv, CountIsExact
<1> QED BY <1>1, <1>3 DEF CountsAgree

\* An action of the pool is killed, or one that is not the pool's.
LEMMA CountsGoDown ==
  ASSUME IInv, NEW i \in Ids, NEW r, reps' = [reps EXCEPT ![i] = r], ~r.tracked,
         count' = [p \in WifiPeers |->
                     IF reps[i].peer = p /\ reps[i].tracked THEN count[p] - 1 ELSE count[p]]
  PROVE  CountsAgree'
<1>1. \A j \in Ids : reps'[j] = IF j = i THEN r ELSE reps[j]
  BY DEF IInv, TypeOK
<1>2. IsFiniteSet(Tracked') /\ IsFiniteSet(Tracked)
  <2>1. Tracked' \subseteq Tracked
    BY <1>1 DEF Tracked
  <2> QED BY <2>1, FS_Subset DEF IInv
<1>3. ASSUME NEW p \in WifiPeers
      PROVE  count'[p] = Cardinality({j \in Tracked' : reps'[j].peer = p}) /\ count'[p] \leq 2
  <2> DEFINE W == {j \in Tracked : reps[j].peer = p}
  <2>1. {j \in Tracked' : reps'[j].peer = p} = W \ {i}
    BY <1>1 DEF Tracked
  <2>2. count[p] = Cardinality(W) /\ count[p] \leq 2 /\ count[p] \in Nat
    BY DEF IInv, CountIsExact, TypeOK
  <2>3. IsFiniteSet(W)
    BY <1>2, FS_Subset
  <2>4. i \in W <=> reps[i].peer = p /\ reps[i].tracked
    BY DEF Tracked
  <2> HIDE DEF W
  <2>5. Cardinality(W \ {i}) = IF i \in W THEN Cardinality(W) - 1 ELSE Cardinality(W)
    BY <2>3, FS_RemoveElement
  <2>6. count'[p] = IF i \in W THEN count[p] - 1 ELSE count[p]
    BY <2>4
  <2>7. count'[p] = Cardinality(W \ {i}) /\ count'[p] \leq 2
    BY <2>2, <2>5, <2>6
  <2> QED BY <2>1, <2>7
<1>4. CountIsExact'
  BY <1>3 DEF CountIsExact
<1> QED BY <1>2, <1>4 DEF CountsAgree

\* _wifiEnqueue starts an action of its own.
LEMMA CountsGoUp ==
  ASSUME IInv, NEW i \in Ids, Free(i), NEW q \in WifiPeers, count[q] < 2,
         reps' = [reps EXCEPT ![i] = Begun(Created(q))],
         count' = [count EXCEPT ![q] = @ + 1]
  PROVE  CountsAgree'
<1>1. \A j \in Ids : reps'[j] = IF j = i THEN Begun(Created(q)) ELSE reps[j]
  BY DEF IInv, TypeOK
<1>2. Begun(Created(q)).peer = q /\ Begun(Created(q)).tracked
  BY CreatedIs, BegunIs DEF Peers
<1>3. i \notin Tracked
  BY BlankIs DEF IInv, ActionFits, Free, Tracked
<1>4. Tracked' = Tracked \cup {i}
  BY <1>1, <1>2 DEF Tracked
<1>5. IsFiniteSet(Tracked') /\ IsFiniteSet(Tracked)
  BY <1>4, FS_AddElement DEF IInv
<1>6. ASSUME NEW p \in WifiPeers
      PROVE  count'[p] = Cardinality({j \in Tracked' : reps'[j].peer = p}) /\ count'[p] \leq 2
  <2> DEFINE W == {j \in Tracked : reps[j].peer = p}
  <2>1. {j \in Tracked' : reps'[j].peer = p} = IF p = q THEN W \cup {i} ELSE W
    BY <1>1, <1>2, <1>3, <1>4 DEF Tracked
  <2>2. count[p] = Cardinality(W) /\ count[p] \leq 2 /\ count[p] \in Nat
    BY DEF IInv, CountIsExact, TypeOK
  <2>3. IsFiniteSet(W) /\ i \notin W
    BY <1>3, <1>5, FS_Subset
  <2>4. count'[p] = IF p = q THEN count[p] + 1 ELSE count[p]
    BY DEF IInv, TypeOK
  <2> HIDE DEF W
  <2>5. Cardinality(W \cup {i}) = Cardinality(W) + 1
    BY <2>3, FS_AddElement
  <2>6. count'[p] = (IF p = q THEN Cardinality(W \cup {i}) ELSE Cardinality(W))
          /\ count'[p] \leq 2
    BY <2>2, <2>4, <2>5
  <2> QED BY <2>1, <2>6
<1>7. CountIsExact'
  BY <1>6 DEF CountIsExact
<1> QED BY <1>5, <1>7 DEF CountsAgree

\* A step that changes one action but not whether it is tracked.
LEMMA CountsUntouched ==
  ASSUME IInv, UNCHANGED count, NEW i \in Ids, NEW r, reps' = [reps EXCEPT ![i] = r],
         r.tracked = reps[i].tracked, reps[i].tracked => r.peer = reps[i].peer
  PROVE  CountsAgree'
<1>1. \A j \in Ids : reps'[j] = IF j = i THEN r ELSE reps[j]
  BY DEF IInv, TypeOK
<1>2. Tracked' = Tracked
  BY <1>1 DEF Tracked
<1> QED BY <1>1, <1>2, CountsSame

\* Counts go up with a start and down once with each end.
LEMMA CountsKept == IInv /\ Next => CountsAgree'
<1> SUFFICES ASSUME IInv, Next
             PROVE  CountsAgree'
  OBVIOUS
<1>1. TypeOK /\ CountsAgree /\ \A i \in Ids : ActionFits(i)
  BY DEF IInv, CountsAgree
<1>2. ASSUME UNCHANGED <<reps, count>>
      PROVE  CountsAgree'
  BY <1>1, <1>2 DEF CountsAgree, CountIsExact, Tracked
<1>3. CASE Start \/ MobileStarted \/ MobileStop \/ ServersStop
  BY <1>2, <1>3 DEF Start, MobileStarted, MobileStop, ServersStop
<1>4. CASE PullStop
  <2> DEFINE S == {pending[p] : p \in Peers} \ {None}
  <2>1. S \in SUBSET Ids /\ KillAll(S)
    BY <1>1, <1>4 DEF TypeOK, PullStop
  <2>2. \A i \in S : reps[i].state = "created"
    BY DEF IInv, PendingWaitsInSlot
  <2> HIDE DEF S
  <2>3. \A i \in S : reps[i].peer \notin WifiPeers
    BY <1>1, <2>1, <2>2, PoolAssumption DEF ActionFits
  <2>4. ASSUME NEW p \in WifiPeers
        PROVE  count'[p] = count[p] - 0
    <3>1. {i \in S : reps[i].peer = p /\ reps[i].tracked} = {}
      BY <2>3
    <3> QED BY <2>1, <3>1, FS_EmptySet DEF KillAll
  <2>5. count' = count
    BY <1>1, <2>1, <2>4 DEF KillAll, TypeOK
  <2>6. ASSUME NEW i \in Ids
        PROVE  /\ reps'[i].peer = reps[i].peer
               /\ reps'[i].tracked => reps[i].tracked
               /\ i \notin S => reps'[i] = reps[i]
    <3>1. reps[i] \in Replication
      BY <1>1 DEF TypeOK
    <3> QED BY <2>1, <3>1, DeadIs DEF KillAll
  <2>7. Tracked' \subseteq Tracked
    BY <2>6 DEF Tracked
  <2> QED BY <2>3, <2>5, <2>6, <2>7, CountsSame
<1>5. CASE PoolStop
  <2>1. ASSUME NEW i \in Ids
        PROVE  ~reps'[i].tracked
    <3>1. reps[i] \in Replication /\ ActionFits(i)
      BY <1>1 DEF TypeOK
    <3>2. reps'[i] = IF i \in Tracked THEN Dead(reps[i]) ELSE reps[i]
      BY <1>5 DEF PoolStop
    <3> QED BY <3>1, <3>2, DeadIs DEF ActionFits, Tracked
  <2>2. Tracked' = {}
    BY <2>1 DEF Tracked
  <2>3. \A p \in WifiPeers : {i \in Tracked' : reps'[i].peer = p} = {}
    BY <2>2
  <2> QED BY <1>5, <2>2, <2>3, FS_EmptySet DEF PoolStop, CountsAgree, CountIsExact
<1>6. ASSUME NEW p \in WifiPeers, AskWifi(p) \/ WifiAnswer(p)
      PROVE  CountsAgree'
  <2>1. CASE AskWifi(p) \/ (WifiAnswer(p) /\ NoData)
    BY <1>2, <2>1 DEF AskWifi, WifiAnswer, NoData
  <2>2. CASE WifiAnswer(p) /\ ~NoData
    BY <2>2, WifiData, CountsGoUp DEF WifiAnswer
  <2> QED BY <1>6, <2>1, <2>2
<1>7. CASE NativeAnswer
  <2>1. CASE NoData
    BY <1>2, <1>7, <2>1 DEF NativeAnswer, NoData
  <2>2. CASE DataForUs(serial[1].peer)
    <3>1. turn = "asking" /\ serial # <<>> /\ serial \in Seq(Notification)
      BY <1>1, <1>7 DEF NativeAnswer, IInv, AsksFit, TypeOK
    <3>2. serial[1] \in Notification
      BY <3>1
    <3>3. PICK p \in NativePeers : p = serial[1].peer
      BY <3>2 DEF Notification
    <3>4. PICK i \in Ids : /\ Free(i)
                           /\ reps' = [reps EXCEPT ![i] = Created(p)]
                           /\ count' = count
      BY <2>2, <3>1, <3>3, NativeData
    <3>5. \A j \in Ids : reps'[j] = IF j = i THEN Created(p) ELSE reps[j]
      BY <1>1, <3>4 DEF TypeOK
    <3>6. Created(p).peer = p /\ p \notin WifiPeers /\ ~reps[i].tracked
      BY <1>1, <3>4, CreatedIs, BlankIs, PoolAssumption DEF Peers, ActionFits, Free
    <3>7. Tracked' \subseteq Tracked \cup {i}
      BY <3>5 DEF Tracked
    <3> QED BY <3>4, <3>5, <3>6, <3>7, CountsSame
  <2> QED BY <1>7, <2>1, <2>2 DEF NativeAnswer
<1>8. CASE AfterNotification
  <2>1. CASE slot = None
    BY <1>2, <1>8, <2>1 DEF AfterNotification
  <2>2. CASE slot # None
    <3>1. slot \in Ids /\ reps[slot] \in Replication /\ count' = count
      BY <1>1, <1>8, <2>2 DEF TypeOK, AfterNotification
    <3> DEFINE s == [reps[slot] EXCEPT !.run = "settled", !.outcome = "completed"]
               r == IF reps[slot].state = "created" THEN Begun(reps[slot]) ELSE s
    <3>2. s.peer = reps[slot].peer /\ s.tracked = reps[slot].tracked
      BY <3>1 DEF Replication
    <3>3. r.peer = reps[slot].peer /\ r.tracked = reps[slot].tracked
      BY <3>1, <3>2, BegunIs
    <3>4. reps' = [reps EXCEPT ![slot] = r]
      BY <1>8, <2>2 DEF AfterNotification
    <3> HIDE DEF r
    <3> QED BY <3>1, <3>3, <3>4, CountsUntouched
  <2> QED BY <2>1, <2>2
<1>9. CASE AfterReplication
  <2>1. CASE ServersUp
    <3>1. /\ slot \in Ids /\ ~reps[slot].tracked /\ count' = count
          /\ reps' = [reps EXCEPT ![slot] = Blank]
      BY <1>1, <1>9, <2>1 DEF AfterReplication, IInv, SlotFits, ActionFits, TypeOK
    <3>2. reps[slot].tracked = FALSE /\ Blank.tracked = FALSE
      BY <1>1, <3>1 DEF TypeOK, Replication, Blank
    <3> QED BY <3>1, <3>2, CountsUntouched
  <2>2. CASE ~ServersUp
    BY <1>2, <1>9, <2>2 DEF AfterReplication
  <2> QED BY <2>1, <2>2
<1>10. ASSUME NEW i \in Ids, Open(i)
       PROVE  CountsAgree'
  <2> DEFINE r == [reps[i] EXCEPT !.run = "open"]
  <2>1. r.peer = reps[i].peer /\ r.tracked = reps[i].tracked
    BY <1>1 DEF TypeOK, Replication
  <2>2. reps' = [reps EXCEPT ![i] = r] /\ count' = count
    BY <1>10 DEF Open
  <2> HIDE DEF r
  <2> QED BY <2>1, <2>2, CountsUntouched
<1>11. ASSUME NEW i \in Ids, Retry(i)
       PROVE  CountsAgree'
  <2>1. reps[i] \in Replication
    BY <1>1 DEF TypeOK
  <2>2. reps' = [reps EXCEPT ![i] = Begun(reps[i])] /\ count' = count
    BY <1>11 DEF Retry
  <2> QED BY <2>1, <2>2, BegunIs, CountsUntouched
<1>12. ASSUME NEW i \in Ids, ReplicationCancelled(i) \/ Ends(i)
       PROVE  CountsAgree'
  <2>1. PICK how \in Outcomes : Complete(i, how) /\ reps[i].run # "idle"
    BY <1>12 DEF Ends, ReplicationCancelled, IdleTimeout, ReplicationError, Outcomes
  <2>2. reps[i] \in Replication /\ reps[i].state # "free" /\ ActionFits(i)
    BY <1>1, <2>1, BlankIs DEF TypeOK, ActionFits
  <2>3. ~Settled(reps[i], how).tracked
    BY <2>2, SettledIs DEF ActionFits
  <2>4. /\ reps' = [reps EXCEPT ![i] = Settled(reps[i], how)]
        /\ count' = [p \in WifiPeers |->
             IF reps[i].peer = p /\ reps[i].tracked THEN count[p] - 1 ELSE count[p]]
    BY <2>1 DEF Complete, Settled
  <2> QED BY <2>3, <2>4, CountsGoDown
<1>13. ASSUME NEW i \in Ids, GiveUp(i)
       PROVE  CountsAgree'
  <2>1. /\ reps[i] \in Replication /\ ~reps[i].tracked /\ count' = count /\ Finish(i)
    BY <1>1, <1>13 DEF GiveUp, ActionFits, TypeOK
  <2> DEFINE s == [[reps[i] EXCEPT !.run = "idle"] EXCEPT !.outcome = "none"]
             r == IF reps[i].peer \in WifiPeers THEN Blank ELSE s
  <2>2. ~s.tracked
    BY <2>1 DEF Replication
  <2>3. r.tracked = FALSE
    BY <2>2, BlankIs DEF Blank, Replication
  <2>4. reps' = [reps EXCEPT ![i] = r]
    BY <1>1, <2>1 DEF Finish, TypeOK
  <2> HIDE DEF r
  <2>5. reps[i].tracked = FALSE
    BY <2>1 DEF Replication
  <2> QED BY <2>1, <2>3, <2>4, <2>5, CountsUntouched
<1>14. CASE BeginTurn
  BY <1>2, <1>14 DEF BeginTurn
<1>15. ASSUME NEW p \in NativePeers, AskNative(p)
       PROVE  CountsAgree'
  BY <1>2, <1>15 DEF AskNative
<1>16. ASSUME NEW n \in 1 .. Len(serial), KillNotification(n)
       PROVE  CountsAgree'
  BY <1>2, <1>16 DEF KillNotification
<1>17. ASSUME NEW p \in Peers, StrayEnds(p)
       PROVE  CountsAgree'
  BY <1>2, <1>17 DEF StrayEnds
<1> QED
  BY <1>3, <1>4, <1>5, <1>6, <1>7, <1>8, <1>9, <1>10, <1>11, <1>12, <1>13, <1>14, <1>15,
     <1>16, <1>17 DEF Next

-----------------------------------------------------------------------------
(* The stopped pool *)

\* Nothing becomes tracked, asked or pending unless Thali runs or pull replication
\* has just stopped.
LEMMA NothingEnters ==
  ASSUME IInv, Next, session # "running"
  PROVE  /\ Tracked' \subseteq Tracked
         /\ \A p \in Peers : pending[p] = None => pending'[p] = None
         /\ asking' = {}
<1>1. TypeOK /\ AsksFit
  BY DEF IInv
<1>2. asking = {} /\ turn # "asking"
  <2>1. turn = "asking" => 1 \in 1 .. Len(serial) /\ serial[1].live
    BY <1>1 DEF AsksFit, TypeOK
  <2> QED BY <1>1, <2>1 DEF AsksFit
<1>3. ~NativeAnswer /\ \A p \in WifiPeers : ~AskWifi(p) /\ ~WifiAnswer(p)
  BY <1>2 DEF NativeAnswer, AskWifi, WifiAnswer
<1>4. \A p \in NativePeers : ~AskNative(p)
  BY DEF AskNative
<1>5. \A n \in 1 .. Len(serial) : ~KillNotification(n)
  BY DEF KillNotification
<1>6. ASSUME UNCHANGED <<reps, pending, asking>>
      PROVE  /\ Tracked' \subseteq Tracked /\ asking' = {}
             /\ \A p \in Peers : pending[p] = None => pending'[p] = None
  BY <1>2, <1>6 DEF Tracked
<1>7. ASSUME NEW i \in Ids, NEW r, r.tracked => reps[i].tracked,
             reps' = [reps EXCEPT ![i] = r]
      PROVE  Tracked' \subseteq Tracked
  <2>1. \A j \in Ids : reps'[j] = IF j = i THEN r ELSE reps[j]
    BY <1>1, <1>7 DEF TypeOK
  <2> QED BY <1>7, <2>1 DEF Tracked
<1>8. CASE PoolStop
  <2>1. \A i \in Ids : reps'[i].tracked => reps[i].tracked
    BY <1>1, <1>8, DeadIs DEF PoolStop, TypeOK
  <2> QED BY <1>2, <1>8, <2>1 DEF PoolStop, Tracked
<1>9. CASE AfterNotification
  <2>1. CASE slot = None
    BY <1>6, <1>9, <2>1 DEF AfterNotification
  <2>2. CASE slot # None
    <3> DEFINE s == [reps[slot] EXCEPT !.run = "settled", !.outcome = "completed"]
               r == IF reps[slot].state = "created" THEN Begun(reps[slot]) ELSE s
    <3>1. slot \in Ids /\ reps[slot] \in Replication
      BY <1>1, <2>2 DEF TypeOK
    <3>2. s.tracked = reps[slot].tracked
      BY <3>1 DEF Replication
    <3>3. r.tracked => reps[slot].tracked
      BY <3>1, <3>2, BegunIs
    <3>4. reps' = [reps EXCEPT ![slot] = r]
      BY <1>9, <2>2 DEF AfterNotification
    <3> HIDE DEF r
    <3>5. Tracked' \subseteq Tracked
      BY <1>7, <3>1, <3>3, <3>4
    <3> QED BY <1>2, <1>9, <2>2, <3>5 DEF AfterNotification
  <2> QED BY <2>1, <2>2
<1>10. CASE AfterReplication
  <2>1. CASE ServersUp
    <3>1. slot \in Ids /\ reps' = [reps EXCEPT ![slot] = Blank]
      BY <1>1, <1>10, <2>1 DEF AfterReplication, IInv, SlotFits, TypeOK
    <3>2. Tracked' \subseteq Tracked
      BY <1>7, <3>1, BlankIs
    <3> QED BY <1>2, <1>10, <3>2 DEF AfterReplication
  <2>2. CASE ~ServersUp
    BY <1>6, <1>10, <2>2 DEF AfterReplication
  <2> QED BY <2>1, <2>2
<1>11. ASSUME NEW i \in Ids,
              Open(i) \/ ReplicationCancelled(i) \/ GiveUp(i) \/ Retry(i) \/ Ends(i)
       PROVE  /\ Tracked' \subseteq Tracked /\ UNCHANGED <<pending, asking>>
  <2>1. UNCHANGED <<pending, asking>>
    BY <1>11 DEF Open, ReplicationCancelled, GiveUp, Retry, Ends, IdleTimeout,
       ReplicationError, Complete
  <2>2. reps[i] \in Replication /\ ActionFits(i)
    BY DEF IInv, TypeOK
  <2>3. CASE Open(i)
    <3>1. [reps[i] EXCEPT !.run = "open"].tracked = reps[i].tracked
      BY <2>2 DEF Replication
    <3> QED BY <1>7, <2>1, <2>3, <3>1 DEF Open
  <2>4. CASE Retry(i)
    BY <1>7, <2>1, <2>2, <2>4, BegunIs DEF Retry
  <2>5. CASE GiveUp(i)
    <3> DEFINE s == [[reps[i] EXCEPT !.run = "idle"] EXCEPT !.outcome = "none"]
    <3>1. s.tracked = reps[i].tracked
      BY <2>2 DEF Replication
    <3>2. PICK r \in {Blank, s} : reps' = [reps EXCEPT ![i] = r]
      BY <1>1, <2>5 DEF GiveUp, Finish, TypeOK
    <3>3. r.tracked => reps[i].tracked
      BY <3>1, <3>2, BlankIs
    <3> HIDE DEF s
    <3> QED BY <1>7, <2>1, <3>2, <3>3
  <2>6. CASE ReplicationCancelled(i) \/ Ends(i)
    <3>1. PICK how \in Outcomes : Complete(i, how) /\ reps[i].run # "idle"
      BY <2>6 DEF Ends, ReplicationCancelled, IdleTimeout, ReplicationError, Outcomes
    <3>2. reps[i].state # "free"
      BY <2>2, <3>1, BlankIs DEF ActionFits
    <3>3. Settled(reps[i], how).tracked => reps[i].tracked
      BY <2>2, <3>2, SettledIs
    <3> QED BY <1>7, <2>1, <3>1, <3>3 DEF Complete, Settled
  <2> QED BY <1>11, <2>3, <2>4, <2>5, <2>6
<1>12. CASE Start \/ MobileStarted \/ MobileStop \/ ServersStop \/ BeginTurn
  BY <1>6, <1>12 DEF Start, MobileStarted, MobileStop, ServersStop, BeginTurn
<1>13. ~PullStop
  BY DEF PullStop
<1>14. ASSUME NEW p \in Peers, StrayEnds(p)
       PROVE  UNCHANGED <<reps, pending, asking>>
  BY <1>14 DEF StrayEnds
<1> QED
  BY <1>2, <1>3, <1>4, <1>5, <1>6, <1>8, <1>9, <1>10, <1>11, <1>12, <1>13, <1>14 DEF Next

\* Nothing the pool tracks outlives its stop.
LEMMA StoppedKept == IInv /\ Next => StoppedPoolIsEmpty'
<1> DEFINE Still == {"drained", "closing", "stopped", "starting"}
<1> SUFFICES ASSUME IInv, Next, session' \in Still
             PROVE  /\ Tracked' = {} /\ asking' = {}
                    /\ \A p \in WifiPeers : count'[p] = 0
                    /\ \A p \in Peers : pending'[p] = None
  BY DEF StoppedPoolIsEmpty
<1>1. session \in Still \cup {"pulled"} /\ (session = "pulled" => PoolStop)
  BY DEF Next, Start, MobileStarted, PullStop, PoolStop, MobileStop, ServersStop,
     AskWifi, WifiAnswer, AskNative, KillNotification, BeginTurn, NativeAnswer,
     AfterNotification, AfterReplication, Open, ReplicationCancelled, GiveUp, Retry, Ends,
     IdleTimeout, ReplicationError, StrayEnds
<1>2. /\ Tracked' \subseteq Tracked /\ asking' = {}
      /\ \A p \in Peers : pending[p] = None => pending'[p] = None
  BY <1>1, NothingEnters
<1>3. CASE session \in Still
  <2>1. Tracked' = {} /\ \A p \in Peers : pending'[p] = None
    BY <1>2, <1>3 DEF IInv, StoppedPoolIsEmpty
  <2>2. \A p \in WifiPeers : {i \in Tracked' : reps'[i].peer = p} = {}
    BY <2>1
  <2>3. CountIsExact'
    BY CountsKept DEF CountsAgree
  <2> QED BY <1>2, <2>1, <2>2, <2>3, FS_EmptySet DEF CountIsExact
<1>4. CASE PoolStop
  <2>1. ASSUME NEW i \in Ids
        PROVE  ~reps'[i].tracked
    <3>1. reps[i] \in Replication /\ ActionFits(i)
      BY DEF IInv, TypeOK
    <3>2. reps'[i] = IF i \in Tracked THEN Dead(reps[i]) ELSE reps[i]
      BY <1>4 DEF PoolStop
    <3> QED BY <3>1, <3>2, DeadIs DEF ActionFits, Tracked
  <2>2. \A p \in Peers : pending[p] # None => pending[p] \in Tracked
    BY DEF IInv, TypeOK, PendingWaitsInSlot, ActionFits, Tracked
  <2> QED BY <1>2, <1>4, <2>1, <2>2 DEF PoolStop, Tracked
<1> QED BY <1>1, <1>3, <1>4

-----------------------------------------------------------------------------
(* The theorems *)

\* Nothing is at work at first.
LEMMA InitIInv == Init => IInv
<1> SUFFICES ASSUME Init PROVE IInv
  OBVIOUS
<1>1. TypeOK
  BY PoolAssumption, BlankIs DEF Init, TypeOK, Sessions, Turns
<1>2. Tracked = {}
  BY BlankIs DEF Init, Tracked
<1>3. IsFiniteSet(Tracked) /\ Cardinality({}) = 0
  BY <1>2, FS_EmptySet
<1>4. \A i \in Ids : ActionFits(i)
  BY BlankIs DEF Init, ActionFits
<1>5. CountIsExact
  <2>1. \A p \in WifiPeers : {i \in Tracked : reps[i].peer = p} = {}
    BY <1>2
  <2>2. \A p \in WifiPeers : count[p] = 0 /\ count[p] \leq 2
    BY DEF Init
  <2>3. \A p \in WifiPeers : count[p] = Cardinality({i \in Tracked : reps[i].peer = p})
    BY <1>3, <2>1, <2>2
  <2> QED BY <2>2, <2>3 DEF CountIsExact
<1>6. SlotFits /\ AsksFit /\ PendingWaitsInSlot /\ StoppedPoolIsEmpty
  BY <1>2 DEF Init, SlotFits, AsksFit, PendingWaitsInSlot, StoppedPoolIsEmpty
<1> QED BY <1>1, <1>3, <1>4, <1>5, <1>6 DEF IInv

\* Every step keeps the invariant.
LEMMA NextIInv == IInv /\ [Next]_vars => IInv'
<1>1. ASSUME IInv, UNCHANGED vars
      PROVE  IInv'
  BY <1>1 DEF IInv, vars, TypeOK, ActionFits, SlotFits, AsksFit, Tracked, CountIsExact,
     PendingWaitsInSlot, StoppedPoolIsEmpty
<1>2. ASSUME IInv, Next
      PROVE  IInv'
  BY <1>2, TypeKept, AsksKept, SlotKept, CountsKept, StoppedKept
     DEF IInv, SlotAgrees, CountsAgree
<1> QED BY <1>1, <1>2

\* The inductive invariant, over enqueue, the Bluetooth queue with its timeouts and
\* answers, kills, failures, retries, and the stop and restart of the pool
\* (thaliPeerPoolOneAtATime.js).
THEOREM PoolInvariant == Spec => []IInv
  BY InitIInv, NextIInv, PTL DEF Spec

\* The pool's books agree over any order of advertisements, failures, retries,
\* timeouts, kills and stops: _wifiReplicationCount is the number of the pool's live
\* actions of each peer and at most two, what _peerDictionary has waits unstarted in
\* _bluetoothReplicationAction, and a pool that has stopped has nothing left.
THEOREM BooksAlwaysAgree == Spec => []BooksAgree
<1>1. IInv => BooksAgree
  BY DEF IInv, BooksAgree
<1> QED BY <1>1, PoolInvariant, PTL

\* Over Bluetooth a replication is at work only while it is the turn of the
\* slot it is in: two never run at the same time, whatever is killed, retried,
\* stopped or started again meanwhile.
THEOREM OneConversation == Spec => []OneNativeAtATime
<1>1. IInv => OneNativeAtATime
  BY DEF IInv, OneNativeAtATime, ActionFits
<1> QED BY <1>1, PoolInvariant, PTL

=============================================================================
