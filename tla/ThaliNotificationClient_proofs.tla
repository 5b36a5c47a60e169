------------------- MODULE ThaliNotificationClient_proofs -------------------
(***************************************************************************)
(* Theorems about the notification client, for any number of peers, any    *)
(* size of the dictionary and any number of retries.                       *)
(***************************************************************************)
EXTENDS ThaliNotificationClient, WellFoundedInduction, TLAPS

-----------------------------------------------------------------------------
(* Facts about the helpers *)

\* Action ids are positive numbers, and the ids handed out are action ids.
LEMMA IdFacts ==
  /\ ActionIds \subseteq Nat
  /\ NoAction \notin ActionIds /\ NoAction \in Nat
  /\ \A n \in {0} \cup ActionIds : 1 .. n \subseteq ActionIds
  /\ \A n \in {0} \cup ActionIds : n \in Nat
<1> DEFINE K == MaxAppearances * (MaxRetries + 1)
<1>1. K \in Nat
  BY ClientAssumption
<1>2. ActionIds = 1 .. K
  BY DEF ActionIds
<1> HIDE DEF K
<1> QED BY <1>1, <1>2 DEF NoAction

\* The record that stands for "no entry" and the record of a new action.
LEMMA RecordFacts ==
  /\ Absent \in Entry
  /\ [Absent EXCEPT !.peerState = "controlledByPool"] \in Entry
  /\ Unborn \in Action
  /\ \A p \in Peers : NewAction(p) \in Action
<1>1. Unborn.peer \in Peers
  BY ClientAssumption DEF Unborn
<1> QED BY <1>1, IdFacts
    DEF Absent, Entry, PeerStates, Unborn, NewAction, Action, Resolutions,
        Retryable, Final

\* kill and the removal of the listener keep the actions well typed.
LEMMA KilledType ==
  ASSUME TypeOK, NEW S
  PROVE  /\ Killed(S) \in [ActionIds -> Action]
         /\ Silenced(S) \in [ActionIds -> Action]
<1>1. ASSUME NEW e \in Action
      PROVE  [e EXCEPT !.resolution = IF @ = "none" THEN "killed" ELSE @,
                       !.promise = IF @ = "open" THEN "settled" ELSE @] \in Action
  BY DEF Action, Resolutions, Retryable, Final
<1>2. Killed(S) \in [ActionIds -> Action]
  BY <1>1 DEF TypeOK, Killed
<1>3. ASSUME NEW a \in ActionIds
      PROVE  [Killed(S)[a] EXCEPT !.listening = @ /\ a \notin S] \in Action
  BY <1>2 DEF Action
<1> QED BY <1>2, <1>3 DEF Silenced

\* A new action leaves the state well typed.
LEMMA CreateType ==
  ASSUME TypeOK, NEW p \in Peers, NEW entry \in Entry,
         NEW armed \in SUBSET ActionIds,
         CreateNewAction(p, entry, armed)
  PROVE  /\ dict' \in [Peers -> Entry]
         /\ entryCounter' \in Nat
         /\ actions' \in [ActionIds -> Action]
         /\ peerActionCounter' \in {0} \cup ActionIds
         /\ timers' \subseteq ActionIds /\ inQueue' \subseteq ActionIds
         /\ uncaught' \subseteq Exceptions
<1>1. CASE poolStopped
  <2>1. /\ uncaught' = uncaught \cup {"enqueueWhenStopped"}
        /\ timers' = armed
        /\ UNCHANGED <<dict, entryCounter, actions, peerActionCounter, inQueue>>
    BY <1>1 DEF CreateNewAction
  <2> QED BY <2>1 DEF TypeOK, Exceptions
<1>2. CASE ~poolStopped
  <2> DEFINE a == peerActionCounter + 1
             victims == IF p \in Known THEN {} ELSE Overflow
  <2>1. /\ a \in ActionIds
        /\ peerActionCounter' = a
        /\ dict' = [q \in Peers |->
                      IF q = p THEN [entry EXCEPT !.action = a,
                                                  !.number = entryCounter]
                      ELSE IF q \in victims THEN Absent ELSE dict[q]]
        /\ entryCounter' = entryCounter + 1
        /\ timers' = armed \ TimersOf(victims)
        /\ actions' = [Silenced(ActionsOf(victims)) EXCEPT ![a] = NewAction(p)]
        /\ inQueue' = (inQueue \ ActionsOf(victims)) \cup {a}
        /\ UNCHANGED uncaught
    BY <1>2 DEF CreateNewAction
  <2> HIDE DEF a, victims
  <2>2. [entry EXCEPT !.action = a, !.number = entryCounter] \in Entry
    BY <2>1 DEF Entry, TypeOK
  <2>3. dict' \in [Peers -> Entry]
    BY <2>1, <2>2, RecordFacts DEF TypeOK
  <2>4. actions' \in [ActionIds -> Action]
    BY <2>1, KilledType, RecordFacts
  <2> QED BY <2>1, <2>3, <2>4 DEF TypeOK
<1> QED BY <1>1, <1>2

\* Removing entries leaves the state well typed.
LEMMA RemoveType ==
  ASSUME TypeOK, NEW S, Remove(S)
  PROVE  /\ dict' \in [Peers -> Entry]
         /\ actions' \in [ActionIds -> Action]
         /\ timers' \subseteq ActionIds /\ inQueue' \subseteq ActionIds
  BY KilledType, RecordFacts DEF Remove, TypeOK

\* So does the handler of a Resolved event.
LEMMA ResolvedType ==
  ASSUME TypeOK, NEW a \in ActionIds, NEW res \in Resolutions, Resolved(a, res)
  PROVE  /\ dict' \in [Peers -> Entry]
         /\ entryCounter' \in Nat
         /\ timers' \subseteq ActionIds
         /\ advertised' \subseteq [heard : ActionIds,
                                   address : ActionIds \cup {NoAction}]
<1> DEFINE p == actions[a].peer
<1>1. p \in Peers
  BY DEF TypeOK, Action
<1>2. CASE UNCHANGED <<dict, entryCounter, timers, advertised>>
  BY <1>2 DEF TypeOK
<1>3. CASE /\ dict' = [dict EXCEPT ![p].peerState = "resolved",
                                ![p].number = entryCounter]
           /\ entryCounter' = entryCounter + 1
           /\ advertised' = IF res = "forUs"
                            THEN advertised \cup
                                   {[heard |-> a, address |-> dict[p].action]}
                            ELSE advertised
           /\ UNCHANGED timers
  <2>1. dict' \in [Peers -> Entry]
    BY <1>1, <1>3 DEF TypeOK, Entry, PeerStates
  <2>2. [heard |-> a, address |-> dict[p].action]
          \in [heard : ActionIds, address : ActionIds \cup {NoAction}]
    BY <1>1 DEF TypeOK, Entry
  <2> QED BY <1>3, <2>1, <2>2 DEF TypeOK
<1>4. CASE /\ dict' = [dict EXCEPT ![p].peerState = "waiting",
                                ![p].timer = a,
                                ![p].retries = @ + 1,
                                ![p].number = entryCounter + 1]
           /\ entryCounter' = entryCounter + 2
           /\ timers' = timers \cup {a}
           /\ UNCHANGED advertised
  BY <1>1, <1>4 DEF TypeOK, Entry, PeerStates
<1> QED BY Zenon, <1>2, <1>3, <1>4 DEF Resolved

-----------------------------------------------------------------------------
(* Type correctness *)

\* Every step of the client, the pool and the promises keeps to the types.
LEMMA TypeStep == TypeOK /\ [Next]_vars => TypeOK'
<1> SUFFICES ASSUME TypeOK, [Next]_vars PROVE TypeOK'
  OBVIOUS
<1>1. CASE Start
  BY <1>1, RecordFacts DEF Start, TypeOK, Exceptions
<1>2. CASE StartAgain
  BY <1>2, RecordFacts DEF StartAgain, TypeOK
<1>3. CASE Stop
  BY <1>3, RemoveType DEF Stop, TypeOK
<1>4. CASE PoolStop
  BY <1>4, KilledType DEF PoolStop, TypeOK
<1>5. ASSUME NEW p \in Peers, PeerAppears(p) PROVE TypeOK'
  <2>1. appearances' \in 0 .. MaxAppearances
    BY <1>5, ClientAssumption DEF PeerAppears, TypeOK
  <2>2. timers \in SUBSET ActionIds
    BY DEF TypeOK
  <2> QED BY <1>5, <2>1, <2>2, RecordFacts, CreateType DEF PeerAppears, TypeOK
<1>6. ASSUME NEW p \in Peers, PeerGone(p) PROVE TypeOK'
  BY <1>6, RemoveType DEF PeerGone, TypeOK
<1>7. ASSUME NEW a \in ActionIds, BeginRequest(a) PROVE TypeOK'
  BY <1>7 DEF BeginRequest, TypeOK, Action
<1>8. ASSUME NEW a \in ActionIds, RequestThrows(a) PROVE TypeOK'
  BY <1>8 DEF RequestThrows, TypeOK, Action
<1>9. ASSUME NEW a \in ActionIds, Reap(a) PROVE TypeOK'
  <2>1. actions' \in [ActionIds -> Action]
    <3>1. Killed({a}) \in [ActionIds -> Action]
      BY KilledType
    <3>2. actions' = [Killed({a}) EXCEPT ![a].promise = "reaped"]
      BY <1>9 DEF Reap
    <3> QED BY <3>1, <3>2 DEF Action
  <2>2. CASE Unresolved(a)
    BY <1>9, <2>1, <2>2, ResolvedType
       DEF Reap, TypeOK, Resolutions, Retryable, Final
  <2>3. CASE ~Unresolved(a)
    BY <1>9, <2>1, <2>3 DEF Reap, TypeOK
  <2> QED BY <2>2, <2>3
<1>10. ASSUME NEW a \in ActionIds, TimerFires(a) PROVE TypeOK'
  <2>1. actions[a].peer \in Peers
    BY DEF TypeOK, Action
  <2>2. CASE UNCHANGED <<dict, entryCounter, actions, peerActionCounter, inQueue>>
    BY <1>10, <2>2 DEF TimerFires, TypeOK, Exceptions, CreateNewAction
  <2>3. CASE CreateNewAction(actions[a].peer, dict[actions[a].peer], timers \ {a})
    <3>1. /\ dict[actions[a].peer] \in Entry
          /\ timers \ {a} \in SUBSET ActionIds
      BY <2>1 DEF TypeOK
    <3> QED BY <1>10, <2>1, <2>3, <3>1, CreateType DEF TimerFires, TypeOK
  <2> QED BY <1>10, <2>2, <2>3 DEF TimerFires
<1>11. ASSUME NEW a \in ActionIds, NEW res \in HttpOutcomes, Complete(a, res)
       PROVE  TypeOK'
  <2>1. res \in Resolutions
    BY DEF HttpOutcomes
  <2>2. actions' \in [ActionIds -> Action]
    BY <1>11, <2>1 DEF Complete, TypeOK, Action
  <2> QED BY <1>11, <2>1, <2>2, ResolvedType DEF Complete, TypeOK
<1>12. CASE UNCHANGED vars
  BY <1>12 DEF vars, TypeOK
<1> QED BY <1>1, <1>2, <1>3, <1>4, <1>5, <1>6, <1>7, <1>8, <1>9, <1>10,
           <1>11, <1>12 DEF Next

LEMMA TypeInit == Init => TypeOK
<1> SUFFICES ASSUME Init PROVE TypeOK
  OBVIOUS
<1>1. 0 \in 0 .. MaxAppearances
  BY ClientAssumption
<1> QED BY <1>1, RecordFacts DEF Init, TypeOK

\* The client's variables keep to their types, restarts included.
THEOREM TypeCorrect == Spec => []TypeOK
  BY TypeInit, TypeStep, PTL DEF Spec

-----------------------------------------------------------------------------
(* The inductive invariant *)

Bookkeeping == UnresolvedIsCurrent /\ EntriesAndTimers /\ NoStuckPeer

\* The ids handed out are action ids, and the peers that overflow are known.
LEMMA AllocatedFacts ==
  ASSUME TypeOK
  PROVE  /\ Allocated \subseteq ActionIds /\ NoAction \notin Allocated
         /\ Overflow \subseteq Known
  <1>1. Overflow \subseteq Known
    BY DEF Overflow, OldestIn, Known
  <1> QED BY <1>1, IdFacts DEF TypeOK, Allocated

\* What remove does to an action, a timer and the queue, stated pointwise.
LEMMA KilledFacts ==
  ASSUME TypeOK, NEW S
  PROVE  \A a \in ActionIds :
           /\ Silenced(S)[a].peer = actions[a].peer
           /\ Silenced(S)[a].resolution = "none"
                <=> actions[a].resolution = "none" /\ a \notin S
           /\ Silenced(S)[a].listening <=> actions[a].listening /\ a \notin S
           /\ Killed(S)[a].peer = actions[a].peer
           /\ Killed(S)[a].resolution = "none"
                <=> actions[a].resolution = "none" /\ a \notin S
           /\ Killed(S)[a].listening = actions[a].listening
  BY DEF TypeOK, Action, Silenced, Killed

\* Without a dictionary entry nothing is unresolved and no timer is armed.
LEMMA StoppedFacts ==
  ASSUME IInv, ~running
  PROVE  /\ Known = {} /\ timers = {}
         /\ \A a \in Allocated : ~Unresolved(a)
<1>1. Known = {}
  BY DEF IInv, StoppedIsEmpty
<1>2. \A a \in Allocated : actions[a].peer \in Peers
  BY AllocatedFacts DEF IInv, TypeOK, Action
<1>3. \A a \in Allocated : dict[actions[a].peer].peerState = "absent"
  BY <1>1, <1>2 DEF Known
<1> QED BY <1>1, <1>3 DEF IInv, EntriesAndTimers, UnresolvedIsCurrent

\* Removing known peers keeps the books of the others.
LEMMA RemoveStep ==
  ASSUME IInv, NEW S \in SUBSET Known, Remove(S), UNCHANGED peerActionCounter
  PROVE  Bookkeeping' /\ Known' = Known \ S
<1> USE AllocatedFacts DEF IInv
<1>1. Allocated' = Allocated
  BY DEF Allocated
<1>2. /\ \A p \in Peers : dict'[p] = IF p \in S THEN Absent ELSE dict[p]
      /\ actions' = Silenced(ActionsOf(S))
      /\ timers' = timers \ TimersOf(S)
      /\ inQueue' = inQueue \ ActionsOf(S)
  BY DEF Remove
<1>3. Known' = Known \ S
  BY <1>2 DEF Known, Absent
<1>4. \A a \in Allocated :
        /\ actions'[a].peer = actions[a].peer
        /\ actions'[a].peer \in Peers
        /\ Unresolved(a)' <=> Unresolved(a) /\ a \notin ActionsOf(S)
        /\ actions'[a].listening <=> actions[a].listening /\ a \notin ActionsOf(S)
  BY <1>2, KilledFacts DEF Unresolved, TypeOK, Action
<1>5. UnresolvedIsCurrent'
  <2> SUFFICES ASSUME NEW a \in Allocated, Unresolved(a)'
               PROVE  /\ a \in inQueue'
                      /\ actions'[a].listening
                      /\ dict'[actions'[a].peer].action = a
                      /\ dict'[actions'[a].peer].peerState
                           \in {"controlledByPool", "waiting"}
    BY <1>1 DEF UnresolvedIsCurrent
  <2>1. Unresolved(a) /\ a \notin ActionsOf(S)
    BY <1>4
  <2>2. actions[a].peer \notin S
    BY <2>1 DEF UnresolvedIsCurrent, ActionsOf
  <2> QED BY <1>2, <1>4, <2>1, <2>2 DEF UnresolvedIsCurrent
<1>6. EntriesAndTimers'
  <2>1. ASSUME NEW p \in Known'
        PROVE  /\ dict'[p].action \in Allocated
               /\ actions'[dict'[p].action].peer = p
               /\ dict'[p].timer # NoAction =>
                    /\ dict'[p].timer \in Allocated
                    /\ actions'[dict'[p].timer].peer = p
    <3>1. p \in Known /\ dict'[p] = dict[p]
      BY <1>2, <1>3 DEF Known
    <3> QED BY <1>4, <3>1 DEF EntriesAndTimers
  <2>2. ASSUME NEW a \in timers'
        PROVE  /\ a \in Allocated /\ ~Unresolved(a)'
               /\ dict'[actions'[a].peer].peerState = "waiting"
               /\ dict'[actions'[a].peer].action = a
               /\ dict'[actions'[a].peer].timer = a
    <3>1. a \in timers /\ a \in Allocated /\ a \notin TimersOf(S)
      BY <1>2 DEF EntriesAndTimers
    <3>2. actions[a].peer \notin S
      BY <3>1 DEF EntriesAndTimers, TimersOf
    <3> QED BY <1>2, <1>4, <3>1, <3>2 DEF EntriesAndTimers
  <2> QED BY <1>1, <2>1, <2>2 DEF EntriesAndTimers
<1>7. NoStuckPeer'
  <2> SUFFICES ASSUME NEW p \in Known', dict'[p].peerState # "resolved"
               PROVE  \/ /\ Unresolved(dict[p].action)'
                         /\ actions'[dict'[p].action].listening
                      \/ dict'[p].timer \in timers'
    BY DEF NoStuckPeer, Unresolved
  <2>1. p \in Known /\ p \notin S /\ dict'[p] = dict[p]
    BY <1>2, <1>3 DEF Known
  <2>2. dict[p].action \in Allocated /\ dict[p].action \notin ActionsOf(S)
    BY <2>1 DEF EntriesAndTimers, ActionsOf
  <2>3. dict[p].timer # NoAction => dict[p].timer \notin TimersOf(S)
    BY <2>1 DEF EntriesAndTimers, TimersOf
  <2>4. CASE Unresolved(dict[p].action) /\ actions[dict[p].action].listening
    BY <1>4, <2>1, <2>2, <2>4 DEF Unresolved
  <2>5. CASE dict[p].timer \in timers
    BY <1>2, <2>1, <2>3, <2>5 DEF EntriesAndTimers
  <2> QED BY <2>1, <2>4, <2>5 DEF NoStuckPeer
<1> QED BY <1>3, <1>5, <1>6, <1>7 DEF Bookkeeping

\* A new action for a peer that has no request under way, with the peers that
\* overflow removed, keeps the books.
LEMMA CreateStep ==
  ASSUME IInv, running, NEW p \in Peers, NEW entry \in Entry,
         NEW armed \in SUBSET timers,
         CreateNewAction(p, entry, armed),
         entry.peerState \in {"controlledByPool", "waiting"},
         entry.timer # NoAction => /\ entry.timer \in Allocated
                                   /\ actions[entry.timer].peer = p,
         \A t \in timers : t \in armed <=> actions[t].peer # p,
         p \in Known => ~Unresolved(dict[p].action)
  PROVE  /\ Bookkeeping'
         /\ inQueue' \subseteq Allocated' /\ UNCHANGED uncaught
<1> USE AllocatedFacts DEF IInv
<1> DEFINE a == peerActionCounter + 1
           V == IF p \in Known THEN {} ELSE Overflow
<1>1. ~poolStopped
  BY DEF StoppedIsEmpty
<1>2. /\ a \in ActionIds /\ peerActionCounter' = a
      /\ dict' = [q \in Peers |->
                    IF q = p THEN [entry EXCEPT !.action = a,
                                                !.number = entryCounter]
                    ELSE IF q \in V THEN Absent ELSE dict[q]]
      /\ timers' = armed \ TimersOf(V)
      /\ actions' = [Silenced(ActionsOf(V)) EXCEPT ![a] = NewAction(p)]
      /\ inQueue' = (inQueue \ ActionsOf(V)) \cup {a}
      /\ UNCHANGED uncaught
  BY <1>1 DEF CreateNewAction
<1>3. V \subseteq Known /\ p \notin V
  OBVIOUS
<1>4. /\ Allocated' = Allocated \cup {a} /\ a \notin Allocated
      /\ a # NoAction
  BY <1>2, IdFacts DEF Allocated, TypeOK
<1> HIDE DEF a, V
<1>5. \A b \in Allocated :
        /\ actions'[b].peer = actions[b].peer
        /\ actions'[b].peer \in Peers
        /\ Unresolved(b)' <=> Unresolved(b) /\ b \notin ActionsOf(V)
        /\ actions'[b].listening <=> actions[b].listening /\ b \notin ActionsOf(V)
  <2> TAKE b \in Allocated
  <2>1. b \in ActionIds /\ b # a
    BY <1>4
  <2>2. Silenced(ActionsOf(V)) \in [ActionIds -> Action]
    BY KilledType
  <2>3. actions'[b] = Silenced(ActionsOf(V))[b]
    BY <1>2, <2>1, <2>2
  <2> QED BY <2>1, <2>3, KilledFacts DEF Unresolved, TypeOK, Action
<1>6. /\ actions'[a].peer = p /\ actions'[a].listening
      /\ actions'[a].resolution = "none"
  <2>1. Silenced(ActionsOf(V)) \in [ActionIds -> Action]
    BY KilledType
  <2> QED BY <1>2, <2>1 DEF NewAction
<1>7. /\ dict'[p].action = a /\ dict'[p].peerState = entry.peerState
      /\ dict'[p].timer = entry.timer
  BY <1>2 DEF Entry
<1>8. \A q \in Peers \ ({p} \cup V) : dict'[q] = dict[q]
  BY <1>2
<1>9. \A q \in Known' : q = p \/ (q \in Known /\ q \notin V /\ q # p)
  BY <1>2 DEF Known, Absent
<1>10. \A b \in Allocated : Unresolved(b) => actions[b].peer # p
  BY <1>5 DEF UnresolvedIsCurrent, Known
<1>11. UnresolvedIsCurrent'
  <2> SUFFICES ASSUME NEW b \in Allocated', Unresolved(b)'
               PROVE  /\ b \in inQueue'
                      /\ actions'[b].listening
                      /\ dict'[actions'[b].peer].action = b
                      /\ dict'[actions'[b].peer].peerState
                           \in {"controlledByPool", "waiting"}
    BY DEF UnresolvedIsCurrent
  <2>1. CASE b = a
    BY <1>2, <1>6, <1>7, <2>1
  <2>2. CASE b \in Allocated
    <3>1. Unresolved(b) /\ b \notin ActionsOf(V)
      BY <1>5, <2>2
    <3>2. actions[b].peer \notin V /\ actions[b].peer # p
      BY <1>10, <2>2, <3>1 DEF UnresolvedIsCurrent, ActionsOf
    <3> QED BY <1>2, <1>5, <1>8, <2>2, <3>1, <3>2 DEF UnresolvedIsCurrent
  <2> QED BY <1>4, <2>1, <2>2
<1>12. EntriesAndTimers'
  <2>1. ASSUME NEW q \in Known'
        PROVE  /\ dict'[q].action \in Allocated'
               /\ actions'[dict'[q].action].peer = q
               /\ dict'[q].timer # NoAction =>
                    /\ dict'[q].timer \in Allocated'
                    /\ actions'[dict'[q].timer].peer = q
    <3>1. CASE q = p
      BY <1>4, <1>5, <1>6, <1>7, <3>1
    <3>2. CASE q \in Known /\ q \notin V /\ q # p
      BY <1>4, <1>5, <1>8, <3>2 DEF EntriesAndTimers, Known
    <3> QED BY <1>9, <3>1, <3>2
  <2>2. ASSUME NEW t \in timers'
        PROVE  /\ t \in Allocated' /\ ~Unresolved(t)'
               /\ dict'[actions'[t].peer].peerState = "waiting"
               /\ dict'[actions'[t].peer].action = t
               /\ dict'[actions'[t].peer].timer = t
    <3>1. /\ t \in timers /\ t \in Allocated /\ t \notin TimersOf(V)
          /\ actions[t].peer # p
      BY <1>2 DEF EntriesAndTimers
    <3>2. actions[t].peer \notin V
      BY <3>1 DEF EntriesAndTimers, TimersOf
    <3> QED BY <1>4, <1>5, <1>8, <3>1, <3>2 DEF EntriesAndTimers
  <2> QED BY <2>1, <2>2 DEF EntriesAndTimers
<1>13. NoStuckPeer'
  <2> SUFFICES ASSUME NEW q \in Known', dict'[q].peerState # "resolved"
               PROVE  \/ /\ Unresolved(dict[q].action)'
                         /\ actions'[dict'[q].action].listening
                      \/ dict'[q].timer \in timers'
    BY DEF NoStuckPeer, Unresolved
  <2>1. CASE q = p
    BY <1>6, <1>7, <2>1 DEF Unresolved
  <2>2. CASE q \in Known /\ q \notin V /\ q # p
    <3>1. dict'[q] = dict[q]
      BY <1>8, <2>2 DEF Known
    <3>2. dict[q].action \in Allocated /\ dict[q].action \notin ActionsOf(V)
      BY <1>3, <2>2 DEF EntriesAndTimers, ActionsOf
    <3>3. dict[q].timer # NoAction =>
            /\ dict[q].timer \notin TimersOf(V)
            /\ actions[dict[q].timer].peer = q
      BY <1>3, <2>2 DEF EntriesAndTimers, TimersOf
    <3>4. CASE Unresolved(dict[q].action) /\ actions[dict[q].action].listening
      BY <1>5, <3>1, <3>2, <3>4 DEF Unresolved
    <3>5. CASE dict[q].timer \in timers
      BY <1>2, <2>2, <3>1, <3>3, <3>5 DEF EntriesAndTimers
    <3> QED BY <2>2, <3>1, <3>4, <3>5 DEF NoStuckPeer
  <2> QED BY <1>9, <2>1, <2>2
<1>14. inQueue' \subseteq Allocated'
  BY <1>2, <1>4 DEF StoppedIsEmpty
<1> QED BY <1>2, <1>11, <1>12, <1>13, <1>14 DEF Bookkeeping

\* The end of an unresolved action is heard, and settles its peer's entry or
\* arms a timer for it.
LEMMA ResolveStep ==
  ASSUME IInv, TypeOK', NEW a \in Allocated, Unresolved(a),
         NEW res \in Resolutions \ {"none"}, Resolved(a, res),
         ~Unresolved(a)',
         actions'[a].peer = actions[a].peer,
         \A b \in ActionIds \ {a} : actions'[b] = actions[b],
         inQueue \ {a} \subseteq inQueue',
         UNCHANGED peerActionCounter
  PROVE  Bookkeeping'
<1> USE AllocatedFacts DEF IInv
<1> DEFINE p == actions[a].peer
<1>1. Allocated' = Allocated
  BY DEF Allocated
<1>2. /\ p \in Known /\ dict[p].action = a /\ actions[a].listening
      /\ dict[p].peerState # "resolved"
  BY DEF UnresolvedIsCurrent, Known, TypeOK, Action
<1>3. Heard(a)
  BY <1>2 DEF Heard, StoppedIsEmpty
<1>4. \A b \in Allocated :
        /\ actions'[b].peer = actions[b].peer
        /\ actions[b].peer \in Peers
        /\ Unresolved(b)' <=> Unresolved(b) /\ b # a
        /\ b # a => actions'[b].listening = actions[b].listening
  BY DEF Unresolved, TypeOK, Action
<1>5. \A b \in Allocated : b # a /\ Unresolved(b) => actions[b].peer # p
  BY <1>2 DEF UnresolvedIsCurrent
<1>6. \A t \in timers : actions[t].peer # p /\ t # a
  BY <1>2 DEF EntriesAndTimers
<1>7. /\ \A q \in Peers \ {p} : dict'[q] = dict[q]
      /\ dict'[p].action = a
      /\ \/ /\ dict'[p].peerState = "resolved"
            /\ dict'[p].timer = dict[p].timer
            /\ timers' = timers
         \/ /\ dict'[p].peerState = "waiting" /\ dict'[p].timer = a
            /\ timers' = timers \cup {a}
  <2>1. dict \in [Peers -> Entry] /\ p \in Peers
    BY <1>2 DEF TypeOK, Known
  <2>2. CASE /\ dict' = [dict EXCEPT ![p].peerState = "resolved",
                                    ![p].number = entryCounter]
             /\ UNCHANGED timers
    BY <1>2, <2>1, <2>2 DEF Entry
  <2>3. CASE /\ dict' = [dict EXCEPT ![p].peerState = "waiting",
                                    ![p].timer = a,
                                    ![p].retries = @ + 1,
                                    ![p].number = entryCounter + 1]
             /\ timers' = timers \cup {a}
    <3>1. \A q \in Peers \ {p} : dict'[q] = dict[q]
      BY Zenon, <2>1, <2>3
    <3>2. dict'[p] = [dict[p] EXCEPT !.peerState = "waiting", !.timer = a,
                                     !.retries = @ + 1,
                                     !.number = entryCounter + 1]
      BY Zenon, <2>1, <2>3
    <3>3. dict[p] \in Entry
      BY <2>1
    <3>4. ASSUME NEW e \in Entry, NEW n
          PROVE  LET f == [e EXCEPT !.peerState = "waiting", !.timer = a,
                                    !.retries = @ + 1, !.number = n]
                 IN /\ f.peerState = "waiting" /\ f.timer = a
                    /\ f.action = e.action
      BY DEF Entry
    <3>5. /\ dict'[p].peerState = "waiting" /\ dict'[p].timer = a
          /\ dict'[p].action = dict[p].action
      BY <3>2, <3>3, <3>4
    <3> QED BY Zenon, <1>2, <2>3, <3>1, <3>5
  <2> QED BY Zenon, <1>3, <2>2, <2>3 DEF Resolved
<1> HIDE DEF p
<1>8. Known' = Known
  BY <1>2, <1>7 DEF Known
<1>9. UnresolvedIsCurrent'
  <2> SUFFICES ASSUME NEW b \in Allocated, Unresolved(b)'
               PROVE  /\ b \in inQueue'
                      /\ actions'[b].listening
                      /\ dict'[actions'[b].peer].action = b
                      /\ dict'[actions'[b].peer].peerState
                           \in {"controlledByPool", "waiting"}
    BY <1>1 DEF UnresolvedIsCurrent
  <2>1. b # a /\ Unresolved(b) /\ actions[b].peer # p
    BY <1>4, <1>5
  <2> QED BY <1>4, <1>7, <2>1 DEF UnresolvedIsCurrent
<1>10. EntriesAndTimers'
  <2>1. ASSUME NEW q \in Known'
        PROVE  /\ dict'[q].action \in Allocated
               /\ actions'[dict'[q].action].peer = q
               /\ dict'[q].timer # NoAction =>
                    /\ dict'[q].timer \in Allocated
                    /\ actions'[dict'[q].timer].peer = q
    <3>1. CASE q = p
      BY <1>2, <1>4, <1>7, <3>1 DEF EntriesAndTimers, p
    <3>2. CASE q # p
      BY <1>4, <1>7, <1>8, <3>2 DEF EntriesAndTimers, Known
    <3> QED BY <3>1, <3>2
  <2>2. ASSUME NEW t \in timers'
        PROVE  /\ t \in Allocated /\ ~Unresolved(t)'
               /\ dict'[actions'[t].peer].peerState = "waiting"
               /\ dict'[actions'[t].peer].action = t
               /\ dict'[actions'[t].peer].timer = t
    <3>1. CASE t \in timers
      BY <1>4, <1>6, <1>7, <3>1 DEF EntriesAndTimers
    <3>2. CASE t = a /\ timers' # timers
      BY <1>4, <1>7, <3>2 DEF p
    <3> QED BY <1>7, <3>1, <3>2
  <2> QED BY <1>1, <2>1, <2>2 DEF EntriesAndTimers
<1>11. NoStuckPeer'
  <2> SUFFICES ASSUME NEW q \in Known, dict'[q].peerState # "resolved"
               PROVE  \/ /\ Unresolved(dict[q].action)'
                         /\ actions'[dict'[q].action].listening
                      \/ dict'[q].timer \in timers'
    BY <1>8 DEF NoStuckPeer, Unresolved
  <2>1. CASE q = p
    BY <1>7, <2>1
  <2>2. CASE q # p
    <3>1. dict'[q] = dict[q]
      BY <1>7, <2>2 DEF Known
    <3>2. dict[q].action \in Allocated /\ dict[q].action # a
      BY <1>2, <2>2 DEF EntriesAndTimers, p
    <3>3. CASE Unresolved(dict[q].action) /\ actions[dict[q].action].listening
      BY <1>4, <3>1, <3>2, <3>3 DEF Unresolved
    <3>4. CASE dict[q].timer \in timers
      BY <1>7, <3>1, <3>4
    <3> QED BY <3>1, <3>3, <3>4 DEF NoStuckPeer
  <2> QED BY <2>1, <2>2
<1> QED BY <1>9, <1>10, <1>11 DEF Bookkeeping

\* Changes that touch neither the entries nor any field of an action but its
\* promise keep the books.
LEMMA PromiseStep ==
  ASSUME IInv, NEW a \in ActionIds, NEW v,
         actions' = [actions EXCEPT ![a].promise = v],
         UNCHANGED <<running, dict, peerActionCounter, timers, poolStopped,
                     inQueue, uncaught>>
  PROVE  Bookkeeping' /\ StoppedIsEmpty' /\ NoUncaught'
<1> USE AllocatedFacts DEF IInv
<1>1. /\ Allocated' = Allocated /\ Known' = Known
      /\ running' = running /\ poolStopped' = poolStopped
      /\ dict' = dict /\ timers' = timers /\ inQueue' = inQueue
  BY DEF Allocated, Known
<1>2. \A b \in ActionIds : /\ actions'[b].peer = actions[b].peer
                           /\ actions'[b].listening = actions[b].listening
                           /\ actions'[b].resolution = actions[b].resolution
  BY DEF TypeOK, Action
<1>3. UnresolvedIsCurrent'
  BY <1>1, <1>2 DEF UnresolvedIsCurrent, Unresolved
<1>4. EntriesAndTimers'
  <2>1. ASSUME NEW q \in Known
        PROVE  /\ dict[q].action \in Allocated
               /\ actions'[dict[q].action].peer = q
               /\ dict[q].timer # NoAction =>
                    /\ dict[q].timer \in Allocated
                    /\ actions'[dict[q].timer].peer = q
    BY <1>2 DEF EntriesAndTimers
  <2>2. ASSUME NEW t \in timers
        PROVE  /\ t \in Allocated /\ actions'[t].resolution # "none"
               /\ dict[actions'[t].peer].peerState = "waiting"
               /\ dict[actions'[t].peer].action = t
               /\ dict[actions'[t].peer].timer = t
    BY <1>2 DEF EntriesAndTimers, Unresolved
  <2> QED BY <1>1, <2>1, <2>2 DEF EntriesAndTimers, Unresolved
<1>5. NoStuckPeer'
  <2>1. \A q \in Known : dict[q].action \in ActionIds
    BY DEF EntriesAndTimers
  <2> QED BY <1>1, <1>2, <2>1 DEF NoStuckPeer, Unresolved
<1>6. StoppedIsEmpty' /\ NoUncaught'
  BY <1>1 DEF StoppedIsEmpty, NoUncaught
<1> QED BY <1>3, <1>4, <1>5, <1>6 DEF Bookkeeping

\* With no entry, no timer and no unresolved action there are no books to keep.
LEMMA EmptyStep ==
  ASSUME Known' = {}, timers' = {}, \A a \in Allocated' : ~Unresolved(a)'
  PROVE  Bookkeeping'
  BY DEF Bookkeeping, UnresolvedIsCurrent, EntriesAndTimers, NoStuckPeer

LEMMA IInvInit == Init => IInv
<1> SUFFICES ASSUME Init PROVE IInv
  OBVIOUS
<1>1. Known = {} /\ Allocated = {} /\ timers = {}
  BY DEF Init, Known, Absent, Allocated
<1> QED BY <1>1, TypeInit
    DEF Init, IInv, NoUncaught, UnresolvedIsCurrent, EntriesAndTimers,
        StoppedIsEmpty, NoStuckPeer

\* Every step of a client that is never started twice keeps the invariant.
LEMMA IInvStep ==
  ASSUME AllowRestart = FALSE
  PROVE  IInv /\ [Next]_vars => IInv'
<1> SUFFICES ASSUME IInv, [Next]_vars
             PROVE  Bookkeeping' /\ StoppedIsEmpty' /\ NoUncaught'
  BY TypeStep DEF IInv, Bookkeeping
<1>0. TypeOK'
  BY TypeStep DEF IInv
<1> USE AllocatedFacts DEF IInv
<1>1. CASE Start
  <2>1. /\ Known' = {} /\ timers' = {} /\ actions' = actions
        /\ Allocated' = Allocated
    BY <1>1, StoppedFacts DEF Start, Known, Absent, Allocated
  <2>2. Bookkeeping'
    BY <1>1, <2>1, StoppedFacts, EmptyStep DEF Start, Unresolved
  <2> QED BY <1>1, <2>1, <2>2 DEF Start, StoppedIsEmpty, NoUncaught
<1>2. CASE StartAgain
  BY <1>2 DEF StartAgain
<1>3. CASE Stop
  <2>1. Bookkeeping' /\ Known' = {}
    BY <1>3, RemoveStep DEF Stop
  <2>2. inQueue' \subseteq Allocated'
    BY <1>3 DEF Stop, Remove, StoppedIsEmpty, Allocated
  <2> QED BY <1>3, <2>1, <2>2 DEF Stop, StoppedIsEmpty, NoUncaught
<1>4. CASE PoolStop
  <2>1. /\ Known' = {} /\ timers' = {} /\ Allocated' = Allocated
    BY <1>4, StoppedFacts DEF PoolStop, Known, Allocated
  <2>2. \A a \in Allocated' : ~Unresolved(a)'
    BY <1>4, <2>1, StoppedFacts, KilledFacts DEF PoolStop, Unresolved
  <2>3. Bookkeeping'
    BY <2>1, <2>2, EmptyStep
  <2> QED BY <1>4, <2>1, <2>3 DEF PoolStop, StoppedIsEmpty, NoUncaught
<1>5. ASSUME NEW p \in Peers, PeerAppears(p)
      PROVE  Bookkeeping' /\ StoppedIsEmpty' /\ NoUncaught'
  <2> DEFINE entry == [Absent EXCEPT !.peerState = "controlledByPool"]
  <2>1. /\ running /\ p \notin Known /\ CreateNewAction(p, entry, timers)
        /\ running' = running /\ poolStopped' = poolStopped
    BY <1>5 DEF PeerAppears
  <2>2. /\ entry \in Entry /\ entry.peerState = "controlledByPool"
        /\ entry.timer = NoAction
    BY RecordFacts DEF Absent
  <2>3. \A t \in timers : t \in timers <=> actions[t].peer # p
    BY <2>1 DEF EntriesAndTimers, Known
  <2> HIDE DEF entry
  <2>4. Bookkeeping' /\ inQueue' \subseteq Allocated' /\ UNCHANGED uncaught
    BY <2>1, <2>2, <2>3, CreateStep
  <2> QED BY <2>1, <2>4 DEF StoppedIsEmpty, NoUncaught
<1>6. ASSUME NEW p \in Peers, PeerGone(p)
      PROVE  Bookkeeping' /\ StoppedIsEmpty' /\ NoUncaught'
  <2>1. Bookkeeping'
    BY <1>6, RemoveStep DEF PeerGone
  <2>2. inQueue' \subseteq Allocated' /\ running /\ running' /\ ~poolStopped'
    BY <1>6 DEF PeerGone, Remove, StoppedIsEmpty, Allocated
  <2> QED BY <1>6, <2>1, <2>2 DEF PeerGone, StoppedIsEmpty, NoUncaught
<1>7. ASSUME NEW a \in ActionIds, BeginRequest(a)
      PROVE  Bookkeeping' /\ StoppedIsEmpty' /\ NoUncaught'
  BY <1>7, PromiseStep DEF BeginRequest
<1>8. ASSUME NEW a \in ActionIds, RequestThrows(a)
      PROVE  Bookkeeping' /\ StoppedIsEmpty' /\ NoUncaught'
  BY <1>8, PromiseStep DEF RequestThrows
<1>9. ASSUME NEW a \in ActionIds, Reap(a)
      PROVE  Bookkeeping' /\ StoppedIsEmpty' /\ NoUncaught'
  <2>1. /\ a \in Allocated /\ inQueue' = inQueue \ {a}
        /\ running' = running /\ poolStopped' = poolStopped
        /\ uncaught' = uncaught /\ peerActionCounter' = peerActionCounter
        /\ actions' = [Killed({a}) EXCEPT ![a].promise = "reaped"]
    BY <1>9 DEF Reap
  <2>2. /\ Killed({a}) \in [ActionIds -> Action]
        /\ \A b \in ActionIds : b # a => Killed({a})[b] = actions[b]
    BY KilledType DEF Killed
  <2>3. /\ \A b \in ActionIds \ {a} : actions'[b] = actions[b]
        /\ actions'[a].peer = actions[a].peer
        /\ actions'[a].listening = actions[a].listening
        /\ actions'[a].resolution # "none"
    <3> DEFINE k == Killed({a})[a]
    <3>1. /\ k.peer = actions[a].peer /\ k.listening = actions[a].listening
          /\ k.resolution # "none" /\ k \in Action
      BY <2>2, KilledFacts
    <3>2. /\ actions'[a] = [k EXCEPT !.promise = "reaped"]
          /\ \A b \in ActionIds \ {a} : actions'[b] = actions[b]
      BY <2>1, <2>2
    <3> HIDE DEF k
    <3> QED BY <3>1, <3>2 DEF Action
  <2>4. Allocated' = Allocated
    BY <2>1 DEF Allocated
  <2>5. CASE Unresolved(a)
    <3>1. Resolved(a, "killed") /\ "killed" \in Resolutions \ {"none"}
      BY <1>9, <2>5 DEF Reap, Resolutions, Retryable
    <3>2. ~Unresolved(a)'
      BY <2>3 DEF Unresolved
    <3>3. Bookkeeping'
      BY <1>0, <2>1, <2>3, <2>5, <3>1, <3>2, ResolveStep
    <3>4. running
      BY <2>1, <2>5, StoppedFacts
    <3> QED BY <2>1, <2>4, <3>3, <3>4 DEF StoppedIsEmpty, NoUncaught
  <2>6. CASE ~Unresolved(a)
    <3>1. dict' = dict /\ timers' = timers /\ Known' = Known
      BY <1>9, <2>6 DEF Reap, Known
    <3>2. \A b \in ActionIds :
            /\ actions'[b].peer = actions[b].peer
            /\ actions'[b].listening = actions[b].listening
            /\ (actions'[b].resolution = "none") <=> (actions[b].resolution = "none")
      <4> TAKE b \in ActionIds
      <4>1. CASE b = a
        BY <2>3, <2>6, <4>1 DEF Unresolved
      <4>2. CASE b # a
        BY <2>3, <4>2
      <4> QED BY <4>1, <4>2
    <3>3. UnresolvedIsCurrent'
      <4>1. ASSUME NEW b \in Allocated, actions'[b].resolution = "none"
            PROVE  /\ b \in inQueue'
                   /\ actions'[b].listening
                   /\ dict[actions'[b].peer].action = b
                   /\ dict[actions'[b].peer].peerState
                        \in {"controlledByPool", "waiting"}
        <5>1. b \in ActionIds /\ Unresolved(b) /\ b # a
          BY <2>6, <3>2, <4>1 DEF Unresolved
        <5>2. actions'[b] = actions[b]
          BY <2>3, <5>1
        <5> QED BY <2>1, <5>1, <5>2 DEF UnresolvedIsCurrent
      <4> QED BY <2>4, <3>1, <4>1 DEF UnresolvedIsCurrent, Unresolved
    <3>4. EntriesAndTimers'
      <4>1. ASSUME NEW q \in Known
            PROVE  /\ dict[q].action \in Allocated
                   /\ actions'[dict[q].action].peer = q
                   /\ dict[q].timer # NoAction =>
                        /\ dict[q].timer \in Allocated
                        /\ actions'[dict[q].timer].peer = q
        BY <3>2 DEF EntriesAndTimers
      <4>2. ASSUME NEW t \in timers
            PROVE  /\ t \in Allocated /\ actions'[t].resolution # "none"
                   /\ dict[actions'[t].peer].peerState = "waiting"
                   /\ dict[actions'[t].peer].action = t
                   /\ dict[actions'[t].peer].timer = t
        BY <3>2 DEF EntriesAndTimers, Unresolved
      <4> QED BY <2>4, <3>1, <4>1, <4>2 DEF EntriesAndTimers, Unresolved
    <3>5. NoStuckPeer'
      <4>1. \A q \in Known : dict[q].action \in ActionIds
        BY DEF EntriesAndTimers
      <4> QED BY <3>1, <3>2, <4>1 DEF NoStuckPeer, Unresolved
    <3> QED BY <2>1, <2>4, <3>1, <3>3, <3>4, <3>5
            DEF Bookkeeping, StoppedIsEmpty, NoUncaught
  <2> QED BY <2>5, <2>6
<1>10. ASSUME NEW a \in ActionIds, TimerFires(a)
       PROVE  Bookkeeping' /\ StoppedIsEmpty' /\ NoUncaught'
  <2> DEFINE p == actions[a].peer
  <2>1. a \in timers /\ running' = running /\ poolStopped' = poolStopped
    BY <1>10 DEF TimerFires
  <2>2. /\ p \in Known /\ dict[p].peerState = "waiting" /\ dict[p].action = a
        /\ ~Unresolved(a) /\ dict[p] \in Entry
    BY <2>1 DEF EntriesAndTimers, Known, TypeOK, Action
  <2>3. running /\ CreateNewAction(p, dict[p], timers \ {a})
    BY <1>10, <2>2, StoppedFacts DEF TimerFires
  <2>4. \A t \in timers : t \in timers \ {a} <=> actions[t].peer # p
    BY <2>2 DEF EntriesAndTimers
  <2>5. dict[p].timer # NoAction => /\ dict[p].timer \in Allocated
                                    /\ actions[dict[p].timer].peer = p
    BY <2>2 DEF EntriesAndTimers
  <2>6. p \in Peers /\ timers \ {a} \in SUBSET timers
    BY <2>2 DEF Known
  <2> HIDE DEF p
  <2>7. Bookkeeping' /\ inQueue' \subseteq Allocated' /\ UNCHANGED uncaught
    BY <2>2, <2>3, <2>4, <2>5, <2>6, CreateStep
  <2> QED BY <2>1, <2>3, <2>7 DEF StoppedIsEmpty, NoUncaught
<1>11. ASSUME NEW a \in ActionIds, NEW res \in HttpOutcomes, Complete(a, res)
       PROVE  Bookkeeping' /\ StoppedIsEmpty' /\ NoUncaught'
  <2>1. /\ a \in Allocated /\ Unresolved(a) /\ Resolved(a, res)
        /\ inQueue' = inQueue /\ running' = running
        /\ poolStopped' = poolStopped
        /\ uncaught' = uncaught /\ peerActionCounter' = peerActionCounter
    BY <1>11 DEF Complete
  <2>2. /\ \A b \in ActionIds \ {a} : actions'[b] = actions[b]
        /\ actions'[a].peer = actions[a].peer
        /\ actions'[a].resolution = res
    BY <1>11 DEF Complete, TypeOK, Action
  <2>3. res \in Resolutions \ {"none"} /\ ~Unresolved(a)'
    BY <2>2 DEF HttpOutcomes, Unresolved
  <2>4. Bookkeeping'
    BY <1>0, <2>1, <2>2, <2>3, ResolveStep
  <2>5. running /\ Allocated' = Allocated
    BY <2>1, StoppedFacts DEF Allocated
  <2> QED BY <2>1, <2>4, <2>5 DEF StoppedIsEmpty, NoUncaught
<1>12. CASE UNCHANGED vars
  BY <1>12 DEF vars, Bookkeeping, UnresolvedIsCurrent, EntriesAndTimers,
               NoStuckPeer, StoppedIsEmpty, NoUncaught, Allocated, Known,
               Unresolved
<1> QED BY <1>1, <1>2, <1>3, <1>4, <1>5, <1>6, <1>7, <1>8, <1>9, <1>10,
           <1>11, <1>12 DEF Next

\* A client that is started only when it is stopped keeps its books: the
\* inductive invariant holds throughout.
THEOREM BooksKept == ASSUME AllowRestart = FALSE PROVE Spec => []IInv
<1>1. IInv /\ [Next]_vars => IInv'
  BY IInvStep
<1> QED BY <1>1, IInvInit, PTL DEF Spec

\* No retry timer fires for a peer that is gone, and no handler throws.
THEOREM NothingThrows == ASSUME AllowRestart = FALSE PROVE Spec => []NoUncaught
<1>1. IInv => NoUncaught
  BY DEF IInv
<1> QED BY <1>1, BooksKept, PTL

\* No peer is ever left without a request, a timer or a verdict.
THEOREM NobodyStuck == ASSUME AllowRestart = FALSE PROVE Spec => []NoStuckPeer
<1>1. IInv => NoStuckPeer
  BY DEF IInv
<1> QED BY <1>1, BooksKept, PTL

\* A peer is never asked for its beacons twice at a time.
THEOREM OneRequest == ASSUME AllowRestart = FALSE PROVE Spec => []OneRequestPerPeer
<1>1. IInv => OneRequestPerPeer
  BY DEF IInv, OneRequestPerPeer, UnresolvedIsCurrent
<1> QED BY <1>1, BooksKept, PTL

\* After stop no timer is armed and no request is under way.
THEOREM StopIsQuiet == ASSUME AllowRestart = FALSE PROVE Spec => []QuietAfterStop
<1>1. IInv => QuietAfterStop
  BY StoppedFacts DEF QuietAfterStop
<1> QED BY <1>1, BooksKept, PTL

\* What is under way is in the queue of a started pool, so that stop reaches it.
THEOREM PoolOwns == ASSUME AllowRestart = FALSE PROVE Spec => []PoolOwnsRequests
<1>1. IInv => PoolOwnsRequests
  BY DEF IInv, PoolOwnsRequests, UnresolvedIsCurrent, StoppedIsEmpty
<1> QED BY <1>1, BooksKept, PTL

-----------------------------------------------------------------------------
(* The notification client implements PeerFollowUp: its first state maps   *)
(* to the first state there, and each of its steps to a step or a stutter. *)


\* A peer whose entry is left alone, and whose request neither begins nor ends,
\* keeps its status.
LEMMA SameStatus ==
  ASSUME NEW q \in Peers, dict'[q] = dict[q],
         q \in Known => actions'[dict[q].action].resolution
                          = actions[dict[q].action].resolution
  PROVE  /\ Status(q)' = Status(q) /\ Tries(q)' = Tries(q)
<1>1. q \in Known' <=> q \in Known
  BY DEF Known
<1> QED BY <1>1 DEF Status, Tries, Unresolved

\* A peer without an entry is unknown and has not failed.
LEMMA UnknownStatus ==
  /\ \A q \in Peers : q \notin Known  => Status(q) = "unknown" /\ Tries(q) = 0
  /\ \A q \in Peers : q \notin Known' => Status(q)' = "unknown" /\ Tries(q)' = 0
  /\ \A q \in Peers : Status(q) # "unknown" <=> q \in Known
  BY DEF Status, Tries

\* Steps that leave every entry and every resolution alone are not seen.
LEMMA Unseen ==
  ASSUME IInv, UNCHANGED <<running, dict>>,
         \A a \in ActionIds : actions'[a].resolution = actions[a].resolution
  PROVE  UNCHANGED FollowUp!vars
<1>1. \A q \in Known : dict[q].action \in ActionIds
  BY AllocatedFacts DEF IInv, EntriesAndTimers
<1>2. \A q \in Peers : Status(q)' = Status(q) /\ Tries(q)' = Tries(q)
  BY <1>1, SameStatus
<1> QED BY <1>2 DEF FollowUp!vars

\* kill and the removal of a listener touch no other action's resolution, nor one
\* that there is.
LEMMA KeptFacts ==
  ASSUME TypeOK, NEW S, NEW a \in ActionIds
  PROVE  /\ a \notin S => Silenced(S)[a].resolution = actions[a].resolution
         /\ ~Unresolved(a) => Killed(S)[a].resolution = actions[a].resolution
  BY DEF TypeOK, Action, Silenced, Killed, Unresolved

\* remove makes the peers it is called for unknown and leaves the others alone.
LEMMA RemoveStatus ==
  ASSUME IInv, NEW S \in SUBSET Known, Remove(S)
  PROVE  /\ \A q \in S : Status(q)' = "unknown" /\ Tries(q)' = 0
         /\ \A q \in Peers \ S : Status(q)' = Status(q) /\ Tries(q)' = Tries(q)
<1>1. /\ \A p \in Peers : dict'[p] = IF p \in S THEN Absent ELSE dict[p]
      /\ actions' = Silenced(ActionsOf(S))
  BY DEF Remove
<1>2. \A q \in S : q \in Peers /\ q \notin Known'
  BY <1>1 DEF Known, Absent
<1>3. ASSUME NEW q \in Known \ S
      PROVE  actions'[dict[q].action].resolution = actions[dict[q].action].resolution
  <2>1. dict[q].action \in ActionIds /\ actions[dict[q].action].peer = q
    BY <1>3, AllocatedFacts DEF IInv, EntriesAndTimers
  <2>2. dict[q].action \notin ActionsOf(S)
    BY <1>3, <2>1 DEF IInv, EntriesAndTimers, ActionsOf
  <2> QED BY <1>1, <2>1, <2>2, KilledFacts, KeptFacts DEF IInv
<1>4. \A q \in Peers \ S : Status(q)' = Status(q) /\ Tries(q)' = Tries(q)
  BY <1>1, <1>3, SameStatus
<1> QED BY <1>2, <1>4, UnknownStatus

\* A new action makes its peer asked, those that overflow unknown, and leaves the
\* others alone.
LEMMA CreateStatus ==
  ASSUME IInv, IInv', running, NEW p \in Peers, NEW entry \in Entry, NEW armed,
         entry.peerState \in {"controlledByPool", "waiting"},
         CreateNewAction(p, entry, armed)
  PROVE  LET V == IF p \in Known THEN {} ELSE Overflow
         IN /\ V \subseteq Known \ {p}
            /\ Status(p)' = "asking" /\ Tries(p)' = entry.retries
            /\ \A q \in V : Status(q)' = "unknown" /\ Tries(q)' = 0
            /\ \A q \in Peers \ (V \cup {p}) :
                 Status(q)' = Status(q) /\ Tries(q)' = Tries(q)
<1> USE AllocatedFacts DEF IInv
<1> DEFINE a == peerActionCounter + 1
           V == IF p \in Known THEN {} ELSE Overflow
<1>1. ~poolStopped
  BY DEF StoppedIsEmpty
<1>2. /\ a \in ActionIds
      /\ dict' = [q \in Peers |->
                    IF q = p THEN [entry EXCEPT !.action = a,
                                                !.number = entryCounter]
                    ELSE IF q \in V THEN Absent ELSE dict[q]]
      /\ actions' = [Silenced(ActionsOf(V)) EXCEPT ![a] = NewAction(p)]
  BY <1>1 DEF CreateNewAction
<1>3. V \subseteq Known \ {p} /\ a \notin Allocated
  BY IdFacts DEF Allocated, TypeOK
<1> HIDE DEF a, V
<1>4. Silenced(ActionsOf(V)) \in [ActionIds -> Action]
  BY KilledType
<1>5. /\ dict'[p].action = a /\ dict'[p].peerState = entry.peerState
      /\ dict'[p].retries = entry.retries
  BY <1>2 DEF Entry
<1>6. actions'[a].resolution = "none"
  BY <1>2, <1>4 DEF NewAction
<1>7. Status(p)' = "asking" /\ Tries(p)' = entry.retries
  BY <1>5, <1>6 DEF Status, Tries, Known, Unresolved
<1>8. \A q \in V : q \in Peers /\ q \notin Known'
  BY <1>2, <1>3 DEF Known, Absent
<1>9. ASSUME NEW q \in Known, q \notin V, q # p
      PROVE  actions'[dict[q].action].resolution = actions[dict[q].action].resolution
  <2>1. /\ dict[q].action \in Allocated /\ dict[q].action \in ActionIds
        /\ actions[dict[q].action].peer = q
    BY <1>9 DEF EntriesAndTimers
  <2>2. dict[q].action \notin ActionsOf(V)
    BY <1>3, <1>9, <2>1 DEF EntriesAndTimers, ActionsOf
  <2>3. actions'[dict[q].action] = Silenced(ActionsOf(V))[dict[q].action]
    BY <1>2, <1>3, <1>4, <2>1
  <2> QED BY <2>1, <2>2, <2>3, KeptFacts
<1>10. \A q \in Peers \ (V \cup {p}) : dict'[q] = dict[q]
  BY <1>2
<1>11. \A q \in Peers \ (V \cup {p}) :
         Status(q)' = Status(q) /\ Tries(q)' = Tries(q)
  BY <1>9, <1>10, SameStatus
<1>12. \A q \in V : Status(q)' = "unknown" /\ Tries(q)' = 0
  BY <1>8, UnknownStatus
<1> QED BY <1>3, <1>7, <1>11, <1>12 DEF V

\* The end of a request is an answer or a failure of its peer, and of no other.
LEMMA ResolveStatus ==
  ASSUME IInv, NEW a \in Allocated, Unresolved(a),
         NEW res \in Resolutions \ {"none"}, Resolved(a, res),
         actions'[a].resolution = res,
         \A b \in ActionIds \ {a} : actions'[b] = actions[b],
         UNCHANGED running
  PROVE  \E p \in Peers : FollowUp!Answers(p) \/ FollowUp!Fails(p)
<1> USE AllocatedFacts DEF IInv
<1>a. PICK p \in Peers : p = actions[a].peer
  BY DEF TypeOK, Action
<1>b. PICK n \in Nat : n = dict[p].retries
  BY DEF TypeOK, Entry
<1>1. /\ p \in Known /\ dict[p].action = a /\ actions[a].listening
      /\ dict[p].peerState # "resolved"
  BY <1>a DEF UnresolvedIsCurrent, Known
<1>2. Heard(a)
  BY <1>1, <1>a DEF Heard, StoppedIsEmpty
<1>3. Status(p) = "asking" /\ Tries(p) = n
  BY <1>1, <1>b DEF Status, Tries
<1>4. dict \in [Peers -> Entry]
  BY DEF TypeOK
<1>5. ASSUME \A q \in Peers \ {p} : dict'[q] = dict[q]
      PROVE  \A q \in Peers \ {p} :
               Status(q)' = Status(q) /\ Tries(q)' = Tries(q)
  <2> TAKE q \in Peers \ {p}
  <2>1. dict'[q] = dict[q]
    BY <1>5
  <2>2. q \in Known => dict[q].action \in ActionIds \ {a}
    BY <1>1 DEF EntriesAndTimers
  <2>3. q \in Known => actions'[dict[q].action] = actions[dict[q].action]
    BY <2>2
  <2> QED BY <2>1, <2>3, SameStatus
<1>6. CASE /\ res \in Final \/ ~RetriesLeft(p)
           /\ dict' = [dict EXCEPT ![p].peerState = "resolved",
                                   ![p].number = entryCounter]
  <2>1. /\ \A q \in Peers \ {p} : dict'[q] = dict[q]
        /\ dict'[p].peerState = "resolved" /\ dict'[p].retries = n
        /\ dict'[p].action = a
    BY <1>1, <1>b, <1>4, <1>6 DEF Entry
  <2>2. /\ Status(p)' = IF res \in Final THEN "answered" ELSE "givenUp"
        /\ Tries(p)' = n
    BY <1>1, <2>1 DEF Status, Tries, Known, Unresolved
  <2>3. res \in Final \/ n >= MaxRetries
    BY <1>b, <1>6, ClientAssumption DEF RetriesLeft
  <2>4. CASE res \in Final
    BY <1>1, <1>3, <1>5, <2>1, <2>2, <2>4 DEF FollowUp!Answers
  <2>5. CASE res \notin Final
    <3>1. FollowUp!Fails(p)
      BY <1>3, <1>5, <2>1, <2>2, <2>3, <2>5 DEF FollowUp!Fails
    <3> QED BY <3>1
  <2> QED BY <2>4, <2>5
<1>7. CASE /\ RetriesLeft(p)
           /\ dict' = [dict EXCEPT ![p].peerState = "waiting",
                                   ![p].timer = a,
                                   ![p].retries = @ + 1,
                                   ![p].number = entryCounter + 1]
  <2>1. \A q \in Peers \ {p} : dict'[q] = dict[q]
    BY Zenon, <1>4, <1>7
  <2>2. dict'[p] = [dict[p] EXCEPT !.peerState = "waiting", !.timer = a,
                                   !.retries = @ + 1,
                                   !.number = entryCounter + 1]
    BY Zenon, <1>1, <1>4, <1>7
  <2>3. ASSUME NEW e \in Entry, NEW m
        PROVE  LET f == [e EXCEPT !.peerState = "waiting", !.timer = a,
                                  !.retries = @ + 1, !.number = m]
               IN /\ f.peerState = "waiting" /\ f.action = e.action
                  /\ f.retries = e.retries + 1
    BY DEF Entry
  <2>4. /\ dict'[p].peerState = "waiting" /\ dict'[p].action = a
        /\ dict'[p].retries = n + 1
    BY <1>1, <1>b, <1>4, <2>2, <2>3
  <2>5. Status(p)' = "waiting" /\ Tries(p)' = n + 1
    BY <1>1, <2>4 DEF Status, Tries, Known, Unresolved
  <2>6. n < MaxRetries
    BY <1>7, <1>b DEF RetriesLeft
  <2>7. FollowUp!Fails(p)
    BY <1>3, <1>5, <2>1, <2>5, <2>6 DEF FollowUp!Fails
  <2> QED BY <2>7
<1> QED BY Zenon, <1>2, <1>6, <1>7, <1>a DEF Resolved

-----------------------------------------------------------------------------
(* The refinement *)

\* The size of a set is the same seen from both modules.
LEMMA SameCardinality == \A S : FollowUp!Cardinality(S) = Cardinality(S)
  BY DEF FollowUp!Cardinality, Cardinality

LEMMA RefinesInit == Init => FollowUp!Init
<1> SUFFICES ASSUME Init PROVE FollowUp!Init
  OBVIOUS
<1>1. Known = {}
  BY DEF Init, Known, Absent
<1> QED BY <1>1, UnknownStatus DEF Init, FollowUp!Init

\* Every step of the client is a step of PeerFollowUp, or is not seen there.
LEMMA RefinesStep ==
  ASSUME AllowRestart = FALSE, IInv, IInv', [Next]_vars
  PROVE  [FollowUp!Next]_(FollowUp!vars)
<1> USE AllocatedFacts DEF IInv
<1>1. CASE Start
  <2>1. Known = {} /\ Known' = {}
    BY <1>1, StoppedFacts DEF Start, Known, Absent
  <2>2. \A q \in Peers : Status(q)' = Status(q) /\ Tries(q)' = Tries(q)
    BY <2>1, UnknownStatus
  <2>3. FollowUp!Start
    BY <1>1, <2>2 DEF Start, FollowUp!Start
  <2> QED BY <2>3 DEF FollowUp!Next
<1>2. CASE StartAgain
  BY <1>2 DEF StartAgain
<1>3. CASE Stop
  <2>1. \A q \in Peers : Status(q)' = "unknown" /\ Tries(q)' = 0
    <3>1. Known' = {}
      BY <1>3 DEF Stop, StoppedIsEmpty
    <3> QED BY <3>1, UnknownStatus
  <2>2. FollowUp!Stop
    BY <1>3, <2>1 DEF Stop, FollowUp!Stop, FollowUp!Forget
  <2> QED BY <2>2 DEF FollowUp!Next
<1>4. CASE PoolStop
  <2>1. Known = {} /\ Known' = {}
    BY <1>4, StoppedFacts DEF PoolStop, Known
  <2>2. \A q \in Peers : Status(q)' = Status(q) /\ Tries(q)' = Tries(q)
    BY <2>1, UnknownStatus
  <2> QED BY <1>4, <2>2 DEF PoolStop, FollowUp!vars
<1>5. ASSUME NEW p \in Peers, PeerAppears(p)
      PROVE  FollowUp!Next
  <2> DEFINE entry == [Absent EXCEPT !.peerState = "controlledByPool"]
  <2>1. /\ running /\ p \notin Known /\ CreateNewAction(p, entry, timers)
        /\ running' = running
    BY <1>5 DEF PeerAppears
  <2>2. /\ entry \in Entry /\ entry.peerState = "controlledByPool"
        /\ entry.retries = 0
    BY RecordFacts DEF Absent
  <2> HIDE DEF entry
  <2>3. /\ Overflow \subseteq Known \ {p}
        /\ Status(p)' = "asking" /\ Tries(p)' = 0
        /\ \A q \in Overflow : Status(q)' = "unknown" /\ Tries(q)' = 0
        /\ \A q \in Peers \ (Overflow \cup {p}) :
             Status(q)' = Status(q) /\ Tries(q)' = Tries(q)
    BY <2>1, <2>2, CreateStatus
  <2>4. FollowUp!Remembered = Known
    BY UnknownStatus DEF FollowUp!Remembered, Known
  <2>5. Cardinality(Known) < MAXSIZE => Overflow = {}
    BY DEF Overflow
  <2> DEFINE st == [q \in Peers |-> Status(q)]
             tr == [q \in Peers |-> Tries(q)]
  <2>6. /\ st' = [q \in Peers |-> IF q = p THEN "asking"
                                  ELSE IF q \in Overflow THEN "unknown"
                                  ELSE st[q]]
        /\ tr' = [q \in Peers |-> IF q \in Overflow \cup {p} THEN 0 ELSE tr[q]]
    BY <2>3
  <2>7. Overflow \in SUBSET FollowUp!Remembered
    BY <2>3, <2>4
  <2>8. /\ FollowUp!Cardinality(FollowUp!Remembered) < MAXSIZE => Overflow = {}
        /\ p \notin FollowUp!Remembered
    BY <2>1, <2>4, <2>5, SameCardinality
  <2>9. FollowUp!Appears(p)
    BY Zenon, <2>1, <2>6, <2>7, <2>8 DEF FollowUp!Appears
  <2> QED BY <2>9 DEF FollowUp!Next
<1>6. ASSUME NEW p \in Peers, PeerGone(p)
      PROVE  FollowUp!Next
  <2>1. /\ \A q \in {p} : Status(q)' = "unknown" /\ Tries(q)' = 0
        /\ \A q \in Peers \ {p} : Status(q)' = Status(q) /\ Tries(q)' = Tries(q)
    BY <1>6, RemoveStatus DEF PeerGone
  <2>2. FollowUp!Remembered = Known
    BY UnknownStatus DEF FollowUp!Remembered, Known
  <2>3. FollowUp!Gone(p)
    BY <1>6, <2>1, <2>2 DEF PeerGone, FollowUp!Gone, FollowUp!Forget
  <2> QED BY <2>3 DEF FollowUp!Next
<1>7. ASSUME NEW a \in ActionIds, BeginRequest(a) \/ RequestThrows(a)
      PROVE  UNCHANGED FollowUp!vars
  <2>1. \A b \in ActionIds : actions'[b].resolution = actions[b].resolution
    BY <1>7 DEF BeginRequest, RequestThrows, TypeOK, Action
  <2> QED BY <1>7, <2>1, Unseen DEF BeginRequest, RequestThrows
<1>8. ASSUME NEW a \in ActionIds, Reap(a)
      PROVE  [FollowUp!Next]_(FollowUp!vars)
  <2>1. /\ a \in Allocated /\ UNCHANGED running
        /\ actions' = [Killed({a}) EXCEPT ![a].promise = "reaped"]
    BY <1>8 DEF Reap
  <2>2. /\ Killed({a}) \in [ActionIds -> Action]
        /\ \A b \in ActionIds : b # a => Killed({a})[b] = actions[b]
    BY KilledType DEF Killed
  <2>3. /\ \A b \in ActionIds \ {a} : actions'[b] = actions[b]
        /\ actions'[a].resolution = Killed({a})[a].resolution
    BY <2>1, <2>2 DEF Action
  <2>4. CASE Unresolved(a)
    <3>1. Resolved(a, "killed") /\ "killed" \in Resolutions \ {"none"}
      BY <1>8, <2>4 DEF Reap, Resolutions, Retryable
    <3>2. actions'[a].resolution = "killed"
      BY <2>3, <2>4 DEF Killed, TypeOK, Action, Unresolved
    <3>3. \E p \in Peers : FollowUp!Answers(p) \/ FollowUp!Fails(p)
      BY <2>1, <2>3, <2>4, <3>1, <3>2, ResolveStatus
    <3> QED BY <3>3 DEF FollowUp!Next
  <2>5. CASE ~Unresolved(a)
    <3>1. \A b \in ActionIds : actions'[b].resolution = actions[b].resolution
      BY <2>3, <2>5, KeptFacts
    <3> QED BY <1>8, <2>5, <3>1, Unseen DEF Reap
  <2> QED BY <2>4, <2>5
<1>9. ASSUME NEW a \in ActionIds, TimerFires(a)
      PROVE  FollowUp!Next
  <2>1. PICK p \in Peers : p = actions[a].peer
    BY DEF TypeOK, Action
  <2>2. /\ p \in Known /\ dict[p].peerState = "waiting" /\ dict[p].action = a
        /\ ~Unresolved(a) /\ dict[p] \in Entry /\ UNCHANGED running
    BY <1>9, <2>1 DEF TimerFires, EntriesAndTimers, Known, TypeOK
  <2>3. running /\ CreateNewAction(p, dict[p], timers \ {a})
    BY <1>9, <2>1, <2>2, StoppedFacts DEF TimerFires
  <2>4. Status(p) = "waiting" /\ Tries(p) = dict[p].retries
    BY <2>2 DEF Status, Tries
  <2>5. PICK e \in Entry : e = dict[p]
    BY <2>2
  <2>6. /\ Status(p)' = "asking" /\ Tries(p)' = e.retries
        /\ \A q \in Peers \ {p} : Status(q)' = Status(q) /\ Tries(q)' = Tries(q)
    BY <2>2, <2>3, <2>5, CreateStatus
  <2>7. FollowUp!Retry(p)
    BY <2>2, <2>4, <2>5, <2>6 DEF FollowUp!Retry
  <2> QED BY <2>7 DEF FollowUp!Next
<1>10. ASSUME NEW a \in ActionIds, NEW res \in HttpOutcomes, Complete(a, res)
       PROVE  FollowUp!Next
  <2>1. /\ a \in Allocated /\ Unresolved(a) /\ Resolved(a, res)
        /\ UNCHANGED running
    BY <1>10 DEF Complete
  <2>a. /\ \A b \in ActionIds \ {a} : actions'[b] = actions[b]
        /\ actions'[a].resolution = res
    BY <1>10 DEF Complete, TypeOK, Action
  <2>2. res \in Resolutions \ {"none"}
    BY DEF HttpOutcomes
  <2>3. \E p \in Peers : FollowUp!Answers(p) \/ FollowUp!Fails(p)
    BY <2>1, <2>a, <2>2, ResolveStatus
  <2> QED BY <2>3 DEF FollowUp!Next
<1>11. CASE UNCHANGED vars
  BY <1>11, Unseen DEF vars, Unresolved
<1> QED BY <1>1, <1>2, <1>3, <1>4, <1>5, <1>6, <1>7, <1>8, <1>9, <1>10, <1>11
        DEF Next

\* A client that is started only when it is stopped keeps the promise of
\* PeerFollowUp about every peer.  (That retries come at all is a matter of
\* fairness, which the runs check.)
THEOREM ImplementsFollowUp ==
  ASSUME AllowRestart = FALSE
  PROVE  Spec => FollowUp!Spec
<1>1. IInv /\ IInv' /\ [Next]_vars => [FollowUp!Next]_(FollowUp!vars)
  BY RefinesStep
<1> QED BY <1>1, RefinesInit, BooksKept, PTL DEF Spec, FollowUp!Spec

-----------------------------------------------------------------------------
(* Who makes room for a new peer.  Entries are numbered when they are      *)
(* added and again when their state changes, so that no two that are in    *)
(* the dictionary have the same number, restarts included.                 *)

Numbered ==
  \A p \in Known :
    /\ dict[p].number < entryCounter
    /\ \A q \in Known \ {p} : dict[p].number # dict[q].number

\* What a step may do to the dictionary: drop entries, renew one, or admit a peer
\* for which those that overflow have to go.
Drops ==
  /\ \A q \in Peers : dict'[q] \in {dict[q], Absent}
  /\ entryCounter' = entryCounter \/ \A q \in Peers : dict'[q] = Absent

Renews(p) ==
  /\ p \in Known /\ dict'[p].peerState # "absent"
  /\ entryCounter <= dict'[p].number /\ dict'[p].number < entryCounter'
  /\ \A q \in Peers \ {p} : dict'[q] = dict[q]

Admits(p) ==
  /\ p \notin Known /\ dict'[p].peerState # "absent"
  /\ dict'[p].number = entryCounter /\ entryCounter' = entryCounter + 1
  /\ \A q \in Peers \ {p} :
       dict'[q] = IF q \in Overflow THEN Absent ELSE dict[q]

DictMoves == Drops \/ \E p \in Peers : Renews(p) \/ Admits(p)

LEMMA CreateMoves ==
  ASSUME TypeOK, NEW p \in Peers, NEW entry \in Entry, NEW armed,
         entry.peerState # "absent", CreateNewAction(p, entry, armed)
  PROVE  DictMoves
<1>1. CASE UNCHANGED <<dict, entryCounter>>
  BY <1>1 DEF DictMoves, Drops
<1>2. ASSUME NEW victims, NEW a,
             victims = IF p \in Known THEN {} ELSE Overflow,
             dict' = [q \in Peers |->
                        IF q = p THEN [entry EXCEPT !.action = a,
                                                    !.number = entryCounter]
                        ELSE IF q \in victims THEN Absent ELSE dict[q]],
             entryCounter' = entryCounter + 1
      PROVE  DictMoves
  <2>1. dict'[p] = [entry EXCEPT !.action = a, !.number = entryCounter]
        /\ \A q \in Peers \ {p} : dict'[q] = IF q \in victims THEN Absent ELSE dict[q]
    BY <1>2
  <2>2. dict'[p].number = entryCounter /\ dict'[p].peerState # "absent"
    BY <2>1 DEF Entry
  <2>3. entryCounter \in Nat /\ entryCounter' = entryCounter + 1
    BY <1>2 DEF TypeOK
  <2>4. CASE p \in Known
    <3>1. \A q \in Peers \ {p} : dict'[q] = dict[q]
      BY <1>2, <2>1, <2>4
    <3>2. entryCounter <= dict'[p].number /\ dict'[p].number < entryCounter'
      BY <2>2, <2>3
    <3> QED
      BY <2>2, <2>4, <3>1, <3>2 DEF DictMoves, Renews
  <2>5. CASE p \notin Known
    BY <1>2, <2>1, <2>2, <2>3, <2>5 DEF DictMoves, Admits
  <2> QED
    BY <2>4, <2>5
<1>3. CASE ~poolStopped
  <2> DEFINE a == peerActionCounter + 1
             victims == IF p \in Known THEN {} ELSE Overflow
  <2>1. /\ dict' = [q \in Peers |->
                      IF q = p THEN [entry EXCEPT !.action = a,
                                                  !.number = entryCounter]
                      ELSE IF q \in victims THEN Absent ELSE dict[q]]
        /\ entryCounter' = entryCounter + 1
    BY <1>3, Zenon DEF CreateNewAction
  <2> HIDE DEF a
  <2> QED
    BY <1>2, <2>1, Zenon
<1>4. CASE poolStopped
  BY <1>1, <1>4, Zenon DEF CreateNewAction
<1> QED
  BY <1>3, <1>4

LEMMA ResolvedMoves ==
  ASSUME TypeOK, NEW a \in ActionIds, NEW res, Resolved(a, res)
  PROVE  DictMoves
<1> DEFINE p == actions[a].peer
<1>1. p \in Peers /\ entryCounter \in Nat /\ dict \in [Peers -> Entry]
  BY DEF TypeOK, Action
<1>2. CASE UNCHANGED <<dict, entryCounter>>
  BY <1>2 DEF DictMoves, Drops
<1>3. CASE p \in Known /\ entryCounter' = entryCounter + 1
           /\ dict' = [dict EXCEPT ![p].peerState = "resolved",
                                   ![p].number = entryCounter]
  BY <1>1, <1>3 DEF DictMoves, Renews, Entry
<1>4. CASE p \in Known /\ entryCounter' = entryCounter + 2
           /\ dict' = [dict EXCEPT ![p].peerState = "waiting", ![p].timer = a,
                                   ![p].retries = @ + 1,
                                   ![p].number = entryCounter + 1]
  <2>1. dict'[p].peerState = "waiting" /\ dict'[p].number = entryCounter + 1
        /\ \A q \in Peers \ {p} : dict'[q] = dict[q]
    BY <1>1, <1>4 DEF Entry
  <2>2. entryCounter <= dict'[p].number /\ dict'[p].number < entryCounter'
    <3>1. \A n \in Nat : n <= n + 1 /\ n + 1 < n + 2
      OBVIOUS
    <3> QED
      BY <1>1, <1>4, <2>1, <3>1, Zenon
  <2> QED
    BY <1>1, <1>4, <2>1, <2>2 DEF DictMoves, Renews
<1> QED
  BY <1>2, <1>3, <1>4 DEF Resolved, Heard

LEMMA StepMoves == TypeOK /\ [Next]_vars => DictMoves
<1> SUFFICES ASSUME TypeOK, [Next]_vars PROVE DictMoves
  OBVIOUS
<1> USE DEF TypeOK
<1>1. ASSUME NEW S, Remove(S), entryCounter' = entryCounter PROVE DictMoves
  BY <1>1 DEF Remove, DictMoves, Drops
<1>2. CASE UNCHANGED <<dict, entryCounter>>
  BY <1>2 DEF DictMoves, Drops
<1>3. CASE Start \/ StartAgain
  BY <1>3 DEF Start, StartAgain, DictMoves, Drops
<1>4. CASE Stop
  BY <1>1, <1>4 DEF Stop
<1>5. ASSUME NEW p \in Peers, PeerGone(p) PROVE DictMoves
  BY <1>1, <1>5 DEF PeerGone
<1>6. ASSUME NEW p \in Peers, PeerAppears(p) PROVE DictMoves
  <2> DEFINE entry == [Absent EXCEPT !.peerState = "controlledByPool"]
  <2>1. entry \in Entry /\ entry.peerState # "absent"
    BY DEF Absent, Entry, PeerStates, NoAction
  <2>2. CreateNewAction(p, entry, timers)
    BY <1>6 DEF PeerAppears
  <2> QED
    BY <2>1, <2>2, CreateMoves
<1>7. ASSUME NEW a \in ActionIds, TimerFires(a) PROVE DictMoves
  <2>1. actions[a].peer \in Peers
    BY DEF Action
  <2>2. CASE UNCHANGED <<dict, entryCounter>>
    BY <1>2, <2>2
  <2>3. CASE /\ dict[actions[a].peer].peerState = "waiting"
             /\ CreateNewAction(actions[a].peer, dict[actions[a].peer], timers \ {a})
    BY <2>1, <2>3, CreateMoves
  <2> QED
    BY <1>7, <2>2, <2>3 DEF TimerFires
<1>8. ASSUME NEW a \in ActionIds,
             Reap(a) \/ \E res \in HttpOutcomes : Complete(a, res)
      PROVE  DictMoves
  BY <1>2, <1>8, ResolvedMoves DEF Reap, Complete
<1>9. ASSUME NEW a \in ActionIds, BeginRequest(a) \/ RequestThrows(a)
      PROVE  DictMoves
  BY <1>2, <1>9 DEF BeginRequest, RequestThrows
<1>10. CASE PoolStop \/ UNCHANGED vars
  BY <1>2, <1>10 DEF PoolStop, vars
<1> QED
  BY <1>3, <1>4, <1>5, <1>6, <1>7, <1>8, <1>9, <1>10 DEF Next

LEMMA NumberedStep == TypeOK /\ Numbered /\ [Next]_vars => Numbered'
<1> SUFFICES ASSUME TypeOK, Numbered, [Next]_vars PROVE Numbered'
  OBVIOUS
<1>1. Absent.peerState = "absent" /\ entryCounter \in Nat /\ entryCounter' \in Nat
      /\ \A q \in Peers : dict[q].number \in Nat /\ dict'[q].number \in Nat
  BY TypeStep DEF Absent, TypeOK, Entry
<1>2. CASE Drops
  <2>1. \A q \in Known' : q \in Known /\ dict'[q] = dict[q]
    BY <1>1, <1>2 DEF Drops, Known
  <2>2. Known' = {} \/ entryCounter' = entryCounter
    BY <1>1, <1>2 DEF Drops, Known
  <2> QED
    BY <2>1, <2>2 DEF Numbered
<1>3. ASSUME NEW p \in Peers, Renews(p) \/ Admits(p) PROVE Numbered'
  <2>1. /\ entryCounter <= dict'[p].number /\ dict'[p].number < entryCounter'
        /\ entryCounter <= entryCounter'
    BY <1>1, <1>3 DEF Renews, Admits
  <2>2. \A q \in Known' \ {p} : q \in Known /\ dict'[q] = dict[q]
    BY <1>1, <1>3 DEF Renews, Admits, Known
  <2>3. \A q \in Known' \ {p} : q \in Peers /\ dict'[q].number < entryCounter
    BY <2>2 DEF Numbered, Known
  <2>4. ASSUME NEW q \in Known' PROVE dict'[q].number < entryCounter'
    BY <1>1, <2>1, <2>3, <2>4 DEF Known
  <2>5. ASSUME NEW q \in Known', NEW r \in Known' \ {q}
        PROVE  dict'[q].number # dict'[r].number
    <3>1. CASE q # p /\ r # p
      BY <2>2, <3>1 DEF Numbered
    <3>2. CASE q = p \/ r = p
      BY <1>1, <2>1, <2>3, <3>2 DEF Known
    <3> QED
      BY <3>1, <3>2
  <2> QED
    BY <2>4, <2>5 DEF Numbered
<1> QED
  BY <1>2, <1>3, StepMoves DEF DictMoves

LessThan == {ss \in Nat \X Nat : ss[1] < ss[2]}

\* The oldest of a kind is alone, and there is one if there is any.
LEMMA OldestFacts ==
  ASSUME TypeOK, Numbered, NEW s \in PeerStates \ {"absent"}
  PROVE  /\ \A q \in OldestIn(s) : \A r \in Known \ {q} :
              dict[r].peerState = s => /\ r \notin OldestIn(s)
                                       /\ dict[q].number < dict[r].number
         /\ \A q \in OldestIn(s) : q \in Known /\ dict[q].peerState = s
         /\ OldestIn(s) = {} => \A q \in Peers : dict[q].peerState # s
<1> DEFINE Kind == {q \in Peers : dict[q].peerState = s}
<1>1. \A q \in Peers : dict[q].number \in Nat
  BY DEF TypeOK, Entry
<1>2. \A q \in Kind : q \in Known
  BY DEF Known
<1>3. ASSUME NEW q \in OldestIn(s), NEW r \in Known \ {q}, dict[r].peerState = s
      PROVE  r \notin OldestIn(s) /\ dict[q].number < dict[r].number
  <2>1. q \in Kind /\ r \in Peers /\ dict[q].number <= dict[r].number
    BY <1>3 DEF OldestIn, Known
  <2>2. dict[q].number # dict[r].number
    BY <1>2, <1>3, <2>1 DEF Numbered
  <2>3. dict[q].number < dict[r].number
    BY <1>1, <2>1, <2>2
  <2>4. ~(dict[r].number <= dict[q].number)
    BY <1>1, <2>1, <2>3
  <2> QED
    BY <2>1, <2>3, <2>4 DEF OldestIn
<1>4. ASSUME Kind # {} PROVE OldestIn(s) # {}
  <2> DEFINE T == {dict[q].number : q \in Kind}
  <2>1. T \subseteq Nat /\ T # {}
    BY <1>1, <1>4
  <2>2. IsWellFoundedOn(LessThan, Nat)
    BY NatLessThanWellFounded, Zenon DEF OpToRel, LessThan
  <2> HIDE DEF T
  <2>3. PICK x \in T : \A y \in T : <<y, x>> \notin LessThan
    BY <2>1, <2>2, WFMin
  <2>4. \A y \in T : x <= y
    <3>1. ASSUME NEW y \in T, y < x PROVE FALSE
      BY <2>1, <2>3, <3>1 DEF LessThan
    <3> QED
      BY <2>1, <3>1
  <2>5. PICK q \in Kind : dict[q].number = x
    BY DEF T
  <2> QED
    BY <2>4, <2>5 DEF OldestIn, T
<1> QED
  BY <1>2, <1>3, <1>4 DEF OldestIn

\* Of a peer that makes room for another there was none more dispensable.
LEMMA EvictionStep ==
  ASSUME TypeOK, Numbered, [Next]_vars, NEW q \in Known, NEW p \in Peers,
         p \notin Known, dict'[p].peerState # "absent",
         dict'[q].peerState = "absent", NEW r \in Known \ {q}
  PROVE  /\ dict'[r].peerState # "absent"
         /\ \/ Rank(q) < Rank(r)
            \/ Rank(q) = Rank(r) /\ dict[q].number < dict[r].number
<1>1. Absent.peerState = "absent" /\ q \in Peers /\ r \in Peers /\ p # q /\ p # r
      /\ dict[q].peerState # "absent" /\ dict[r].peerState # "absent"
  BY DEF Absent, Known
<1>2. Admits(p)
  <2>1. dict[p].peerState = "absent" /\ dict'[p] # dict[p] /\ dict'[p] # Absent
    BY <1>1 DEF Known
  <2>2. ~Drops
    BY <2>1 DEF Drops
  <2>3. PICK s \in Peers : Renews(s) \/ Admits(s)
    BY <2>2, StepMoves DEF DictMoves
  <2>4. s = p
    BY <2>1, <2>3 DEF Renews, Admits
  <2> QED
    BY <2>3, <2>4 DEF Renews
<1>3. q \in Overflow /\ dict'[r] = IF r \in Overflow THEN Absent ELSE dict[r]
  BY <1>1, <1>2 DEF Admits
<1>4. dict[r].peerState \in {"resolved", "waiting", "controlledByPool"}
  BY <1>1 DEF TypeOK, Entry, PeerStates
<1>5. ASSUME NEW s \in {"resolved", "waiting", "controlledByPool"},
             q \in OldestIn(s), Overflow = OldestIn(s),
             Rank(q) <= Rank(r)
      PROVE  /\ dict'[r].peerState # "absent"
             /\ \/ Rank(q) < Rank(r)
                \/ Rank(q) = Rank(r) /\ dict[q].number < dict[r].number
  <2>1. s \in PeerStates \ {"absent"}
    BY DEF PeerStates
  <2>2. dict[q].peerState = s
    BY <1>5 DEF OldestIn
  <2>3. CASE dict[r].peerState = s
    <3>1. r \notin OldestIn(s) /\ dict[q].number < dict[r].number
      BY <1>5, <2>1, <2>3, OldestFacts
    <3>2. Rank(q) = Rank(r)
      BY <2>2, <2>3 DEF Rank
    <3> QED
      BY <1>1, <1>3, <1>5, <3>1, <3>2
  <2>4. CASE dict[r].peerState # s
    <3>1. r \notin OldestIn(s)
      BY <2>4 DEF OldestIn
    <3>2. Rank(q) # Rank(r) /\ Rank(q) \in 0 .. 2 /\ Rank(r) \in 0 .. 2
      BY <1>4, <2>2, <2>4 DEF Rank
    <3> QED
      BY <1>1, <1>3, <1>5, <3>1, <3>2
  <2> QED
    BY <2>3, <2>4
<1>6. CASE OldestIn("resolved") # {}
  <2>1. Overflow = OldestIn("resolved") /\ q \in OldestIn("resolved")
    BY <1>3, <1>6 DEF Overflow
  <2>2. Rank(q) <= Rank(r)
    BY <1>4, <2>1 DEF Rank, OldestIn
  <2> QED
    BY <1>5, <2>1, <2>2
<1>7. CASE OldestIn("resolved") = {} /\ OldestIn("waiting") # {}
  <2>1. Overflow = OldestIn("waiting") /\ q \in OldestIn("waiting")
    BY <1>3, <1>7 DEF Overflow
  <2>2. dict[r].peerState # "resolved"
    BY <1>1, <1>7, OldestFacts DEF PeerStates
  <2>3. Rank(q) <= Rank(r)
    BY <1>4, <2>1, <2>2 DEF Rank, OldestIn
  <2> QED
    BY <1>5, <2>1, <2>3
<1>8. CASE OldestIn("resolved") = {} /\ OldestIn("waiting") = {}
  <2>1. Overflow = OldestIn("controlledByPool") /\ q \in OldestIn("controlledByPool")
    BY <1>3, <1>8 DEF Overflow
  <2>2. dict[r].peerState # "resolved" /\ dict[r].peerState # "waiting"
    BY <1>1, <1>8, OldestFacts DEF PeerStates
  <2>3. Rank(q) <= Rank(r)
    BY <1>4, <2>1, <2>2 DEF Rank, OldestIn
  <2> QED
    BY <1>5, <2>1, <2>3
<1> QED
  BY <1>6, <1>7, <1>8

\* A peer that makes room for another is the oldest of the most dispensable kind
\* there is, and the only one that goes (_removeOldestIfOverflow of
\* thaliPeerDictionary.js), whatever numbers timers, answers and restarts gave.
THEOREM EvictsTheLeast == Spec => EvictsMostDispensable
<1>1. Init => TypeOK /\ Numbered
  <2>1. Init => Known = {}
    BY DEF Init, Known, Absent
  <2> QED
    BY <2>1, TypeInit DEF Numbered
<1>2. TypeOK /\ Numbered /\ [Next]_vars => TypeOK' /\ Numbered'
  BY TypeStep, NumberedStep
<1>3. TypeOK /\ Numbered /\ [Next]_vars =>
        [\A q \in Known, p \in Peers :
           p \notin Known /\ dict'[p].peerState # "absent"
                          /\ dict'[q].peerState = "absent"
             => \A r \in Known \ {q} :
                  /\ dict'[r].peerState # "absent"
                  /\ \/ Rank(q) < Rank(r)
                     \/ Rank(q) = Rank(r) /\ dict[q].number < dict[r].number]_vars
  BY EvictionStep
<1> QED
  BY <1>1, <1>2, <1>3, PTL DEF Spec, EvictsMostDispensable
=============================================================================
