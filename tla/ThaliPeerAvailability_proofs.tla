--------------------- MODULE ThaliPeerAvailability_proofs ---------------------
(***************************************************************************)
(* Theorems about the way from the radio to the client, for any peers and  *)
(* ports, queues of any bound, and all that a behaviour may meet.          *)
(***************************************************************************)
EXTENDS ThaliPeerAvailability, FiniteSetTheorems, SequenceTheorems, TLAPS

-----------------------------------------------------------------------------
(* The invariant *)

\* A watcher that looks at the cached object of a peer that was advertised since
\* then will see so.
HeardIsFresh ==
  \A p \in Peers : watcher[p].current /\ p \in heard => watcher[p].fresh

\* What thaliMobile keeps.
MobileOK ==
  /\ cache \in [Peers -> Ports \cup {None}]
  /\ watcher \in [Peers -> Watcher]
  /\ known \in [Peers -> Ports \cup {None}]
  /\ asserted \in BOOLEAN
  /\ heard \subseteq Peers
  /\ KnownIsCached /\ WatchedIffCached /\ HeardIsFresh

\* A listener has a port, and so has one that was recreated.
ServersOK ==
  /\ servers \in [NativePeers -> Server]
  /\ \A p \in NativePeers : servers[p].state = "listening" => servers[p].port # None
RepliesOK ==
  /\ replies \in Seq(Reply)
  /\ \A i \in 1 .. Len(replies) : replies[i].to = "recreate" => replies[i].port # None

\* What the wrapper and the servers manager keep.
NativeOK ==
  /\ phase \in Phases
  /\ queue \in Seq(Task) /\ busy \in BOOLEAN
  /\ poisoned \subseteq {"announcements", "calls"}
  /\ ticks \subseteq NativePeers
  /\ ServersOK /\ RepliesOK
  /\ terminations \subseteq [peer : NativePeers, port : Ports, late : BOOLEAN]

\* Without links that break no listener is recreated.
NothingRecreated ==
  /\ ticks = {}
  /\ \A p \in NativePeers :
       /\ ~servers[p].linked
       /\ \A i \in 1 .. Len(servers[p].waiters) : servers[p].waiters[i] = "queue"
  /\ \A i \in 1 .. Len(replies) : replies[i].to = "queue"
  /\ ~asserted

\* Without listeners that fail and stops the announcements never end.
AnnouncementsRun ==
  /\ phase = "running" /\ "announcements" \notin poisoned
  /\ \A p \in NativePeers : servers[p].state # "deaf"
  /\ HeadIsOwed

\* A promise is owed to nobody but the head of the queue, and only once.
NothingOverdue ==
  /\ busy => queue # <<>>
  /\ \A p \in NativePeers :
       Owed(p) <= IF busy /\ Head(queue).peer = p THEN 1 ELSE 0

IInv ==
  /\ MobileOK /\ NativeOK /\ NothingOverdue
  /\ "link" \notin conditions => NothingRecreated
  /\ conditions \cap {"listen", "stop"} = {} => AnnouncementsRun

-----------------------------------------------------------------------------
(* thaliMobile *)

\* The watcher of a peer that has been advertised.
LooksAgain(p) ==
  /\ watcher[p].set /\ watcher' = [watcher EXCEPT ![p].fresh = FALSE]
  /\ heard' = heard \ {p}
  /\ UNCHANGED <<cache, known, asserted>>

\* What any step may do to the cache, the watchers and the client.
MobileMoves ==
  \/ UNCHANGED mobile
  \/ \E S \in SUBSET Peers : Lose(S)
  \/ \E p \in Peers, port \in Ports : HandleAvailable(p, port)
  \/ \E p \in Peers : HandleClosed(p)
  \/ \E p \in Peers, port \in Ports :
       Cached(p) /\ Announce(p, port, FALSE) /\ UNCHANGED <<cache, watcher, heard>>
  \/ \E p \in Peers : LooksAgain(p)

\* Peers that leave the cache leave client and watchers as well.
LEMMA LoseKeeps ==
  ASSUME MobileOK, NEW S \in SUBSET Peers, Lose(S)
  PROVE  MobileOK' /\ asserted' = asserted
<1>1. NoWatcher \in Watcher
  BY DEF NoWatcher, Watcher
<1> QED
  BY <1>1 DEF MobileOK, Lose, Uncache, RemoveWatchers, Withdraw, KnownIsCached,
       WatchedIffCached, HeardIsFresh, Cached, Knows, NoWatcher

\* The client is not told twice: it knows cached peers only, and one that is cached
\* is withdrawn first.
LEMMA AvailableKeeps ==
  ASSUME MobileOK, NEW p \in Peers, NEW port \in Ports, HandleAvailable(p, port)
  PROVE  MobileOK' /\ asserted' = asserted
<1>1. port # None
  BY AvailabilityAssumption
<1>2. Renewed(p) \in Watcher /\ WithWatcher(Renewed(p)) \in Watcher
  BY DEF MobileOK, Renewed, WithWatcher, Watcher
<1>3. CASE Refresh(p)
  BY <1>2, <1>3 DEF MobileOK, Refresh, Renewed, KnownIsCached, WatchedIffCached,
       HeardIsFresh, Cached, Knows, Watcher
<1>4. CASE Recache(p, port)
  <2>1. asserted' = asserted /\ known' = [known EXCEPT ![p] = port]
    BY <1>4 DEF Recache, Announce, MobileOK, KnownIsCached
  <2>2. /\ cache' = [cache EXCEPT ![p] = port]
        /\ watcher' = [watcher EXCEPT ![p] = WithWatcher(Renewed(p))]
        /\ heard' = IF Cached(p) THEN heard \cup {p} ELSE heard \ {p}
    BY <1>4 DEF Recache
  <2>3. watcher'[p].set /\ (watcher'[p].current => ~Cached(p))
    BY <2>2, <1>2 DEF WithWatcher, Renewed, MobileOK, WatchedIffCached, Watcher
  <2> QED
    BY <1>1, <1>2, <2>1, <2>2, <2>3 DEF MobileOK, KnownIsCached, WatchedIffCached,
         HeardIsFresh, Cached, Knows
<1> QED BY <1>3, <1>4 DEF HandleAvailable

\* Whatever a step does to cache, watchers and client, they agree afterwards.
LEMMA MobileKept ==
  ASSUME MobileOK, MobileMoves
  PROVE  MobileOK'
<1> USE DEF MobileOK, KnownIsCached, WatchedIffCached, HeardIsFresh, Cached, Knows
<1>1. CASE UNCHANGED mobile
  BY <1>1 DEF mobile
<1>2. CASE \E p \in Peers : HandleClosed(p)
  BY <1>2 DEF HandleClosed, Withdraw
<1>3. CASE \E p \in Peers, port \in Ports :
             Cached(p) /\ Announce(p, port, FALSE) /\ UNCHANGED <<cache, watcher, heard>>
  BY <1>3 DEF Announce
<1>4. ASSUME NEW p \in Peers, LooksAgain(p)
      PROVE  MobileOK'
  <2>1. /\ watcher' \in [Peers -> Watcher]
        /\ \A q \in Peers : /\ watcher'[q].set = watcher[q].set
                            /\ watcher'[q].current = watcher[q].current
                            /\ q # p => watcher'[q] = watcher[q]
    BY <1>4 DEF LooksAgain, Watcher
  <2> QED BY <1>4, <2>1 DEF LooksAgain
<1> QED
  BY <1>1, <1>2, <1>3, <1>4, LoseKeeps, AvailableKeeps DEF MobileMoves

-----------------------------------------------------------------------------
(* Counting in a sequence *)

\* How many places of a sequence have an element of S.
Places(s, S) == {i \in 1 .. Len(s) : s[i] \in S}
Count(s, S)  == Cardinality(Places(s, S))

\* The number of places of a sequence that hold a member of S.
LEMMA CountType ==
  ASSUME NEW T, NEW s \in Seq(T), NEW S
  PROVE  /\ IsFiniteSet(Places(s, S)) /\ Count(s, S) \in Nat
         /\ (Count(s, S) = 0 <=> Places(s, S) = {})
<1>1. IsFiniteSet(1 .. Len(s)) /\ Places(s, S) \in SUBSET (1 .. Len(s))
  BY FS_Interval DEF Places
<1> QED BY <1>1, FS_Subset, FS_CardinalityType, FS_EmptySet DEF Count

\* It adds up over two sequences.
LEMMA CountConcat ==
  ASSUME NEW T, NEW s \in Seq(T), NEW t \in Seq(T), NEW S
  PROVE  Count(s \o t, S) = Count(s, S) + Count(t, S)
<1> DEFINE A == Places(s, S)
           B == Places(t, S)
           C == {Len(s) + j : j \in B}
           f == [j \in B |-> Len(s) + j]
<1>1. Places(s \o t, S) = A \cup C
  <2>1. s \o t \in Seq(T) /\ Len(s \o t) = Len(s) + Len(t)
    BY ConcatProperties
  <2>2. \A i \in 1 .. Len(s) + Len(t) :
          (s \o t)[i] = IF i <= Len(s) THEN s[i] ELSE t[i - Len(s)]
    BY ConcatProperties
  <2>3. Len(s) \in Nat /\ Len(t) \in Nat
    OBVIOUS
  <2>4. ASSUME NEW i \in Places(s \o t, S)
        PROVE  i \in A \cup C
    <3>1. CASE i <= Len(s)
      BY <2>1, <2>2, <2>3, <3>1 DEF Places
    <3>2. CASE i > Len(s)
      <4>1. i - Len(s) \in B /\ i = Len(s) + (i - Len(s))
        BY <2>1, <2>2, <2>3, <3>2 DEF Places
      <4> QED BY <4>1
    <3> QED BY <2>1, <2>3, <3>1, <3>2 DEF Places
  <2>5. ASSUME NEW i \in A \cup C
        PROVE  i \in Places(s \o t, S)
    <3>1. CASE i \in A
      BY <2>1, <2>2, <2>3, <3>1 DEF Places
    <3>2. CASE i \in C
      <4>1. PICK j \in B : i = Len(s) + j
        BY <3>2
      <4> QED BY <2>1, <2>2, <2>3, <4>1 DEF Places
    <3> QED BY <3>1, <3>2
  <2> QED BY <2>4, <2>5
<1>2. A \cap C = {}
  BY DEF Places
<1>3. IsFiniteSet(A) /\ IsFiniteSet(B)
  BY CountType
<1>4. IsFiniteSet(C) /\ Cardinality(C) = Cardinality(B)
  <2>1. B \subseteq Nat /\ Len(s) \in Nat
    BY DEF Places
  <2>2. f \in Bijection(B, C)
    <3>1. f \in [B -> C] /\ \A c \in C : \E b \in B : f[b] = c
      OBVIOUS
    <3>2. \A a, b \in B : f[a] = f[b] => a = b
      BY <2>1
    <3> QED BY <3>1, <3>2 DEF Bijection, Injection, Surjection, IsInjective
  <2> HIDE DEF f, B, C
  <2> QED BY <1>3, <2>2, FS_Bijection DEF ExistsBijection
<1>5. Cardinality(A \cup C) = Cardinality(A) + Cardinality(C)
  <2> HIDE DEF A, C
  <2>1. /\ Cardinality(A \cup C)
             = Cardinality(A) + Cardinality(C) - Cardinality(A \cap C)
        /\ Cardinality(A \cap C) = 0
        /\ Cardinality(A) \in Nat /\ Cardinality(C) \in Nat
    BY <1>2, <1>3, <1>4, FS_Union, FS_EmptySet, FS_CardinalityType
  <2> QED BY <2>1
<1> QED BY <1>1, <1>4, <1>5 DEF Count

\* One more at the end counts by itself.
LEMMA CountAppend ==
  ASSUME NEW T, NEW s \in Seq(T), NEW e \in T, NEW S
  PROVE  Count(Append(s, e), S) = Count(s, S) + IF e \in S THEN 1 ELSE 0
<1>1. Places(<<e>>, S) = IF e \in S THEN {1} ELSE {}
  BY DEF Places
<1>2. Count(<<e>>, S) = IF e \in S THEN 1 ELSE 0
  BY <1>1, FS_Singleton, FS_EmptySet DEF Count
<1>3. <<e>> \in Seq(T) /\ Append(s, e) = s \o <<e>>
  BY AppendIsConcat
<1>4. Count(s \o <<e>>, S) = Count(s, S) + Count(<<e>>, S)
  BY <1>3, CountConcat
<1> QED BY <1>2, <1>3, <1>4

\* So does the head that is taken away.
LEMMA CountTail ==
  ASSUME NEW T, NEW s \in Seq(T), s # <<>>, NEW S
  PROVE  Count(s, S) = Count(Tail(s), S) + IF Head(s) \in S THEN 1 ELSE 0
<1>1. Head(s) \in T /\ Tail(s) \in Seq(T) /\ <<Head(s)>> \in Seq(T)
  BY HeadTailProperties
<1>2. s = <<Head(s)>> \o Tail(s)
  BY <1>1, HeadTailProperties, ConcatProperties, SeqEqual
<1>3. Places(<<Head(s)>>, S) = IF Head(s) \in S THEN {1} ELSE {}
  BY DEF Places
<1>4. Count(<<Head(s)>>, S) = IF Head(s) \in S THEN 1 ELSE 0
  BY <1>3, FS_Singleton, FS_EmptySet DEF Count
<1>5. Count(s, S) = Count(<<Head(s)>>, S) + Count(Tail(s), S)
  <2>1. PICK first \in Seq(T), rest \in Seq(T) :
          first = <<Head(s)>> /\ rest = Tail(s) /\ s = first \o rest
    BY <1>1, <1>2, Zenon
  <2>2. Count(first \o rest, S) = Count(first, S) + Count(rest, S)
    BY CountConcat
  <2> QED
    BY <2>1, <2>2, Zenon
<1>6. Count(Tail(s), S) \in Nat
  BY <1>1, CountType
<1>7. CASE Head(s) \in S
  <2>1. Count(<<Head(s)>>, S) = 1
    BY <1>4, <1>7
  <2>2. \A x \in Nat : 1 + x = x + 1
    OBVIOUS
  <2> QED
    BY <1>5, <1>6, <1>7, <2>1, <2>2, Zenon
<1>8. CASE Head(s) \notin S
  <2>1. Count(<<Head(s)>>, S) = 0
    BY <1>4, <1>8
  <2>2. \A x \in Nat : 0 + x = x + 0
    OBVIOUS
  <2> QED
    BY <1>5, <1>6, <1>8, <2>1, <2>2, Zenon
<1> QED BY <1>7, <1>8

-----------------------------------------------------------------------------
(* What is owed to the queue *)

Answers(p) == {r \in Reply : r.to = "queue" /\ r.peer = p}
Replied(p) == Count(replies, Answers(p))
Waits(p)   == IF servers[p].state = "opening"
              THEN Count(servers[p].waiters, {"queue"}) ELSE 0

\* A promise owed to the queue is a reply or waits for a listener.
LEMMA OwedIsCounted ==
  ASSUME NativeOK, NEW p \in NativePeers
  PROVE  Owed(p) = Replied(p) + Waits(p) /\ Replied(p) \in Nat /\ Waits(p) \in Nat
<1>1. replies \in Seq(Reply) /\ servers[p].waiters \in Seq(Callers)
  BY DEF NativeOK, RepliesOK, ServersOK, Server
<1>2. {i \in 1 .. Len(replies) : replies[i].to = "queue" /\ replies[i].peer = p}
        = Places(replies, Answers(p))
  BY <1>1, ElementOfSeq DEF Places, Answers
<1>3. {i \in 1 .. Len(servers[p].waiters) :
          servers[p].state = "opening" /\ servers[p].waiters[i] = "queue"}
        = IF servers[p].state = "opening" THEN Places(servers[p].waiters, {"queue"})
                                          ELSE {}
  BY DEF Places
<1>4. Owed(p) = Replied(p) + Waits(p)
  BY <1>2, <1>3, FS_EmptySet DEF Owed, Replied, Waits, Count
<1> QED BY <1>1, <1>4, CountType DEF Replied, Waits

\* A reply to the queue finds the head that waits for it.
LEMMA ReplyIsOwed ==
  ASSUME NativeOK, NothingOverdue, replies # <<>>, Head(replies).to = "queue"
  PROVE  busy /\ queue # <<>> /\ Head(queue).peer = Head(replies).peer
<1> DEFINE p == Head(replies).peer
<1>1. replies \in Seq(Reply) /\ Head(replies) \in Reply /\ Tail(replies) \in Seq(Reply)
  BY HeadTailProperties DEF NativeOK, RepliesOK
<1>2. p \in NativePeers /\ Head(replies) \in Answers(p)
  BY <1>1 DEF Reply, Answers
<1>3. Replied(p) = Count(Tail(replies), Answers(p)) + 1
  BY <1>1, <1>2, CountTail DEF Replied
<1>4. Count(Tail(replies), Answers(p)) \in Nat
  BY <1>1, CountType
<1>5. Owed(p) = Replied(p) + Waits(p) /\ Waits(p) \in Nat
  BY <1>2, OwedIsCounted
<1>6. Owed(p) <= IF busy /\ Head(queue).peer = p THEN 1 ELSE 0
  BY <1>2 DEF NothingOverdue
<1>7. Owed(p) >= 1
  BY <1>3, <1>4, <1>5
<1>8. Owed(p) \in Nat
  BY <1>3, <1>4, <1>5
<1> HIDE DEF p
<1>9. busy /\ Head(queue).peer = p
  BY <1>6, <1>7, <1>8
<1> QED BY <1>9 DEF p, NothingOverdue

-----------------------------------------------------------------------------
(* The wrapper and the servers manager *)

\* What a listener can be: absent, opening, listening or deaf.
LEMMA ServerTypes ==
  /\ NoServer \in Server
  /\ \A caller \in Callers :
       [NoServer EXCEPT !.state = "opening", !.waiters = <<caller>>] \in Server
  /\ \A port \in Ports :
       [NoServer EXCEPT !.state = "listening", !.port = port] \in Server
  /\ [NoServer EXCEPT !.state = "deaf"] \in Server
<1>1. <<>> \in Seq(Callers) /\ \A caller \in Callers : <<caller>> \in Seq(Callers)
  OBVIOUS
<1> QED BY <1>1 DEF NoServer, Server

\* One more promise settles.
LEMMA ReplyAdded ==
  ASSUME RepliesOK, NEW r \in Reply, r.to = "recreate" => r.port # None,
         replies' = Append(replies, r)
  PROVE  RepliesOK'
<1>1. /\ replies' \in Seq(Reply) /\ Len(replies') = Len(replies) + 1
      /\ \A i \in 1 .. Len(replies) : replies'[i] = replies[i]
      /\ replies'[Len(replies) + 1] = r
  BY AppendProperties DEF RepliesOK
<1> QED BY <1>1 DEF RepliesOK

\* All the promises that waited for a listener settle at once.
LEMMA RepliesAdded ==
  ASSUME RepliesOK, NEW more \in Seq(Reply), replies' = replies \o more,
         \A i \in 1 .. Len(more) : more[i].to = "recreate" => more[i].port # None
  PROVE  RepliesOK'
<1>1. /\ replies' \in Seq(Reply) /\ Len(replies') = Len(replies) + Len(more)
      /\ \A i \in 1 .. Len(replies') :
           replies'[i] = IF i <= Len(replies) THEN replies[i]
                                              ELSE more[i - Len(replies)]
  BY ConcatProperties DEF RepliesOK
<1>2. Len(replies) \in Nat /\ Len(more) \in Nat
  BY DEF RepliesOK
<1> QED BY <1>1, <1>2 DEF RepliesOK

\* The callback of the first promise runs.
LEMMA ReplyTaken ==
  ASSUME RepliesOK, replies # <<>>, replies' = Tail(replies)
  PROVE  /\ RepliesOK' /\ Head(replies) \in Reply
         /\ Head(replies).to = "recreate" => Head(replies).port # None
<1>1. /\ replies' \in Seq(Reply) /\ Head(replies) = replies[1]
      /\ Head(replies) \in Reply /\ Len(replies') = Len(replies) - 1
      /\ \A i \in 1 .. Len(replies') : replies'[i] = replies[i + 1]
  BY HeadTailProperties DEF RepliesOK
<1>2. Len(replies) \in Nat /\ Len(replies) > 0
  BY DEF RepliesOK
<1> QED BY <1>1, <1>2 DEF RepliesOK

\* createPeerListener answers at once, waits for the listener or opens one.
LEMMA CreateKeeps ==
  ASSUME ServersOK, RepliesOK, NEW p \in NativePeers, NEW caller \in Callers,
         CreatePeerListener(p, caller)
  PROVE  ServersOK' /\ RepliesOK'
<1>1. CASE servers[p].state = "none"
  BY <1>1, ServerTypes DEF CreatePeerListener, ServersOK, RepliesOK, NoServer
<1>2. CASE servers[p].state = "listening"
  <2>1. servers[p].port \in Ports \cup {None} /\ servers[p].port # None
    BY <1>2 DEF ServersOK, Server
  <2>2. [to |-> caller, peer |-> p, port |-> servers[p].port] \in Reply
    BY <2>1 DEF Reply
  <2> QED
    BY <1>2, <2>1, <2>2, ReplyAdded DEF CreatePeerListener, ServersOK
<1>3. CASE servers[p].state \notin {"none", "listening"}
  <2>1. Append(servers[p].waiters, caller) \in Seq(Callers)
    BY AppendProperties DEF ServersOK, Server
  <2> DEFINE server == [servers[p] EXCEPT !.waiters = Append(servers[p].waiters, caller)]
  <2>2. server \in Server /\ server.state = servers[p].state
    BY <2>1 DEF ServersOK, Server
  <2>3. servers' = [servers EXCEPT ![p] = server] /\ UNCHANGED replies
    BY <1>3 DEF CreatePeerListener, ServersOK
  <2> HIDE DEF server
  <2> QED
    BY <1>3, <2>2, <2>3 DEF ServersOK, RepliesOK
<1> QED BY <1>1, <1>2, <1>3

\* The listener opens, and answers all who waited for it.
LEMMA ListensKeeps ==
  ASSUME NativeOK, NEW p \in NativePeers, Listens(p)
  PROVE  ServersOK' /\ RepliesOK'
<1>1. PICK n \in FreePorts :
        /\ servers' = [servers EXCEPT ![p] =
             [NoServer EXCEPT !.state = "listening", !.port = n]]
        /\ replies' = replies \o
             [i \in 1 .. Len(servers[p].waiters) |->
                [to |-> servers[p].waiters[i], peer |-> p, port |-> n]]
  BY DEF Listens
<1> DEFINE more == [i \in 1 .. Len(servers[p].waiters) |->
                      [to |-> servers[p].waiters[i], peer |-> p, port |-> n]]
<1>2. n \in Ports /\ n # None
  BY AvailabilityAssumption DEF FreePorts
<1>3. servers[p].waiters \in Seq(Callers)
  BY DEF NativeOK, ServersOK, Server
<1>4. /\ more \in Seq(Reply) /\ Len(more) = Len(servers[p].waiters)
      /\ \A i \in 1 .. Len(more) : more[i].port # None
  BY <1>2, <1>3, IsASeq DEF Reply
<1>5. RepliesOK'
  <2> HIDE DEF more
  <2>1. replies' = replies \o more
    BY <1>1 DEF more
  <2> QED BY <1>4, <2>1, RepliesAdded DEF NativeOK
<1>6. ServersOK'
  <2>1. [NoServer EXCEPT !.state = "listening", !.port = n] \in Server
    BY <1>2, ServerTypes
  <2> QED BY <1>1, <1>2, <2>1 DEF NativeOK, ServersOK, NoServer
<1> QED BY <1>5, <1>6

\* It fails to open: one of the announcements that waited hears of it, no recreation.
LEMMA ListenFailsKeeps ==
  ASSUME NativeOK, NEW p \in NativePeers, ListenFails(p)
  PROVE  ServersOK' /\ RepliesOK'
<1> DEFINE n == Cardinality({"queue"} \cap {servers[p].waiters[j] :
                                  j \in 1 .. Len(servers[p].waiters)})
           more == [i \in 1 .. n |-> [to |-> "queue", peer |-> p, port |-> None]]
<1>1. n \in Nat
  <2>1. IsFiniteSet({"queue"}) /\ {"queue"} \cap {servers[p].waiters[j] :
             j \in 1 .. Len(servers[p].waiters)} \in SUBSET {"queue"}
    BY FS_Singleton
  <2> QED BY <2>1, FS_Subset, FS_CardinalityType
<1>2. more \in Seq(Reply) /\ \A i \in 1 .. Len(more) : more[i].to # "recreate"
  <2> HIDE DEF n
  <2> QED BY <1>1, IsASeq DEF Reply, Callers
<1>3. replies' = replies \o more
  BY DEF ListenFails
<1>4. RepliesOK'
  <2> HIDE DEF more
  <2> QED BY <1>2, <1>3, RepliesAdded DEF NativeOK
<1>5. ServersOK'
  BY ServerTypes DEF ListenFails, NativeOK, ServersOK, NoServer
<1> QED BY <1>4, <1>5

\* The servers manager stops, and with it the handler of recreations.
LEMMA ManagerStopKeeps ==
  ASSUME NativeOK, ManagerStop
  PROVE  ServersOK' /\ RepliesOK'
<1>1. replies \in Seq(Reply) /\ Len(replies) \in Nat
  BY DEF NativeOK, RepliesOK
<1>2. \A i \in 1 .. Len(replies) :
        /\ replies'[i] \in Reply /\ replies'[i].to # "recreate"
  <2> SUFFICES ASSUME NEW i \in 1 .. Len(replies)
               PROVE  replies'[i] \in Reply /\ replies'[i].to # "recreate"
    OBVIOUS
  <2>1. replies[i] \in Reply
    BY <1>1, ElementOfSeq
  <2> QED BY <2>1 DEF ManagerStop, Reply, Callers
<1>3. replies' \in Seq(Reply) /\ Len(replies') = Len(replies)
  BY <1>1, <1>2, IsASeq DEF ManagerStop
<1>4. RepliesOK'
  BY <1>2, <1>3 DEF RepliesOK
<1>5. ServersOK'
  BY ServerTypes DEF ManagerStop, ServersOK, NoServer
<1> QED BY <1>4, <1>5

\* Every step keeps what wrapper and servers manager have.
LEMMA NativeKept ==
  ASSUME NativeOK, MobileOK, NothingOverdue, Step
  PROVE  NativeOK'
<1>1. ASSUME NEW kind \in Kinds, NEW p \in NativePeers
      PROVE  Append(queue, [peer |-> p, kind |-> kind]) \in Seq(Task)
  BY AppendProperties DEF NativeOK, Task
<1>2. ASSUME queue # <<>>
      PROVE  /\ Tail(queue) \in Seq(Task) /\ Head(queue) \in Task
             /\ Head(queue).peer \in NativePeers
  <2>1. Tail(queue) \in Seq(Task) /\ Head(queue) \in Task
    BY <1>2, HeadTailProperties DEF NativeOK
  <2> QED BY <2>1 DEF Task
<1>3. ASSUME NEW p \in NativePeers, NEW kind \in {"available", "gone"},
             NativeEvent(p, kind)
      PROVE  NativeOK'
  BY <1>1, <1>3 DEF NativeEvent, NativeOK, Kinds, ServersOK, RepliesOK
<1>4. ASSUME NEW p \in NativePeers, Listens(p)
      PROVE  NativeOK'
  BY <1>4, ListensKeeps DEF Listens, NativeOK
<1>5. ASSUME NEW p \in NativePeers, ListenFails(p)
      PROVE  NativeOK'
  BY <1>5, ListenFailsKeeps DEF ListenFails, NativeOK
<1>6. ASSUME NEW p \in NativePeers, FirstConnection(p)
      PROVE  NativeOK'
  <2> DEFINE server == [servers[p] EXCEPT !.linked = TRUE]
  <2>1. server \in Server /\ server.port = servers[p].port
    BY DEF NativeOK, ServersOK, Server
  <2>2. servers' = [servers EXCEPT ![p] = server]
    BY <1>6 DEF FirstConnection, NativeOK, ServersOK
  <2>3. servers[p].state = "listening" /\ UNCHANGED <<phase, queue, busy, poisoned,
             ticks, replies, terminations>>
    BY <1>6 DEF FirstConnection
  <2> HIDE DEF server
  <2> QED BY <2>1, <2>2, <2>3 DEF NativeOK, ServersOK, RepliesOK
<1>7. ASSUME NEW p \in NativePeers, LinkBreaks(p)
      PROVE  NativeOK'
  <2>1. queue' \in Seq(Task)
    BY <1>1, <1>7 DEF LinkBreaks, FailedConnection, Kinds, NativeOK
  <2> QED
    BY <1>7, <2>1, ServerTypes DEF LinkBreaks, NativeOK, ServersOK, RepliesOK, NoServer
<1>8. ASSUME NEW p \in NativePeers, RecreateTick(p)
      PROVE  NativeOK'
  BY <1>8, CreateKeeps DEF RecreateTick, NativeOK, Callers
<1>9. CASE RunAvailable
  <2>1. CASE HasManager
    BY <1>2, <1>9, <2>1, CreateKeeps DEF RunAvailable, NativeOK, Callers
  <2>2. CASE ~HasManager
    BY <1>9, <2>2 DEF RunAvailable, NativeOK, ServersOK, RepliesOK
  <2> QED BY <2>1, <2>2
<1>10. CASE RunUnavailable
  BY <1>2, <1>10 DEF RunUnavailable, NativeOK, ServersOK, RepliesOK
<1>11. CASE QueueReply
  <2>1. queue' \in Seq(Task)
    BY <1>2, <1>11, ReplyIsOwed DEF QueueReply, NativeOK
  <2>2. RepliesOK'
    BY <1>11, ReplyTaken DEF QueueReply, NativeOK
  <2> QED BY <1>11, <2>1, <2>2 DEF QueueReply, NativeOK, ServersOK
<1>12. CASE RecreateReply
  <2>1. RepliesOK' /\ Head(replies) \in Reply
        /\ (Head(replies).to = "recreate" => Head(replies).port # None)
    BY <1>12, ReplyTaken DEF RecreateReply, NativeOK
  <2>2. terminations' \subseteq [peer : NativePeers, port : Ports, late : BOOLEAN]
    <3>1. /\ Head(replies).peer \in NativePeers
          /\ Head(replies).to = "recreate" => Head(replies).port \in Ports
      BY <2>1 DEF Reply
    <3>2. (phase = "stopping") \in BOOLEAN
      OBVIOUS
    <3>3. CASE UNCHANGED terminations
      BY <3>3 DEF NativeOK
    <3>4. CASE Terminates(Head(replies).peer, Head(replies).port)
               /\ Head(replies).to = "recreate"
      <4>1. [peer |-> Head(replies).peer, port |-> Head(replies).port,
             late |-> phase = "stopping"]
               \in [peer : NativePeers, port : Ports, late : BOOLEAN]
        BY <3>1, <3>2, <3>4
      <4> QED BY <3>4, <4>1 DEF Terminates, NativeOK
    <3> QED BY <1>12, <3>3, <3>4 DEF RecreateReply, HandleRecreated
  <2> QED BY <1>12, <2>1, <2>2 DEF RecreateReply, NativeOK, ServersOK
<1>13. ASSUME NEW t \in terminations, TerminateListener(t)
       PROVE  NativeOK'
  <2>1. poisoned' \subseteq {"announcements", "calls"}
    BY <1>13 DEF TerminateListener, NativeOK
  <2>2. servers' = servers \/ servers' = [servers EXCEPT ![t.peer] = NoServer]
    BY <1>13 DEF TerminateListener
  <2>3. ServersOK'
    <3>1. NoServer \in Server /\ NoServer.state # "listening"
      BY ServerTypes DEF NoServer
    <3> QED BY <2>2, <3>1 DEF NativeOK, ServersOK
  <2> QED BY <1>13, <2>1, <2>3 DEF TerminateListener, NativeOK, RepliesOK
<1>14. ASSUME UNCHANGED native
       PROVE  NativeOK'
  BY <1>14 DEF native, NativeOK, ServersOK, RepliesOK
<1>15. CASE MobileStop \/ WrapperStop \/ StartAgain
  BY <1>15 DEF MobileStop, WrapperStop, StartAgain, NativeOK, ServersOK, RepliesOK,
       Phases
<1>16. CASE ManagerStop
  BY <1>16, ManagerStopKeeps DEF ManagerStop, NativeOK, Phases
<1> QED
  BY <1>3, <1>4, <1>5, <1>6, <1>7, <1>8, <1>9, <1>10, <1>11, <1>12, <1>13, <1>14,
     <1>15, <1>16 DEF Step, WifiEvent, RadioOff, WatcherFires

\* Each step does one of these things to what thaliMobile keeps.
LEMMA StepMoves ==
  ASSUME NativeOK, MobileOK, Step
  PROVE  MobileMoves
<1>1. ASSUME queue # <<>>
      PROVE  Head(queue).peer \in Peers
  <2>1. Head(queue) \in Task
    BY <1>1, HeadTailProperties DEF NativeOK
  <2> QED BY <2>1 DEF Task, Peers
<1>2. ASSUME replies # <<>>
      PROVE  /\ Head(replies).peer \in NativePeers /\ Head(replies).peer \in Peers
             /\ Head(replies).port \in Ports \cup {None}
             /\ Head(replies).to = "recreate" => Head(replies).port # None
  <2>1. Head(replies) = replies[1] /\ 1 \in 1 .. Len(replies) /\ Head(replies) \in Reply
    BY <1>2, HeadTailProperties DEF NativeOK, RepliesOK
  <2> QED BY <2>1 DEF NativeOK, RepliesOK, Reply, Peers
<1>3. ASSUME NEW p \in NativePeers, LinkBreaks(p)
      PROVE  MobileMoves
  BY <1>3 DEF LinkBreaks, FailedConnection, MobileMoves, Peers
<1>4. CASE RunUnavailable
  BY <1>1, <1>4 DEF RunUnavailable, MobileMoves
<1>5. CASE QueueReply
  BY <1>2, <1>5 DEF QueueReply, MobileMoves
<1>6. CASE RecreateReply
  BY <1>2, <1>6 DEF RecreateReply, HandleRecreated, MobileMoves
<1>7. ASSUME NEW p \in WifiPeers, NEW port \in Ports \cup {None}, WifiEvent(p, port)
      PROVE  MobileMoves
  BY <1>7 DEF WifiEvent, MobileMoves, Peers
<1>8. CASE RadioOff(NativePeers) \/ RadioOff(WifiPeers) \/ MobileStop
  <2>1. \A T \in {NativePeers, WifiPeers, Peers} :
          {p \in T : Cached(p)} \in SUBSET Peers
    BY DEF Peers
  <2> QED BY <1>8, <2>1 DEF RadioOff, MobileStop, MobileMoves
<1>9. ASSUME NEW p \in Peers, WatcherFires(p)
      PROVE  MobileMoves
  BY <1>9 DEF WatcherFires, LooksAgain, MobileMoves
<1>10. CASE UNCHANGED mobile
  BY <1>10 DEF MobileMoves
<1> QED
  BY <1>3, <1>4, <1>5, <1>6, <1>7, <1>8, <1>9, <1>10 DEF Step, NativeEvent, Listens,
     ListenFails, FirstConnection, RecreateTick, RunAvailable, TerminateListener,
     WrapperStop, ManagerStop, StartAgain

-----------------------------------------------------------------------------
(* How a step changes what is owed *)

\* Promises owed, before and after a step.
LEMMA OwedThen ==
  ASSUME NativeOK, NativeOK', NEW p \in NativePeers
  PROVE  /\ Owed(p) = Replied(p) + Waits(p) /\ Replied(p) \in Nat /\ Waits(p) \in Nat
         /\ Owed(p)' = Replied(p)' + Waits(p)'
         /\ Replied(p)' \in Nat /\ Waits(p)' \in Nat
<1>1. Owed(p) = Replied(p) + Waits(p) /\ Replied(p) \in Nat /\ Waits(p) \in Nat
  BY OwedIsCounted
<1>2. (Owed(p) = Replied(p) + Waits(p) /\ Replied(p) \in Nat /\ Waits(p) \in Nat)'
  BY OwedIsCounted, PTL
<1> QED BY <1>1, <1>2

\* Only the waiters of a listener that opens count.
LEMMA OwedSame ==
  ASSUME NativeOK, NativeOK', UNCHANGED replies, NEW p \in NativePeers,
         \/ servers'[p] = servers[p]
         \/ servers[p].state # "opening" /\ servers'[p].state # "opening"
  PROVE  Owed(p)' = Owed(p)
  BY OwedThen DEF Replied, Waits, Answers

\* A listener is asked for: the queue is owed one promise more, unless it is deaf.
LEMMA CreateOwes ==
  ASSUME NativeOK, NativeOK', NEW q \in NativePeers, NEW caller \in Callers,
         CreatePeerListener(q, caller), NEW p \in NativePeers
  PROVE  /\ p # q \/ caller # "queue" => Owed(p)' = Owed(p)
         /\ p = q /\ caller = "queue" =>
              Owed(p)' = IF servers[q].state = "deaf" THEN Owed(p) ELSE Owed(p) + 1
<1> DEFINE more == IF p = q /\ caller = "queue" THEN 1 ELSE 0
<1>1. /\ Owed(p) = Replied(p) + Waits(p) /\ Replied(p) \in Nat /\ Waits(p) \in Nat
      /\ Owed(p)' = Replied(p)' + Waits(p)'
      /\ Replied(p)' \in Nat /\ Waits(p)' \in Nat
  BY OwedThen
<1>2. servers[q].state \in {"none", "opening", "listening", "deaf"}
  BY DEF NativeOK, ServersOK, Server
<1>3. CASE servers[q].state = "none"
  <2>1. /\ servers' = [servers EXCEPT ![q] =
              [NoServer EXCEPT !.state = "opening", !.waiters = <<caller>>]]
        /\ UNCHANGED replies
    BY <1>3 DEF CreatePeerListener
  <2>2. CASE p # q
    <3>1. servers'[p] = servers[p]
      BY <2>1, <2>2 DEF NativeOK, ServersOK
    <3> QED BY <2>1, <2>2, <3>1, OwedSame
  <2>3. CASE p = q
    <3>1. servers'[p].state = "opening" /\ servers'[p].waiters = <<caller>>
      BY <2>1, <2>3 DEF NativeOK, ServersOK, NoServer
    <3>2. Places(<<caller>>, {"queue"}) = IF caller = "queue" THEN {1} ELSE {}
      BY DEF Places
    <3>3. Count(<<caller>>, {"queue"}) = more
      BY <2>3, <3>2, FS_Singleton, FS_EmptySet DEF Count
    <3>4. Waits(p) = 0 /\ Waits(p)' = more
      BY <1>3, <2>3, <3>1, <3>3 DEF Waits
    <3>5. Replied(p)' = Replied(p)
      BY <2>1 DEF Replied, Answers
    <3> QED BY <1>1, <1>3, <2>3, <3>4, <3>5
  <2> QED BY <2>2, <2>3
<1>4. CASE servers[q].state = "listening"
  <2> DEFINE r == [to |-> caller, peer |-> q, port |-> servers[q].port]
  <2>1. replies' = Append(replies, r) /\ UNCHANGED servers
    BY <1>4 DEF CreatePeerListener
  <2>2. r \in Reply /\ replies \in Seq(Reply)
    BY DEF NativeOK, ServersOK, RepliesOK, Server, Reply
  <2>3. r \in Answers(p) <=> p = q /\ caller = "queue"
    BY <2>2 DEF Answers
  <2>4. Count(Append(replies, r), Answers(p))
          = Count(replies, Answers(p)) + IF r \in Answers(p) THEN 1 ELSE 0
    BY <2>2, CountAppend
  <2> HIDE DEF r
  <2>5. Replied(p)' = Replied(p) + more /\ Waits(p)' = Waits(p)
    BY <2>1, <2>3, <2>4 DEF Replied, Waits, Answers
  <2> QED BY <1>1, <1>4, <2>5
<1>5. CASE servers[q].state \in {"opening", "deaf"}
  <2>1. /\ servers' = [servers EXCEPT ![q].waiters = Append(@, caller)]
        /\ UNCHANGED replies
    BY <1>5 DEF CreatePeerListener
  <2>2. CASE p # q
    <3>1. servers'[p] = servers[p]
      BY <2>1, <2>2 DEF NativeOK, ServersOK
    <3> QED BY <2>1, <2>2, <3>1, OwedSame
  <2>3. CASE p = q
    <3>1. /\ servers'[p].state = servers[p].state
          /\ servers'[p].waiters = Append(servers[p].waiters, caller)
          /\ servers[p].waiters \in Seq(Callers)
      BY <2>1, <2>3 DEF NativeOK, ServersOK, Server
    <3>2. Count(Append(servers[p].waiters, caller), {"queue"})
            = Count(servers[p].waiters, {"queue"}) + more
      BY <2>3, <3>1, CountAppend
    <3>3. Waits(p)' = IF servers[p].state = "deaf" THEN Waits(p) ELSE Waits(p) + more
      BY <1>5, <2>3, <3>1, <3>2 DEF Waits
    <3>4. Replied(p)' = Replied(p)
      BY <2>1 DEF Replied, Answers
    <3> QED BY <1>1, <2>3, <3>3, <3>4
  <2> QED BY <2>2, <2>3
<1> QED BY <1>2, <1>3, <1>4, <1>5

\* createPeerListener makes no listener deaf.
LEMMA CreateDeafens ==
  ASSUME NativeOK, NEW p \in NativePeers, NEW caller, CreatePeerListener(p, caller),
         NEW q \in NativePeers, servers'[q].state = "deaf"
  PROVE  servers[q].state = "deaf"
<1>1. CASE servers[p].state = "none"
  BY <1>1 DEF CreatePeerListener, NativeOK, ServersOK, NoServer
<1>2. CASE servers[p].state = "listening"
  BY <1>2 DEF CreatePeerListener
<1>3. CASE servers[p].state \notin {"none", "listening"}
  <2>1. servers' = [servers EXCEPT ![p].waiters = Append(servers[p].waiters, caller)]
    BY <1>3 DEF CreatePeerListener
  <2>2. servers'[q].state = servers[q].state
    BY <2>1 DEF NativeOK, ServersOK, Server
  <2> QED BY <2>2
<1> QED BY <1>1, <1>2, <1>3

\* A listener that opens gives each of its waiters the reply it owed.
LEMMA ListensOwes ==
  ASSUME NativeOK, NativeOK', NEW q \in NativePeers, Listens(q), NEW p \in NativePeers
  PROVE  Owed(p)' = Owed(p)
<1> DEFINE w == servers[q].waiters
<1>1. PICK n \in FreePorts :
        /\ servers' = [servers EXCEPT ![q] =
             [NoServer EXCEPT !.state = "listening", !.port = n]]
        /\ replies' = replies \o
             [i \in 1 .. Len(w) |-> [to |-> w[i], peer |-> q, port |-> n]]
  BY DEF Listens
<1> DEFINE more == [i \in 1 .. Len(w) |-> [to |-> w[i], peer |-> q, port |-> n]]
<1>2. n \in Ports /\ w \in Seq(Callers) /\ replies \in Seq(Reply)
  BY DEF FreePorts, NativeOK, RepliesOK, ServersOK, Server
<1>3. \A i \in 1 .. Len(w) : w[i] \in Callers /\ more[i] \in Reply
  BY <1>2, ElementOfSeq DEF Reply
<1>4. more \in Seq(Reply) /\ Len(more) = Len(w)
  <2>1. Len(w) \in Nat
    BY <1>2
  <2> HIDE DEF w
  <2> QED BY <1>3, <2>1
<1>5. Places(more, Answers(p)) = IF p = q THEN Places(w, {"queue"}) ELSE {}
  BY <1>3, <1>4 DEF Places, Answers
<1>6. Count(more, Answers(p)) = IF p = q THEN Waits(p) ELSE 0
  <2>1. servers[q].state = "opening"
    BY DEF Listens
  <2> QED BY <1>5, <2>1, FS_EmptySet DEF Count, Waits
<1>7. Count(replies \o more, Answers(p)) = Count(replies, Answers(p)) + Count(more, Answers(p))
  BY <1>2, <1>4, CountConcat
<1>8. replies' = replies \o more
  BY <1>1
<1> HIDE DEF more
<1>9. Replied(p)' = Replied(p) + IF p = q THEN Waits(p) ELSE 0
  BY <1>6, <1>7, <1>8 DEF Replied, Answers
<1>10. Waits(p)' = IF p = q THEN 0 ELSE Waits(p)
  BY <1>1 DEF Waits, NativeOK, ServersOK, NoServer
<1> QED BY <1>9, <1>10, OwedThen

\* One that fails gives the queue at most the reply it owed.
LEMMA ListenFailsOwes ==
  ASSUME NativeOK, NativeOK', NEW q \in NativePeers, ListenFails(q), NEW p \in NativePeers
  PROVE  Owed(p)' <= Owed(p)
<1> DEFINE w == servers[q].waiters
           Q == {"queue"} \cap {w[j] : j \in 1 .. Len(w)}
           n == Cardinality(Q)
           more == [i \in 1 .. n |-> [to |-> "queue", peer |-> q, port |-> None]]
<1>1. w \in Seq(Callers) /\ replies \in Seq(Reply)
  BY DEF NativeOK, RepliesOK, ServersOK, Server
<1>2. n \in Nat /\ n <= Count(w, {"queue"})
  <2>1. CASE Q = {}
    <3>1. n = 0
      BY <2>1, FS_EmptySet
    <3>2. Count(w, {"queue"}) \in Nat
      BY <1>1, CountType
    <3> QED BY <3>1, <3>2
  <2>2. CASE Q # {}
    <3>1. Q = {"queue"} /\ \E j \in 1 .. Len(w) : w[j] = "queue"
      BY <2>2
    <3>2. n = 1
      BY <3>1, FS_Singleton
    <3>3. Count(w, {"queue"}) \in Nat /\ Count(w, {"queue"}) # 0
      BY <1>1, <3>1, CountType DEF Places
    <3> QED BY <3>2, <3>3
  <2> QED BY <2>1, <2>2
<1> HIDE DEF n
<1>3. more \in Seq(Reply) /\ Len(more) = n
  BY <1>2, IsASeq DEF Reply, Callers
<1>4. Places(more, Answers(p)) = IF p = q THEN 1 .. n ELSE {}
  BY <1>2, <1>3 DEF Places, Answers, Reply, Callers
<1>5. Count(more, Answers(p)) = IF p = q THEN n ELSE 0
  <2>1. Cardinality(1 .. n) = n
    <3>1. Cardinality(1 .. n) = IF 1 > n THEN 0 ELSE n - 1 + 1
      BY <1>2, FS_Interval
    <3> QED BY <1>2, <3>1
  <2> QED BY <1>4, <2>1, FS_EmptySet DEF Count
<1>6. Count(replies \o more, Answers(p)) = Count(replies, Answers(p)) + Count(more, Answers(p))
  BY <1>1, <1>3, CountConcat
<1>7. replies' = replies \o more
  BY DEF ListenFails, n
<1> HIDE DEF more
<1>8. Replied(p)' = Replied(p) + IF p = q THEN n ELSE 0
  BY <1>5, <1>6, <1>7 DEF Replied, Answers
<1>9. servers[q].state = "opening" /\ servers'[q].state = "deaf"
      /\ (p # q => servers'[p] = servers[p])
  BY DEF ListenFails, NativeOK, ServersOK, NoServer
<1>10. CASE p = q
  <2>1. Waits(p)' = 0 /\ Waits(p) = Count(w, {"queue"})
    BY <1>9, <1>10 DEF Waits
  <2> QED BY <1>2, <1>8, <1>10, <2>1, OwedThen
<1>11. CASE p # q
  BY <1>8, <1>9, <1>11, OwedThen DEF Waits
<1> QED BY <1>10, <1>11

\* A reply is delivered.
LEMMA TakenOwes ==
  ASSUME NativeOK, NativeOK', replies # <<>>, replies' = Tail(replies),
         UNCHANGED servers, NEW p \in NativePeers
  PROVE  Owed(p)' = Owed(p)
           - (IF Head(replies).to = "queue" /\ Head(replies).peer = p THEN 1 ELSE 0)
<1>1. replies \in Seq(Reply) /\ Head(replies) \in Reply /\ Tail(replies) \in Seq(Reply)
  BY HeadTailProperties DEF NativeOK, RepliesOK
<1>2. Head(replies) \in Answers(p) <=> Head(replies).to = "queue" /\ Head(replies).peer = p
  BY <1>1 DEF Answers
<1>3. Replied(p) = Count(Tail(replies), Answers(p))
                     + IF Head(replies) \in Answers(p) THEN 1 ELSE 0
  BY <1>1, CountTail DEF Replied
<1>4. Replied(p)' = Count(Tail(replies), Answers(p)) /\ Waits(p)' = Waits(p)
  BY DEF Replied, Answers, Waits
<1>5. Replied(p)' \in Nat
  BY OwedThen
<1> QED BY <1>2, <1>3, <1>4, <1>5, OwedThen

\* The stop of the servers manager leaves the replies to the queue.
LEMMA ManagerStopOwes ==
  ASSUME NativeOK, NativeOK', ManagerStop, NEW p \in NativePeers
  PROVE  Owed(p)' <= Owed(p)
<1>1. /\ replies \in Seq(Reply) /\ Len(replies) \in Nat /\ Len(replies') = Len(replies)
      /\ \A i \in 1 .. Len(replies) :
           /\ replies[i] \in Reply
           /\ replies'[i] = IF replies[i].to = "queue" THEN replies[i]
                            ELSE [replies[i] EXCEPT !.to = "nobody"]
  BY ElementOfSeq DEF ManagerStop, NativeOK, RepliesOK
<1>2. \A i \in 1 .. Len(replies) : replies'[i] \in Answers(p) <=> replies[i] \in Answers(p)
  BY <1>1 DEF Answers, Reply
<1>3. Places(replies', Answers(p)) = Places(replies, Answers(p))
  BY <1>1, <1>2 DEF Places
<1>4. Replied(p)' = Replied(p)
  BY <1>3 DEF Replied, Count, Answers
<1>5. Waits(p)' = 0
  BY DEF Waits, ManagerStop, NoServer
<1> QED BY <1>4, <1>5, OwedThen

Calm == conditions \cap {"listen", "stop"} = {}

OwedIsKept == NothingOverdue' /\ (Calm /\ AnnouncementsRun => AnnouncementsRun')

\* An announcement that queues up leaves the head alone.
LEMMA HeadStays ==
  ASSUME NativeOK, NEW e \in Task, queue # <<>>
  PROVE  Append(queue, e) # <<>> /\ Head(Append(queue, e)) = Head(queue)
  BY HeadTailAppend, AppendProperties DEF NativeOK

\* A step that leaves what is owed, the head of the queue and who runs.
LEMMA Unaffected ==
  ASSUME NothingOverdue, \A p \in NativePeers : Owed(p)' = Owed(p), UNCHANGED busy,
         queue' = queue \/ (queue # <<>> => queue' # <<>> /\ Head(queue') = Head(queue)),
         Calm => phase' = phase /\ ("announcements" \in poisoned' => "announcements" \in poisoned),
         Calm => \A p \in NativePeers : servers'[p].state = "deaf" => servers[p].state = "deaf"
  PROVE  OwedIsKept
<1>1. busy => queue # <<>> /\ queue' # <<>> /\ Head(queue') = Head(queue)
  BY DEF NothingOverdue
<1>2. NothingOverdue'
  BY <1>1 DEF NothingOverdue
<1>3. ASSUME Calm, AnnouncementsRun
      PROVE  AnnouncementsRun'
  BY <1>1, <1>3 DEF AnnouncementsRun, HeadIsOwed
<1> QED BY <1>2, <1>3 DEF OwedIsKept

\* No step owes the head of the queue a second promise, or loses the one it is owed.
LEMMA OwedKept ==
  ASSUME NativeOK, NativeOK', NothingOverdue, Step
  PROVE  OwedIsKept
<1>1. ASSUME NEW p \in NativePeers, NEW kind \in {"available", "gone"},
             NativeEvent(p, kind)
      PROVE  OwedIsKept
  <2>1. [peer |-> p, kind |-> kind] \in Task
    BY DEF Task, Kinds
  <2> QED
    BY <1>1, <2>1, HeadStays, OwedSame, Unaffected DEF NativeEvent
<1>2. ASSUME NEW p \in NativePeers, Listens(p)
      PROVE  OwedIsKept
  BY <1>2, ListensOwes, Unaffected DEF Listens, NativeOK, ServersOK, NoServer
<1>3. ASSUME NEW p \in NativePeers, ListenFails(p)
      PROVE  OwedIsKept
  <2>1. ~Calm /\ UNCHANGED <<busy, queue>>
    BY <1>3 DEF ListenFails, Calm
  <2>2. \A q \in NativePeers : Owed(q)' <= Owed(q) /\ Owed(q)' \in Nat /\ Owed(q) \in Nat
    BY <1>3, ListenFailsOwes, OwedThen
  <2> QED BY <2>1, <2>2 DEF OwedIsKept, NothingOverdue
<1>4. ASSUME NEW p \in NativePeers, FirstConnection(p)
      PROVE  OwedIsKept
  <2>1. \A q \in NativePeers : /\ servers'[q].state = servers[q].state
                               /\ q # p => servers'[q] = servers[q]
    BY <1>4 DEF FirstConnection, NativeOK, ServersOK, Server
  <2> QED BY <1>4, <2>1, OwedSame, Unaffected DEF FirstConnection
<1>5. ASSUME NEW p \in NativePeers, LinkBreaks(p)
      PROVE  OwedIsKept
  <2>1. \A q \in NativePeers : /\ servers'[p].state = "none"
                               /\ q # p => servers'[q] = servers[q]
    BY <1>5 DEF LinkBreaks, NativeOK, ServersOK, NoServer
  <2>2. \A q \in NativePeers : Owed(q)' = Owed(q)
    BY <1>5, <2>1, OwedSame DEF LinkBreaks
  <2>3. [peer |-> p, kind |-> "recreated"] \in Task
    BY DEF Task, Kinds
  <2>4. queue' = queue \/ (queue # <<>> => queue' # <<>> /\ Head(queue') = Head(queue))
    BY <1>5, <2>3, HeadStays DEF LinkBreaks, FailedConnection
  <2> QED BY <1>5, <2>1, <2>2, <2>4, Unaffected DEF LinkBreaks
<1>6. ASSUME NEW p \in NativePeers, RecreateTick(p)
      PROVE  OwedIsKept
  <2>1. CreatePeerListener(p, "recreate") /\ "recreate" \in Callers
    BY <1>6 DEF RecreateTick, Callers
  <2>2. \A q \in NativePeers : Owed(q)' = Owed(q)
    BY <2>1, CreateOwes
  <2>3. \A q \in NativePeers : servers'[q].state = "deaf" => servers[q].state = "deaf"
    BY <2>1, CreateDeafens
  <2> QED BY <1>6, <2>2, <2>3, Unaffected DEF RecreateTick
<1>7. CASE RunAvailable
  <2>1. PICK p \in NativePeers : p = Head(queue).peer
    <3>1. Head(queue) \in Task
      BY <1>7, HeadTailProperties DEF RunAvailable, NativeOK
    <3> QED BY <3>1 DEF Task
  <2>2. CASE HasManager
    <3>1. CreatePeerListener(p, "queue") /\ "queue" \in Callers
      BY <1>7, <2>1, <2>2 DEF RunAvailable, Callers
    <3>2. /\ \A q \in NativePeers : q # p => Owed(q)' = Owed(q)
          /\ Owed(p)' = IF servers[p].state = "deaf" THEN Owed(p) ELSE Owed(p) + 1
      BY <2>1, <3>1, CreateOwes
    <3>3. \A q \in NativePeers : servers'[q].state = "deaf" => servers[q].state = "deaf"
      BY <3>1, CreateDeafens
    <3>4. /\ ~busy /\ busy' /\ queue # <<>> /\ UNCHANGED queue
          /\ UNCHANGED <<phase, poisoned>>
      BY <1>7, <2>2 DEF RunAvailable
    <3>5. \A q \in NativePeers : Owed(q) \in Nat /\ Owed(q) <= 0
      BY <3>4, OwedThen DEF NothingOverdue
    <3>6. NothingOverdue'
      BY <2>1, <3>2, <3>4, <3>5 DEF NothingOverdue
    <3>7. ASSUME AnnouncementsRun
          PROVE  AnnouncementsRun'
      BY <2>1, <3>2, <3>3, <3>4, <3>5, <3>7 DEF AnnouncementsRun, HeadIsOwed
    <3> QED BY <3>6, <3>7 DEF OwedIsKept
  <2>3. CASE ~HasManager
    <3>1. ~AnnouncementsRun
      BY <2>3 DEF HasManager, AnnouncementsRun
    <3>2. UNCHANGED <<servers, replies, busy, queue>>
      BY <1>7, <2>3 DEF RunAvailable
    <3> QED BY <3>1, <3>2, OwedSame DEF OwedIsKept, NothingOverdue
  <2> QED BY <2>2, <2>3
<1>8. CASE RunUnavailable
  <2>1. ~busy /\ UNCHANGED <<phase, servers, busy, poisoned, replies>>
    BY <1>8 DEF RunUnavailable
  <2>2. \A q \in NativePeers : Owed(q)' = Owed(q)
    BY <2>1, OwedSame
  <2> QED BY <2>1, <2>2 DEF OwedIsKept, NothingOverdue, AnnouncementsRun, HeadIsOwed
<1>9. CASE QueueReply
  <2>1. /\ replies # <<>> /\ Head(replies).to = "queue" /\ replies' = Tail(replies)
        /\ busy' = FALSE /\ UNCHANGED <<phase, servers, poisoned>>
    BY <1>9 DEF QueueReply
  <2>2. busy /\ Head(queue).peer = Head(replies).peer
    BY <2>1, ReplyIsOwed
  <2>3. \A q \in NativePeers :
          /\ Owed(q)' = Owed(q) - (IF Head(queue).peer = q THEN 1 ELSE 0)
          /\ Owed(q) \in Nat /\ Owed(q)' \in Nat
    BY <2>1, <2>2, TakenOwes, OwedThen
  <2>4. \A q \in NativePeers : Owed(q) <= IF Head(queue).peer = q THEN 1 ELSE 0
    BY <2>2 DEF NothingOverdue
  <2>5. \A q \in NativePeers : Owed(q)' = 0
    BY <2>3, <2>4
  <2> QED BY <2>1, <2>5 DEF OwedIsKept, NothingOverdue, AnnouncementsRun, HeadIsOwed
<1>10. CASE RecreateReply
  <2>1. /\ replies # <<>> /\ Head(replies).to # "queue" /\ replies' = Tail(replies)
        /\ UNCHANGED <<phase, servers, queue, busy, poisoned>>
    BY <1>10 DEF RecreateReply
  <2>2. \A q \in NativePeers : Owed(q)' = Owed(q)
    BY <2>1, TakenOwes, OwedThen
  <2> QED BY <2>1, <2>2, Unaffected
<1>11. ASSUME NEW t \in terminations, TerminateListener(t)
       PROVE  OwedIsKept
  <2>1. /\ UNCHANGED <<phase, queue, busy, replies>>
        /\ "announcements" \in poisoned' => "announcements" \in poisoned
    BY <1>11 DEF TerminateListener
  <2>2. \A q \in NativePeers :
          \/ servers'[q] = servers[q]
          \/ servers[q].state # "opening" /\ servers'[q].state = "none"
    BY <1>11 DEF TerminateListener, NativeOK, ServersOK, NoServer
  <2>3. \A q \in NativePeers : Owed(q)' = Owed(q)
    BY <2>1, <2>2, OwedSame
  <2> QED BY <2>1, <2>2, <2>3, Unaffected
<1>12. CASE UNCHANGED native
  <2>1. UNCHANGED <<phase, servers, queue, busy, poisoned, replies>>
    BY <1>12 DEF native
  <2>2. \A q \in NativePeers : Owed(q)' = Owed(q)
    BY <2>1, OwedSame
  <2> QED BY <2>1, <2>2, Unaffected
<1>13. CASE MobileStop \/ WrapperStop \/ StartAgain
  <2>1. UNCHANGED <<servers, queue, busy, replies>>
    BY <1>13 DEF MobileStop, WrapperStop, StartAgain
  <2>2. \A q \in NativePeers : Owed(q)' = Owed(q)
    BY <2>1, OwedSame
  <2>3. Calm => ~AnnouncementsRun
    BY <1>13 DEF MobileStop, WrapperStop, StartAgain, Calm, AnnouncementsRun
  <2> QED BY <2>1, <2>2, <2>3 DEF OwedIsKept, NothingOverdue
<1>14. CASE ManagerStop
  <2>1. ~AnnouncementsRun /\ UNCHANGED <<busy, queue>>
    BY <1>14 DEF ManagerStop, AnnouncementsRun
  <2>2. \A q \in NativePeers : Owed(q)' <= Owed(q) /\ Owed(q)' \in Nat /\ Owed(q) \in Nat
    BY <1>14, ManagerStopOwes, OwedThen
  <2> QED BY <2>1, <2>2 DEF OwedIsKept, NothingOverdue
<1> QED
  BY <1>1, <1>2, <1>3, <1>4, <1>5, <1>6, <1>7, <1>8, <1>9, <1>10, <1>11, <1>12, <1>13,
     <1>14 DEF Step, WifiEvent, RadioOff, WatcherFires

-----------------------------------------------------------------------------
(* Links that do not break *)

\* The promises that there are were all made to the queue.
ForQueue ==
  /\ \A p \in NativePeers : \A i \in 1 .. Len(servers[p].waiters) :
       servers[p].waiters[i] = "queue"
  /\ \A i \in 1 .. Len(replies) : replies[i].to = "queue"

\* Without recreations only the announcements wait for listeners.
LEMMA CreateForQueue ==
  ASSUME NativeOK, ForQueue, NEW p \in NativePeers, CreatePeerListener(p, "queue")
  PROVE  ForQueue' /\ \A q \in NativePeers : servers'[q].linked => servers[q].linked
<1>1. CASE servers[p].state = "none"
  <2>1. /\ servers' = [servers EXCEPT ![p] =
              [NoServer EXCEPT !.state = "opening", !.waiters = <<"queue">>]]
        /\ UNCHANGED replies
    BY <1>1 DEF CreatePeerListener
  <2>2. /\ servers'[p].waiters = <<"queue">> /\ ~servers'[p].linked
        /\ \A q \in NativePeers : q # p => servers'[q] = servers[q]
    BY <2>1 DEF NativeOK, ServersOK, NoServer
  <2> QED BY <2>1, <2>2 DEF ForQueue
<1>2. CASE servers[p].state = "listening"
  <2> DEFINE r == [to |-> "queue", peer |-> p, port |-> servers[p].port]
  <2>1. replies' = Append(replies, r) /\ UNCHANGED servers
    BY <1>2 DEF CreatePeerListener
  <2>2. r \in Reply /\ replies \in Seq(Reply) /\ r.to = "queue"
    BY DEF NativeOK, ServersOK, RepliesOK, Server, Reply, Callers
  <2> HIDE DEF r
  <2>3. /\ Len(replies') = Len(replies) + 1 /\ replies'[Len(replies) + 1] = r
        /\ \A i \in 1 .. Len(replies) : replies'[i] = replies[i]
    BY <2>1, <2>2, AppendProperties
  <2> QED BY <2>1, <2>2, <2>3 DEF ForQueue
<1>3. CASE servers[p].state \notin {"none", "listening"}
  <2> DEFINE w == servers[p].waiters
  <2>1. /\ servers' = [servers EXCEPT ![p].waiters = Append(w, "queue")]
        /\ UNCHANGED replies
    BY <1>3 DEF CreatePeerListener
  <2>2. /\ servers'[p].waiters = Append(w, "queue")
        /\ \A q \in NativePeers : /\ q # p => servers'[q] = servers[q]
                                  /\ servers'[q].linked = servers[q].linked
    BY <2>1 DEF NativeOK, ServersOK, Server
  <2>3. w \in Seq(Callers) /\ "queue" \in Callers
    BY DEF NativeOK, ServersOK, Server, Callers
  <2>4. /\ Len(Append(w, "queue")) = Len(w) + 1 /\ Append(w, "queue")[Len(w) + 1] = "queue"
        /\ \A i \in 1 .. Len(w) : Append(w, "queue")[i] = w[i]
    BY <2>3, AppendProperties
  <2>5. \A i \in 1 .. Len(Append(w, "queue")) : Append(w, "queue")[i] = "queue"
    BY <2>3, <2>4 DEF ForQueue
  <2> HIDE DEF w
  <2> QED BY <2>1, <2>2, <2>5 DEF ForQueue
<1> QED BY <1>1, <1>2, <1>3

\* And only they are answered.
LEMMA RepliesForQueue ==
  ASSUME NativeOK, ForQueue, NEW more \in Seq(Reply), replies' = replies \o more,
         \A i \in 1 .. Len(more) : more[i].to = "queue"
  PROVE  \A i \in 1 .. Len(replies') : replies'[i].to = "queue"
<1>1. /\ Len(replies') = Len(replies) + Len(more)
      /\ \A i \in 1 .. Len(replies') :
           replies'[i] = IF i <= Len(replies) THEN replies[i]
                                              ELSE more[i - Len(replies)]
      /\ Len(replies) \in Nat /\ Len(more) \in Nat
  BY ConcatProperties DEF NativeOK, RepliesOK
<1> QED BY <1>1 DEF ForQueue

\* Without links that break every step leaves it so.
LEMMA NothingRecreatedKept ==
  ASSUME NativeOK, MobileOK, NothingRecreated, "link" \notin conditions, Step
  PROVE  NothingRecreated'
<1> DEFINE Unlinked == \A q \in NativePeers : ~servers[q].linked
<1>1. ForQueue /\ Unlinked /\ ticks = {} /\ ~asserted
  BY DEF NothingRecreated, ForQueue
<1>2. ASSUME ForQueue', Unlinked', ticks' = {}, asserted' = asserted
      PROVE  NothingRecreated'
  BY <1>1, <1>2 DEF NothingRecreated, ForQueue
<1>3. ASSUME replies # <<>>
      PROVE  /\ Head(replies).to = "queue" /\ Head(replies).peer \in Peers
             /\ Head(replies).port \in Ports \cup {None}
  <2>1. Head(replies) = replies[1] /\ 1 \in 1 .. Len(replies) /\ Head(replies) \in Reply
    BY <1>3, HeadTailProperties DEF NativeOK, RepliesOK
  <2> QED BY <1>1, <2>1 DEF ForQueue, Reply, Peers
<1>4. ASSUME NEW p \in NativePeers, Listens(p)
      PROVE  NothingRecreated'
  <2> DEFINE w == servers[p].waiters
  <2>1. PICK n \in FreePorts :
          /\ servers' = [servers EXCEPT ![p] =
               [NoServer EXCEPT !.state = "listening", !.port = n]]
          /\ replies' = replies \o
               [i \in 1 .. Len(w) |-> [to |-> w[i], peer |-> p, port |-> n]]
    BY <1>4 DEF Listens
  <2> DEFINE more == [i \in 1 .. Len(w) |-> [to |-> w[i], peer |-> p, port |-> n]]
  <2>2. n \in Ports /\ w \in Seq(Callers)
    BY DEF FreePorts, NativeOK, ServersOK, Server
  <2>3. \A i \in 1 .. Len(w) : more[i] \in Reply /\ more[i].to = "queue"
    BY <1>1, <2>2, ElementOfSeq DEF Reply, ForQueue
  <2>4. more \in Seq(Reply) /\ Len(more) = Len(w)
    <3>1. Len(w) \in Nat
      BY <2>2
    <3> HIDE DEF w
    <3> QED BY <2>3, <3>1
  <2>5. \A i \in 1 .. Len(replies') : replies'[i].to = "queue"
    <3>1. replies' = replies \o more
      BY <2>1
    <3> HIDE DEF more
    <3> QED BY <1>1, <2>3, <2>4, <3>1, RepliesForQueue
  <2>6. /\ servers'[p].waiters = <<>> /\ ~servers'[p].linked
        /\ \A q \in NativePeers : q # p => servers'[q] = servers[q]
    BY <2>1 DEF NativeOK, ServersOK, NoServer
  <2>7. ForQueue' /\ Unlinked'
    BY <1>1, <2>5, <2>6 DEF ForQueue
  <2> QED BY <1>1, <1>2, <1>4, <2>7 DEF Listens, mobile
<1>5. ASSUME NEW p \in NativePeers, ListenFails(p)
      PROVE  NothingRecreated'
  <2> DEFINE Q == {"queue"} \cap {servers[p].waiters[j] :
                                    j \in 1 .. Len(servers[p].waiters)}
             n == Cardinality(Q)
             more == [i \in 1 .. n |-> [to |-> "queue", peer |-> p, port |-> None]]
  <2>1. n \in Nat
    <3>1. IsFiniteSet({"queue"}) /\ Q \in SUBSET {"queue"}
      BY FS_Singleton
    <3> QED BY <3>1, FS_Subset, FS_CardinalityType
  <2>2. more \in Seq(Reply) /\ \A i \in 1 .. Len(more) : more[i].to = "queue"
    <3> HIDE DEF n
    <3> QED BY <2>1 DEF Reply, Callers
  <2>3. \A i \in 1 .. Len(replies') : replies'[i].to = "queue"
    <3>1. replies' = replies \o more
      BY <1>5 DEF ListenFails
    <3> HIDE DEF more
    <3> QED BY <1>1, <2>2, <3>1, RepliesForQueue
  <2>4. /\ servers'[p].waiters = <<>> /\ ~servers'[p].linked
        /\ \A q \in NativePeers : q # p => servers'[q] = servers[q]
    BY <1>5 DEF ListenFails, NativeOK, ServersOK, NoServer
  <2>5. ForQueue' /\ Unlinked'
    BY <1>1, <2>3, <2>4 DEF ForQueue
  <2> QED BY <1>1, <1>2, <1>5, <2>5 DEF ListenFails, mobile
<1>6. CASE RunAvailable
  <2>1. /\ UNCHANGED <<ticks, asserted>>
        /\ \/ UNCHANGED <<servers, replies>>
           \/ queue # <<>> /\ CreatePeerListener(Head(queue).peer, "queue")
    BY <1>6 DEF RunAvailable, mobile
  <2>2. ASSUME queue # <<>>
        PROVE  Head(queue).peer \in NativePeers
    <3>1. Head(queue) \in Task
      BY <2>2, HeadTailProperties DEF NativeOK
    <3> QED BY <3>1 DEF Task
  <2>3. ForQueue' /\ Unlinked'
    BY <1>1, <2>1, <2>2, CreateForQueue DEF ForQueue
  <2> QED BY <1>1, <1>2, <2>1, <2>3
<1>7. CASE QueueReply
  <2>1. /\ replies # <<>> /\ replies' = Tail(replies) /\ UNCHANGED <<servers, ticks>>
    BY <1>7 DEF QueueReply
  <2>2. asserted' = asserted
    <3>1. {Head(replies).peer} \in SUBSET Peers
      BY <1>3, <2>1
    <3>2. CASE Lose({Head(replies).peer})
      BY <3>1, <3>2, LoseKeeps
    <3>3. CASE HandleAvailable(Head(replies).peer, Head(replies).port)
               /\ Head(replies).port # None
      BY <1>3, <2>1, <3>3, AvailableKeeps
    <3> QED BY <1>7, <3>2, <3>3 DEF QueueReply
  <2>3. \A i \in 1 .. Len(replies') : replies'[i] = replies[i + 1] /\ i + 1 \in 1 .. Len(replies)
    BY <2>1, HeadTailProperties DEF NativeOK, RepliesOK
  <2>4. ForQueue' /\ Unlinked'
    BY <1>1, <2>1, <2>3 DEF ForQueue
  <2> QED BY <1>1, <1>2, <2>1, <2>2, <2>4
<1>8. ASSUME NEW t \in terminations, TerminateListener(t)
      PROVE  NothingRecreated'
  <2>1. \A q \in NativePeers :
          servers'[q] = servers[q] \/ (servers'[q].waiters = <<>> /\ ~servers'[q].linked)
    BY <1>8 DEF TerminateListener, NativeOK, ServersOK, NoServer
  <2>2. UNCHANGED <<replies, ticks, asserted>>
    BY <1>8 DEF TerminateListener, mobile
  <2>3. ForQueue' /\ Unlinked'
    BY <1>1, <2>1, <2>2 DEF ForQueue
  <2> QED BY <1>1, <1>2, <2>2, <2>3
<1>9. CASE ManagerStop
  <2>1. \A q \in NativePeers : servers'[q].waiters = <<>> /\ ~servers'[q].linked
    BY <1>9 DEF ManagerStop, NoServer
  <2>2. \A i \in 1 .. Len(replies') : i \in 1 .. Len(replies) /\ replies'[i] = replies[i]
    BY <1>1, <1>9 DEF ManagerStop, ForQueue, NativeOK, RepliesOK
  <2>3. ForQueue' /\ Unlinked'
    BY <1>1, <2>1, <2>2 DEF ForQueue
  <2> QED BY <1>2, <1>9, <2>3 DEF ManagerStop, mobile
<1>10. ASSUME UNCHANGED <<servers, replies, ticks>>, asserted' = asserted
       PROVE  NothingRecreated'
  BY <1>10 DEF NothingRecreated
<1>11. ASSUME NEW S \in SUBSET Peers, Lose(S)
       PROVE  asserted' = asserted
  BY <1>11, LoseKeeps
<1>12. CASE RunUnavailable
  <2>1. queue # <<>> => Head(queue).peer \in Peers
    <3>1. queue # <<>> => Head(queue) \in Task
      BY HeadTailProperties DEF NativeOK
    <3> QED BY <3>1 DEF Task, Peers
  <2>2. asserted' = asserted
    BY <1>11, <1>12, <2>1 DEF RunUnavailable, HandleClosed
  <2> QED BY <1>10, <1>12, <2>2 DEF RunUnavailable
<1>13. ASSUME NEW p \in WifiPeers, NEW port \in Ports \cup {None}, WifiEvent(p, port)
       PROVE  NothingRecreated'
  <2>1. asserted' = asserted
    <3>1. p \in Peers /\ {p} \in SUBSET Peers
      BY DEF Peers
    <3>2. CASE port = None /\ Lose({p})
      BY <1>11, <3>1, <3>2
    <3>3. CASE port \in Ports /\ HandleAvailable(p, port)
      BY <3>1, <3>3, AvailableKeeps
    <3> QED BY <1>13, <3>2, <3>3 DEF WifiEvent
  <2> QED BY <1>10, <1>13, <2>1 DEF WifiEvent, native
<1>14. CASE RadioOff(NativePeers) \/ RadioOff(WifiPeers) \/ MobileStop
  <2>1. \A T \in {NativePeers, WifiPeers, Peers} :
          {p \in T : Cached(p)} \in SUBSET Peers
    BY DEF Peers
  <2>2. asserted' = asserted
    BY <1>11, <1>14, <2>1 DEF RadioOff, MobileStop
  <2> QED BY <1>10, <1>14, <2>2 DEF RadioOff, MobileStop, native
<1>15. ASSUME NEW p \in Peers, WatcherFires(p)
       PROVE  NothingRecreated'
  <2>1. {p} \in SUBSET Peers
    OBVIOUS
  <2>2. asserted' = asserted
    BY <1>11, <1>15, <2>1 DEF WatcherFires
  <2> QED BY <1>10, <1>15, <2>2 DEF WatcherFires, native
<1>16. CASE WrapperStop \/ StartAgain
  BY <1>10, <1>16 DEF WrapperStop, StartAgain, mobile
<1>17. ASSUME NEW p \in NativePeers
       PROVE  ~FirstConnection(p) /\ ~LinkBreaks(p) /\ ~RecreateTick(p) /\ ~RecreateReply
  BY <1>1, <1>3 DEF FirstConnection, LinkBreaks, RecreateTick, RecreateReply
<1>18. ~RecreateReply
  BY <1>3 DEF RecreateReply
<1>19. ASSUME NEW p \in NativePeers, NEW kind \in {"available", "gone"},
              NativeEvent(p, kind)
       PROVE  NothingRecreated'
  BY <1>10, <1>19 DEF NativeEvent, mobile
<1> QED
  BY <1>4, <1>5, <1>6, <1>7, <1>8, <1>9, <1>12, <1>13, <1>14, <1>15, <1>16, <1>17,
     <1>18, <1>19 DEF Step

-----------------------------------------------------------------------------
(* The theorems *)

\* Where there is neither a listener nor a reply nothing is owed.
LEMMA NothingOwed ==
  ASSUME NativeOK, replies = <<>>, NEW p \in NativePeers, servers[p] = NoServer
  PROVE  Owed(p) = 0
<1>1. {i \in 1 .. Len(replies) : replies[i].to = "queue" /\ replies[i].peer = p} = {}
  OBVIOUS
<1>2. {i \in 1 .. Len(servers[p].waiters) :
         servers[p].state = "opening" /\ servers[p].waiters[i] = "queue"} = {}
  BY DEF NoServer
<1>3. Owed(p) = Cardinality({}) + Cardinality({})
  BY <1>1, <1>2, Zenon DEF Owed
<1> QED BY <1>3, FS_EmptySet

\* Nobody is known at first.
LEMMA InitIInv == Init => IInv
<1> SUFFICES ASSUME Init PROVE IInv
  OBVIOUS
<1>1. MobileOK
  BY DEF Init, MobileOK, KnownIsCached, WatchedIffCached, HeardIsFresh, Cached, Knows,
     NoWatcher, Watcher
<1>2. NoServer \in Server
  BY DEF NoServer, Server
<1>3. NativeOK
  <2>1. <<>> \in Seq(Reply) /\ <<>> \in Seq(Task)
    OBVIOUS
  <2>2. ServersOK
    BY <1>2 DEF Init, ServersOK, NoServer
  <2>3. RepliesOK
    BY <2>1 DEF Init, RepliesOK
  <2> QED BY <2>1, <2>2, <2>3 DEF Init, NativeOK, Phases
<1>4. \A p \in NativePeers : Owed(p) = 0
  BY <1>3, NothingOwed DEF Init
<1>5. NothingOverdue
  BY <1>4 DEF Init, NothingOverdue
<1>6. AnnouncementsRun
  BY <1>4 DEF Init, AnnouncementsRun, HeadIsOwed, NoServer
<1>7. NothingRecreated
  BY DEF Init, NothingRecreated, NoServer
<1> QED BY <1>1, <1>3, <1>5, <1>6, <1>7 DEF IInv

\* Every step keeps the invariant.
LEMMA NextIInv == IInv /\ [Next]_vars => IInv'
<1> SUFFICES ASSUME IInv, [Next]_vars PROVE IInv'
  OBVIOUS
<1>1. CASE UNCHANGED vars
  <2> USE <1>1 DEF vars, state, native, mobile
  <2>1. \A p \in NativePeers : Owed(p)' = Owed(p)
    BY DEF Owed
  <2>2. MobileOK' /\ NativeOK'
    BY DEF IInv, MobileOK, NativeOK, ServersOK, RepliesOK, KnownIsCached,
       WatchedIffCached, HeardIsFresh, Cached, Knows
  <2>3. NothingOverdue' /\ (AnnouncementsRun => AnnouncementsRun')
    BY <2>1 DEF IInv, NothingOverdue, AnnouncementsRun, HeadIsOwed
  <2>4. NothingRecreated => NothingRecreated'
    BY DEF NothingRecreated
  <2> QED BY <2>2, <2>3, <2>4 DEF IInv
<1>2. CASE Next
  <2>1. Step /\ conditions' = conditions
    BY <1>2 DEF Next
  <2>2. MobileOK /\ NativeOK /\ NothingOverdue
    BY DEF IInv
  <2>3. MobileOK'
    BY <2>1, <2>2, StepMoves, MobileKept
  <2>4. NativeOK'
    BY <2>1, <2>2, NativeKept
  <2>5. NothingOverdue' /\ (Calm /\ AnnouncementsRun => AnnouncementsRun')
    BY <2>1, <2>2, <2>4, OwedKept DEF OwedIsKept
  <2>6. "link" \notin conditions /\ NothingRecreated => NothingRecreated'
    BY <2>1, <2>2, NothingRecreatedKept
  <2> QED BY <2>1, <2>3, <2>4, <2>5, <2>6 DEF IInv, Calm
<1> QED BY <1>1, <1>2

\* The inductive invariant, over native events, listeners that open, fail and are
\* recreated (thaliTcpServersManager), the announcement queue (the wrapper), cache
\* and watchers (thaliMobile), and stops of either.
THEOREM AvailabilityInvariant == Spec => []IInv
  BY InitIInv, NextIInv, PTL DEF Spec

\* Client, cache and watchers agree on who is there, whatever links, listeners
\* and stops do to announcements under way: no path through handlePeer,
\* changeCachedPeerAvailable, changeCachedPeerUnavailable, the watchers or stop
\* leaves the client believing in a peer that nothing would ever withdraw.
THEOREM BooksAlwaysAgree == Spec => []BooksAgree
<1>1. IInv => BooksAgree
  BY DEF IInv, BooksAgree, TypeOK, MobileOK, NativeOK, ServersOK, RepliesOK
<1> QED BY <1>1, AvailabilityInvariant, PTL

\* Unless a listener fails to open or the wrapper is stopped, the event at the
\* head of peerAvailabilityChangedQueue is owed exactly one settled
\* createPeerListener promise, however many broken links recreate the same
\* listener meanwhile: the announcements are never blocked.
THEOREM HeadIsAlwaysServed == Spec => []HeadIsServed
<1>1. IInv => HeadIsServed
  BY DEF IInv, HeadIsServed, AnnouncementsRun
<1> QED BY <1>1, AvailabilityInvariant, PTL

\* The client's assertion that a peer is announced once until it is withdrawn
\* can fail only where links break: failing listeners, stops and Wi-Fi peers
\* do no harm to it.
THEOREM OnlyLinksRepeat == Spec => []("link" \notin conditions => NeverAsserted)
<1>1. IInv => ("link" \notin conditions => NeverAsserted)
  BY DEF IInv, NothingRecreated, NeverAsserted
<1> QED BY <1>1, AvailabilityInvariant, PTL

\* A fortiori without broken links, failing listeners and stops, in any order
\* in which native events, replies of createPeerListener, watchers and radios
\* reach thaliMobile.
THEOREM NeverRepeated == Spec => []NoRepeatedAnnouncement
<1>1. IInv => NoRepeatedAnnouncement
  BY DEF IInv, NothingRecreated, NeverAsserted, NoRepeatedAnnouncement
<1> QED BY <1>1, AvailabilityInvariant, PTL

\* A watcher that looks at the cached object (watchForPeerAvailability) drops no
\* peer that was advertised since it last looked, whatever renewed, replaced or
\* withdrew the object in between.
THEOREM SilenceComesFirst == Spec => SilentBeforeDropped
<1>1. IInv /\ [Next]_vars =>
        [\A p \in Peers : WatcherFires(p) /\ watcher[p].current /\ p \in heard
                            => cache'[p] = cache[p]]_vars
  <2> SUFFICES ASSUME IInv, NEW p \in Peers, WatcherFires(p), watcher[p].current,
                      p \in heard
               PROVE  cache'[p] = cache[p]
    OBVIOUS
  <2>1. watcher[p].fresh
    BY DEF IInv, MobileOK, HeardIsFresh
  <2> QED BY <2>1 DEF WatcherFires
<1> QED BY <1>1, AvailabilityInvariant, PTL DEF Spec, SilentBeforeDropped

=============================================================================
