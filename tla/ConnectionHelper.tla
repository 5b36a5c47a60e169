-------------------------- MODULE ConnectionHelper --------------------------
(***************************************************************************)
(* The connections of the Android layer: ConnectionHelper.java with its    *)
(* ConnectionModel, and the threads of each connection, SocketThreadBase   *)
(* with OutgoingSocketThread and IncomingSocketThread, and its two         *)
(* StreamCopyingThreads.  The JavaScript thread calls connect and stop,    *)
(* the main thread handles what the Bluetooth library reports, and every   *)
(* connection runs three threads of its own.  What is synchronized on the  *)
(* ConnectionModel is one step; so is what is synchronized on a thread,    *)
(* but for the call that startStreamCopyingThreads makes in it.  Power     *)
(* settings of the discovery are left out.                                 *)
(***************************************************************************)
EXTENDS Integers, Sequences, SequencesExt

CONSTANTS
  Peers,
  Ids,       \* the connections, each with the call of connect that began it
  MAXIMUM_NUMBER_OF_CONNECTIONS,
  Faults,    \* what may fail: "start" of an attempt, "bind" of a server socket
  Preempts   \* may a stop overtake a connection that is being set up, or a new
             \* connection the last steps of the threads of the one before

ASSUME ConnectionAssumption ==
  /\ Ids \subseteq Nat \ {0}
  /\ Peers \cap {0} = {}
  /\ MAXIMUM_NUMBER_OF_CONNECTIONS \in Nat
  /\ Faults \subseteq {"start", "bind"}
  /\ Preempts \in BOOLEAN

VARIABLES
  mOutgoingSocketThreads,        \* a sequence of Ids
  mIncomingSocketThreads,        \* a set: its order is that of the Ids, as they
                                 \* are handed out (Fresh) and added one at a time
  mOutgoingConnectionCallbacks,  \* of each peer: the call whose callback it is
  call,    \* of each call of connect: what JavaScript has heard; "dropped" and
           \* "lost" mark those whose callback a stop or a failure has removed
  port,    \* of each call: the connection whose port it got
  thread   \* of each connection

vars == <<mOutgoingSocketThreads, mIncomingSocketThreads,
          mOutgoingConnectionCallbacks, call, port, thread>>

None == 0
Ways == {"send", "receive"}

(* A connection: where it is (pc), whose call's callback its listener has  *)
(* kept, mIsClosing, the server socket that it listens on, the Bluetooth   *)
(* socket, mLocalhostSocket, the other end of that one, and the sending    *)
(* and the receiving thread.  twin remembers of an incoming connection     *)
(* that there has been another one of its peer in the model with it; no    *)
(* step looks at it.                                                       *)
NoThread == [dir |-> "none", peer |-> None, pc |-> "none", callback |-> None,
             mIsClosing |-> FALSE, server |-> FALSE, bluetooth |-> FALSE,
             local |-> "null", app |-> "none", twin |-> FALSE,
             copy |-> [w \in Ways |-> "none"]]

Fresh == {c \in Ids : thread[c].pc = "none"
                        /\ \A d \in Ids : d < c => thread[d].pc # "none"}
At(pc) == {c \in Ids : thread[c].pc = pc}
Is(c, pc) == thread[c].pc = pc

\* What the callback of a call hears.  A call that stop has dropped may still
\* get an answer; no call should get two.
Heard(calls, k, answer) ==
  IF k = None THEN calls
  ELSE [calls EXCEPT ![k] = CASE @ = "waiting" -> answer
                              [] @ = "dropped" -> "late"
                              [] OTHER         -> "twice"]

-----------------------------------------------------------------------------
(* SocketThreadBase.close and OutgoingSocketThread.close.  A copying       *)
(* thread that is stopped reports nothing, unless it is about to.          *)

\* Broken: the server socket stays.
ClosedKeepsServer(t) ==
  [t EXCEPT !.mIsClosing = TRUE, !.bluetooth = FALSE, !.local = "null",
            !.app  = IF t.local = "open" THEN "closed" ELSE @,
            !.copy = [w \in Ways |->
                        IF @[w] \in {"running", "end", "done"} THEN "over" ELSE @[w]]]

Closed(t) ==
  [t EXCEPT !.mIsClosing = TRUE, !.server = FALSE, !.bluetooth = FALSE,
            !.local = "null",
            !.app  = IF t.local = "open" THEN "closed" ELSE @,
            !.copy = [w \in Ways |->
                        IF @[w] \in {"running", "end", "done"} THEN "over" ELSE @[w]]]

\* findSocketThread: the place of a peer's outgoing connection, 0 for none.
FindSocketThread(p) ==
  SelectInSeq(mOutgoingSocketThreads, LAMBDA c : thread[c].peer = p)

\* closeAndRemoveOutgoingConnectionThread: by the peer, so whichever connection
\* is there; th is what the threads are otherwise.
CloseAndRemoveOutgoing(p, th) ==
  IF FindSocketThread(p) = 0
  THEN /\ thread' = th
       /\ UNCHANGED <<mOutgoingSocketThreads, mOutgoingConnectionCallbacks, call>>
  ELSE LET i == FindSocketThread(p)
           c == mOutgoingSocketThreads[i] IN
       /\ thread' = [th EXCEPT ![c] = Closed(@)]
       /\ mOutgoingSocketThreads' = RemoveAt(mOutgoingSocketThreads, i)
       /\ mOutgoingConnectionCallbacks' =
            [mOutgoingConnectionCallbacks EXCEPT ![p] = None]
       /\ LET k == mOutgoingConnectionCallbacks[p]
          IN  call' = IF k # None THEN [call EXCEPT ![k] = "lost"] ELSE call

\* The incoming connections in the model that equal c: those of its peer.
Equals(c) == {d \in mIncomingSocketThreads : thread[d].peer = thread[c].peer}

\* Broken: the connection is removed, not closed.
RemoveIncomingOnly(c, th) ==
  /\ thread' = th
  /\ mIncomingSocketThreads' = IF c \in mIncomingSocketThreads
                               THEN mIncomingSocketThreads \ {Min(Equals(c))}
                               ELSE mIncomingSocketThreads

\* closeAndRemoveIncomingConnectionThread: the connection that is found by its own
\* id is closed, but what is removed is the first that equals it.
CloseAndRemoveIncoming(c, th) ==
  IF c \in mIncomingSocketThreads
  THEN /\ thread' = [th EXCEPT ![c] = Closed(@)]
       /\ mIncomingSocketThreads' = mIncomingSocketThreads \ {Min(Equals(c))}
  ELSE /\ thread' = th
       /\ UNCHANGED mIncomingSocketThreads

\* onDone, onDisconnected and onTransferError of the two listeners.
Disconnected(c, th) ==
  \/ /\ thread[c].dir = "out"
     /\ CloseAndRemoveOutgoing(thread[c].peer, th)
     /\ UNCHANGED <<mIncomingSocketThreads, port>>
  \/ /\ thread[c].dir = "in"
     /\ CloseAndRemoveIncoming(c, th)
     /\ UNCHANGED <<mOutgoingSocketThreads, mOutgoingConnectionCallbacks,
                    call, port>>

\* The threads of an earlier connection to a peer that is closed have run off
\* by the time there is another one.
Settled(p) ==
  Preempts \/ \A c \in Ids : thread[c].dir = "out" /\ thread[c].peer = p /\ thread[c].mIsClosing
     => thread[c].pc = "over" /\ \A w \in Ways : thread[c].copy[w] \in {"none", "over"}

-----------------------------------------------------------------------------
(* JavaScript: connect and stop. *)

\* A connection that is set up by the main thread is not overtaken.
Undisturbed == Preempts \/ UNION {At(s) : s \in {"made", "added", "started", "accepted"}} = {}

\* A peer listener asks for one connection at a time.
Wants(p) ==
  \A c \in Ids : thread[c].dir = "out" /\ thread[c].peer = p
                   => \/ call[c] \in {"error", "dropped"}
                      \/ port[c] # None /\ thread[port[c]].app = "closed"

\* What the method connect of JXcoreExtension.java and hasOutgoingConnection
\* refuse for: a callback or a connection for the peer, or too many connections.
Busy(p) ==
  \/ mOutgoingConnectionCallbacks[p] # None
  \/ FindSocketThread(p) # 0
  \/ Len(mOutgoingSocketThreads) >= MAXIMUM_NUMBER_OF_CONNECTIONS

\* ConnectionHelper.connect, behind that method, which refuses also while the
\* radio is off.  If the library cannot begin, the callback stays.
Connect(c, p) ==
  /\ c \in Fresh /\ Wants(p) /\ Undisturbed
  /\ \E result \in {"refused"} \cup IF Busy(p) THEN {}
                                   ELSE {"begins"} \cup (Faults \cap {"start"}) :
       /\ call' = [call EXCEPT ![c] = IF result = "begins" THEN "waiting" ELSE "error"]
       /\ thread' = [thread EXCEPT ![c] =
             [@ EXCEPT !.dir = "out", !.peer = p,
                       !.pc = IF result = "begins" THEN "connecting" ELSE "over"]]
       /\ mOutgoingConnectionCallbacks' =
            [mOutgoingConnectionCallbacks EXCEPT ![p] =
               IF result = "refused" THEN @ ELSE c]
  /\ UNCHANGED <<mOutgoingSocketThreads, mIncomingSocketThreads, port>>

\* ConnectionHelper.stop: killConnections(false) and the library's
\* cancelAllConnectionAttempts; what the library has connected by then still
\* comes, if a stop can overtake it.
Stop ==
  /\ Undisturbed
  /\ \E late \in SUBSET IF Preempts THEN At("connecting") ELSE {} :
       thread' = [c \in Ids |->
                    CASE c \in ToSet(mOutgoingSocketThreads) -> Closed(thread[c])
                      [] c \in At("connecting") \ late ->
                           [thread[c] EXCEPT !.pc = "over"]
                      [] OTHER -> thread[c]]
  /\ mOutgoingSocketThreads' = <<>>
  /\ mOutgoingConnectionCallbacks' = [p \in Peers |-> None]
  /\ call' = [c \in Ids |-> IF call[c] = "waiting" THEN "dropped" ELSE call[c]]
  /\ UNCHANGED <<mIncomingSocketThreads, port>>

\* JavaScript connects to the port it was told, and closes that connection.
AppConnects(k) ==
  /\ call[k] \in {"port", "late"} /\ port[k] # None
  /\ LET c == port[k] IN
       /\ thread[c].app = "none"
       /\ IF thread[c].server THEN
            /\ Is(c, "accepting")
            /\ thread' = [thread EXCEPT ![c].app = "open", ![c].pc = "accepted"]
          ELSE thread' = [thread EXCEPT ![c].app = "closed"]
  /\ UNCHANGED <<mOutgoingSocketThreads, mIncomingSocketThreads,
                 mOutgoingConnectionCallbacks, call, port>>

AppCloses(c) ==
  /\ thread[c].app = "open"
  /\ thread' = [thread EXCEPT ![c].app = "closed"]
  /\ UNCHANGED <<mOutgoingSocketThreads, mIncomingSocketThreads,
                 mOutgoingConnectionCallbacks, call, port>>

-----------------------------------------------------------------------------
(* The main thread: what the Bluetooth library reports. *)

MainIsFree == At("made") \cup At("added") = {}

\* Broken: the callback is removed, not called.
ConnectionFailsSilently(c) ==
  /\ Is(c, "connecting") /\ MainIsFree
  /\ mOutgoingConnectionCallbacks' =
       [mOutgoingConnectionCallbacks EXCEPT ![thread[c].peer] = None]
  /\ thread' = [thread EXCEPT ![c].pc = "over"]
  /\ UNCHANGED <<mOutgoingSocketThreads, mIncomingSocketThreads, call, port>>

\* handleOutgoingConnectionFailure, onConnectionTimeout, or the streams of the new
\* socket cannot be had.
ConnectionFails(c) ==
  /\ Is(c, "connecting") /\ MainIsFree
  /\ LET p == thread[c].peer IN
       /\ call' = Heard(call, mOutgoingConnectionCallbacks[p], "error")
       /\ mOutgoingConnectionCallbacks' =
            [mOutgoingConnectionCallbacks EXCEPT ![p] = None]
  /\ thread' = [thread EXCEPT ![c].pc = "over"]
  /\ UNCHANGED <<mOutgoingSocketThreads, mIncomingSocketThreads, port>>

\* onConnected with a new thread, which keeps the callback there is.
OnConnected(c, dir, p) ==
  /\ MainIsFree
  /\ thread' = [thread EXCEPT ![c] =
                  [@ EXCEPT !.dir = dir, !.peer = p, !.pc = "made",
                            !.bluetooth = TRUE,
                            !.callback = IF dir = "out"
                                         THEN mOutgoingConnectionCallbacks[p]
                                         ELSE None]]
  /\ UNCHANGED <<mOutgoingSocketThreads, mIncomingSocketThreads,
                 mOutgoingConnectionCallbacks, call, port>>

HandleOutgoingConnection(c) ==
  /\ Is(c, "connecting") /\ Settled(thread[c].peer)
  /\ OnConnected(c, "out", thread[c].peer)
HandleIncomingConnection(c, p) == c \in Fresh /\ OnConnected(c, "in", p)

\* addConnectionThread: a thread without its peer's properties equals none.
AddConnectionThread(c) ==
  /\ Is(c, "made")
  /\ IF thread[c].dir = "out"
     THEN /\ thread' = [thread EXCEPT ![c].pc = "added"]
          /\ mOutgoingSocketThreads' = Append(mOutgoingSocketThreads, c)
          /\ UNCHANGED mIncomingSocketThreads
     ELSE /\ thread' = [d \in Ids |->
                [thread[d] EXCEPT !.pc = IF d = c THEN "added" ELSE @,
                                  !.twin = \/ @ \/ d \in Equals(c)
                                           \/ d = c /\ Equals(c) # {}]]
          /\ mIncomingSocketThreads' = mIncomingSocketThreads \cup {c}
          /\ UNCHANGED mOutgoingSocketThreads
  /\ UNCHANGED <<mOutgoingConnectionCallbacks, call, port>>

StartThread(c) ==
  /\ Is(c, "added")
  /\ thread' = [thread EXCEPT ![c].pc = "started"]
  /\ UNCHANGED <<mOutgoingSocketThreads, mIncomingSocketThreads,
                 mOutgoingConnectionCallbacks, call, port>>

-----------------------------------------------------------------------------
(* run of OutgoingSocketThread and of IncomingSocketThread. *)

\* A step of one thread that touches nothing else.
Moves(c, t) ==
  /\ thread' = [thread EXCEPT ![c] = t]
  /\ UNCHANGED <<mOutgoingSocketThreads, mIncomingSocketThreads,
                 mOutgoingConnectionCallbacks, call, port>>

\* mIsClosing is reset, whatever came before, and the server socket is bound.
Bind(c) ==
  /\ Is(c, "started") /\ thread[c].dir = "out"
  /\ Moves(c, [thread[c] EXCEPT !.mIsClosing = FALSE, !.server = TRUE,
                                !.pc = "bound"])

\* There is no server socket: onDisconnected, and JavaScript hears nothing.
BindFails(c) ==
  /\ "bind" \in Faults /\ Is(c, "started") /\ thread[c].dir = "out"
  /\ Disconnected(c, [thread EXCEPT ![c].mIsClosing = FALSE, ![c].pc = "unbound"])

\* Broken: the callback stays.
ListeningKeepsCallback(c) ==
  /\ Is(c, "bound") /\ thread[c].server
  /\ LET k == thread[c].callback IN
       /\ call' = Heard(call, k, "port")
       /\ port' = IF k = None THEN port ELSE [port EXCEPT ![k] = c]
  /\ thread' = [thread EXCEPT ![c].pc = "accepting"]
  /\ UNCHANGED <<mOutgoingSocketThreads, mIncomingSocketThreads,
                 mOutgoingConnectionCallbacks>>

\* onListeningForIncomingConnections; a server socket that is gone is a
\* NullPointerException, which ends the thread.
Listening(c) ==
  /\ Is(c, "bound") /\ thread[c].server
  /\ LET k == thread[c].callback IN
       /\ call' = Heard(call, k, "port")
       /\ port' = IF k = None THEN port ELSE [port EXCEPT ![k] = c]
  /\ mOutgoingConnectionCallbacks' =
       [mOutgoingConnectionCallbacks EXCEPT ![thread[c].peer] = None]
  /\ thread' = [thread EXCEPT ![c].pc = "accepting"]
  /\ UNCHANGED <<mOutgoingSocketThreads, mIncomingSocketThreads>>

NotListening(c) ==
  /\ thread[c].pc \in {"bound", "accepting"} /\ ~thread[c].server
  /\ Moves(c, [thread[c] EXCEPT !.pc = "over"])

\* accept has returned: mLocalhostSocket is assigned.
Accept(c) ==
  /\ Is(c, "accepted")
  /\ Moves(c, [thread[c] EXCEPT !.local = "open", !.pc = "assigned"])

\* The socket's configuration and streams: an IOException from a socket that
\* failed, a NullPointerException if close has come between.
Streams(c) ==
  /\ Is(c, "assigned") /\ thread[c].server /\ thread[c].local # "null"
  /\ Moves(c, [thread[c] EXCEPT !.pc = "ready"])

NoStreams(c) ==
  /\ Is(c, "assigned")
  /\ \/ ~thread[c].server \/ thread[c].local = "null"
     \/ thread[c].app = "closed" /\ thread[c].mIsClosing
  /\ Moves(c, [thread[c] EXCEPT !.pc = "over"])

StreamsFail(c) ==
  /\ Is(c, "assigned") /\ thread[c].app = "closed" /\ ~thread[c].mIsClosing
  /\ Disconnected(c, [thread EXCEPT ![c].pc = "over", ![c].server = FALSE])

\* IncomingSocketThread connects to the router's port.
ConnectsToRouter(c) ==
  /\ Is(c, "started") /\ thread[c].dir = "in"
  /\ Moves(c, [thread[c] EXCEPT !.mIsClosing = FALSE, !.local = "open",
                                !.app = "open", !.pc = "ready"])

RouterFails(c) ==
  /\ Is(c, "started") /\ thread[c].dir = "in"
  /\ Disconnected(c, [thread EXCEPT ![c].mIsClosing = FALSE, ![c].pc = "over"])

\* startStreamCopyingThreads, which is synchronized on the thread.
StartCopying(c) ==
  /\ Is(c, "ready") /\ thread[c].local # "null"
  /\ Moves(c, [thread[c] EXCEPT !.copy = [w \in Ways |-> "running"],
                                !.pc = "copying"])

\* Its socket is gone: it holds its monitor, and its listener waits for the
\* model's.
NothingToCopy(c) ==
  /\ Is(c, "ready") /\ thread[c].local = "null"
  /\ Moves(c, [thread[c] EXCEPT !.pc = "refusing"])

Refuse(c) ==
  /\ Is(c, "refusing")
  /\ Disconnected(c, [thread EXCEPT ![c].pc = "over"])

\* The end of run.
Exit(c) ==
  /\ Is(c, "copying")
  /\ Moves(c, [thread[c] EXCEPT !.server = FALSE, !.pc = "over"])

-----------------------------------------------------------------------------
(* StreamCopyingThread.run: "send" reads the local socket and writes to    *)
(* the Bluetooth socket, "receive" does the reverse.                       *)

InputEnds(t, w) == IF w = "send" THEN t.app = "closed" \/ t.local = "closed" ELSE ~t.bluetooth
OutputFails(t, w) == InputEnds(t, IF w = "send" THEN "receive" ELSE "send")

\* closeOutputStream closes the socket too.
OutputClosed(t, w) ==
  IF w = "send" THEN [t EXCEPT !.bluetooth = FALSE]
  ELSE [t EXCEPT !.local = IF @ = "open" THEN "closed" ELSE @,
                 !.app = IF t.local = "open" THEN "closed" ELSE @]

\* The end of the input.
InputDone(c, w) ==
  /\ thread[c].copy[w] = "running" /\ InputEnds(thread[c], w)
  /\ Moves(c, [OutputClosed(thread[c], w) EXCEPT !.copy[w] = "end"])

\* Broken: a thread is done after it has reported.
CopyingDoneLate(c, w) ==
  /\ thread[c].copy[w] = "end"
  /\ Moves(c, [thread[c] EXCEPT !.copy[w] =
                 IF \A v \in Ways : thread[c].copy[v] = "done"
                 THEN "telling" ELSE "done"])

\* onStreamCopyingThreadDone, which tells the listener when both inputs have
\* ended.
CopyingDone(c, w) ==
  /\ thread[c].copy[w] = "end"
  /\ Moves(c, [thread[c] EXCEPT !.copy[w] =
                 IF \A v \in Ways : thread[c].copy[v] \in {"end", "done", "telling"}
                 THEN "telling" ELSE "done"])

\* An exception in reading or writing; onStreamCopyError looks at mIsClosing.
CopyingFails(c, w) ==
  /\ thread[c].copy[w] = "running"
  /\ InputEnds(thread[c], w) \/ OutputFails(thread[c], w)
  /\ Moves(c, [thread[c] EXCEPT !.copy[w] =
                 IF thread[c].mIsClosing THEN "over" ELSE "failing"])

\* onDone or onTransferError.
Tell(c, w) ==
  /\ thread[c].copy[w] \in {"telling", "failing"}
  /\ Disconnected(c, [thread EXCEPT ![c].copy[w] = "over"])

\* The peer is gone.
BluetoothBreaks(c) ==
  /\ thread[c].bluetooth
  /\ Moves(c, [thread[c] EXCEPT !.bluetooth = FALSE])

-----------------------------------------------------------------------------
Init ==
  /\ mOutgoingSocketThreads = <<>>
  /\ mIncomingSocketThreads = {}
  /\ mOutgoingConnectionCallbacks = [p \in Peers |-> None]
  /\ call = [c \in Ids |-> "none"]
  /\ port = [c \in Ids |-> None]
  /\ thread = [c \in Ids |-> NoThread]

JavaScript ==
  \/ Stop
  \/ \E c \in Ids : AppCloses(c) \/ \E p \in Peers : Connect(c, p)

Library(c) ==
  ConnectionFails(c) \/ HandleOutgoingConnection(c)

Runs(c) ==
  \/ AddConnectionThread(c) \/ StartThread(c)
  \/ Bind(c) \/ BindFails(c) \/ Listening(c) \/ NotListening(c)
  \/ Accept(c) \/ Streams(c) \/ NoStreams(c) \/ StreamsFail(c)
  \/ ConnectsToRouter(c) \/ RouterFails(c)
  \/ StartCopying(c) \/ NothingToCopy(c) \/ Refuse(c) \/ Exit(c)

Copies(c, w) ==
  InputDone(c, w) \/ CopyingDone(c, w) \/ CopyingFails(c, w) \/ Tell(c, w)

Next ==
  \/ JavaScript
  \/ \E c \in Ids :
       \/ Library(c) \/ Runs(c) \/ AppConnects(c) \/ BluetoothBreaks(c)
       \/ \E w \in Ways : Copies(c, w)
       \/ \E p \in Peers : HandleIncomingConnection(c, p)

Spec == Init /\ [][Next]_vars

LiveSpec ==
  /\ Spec
  /\ \A c \in Ids :
       /\ WF_vars(Library(c)) /\ WF_vars(Runs(c)) /\ WF_vars(AppConnects(c))
       /\ \A w \in Ways : WF_vars(Copies(c, w))

-----------------------------------------------------------------------------
(* Properties *)

InModel == ToSet(mOutgoingSocketThreads) \cup mIncomingSocketThreads
Gone(c) == thread[c].pc \notin {"none", "connecting", "made"} /\ c \notin InModel

Threads ==
  [dir : {"none", "out", "in"}, peer : Peers \cup {None},
   pc : {"none", "connecting", "made", "added", "started", "bound", "unbound",
         "accepting", "accepted", "assigned", "ready", "refusing", "copying", "over"},
   callback : Ids \cup {None}, mIsClosing : BOOLEAN, server : BOOLEAN,
   bluetooth : BOOLEAN, local : {"null", "open", "closed"},
   app : {"none", "open", "closed"}, twin : BOOLEAN,
   copy : [Ways -> {"none", "running", "end", "done", "telling", "failing", "over"}]]

TypeOK ==
  /\ mOutgoingSocketThreads \in Seq(Ids)
  /\ mIncomingSocketThreads \subseteq Ids
  /\ mOutgoingConnectionCallbacks \in [Peers -> Ids \cup {None}]
  /\ call \in [Ids -> {"none", "waiting", "port", "error", "dropped", "late",
                       "lost", "twice"}]
  /\ port \in [Ids -> Ids \cup {None}]
  /\ thread \in [Ids -> Threads]

\* Nothing of a connection outlives its removal from the ConnectionModel, which
\* three threads, a stop and the failures of either side race for: its sockets
\* are closed, and a thread that still holds its own monitor, waiting for that of
\* the model, is not one that the model's owner would close.  Not so with an
\* incoming connection that shares the model with another one of its peer: when
\* either ends, it may be the other that is removed, with its sockets open.
GoneIsClosed ==
  \A c \in Ids : Gone(c) /\ ~thread[c].twin =>
    ~thread[c].server /\ ~thread[c].bluetooth /\ thread[c].local # "open"
NoDeadlock == \A c \in At("refusing") : c \notin InModel
NothingOutlives == GoneIsClosed /\ NoDeadlock

\* A call of connect is answered once at most, and its callback is there exactly
\* as long as JavaScript waits for it: one that is left would refuse every later
\* call for the peer, one that is lost would leave the peer's listener waiting.
\* (A server socket that cannot be bound does lose it.)  A connection that waits
\* for JavaScript to connect is one that JavaScript knows the port of, and no peer
\* has two.
CallbackIsAwaited ==
  /\ \A p \in Peers : LET k == mOutgoingConnectionCallbacks[p]
                      IN  k # None => call[k] = "waiting"
  /\ \A k \in Ids : call[k] = "waiting" => mOutgoingConnectionCallbacks[thread[k].peer] = k
  /\ \A k \in Ids : call[k] = "lost" => \E c \in At("unbound") : thread[c].callback = k
AnsweredOnce == \A k \in Ids : call[k] # "twice"
ConnectionIsKnown ==
  /\ \A c \in At("accepting") \cap InModel : \E k \in Ids : port[k] = c
  /\ \A i, j \in DOMAIN mOutgoingSocketThreads :
       thread[mOutgoingSocketThreads[i]].peer = thread[mOutgoingSocketThreads[j]].peer
         => i = j
CallsAreKept == TypeOK /\ CallbackIsAwaited /\ AnsweredOnce /\ ConnectionIsKnown

\* Every call of connect comes to an end, whichever of the library, the
\* connection's threads and a stop is first.
Answered == \A k \in Ids : call[k] = "waiting" ~> call[k] # "waiting"

\* A connection that has ended on one side, the Bluetooth socket or the local one,
\* leaves the model, so that its peer can be connected to again; or else it is one
\* of two incoming ones of a peer, of which the wrong one may have left.
Ended(c) == c \in InModel /\ (~thread[c].bluetooth \/ thread[c].app = "closed")
ConnectionsEnd ==
  \A c \in Ids : Ended(c) ~> (c \notin InModel \/ thread[c].twin)

\* Both: nobody waits for ever, and nothing stays in the way of a new connection.
EverythingEnds == Answered /\ ConnectionsEnd

\* What does not hold: a callback that is never lost (Faults "bind"), one that is
\* removed when the attempt fails to start (Faults "start", CallbackIsAwaited).
NothingIsLost == \A k \in Ids : call[k] # "lost"

\* Nor that closeAndRemoveIncomingConnectionThread "closes and removes an incoming
\* connection thread with the given ID", as its comment says: with two incoming
\* connections of a peer the older may be out of the model and open, and the newer
\* in the model and closed for ever.
IncomingIsClosed ==
  \A c \in Ids : (Gone(c) /\ thread[c].dir = "in") =>
    ~thread[c].bluetooth /\ thread[c].local # "open"
EachLeaves == \A c \in Ids : Ended(c) ~> c \notin InModel
=============================================================================
