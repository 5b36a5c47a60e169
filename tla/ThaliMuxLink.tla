---------------------------- MODULE ThaliMuxLink ----------------------------
(***************************************************************************)
(* Two devices at the two ends of the multiplexed connections between them:*)
(* thaliTcpServersManager.js of the one stands for the other as its peer   *)
(* listeners, that of the other receives the connections with its native   *)
(* listener.  Between them is the native layer with its radio: it carries  *)
(* what one end sends to the other in order, and may break at any time,    *)
(* which either end sees as an end or as an error.                         *)
(***************************************************************************)
EXTENDS CreatePeerListener

CONSTANT Resets   \* may the receiving end see an error

VARIABLES nativeServer, native, nativeMux, on, muxStream, router

Native == INSTANCE CreateNativeListener WITH Links <- Servers, Streams <- Apps

nativeVars == <<nativeServer, native, nativeMux, on, muxStream, router>>
linkVars == <<peerVars, nativeVars>>

\* Handlers of the one end, of the other one.
Here(A)  == A /\ UNCHANGED nativeVars
There(A) == A /\ UNCHANGED peerVars

-----------------------------------------------------------------------------
(* What the native layer carries. *)

\* A connection gets through to the receiving end, which may have stopped.
Through(g)    == outgoing[g] # "none" /\ Native!Connection(g)
\* Each end learns that the other one is gone.
HereIsGone(g)  == native[g] \in {"closed", "reset"} \/ ~nativeServer
ThereIsGone(g) == outgoing[g] \in {"closed", "ending", "failed"}
\* Frames of a stream.
Opens(c)      == at[c] # 0 /\ stream[c] \in {"open", "closed"}
                   /\ Native!OnStream(c, at[c])
ClosedHere(c)  == stream[c] = "closed" /\ native[at[c]] = "open"
ClosedThere(c) == muxStream[c] = "closed" /\ outgoing[at[c]] = "open"

LinkInit == PeerInit /\ Native!NativeInit

\* What servers, applications and the router do as they please.
Calls ==
  \/ Here(CreatePeerListener \/ TerminateOutgoingConnection
          \/ RecreatePeerListener \/ StopPeerServers)
  \/ \E c \in Apps : Here(IncomingConnects(c)) \/ Here(IncomingCloses(c))
  \/ There(Native!StopNativeServer)
  \/ \E c \in Apps : There(Native!RouterCloses(c) \/ Native!RouterFails(c))

\* What goes wrong.
Breaks(g) ==
  \/ Here(OutgoingFails(g))
  \/ Here(outgoing[g] = "open" /\ OutgoingCloses(g))
  \/ There(outgoing[g] # "none" /\ Native!IncomingEnds(g))
  \/ There(Resets /\ Native!IncomingResets(g))

Continues(c) ==
  \/ Here(CreateStream(c))
  \/ Here(NoStream(c))
  \/ Here(ClosedThere(c) /\ StreamCloses(c))
  \/ There(Opens(c))
  \/ There(ClosedHere(c) /\ Native!StreamEnds(c))
  \/ There(Native!RouterConnects(c))
  \/ There(router[c] = "connecting" /\ Native!RouterFails(c))

Quiet(g) == \A c \in AppsOf(g) : stream[c] # "open"

Connects(g) == Here(ConnectSucceeds(g) \/ OutgoingConnects(g) \/ OutgoingFails(g))
Idle(g)     == There(Native!Timeout(g))
Ends(g)     == \/ Here(HereIsGone(g) /\ OutgoingCloses(g))
               \/ Here(outgoing[g] = "ending" /\ OutgoingCloses(g))
               \/ There(ThereIsGone(g) /\ Native!IncomingEnds(g))
Reopens(g)  == Here(Recreate(g))

LinkNext ==
  \/ Calls
  \/ \E g \in Servers : \/ Breaks(g) \/ Connects(g) \/ There(Through(g))
                        \/ Idle(g) \/ Ends(g) \/ Reopens(g)
  \/ \E c \in Apps : Continues(c)

LinkSpec == LinkInit /\ [][LinkNext]_linkVars

\* The native layer answers, carries frames and ends, and times out what nobody
\* uses; continuations run, also that of the next tick.  Nobody has to close,
\* stop or break anything.
LinkFairness ==
  /\ \A g \in Servers :
       /\ WF_linkVars(Connects(g))
       /\ WF_linkVars(There(Through(g)))
       /\ WF_linkVars(Quiet(g) /\ Idle(g))
       /\ WF_linkVars(Ends(g))
       /\ WF_linkVars(Reopens(g))
  /\ \A c \in Apps : WF_linkVars(Continues(c))

LiveLinkSpec == LinkSpec /\ LinkFairness

-----------------------------------------------------------------------------
(* Properties *)

Sockets == {"none", "open", "closed"}
LinkTypeOK ==
  /\ manager \in {"started", "stopped"}
  /\ server \in [Servers -> {"none", "listening", "retry", "closed"}]
  /\ outgoing \in [Servers -> {"none", "calling", "connecting", "open", "ending",
                               "closed", "failed"}]
  /\ mux \in [Servers -> {"none", "open", "destroyed"}]
  /\ incoming \in [Apps -> Sockets]
  /\ at \in [Apps -> 0 .. MaxServers]
  /\ stream \in [Apps -> {"none", "waiting", "open", "closed", "never"}]
  /\ nativeServer \in BOOLEAN
  /\ native \in [Servers -> Sockets \cup {"reset"}]
  /\ nativeMux \in [Servers -> Sockets]
  /\ on \in [Apps -> 0 .. MaxServers]
  /\ muxStream \in [Apps -> Sockets]
  /\ router \in [Apps -> {"none", "connecting", "open", "closed"}]

\* A stream is open only as long as the application's connection it was made for
\* is, on the multiplex object of a server that still listens: an application
\* that has left while its server connected, or a server that was closed, gets
\* none that nobody would close again (issue #1473).
StreamHasConnection ==
  \A c \in Apps : stream[c] = "open" =>
    /\ incoming[c] = "open"
    /\ mux[at[c]] = "open" /\ server[at[c]] = "listening"

\* When an application has closed its connection, the connection to the router on
\* the other device that was opened for it is closed as well, unless the socket
\* below broke with an error there.
RouterConnectionsEnd ==
  \A c \in Apps :
    (incoming[c] = "closed" /\ router[c] \in {"connecting", "open"})
      ~> (router[c] = "closed" \/ \E g \in Servers : at[c] = g /\ native[g] = "reset")

\* A tunnel ends as a whole: when either end has gone, or the server it was made
\* for was closed, even before it was made, both its ends go, and the connections
\* of the applications on it.
TunnelEnds ==
  \A g \in Servers :
    (\/ native[g] \in {"closed", "reset"}
     \/ server[g] = "closed" /\ outgoing[g] # "none")
      ~> /\ outgoing[g] \in {"closed", "failed"} /\ native[g] # "open"
         /\ \A c \in AppsOf(g) : incoming[c] = "closed"

\* Both: whichever end goes first, the other one follows.
EveryEndFollows == RouterConnectionsEnd /\ TunnelEnds

\* A server whose tunnel broke is replaced by one that listens, unless the
\* servers manager is stopped.
ListenerComesBack ==
  \A g \in Servers :
    g < MaxServers =>
      (outgoing[g] \in {"closed", "failed"} /\ server[g] \in {"listening", "retry"})
        ~> (server[g + 1] # "none" \/ manager = "stopped")

\* src/thali/NextGeneration/mux/createNativeListener.js on the close event of the
\* incoming socket: "If this close is not the result of a destroy on the multiplex
\* object then destroy MUST be called on the multiplex object."
MuxFollowsSocket ==
  \A g \in Servers : native[g] \in {"closed", "reset"} => nativeMux[g] # "open"
=============================================================================
