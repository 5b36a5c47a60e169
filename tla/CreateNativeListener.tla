------------------------ MODULE CreateNativeListener ------------------------
(***************************************************************************)
(* createNativeListener.js: the server that the native layer connects to   *)
(* for remote peers, each of its connections with a multiplex object, and  *)
(* each stream that appears there with a connection to the router.         *)
(***************************************************************************)
EXTENDS Integers

CONSTANTS
  Links,     \* the connections from remote peers
  Streams    \* the streams they open

VARIABLES
  nativeServer,  \* is it up
  native,        \* of each link: its socket, "reset" when it was closed without
                 \* an end by the other side before,
  nativeMux,     \* and its multiplex object
  on,            \* of each stream: its link,
  muxStream,     \* the stream itself,
  router         \* and its connection to the router

nativeVars == <<nativeServer, native, nativeMux, on, muxStream, router>>

\* The multiplex objects of some links go with all their streams, whose close
\* events end the connections to the router.
MuxesDestroyed(links) ==
  LET gone == {s \in Streams : on[s] \in links /\ muxStream[s] # "closed"}
  IN  /\ nativeMux' = [l \in Links |-> IF l \in links /\ nativeMux[l] = "open"
                                       THEN "closed" ELSE nativeMux[l]]
      /\ muxStream' = [s \in Streams |-> IF s \in gone THEN "closed"
                                         ELSE muxStream[s]]
      /\ router' = [s \in Streams |-> IF s \in gone THEN "closed" ELSE router[s]]

-----------------------------------------------------------------------------
(* The socket of a remote peer. *)

Connection(l) ==
  /\ nativeServer /\ native[l] = "none"
  /\ native' = [native EXCEPT ![l] = "open"]
  /\ nativeMux' = [nativeMux EXCEPT ![l] = "open"]
  /\ UNCHANGED <<nativeServer, on, muxStream, router>>

\* Broken: only the socket is destroyed.
TimeoutKeepsMux(l) ==
  /\ native[l] = "open"
  /\ native' = [native EXCEPT ![l] = "closed"]
  /\ UNCHANGED <<nativeServer, nativeMux, on, muxStream, router>>

Timeout(l) ==
  /\ native[l] = "open"
  /\ native' = [native EXCEPT ![l] = "closed"]
  /\ MuxesDestroyed({l})
  /\ UNCHANGED <<nativeServer, on>>

\* The other side ends it: the end is piped into the multiplex object, which
\* finishes.
IncomingEnds(l) ==
  /\ native[l] = "open"
  /\ native' = [native EXCEPT ![l] = "closed"]
  /\ MuxesDestroyed({l})
  /\ UNCHANGED <<nativeServer, on>>

\* It is closed with an error: nothing is piped, and close does not look at the
\* multiplex object.
IncomingResets(l) ==
  /\ native[l] = "open"
  /\ native' = [native EXCEPT ![l] = "reset"]
  /\ UNCHANGED <<nativeServer, nativeMux, on, muxStream, router>>

\* stop: closeAll destroys the sockets, the close event that comes before theirs
\* the multiplex objects of those that were still open.
StopNativeServer ==
  /\ nativeServer
  /\ nativeServer' = FALSE
  /\ native' = [l \in Links |-> IF native[l] = "open" THEN "closed" ELSE native[l]]
  /\ MuxesDestroyed({l \in Links : native[l] = "open"})
  /\ UNCHANGED on

-----------------------------------------------------------------------------
(* Streams. *)

\* onStream
OnStream(s, l) ==
  /\ nativeMux[l] = "open" /\ native[l] = "open" /\ muxStream[s] = "none"
  /\ on' = [on EXCEPT ![s] = l]
  /\ muxStream' = [muxStream EXCEPT ![s] = "open"]
  /\ router' = [router EXCEPT ![s] = "connecting"]
  /\ UNCHANGED <<nativeServer, native, nativeMux>>

RouterConnects(s) ==
  /\ router[s] = "connecting"
  /\ router' = [router EXCEPT ![s] = "open"]
  /\ UNCHANGED <<nativeServer, native, nativeMux, on, muxStream>>

\* An error before or after it connected, which is reported to the native wrapper
\* (see ThaliManager); close follows in any case.
RouterFails(s) ==
  /\ router[s] \in {"connecting", "open"}
  /\ router' = [router EXCEPT ![s] = "closed"]
  /\ muxStream' = [muxStream EXCEPT ![s] = "closed"]
  /\ UNCHANGED <<nativeServer, native, nativeMux, on>>

RouterCloses(s) ==
  /\ router[s] = "open"
  /\ router' = [router EXCEPT ![s] = "closed"]
  /\ muxStream' = [muxStream EXCEPT ![s] = "closed"]
  /\ UNCHANGED <<nativeServer, native, nativeMux, on>>

\* finish and close: the remote application is gone.
StreamEnds(s) ==
  /\ muxStream[s] = "open"
  /\ muxStream' = [muxStream EXCEPT ![s] = "closed"]
  /\ router' = [router EXCEPT ![s] = "closed"]
  /\ UNCHANGED <<nativeServer, native, nativeMux, on>>

NativeInit ==
  /\ nativeServer = TRUE
  /\ native = [l \in Links |-> "none"]
  /\ nativeMux = [l \in Links |-> "none"]
  /\ on = [s \in Streams |-> 0]
  /\ muxStream = [s \in Streams |-> "none"]
  /\ router = [s \in Streams |-> "none"]
=============================================================================
