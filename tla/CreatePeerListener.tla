------------------------- MODULE CreatePeerListener -------------------------
(***************************************************************************)
(* createPeerListener.js once its servers listen: the servers that stand   *)
(* for one peer, one after the other, each with the one connection to the  *)
(* native layer that its first application asked for, the multiplex object *)
(* on it, and the streams of the applications.  How listeners open, fail   *)
(* to and are announced is in ThaliPeerAvailability.                       *)
(***************************************************************************)
EXTENDS Integers, FiniteSets

CONSTANTS
  Apps,        \* the connections that applications make
  MaxServers   \* bound on the servers, one after the other

ASSUME PeerListenerAssumption == MaxServers \in Nat /\ 0 \notin Apps

VARIABLES
  manager,     \* _state of the servers manager: "started" or "stopped"
  server,      \* of each server: not there, listening, to be created again
  outgoing,    \* its connection to the native layer; none as long as
               \* _firstConnection is true, "failed" when it could not be made
  mux,         \* the multiplex object on it; once it is there, muxPromise is
               \* resolved
  incoming,    \* of each connection of an application: its socket,
  at,          \* the server it is on, 0 for none,
  stream       \* and its stream: before onNewConnection's continuation
               \* "waiting", "never" when it was too late for one

peerVars == <<manager, server, outgoing, mux, incoming, at, stream>>
Servers == 1 .. MaxServers

ListeningServers == {g \in Servers : server[g] = "listening"}
FreshServers     == {g \in Servers : server[g] = "none"
                                /\ \A h \in Servers : h < g => server[h] # "none"}

\* What is left of the sockets and streams of some applications after destroy:
\* the handlers of both take the other one along.
Destroyed(cs) ==
  /\ incoming' = [c \in Apps |-> IF c \in cs THEN "closed" ELSE incoming[c]]
  /\ stream'   = [c \in Apps |-> IF c \in cs /\ stream[c] = "open"
                                 THEN "closed" ELSE stream[c]]

AppsOf(g) == {c \in Apps : at[c] = g}

\* closeServer: nothing happens if the server was closed before.  The multiplex
\* object takes its streams along and ends the connection to the native layer.
CloseServer(g, canRetry) ==
  IF server[g] # "listening"
  THEN UNCHANGED <<server, mux, outgoing, incoming, stream>>
  ELSE /\ server' = [server EXCEPT ![g] = IF canRetry THEN "retry" ELSE "closed"]
       /\ mux' = [mux EXCEPT ![g] = IF @ = "open" THEN "destroyed" ELSE @]
       /\ outgoing' = [outgoing EXCEPT ![g] = IF mux[g] = "open" /\ @ = "open"
                                              THEN "ending" ELSE @]
       /\ Destroyed(AppsOf(g))

-----------------------------------------------------------------------------
(* Servers. *)

CreatePeerListener ==
  /\ manager = "started" /\ ListeningServers = {}
  /\ \A g \in Servers : server[g] # "retry"
  /\ \E g \in FreshServers : server' = [server EXCEPT ![g] = "listening"]
  /\ UNCHANGED <<manager, outgoing, mux, incoming, at, stream>>

\* The next tick after closeServer; after a stop nothing is created.
Recreate(g) ==
  /\ server[g] = "retry"
  /\ manager = "started" => FreshServers # {}
  /\ server' = [h \in Servers |->
                  IF h = g THEN "closed"
                  ELSE IF h \in FreshServers /\ manager = "started" THEN "listening"
                  ELSE server[h]]
  /\ UNCHANGED <<manager, outgoing, mux, incoming, at, stream>>

TerminateOutgoingConnection ==
  /\ \E g \in ListeningServers : CloseServer(g, FALSE)
  /\ UNCHANGED <<manager, at>>

RecreatePeerListener ==
  /\ \E g \in ListeningServers : CloseServer(g, TRUE)
  /\ UNCHANGED <<manager, at>>

\* stop: the servers and the applications' sockets are closed; the multiplex
\* object and its connection are left to themselves.
StopPeerServers ==
  /\ manager = "started"
  /\ manager' = "stopped"
  /\ server' = [g \in Servers |-> IF server[g] = "listening" THEN "closed"
                                  ELSE server[g]]
  /\ Destroyed(UNION {AppsOf(g) : g \in ListeningServers})
  /\ UNCHANGED <<outgoing, mux, at>>

-----------------------------------------------------------------------------
(* The connection to the native layer. *)

\* Mobile('connect') answers, no matter what has become of the server.
ConnectSucceeds(g) ==
  /\ outgoing[g] = "calling"
  /\ outgoing' = [outgoing EXCEPT ![g] = "connecting"]
  /\ UNCHANGED <<manager, server, mux, incoming, at, stream>>

\* The calls it can fail in; both end with closeServer, and the applications
\* that wait are ended.
OutgoingFails(g) ==
  /\ outgoing[g] \in {"calling", "connecting"}
  /\ outgoing' = [outgoing EXCEPT ![g] = "failed"]
  /\ server' = [server EXCEPT ![g] = IF @ = "listening" THEN "retry" ELSE @]
  /\ Destroyed(AppsOf(g))
  /\ UNCHANGED <<manager, mux, at>>

\* multiplexToNativeListener
OutgoingConnects(g) ==
  /\ outgoing[g] = "connecting"
  /\ outgoing' = [outgoing EXCEPT ![g] = "open"]
  /\ mux' = [mux EXCEPT ![g] = "open"]
  /\ UNCHANGED <<manager, server, incoming, at, stream>>

\* Broken: the server goes on with a multiplex object that is destroyed.
OutgoingClosesOnly(g) ==
  /\ outgoing[g] \in {"open", "ending"}
  /\ outgoing' = [outgoing EXCEPT ![g] = "closed"]
  /\ mux' = [mux EXCEPT ![g] = "destroyed"]
  /\ UNCHANGED <<manager, server, incoming, at, stream>>

\* close, in the end: the multiplex object is destroyed with all its streams,
\* and the server is closed to be created again.
OutgoingCloses(g) ==
  /\ outgoing[g] \in {"open", "ending"}
  /\ outgoing' = [outgoing EXCEPT ![g] = "closed"]
  /\ mux' = [mux EXCEPT ![g] = "destroyed"]
  /\ server' = [server EXCEPT ![g] = IF @ = "listening" THEN "retry" ELSE @]
  /\ Destroyed(AppsOf(g))
  /\ UNCHANGED <<manager, at>>

-----------------------------------------------------------------------------
(* Applications. *)

\* onNewConnection
IncomingConnects(c) ==
  /\ at[c] = 0
  /\ \E g \in ListeningServers :
       /\ at' = [at EXCEPT ![c] = g]
       /\ outgoing' = [outgoing EXCEPT ![g] = IF @ = "none" THEN "calling" ELSE @]
  /\ incoming' = [incoming EXCEPT ![c] = "open"]
  /\ stream' = [stream EXCEPT ![c] = "waiting"]
  /\ UNCHANGED <<manager, server, mux>>

\* Broken: the socket is not looked at.
CreateStreamAnyhow(c) ==
  /\ stream[c] = "waiting"
  /\ mux[at[c]] # "none"
  /\ stream' = [stream EXCEPT ![c] = "open"]
  /\ UNCHANGED <<manager, server, outgoing, mux, incoming, at>>

\* The continuation of muxPromise once it is resolved: a socket that was closed
\* in the meantime gets no stream.
CreateStream(c) ==
  /\ stream[c] = "waiting"
  /\ mux[at[c]] # "none"
  /\ stream' = [stream EXCEPT ![c] = IF incoming[c] = "closed" THEN "never"
                                     ELSE "open"]
  /\ UNCHANGED <<manager, server, outgoing, mux, incoming, at>>

\* The same once it is rejected.
NoStream(c) ==
  /\ stream[c] = "waiting"
  /\ outgoing[at[c]] = "failed"
  /\ stream' = [stream EXCEPT ![c] = "never"]
  /\ incoming' = [incoming EXCEPT ![c] = "closed"]
  /\ UNCHANGED <<manager, server, outgoing, mux, at>>

\* The application closes its connection, or the other end its stream.
IncomingCloses(c) ==
  /\ incoming[c] = "open"
  /\ Destroyed({c})
  /\ UNCHANGED <<manager, server, outgoing, mux, at>>

StreamCloses(c) ==
  /\ stream[c] = "open"
  /\ Destroyed({c})
  /\ UNCHANGED <<manager, server, outgoing, mux, at>>

PeerInit ==
  /\ manager = "started"
  /\ server = [g \in Servers |-> "none"]
  /\ outgoing = [g \in Servers |-> "none"]
  /\ mux = [g \in Servers |-> "none"]
  /\ incoming = [c \in Apps |-> "none"]
  /\ at = [c \in Apps |-> 0]
  /\ stream = [c \in Apps |-> "none"]
=============================================================================
