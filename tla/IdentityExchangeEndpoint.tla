---------------------- MODULE IdentityExchangeEndpoint ----------------------
(***************************************************************************)
(* identityexchangeendpoint.js: the REST front end through which the web   *)
(* view drives identityexchange.js, which is here what IdentityExchangeApi *)
(* promises.  PUT and DELETE requests are worked off one after the other   *)
(* in the chain of globalPromise, GET requests are answered at once.       *)
(***************************************************************************)
EXTENDS IdentityExchangeApi

ASSUME EndpointAssumption == Peer \subseteq Int \ {0}

VARIABLES
  queue,             \* idle, what the head of globalPromise waits for, or dead
  peerStarted,
  peers,             \* those known, filled by PeerIdentityExchange events
  early,             \* a peer was seen before the replication manager was up
  peerIdentifier,    \* 0 for none
  exchangeStatus,    \* "none", "pending" or "complete"
  verificationCode   \* "none", "digits", or "zero" for the one that is 0

exchange == <<peerIdentifier, exchangeStatus, verificationCode>>
back == <<state, party, shown, gone>>
frontVars == <<back, queue, peerStarted, peers, early, exchange>>

Alive == ~gone /\ queue # "dead"
Free  == ~gone /\ queue = "idle"

\* An event that its state does not allow makes the state machine throw, inside
\* the chain: globalPromise is rejected, and no later request is worked off.
Illegal == /\ queue' = "dead"
           /\ UNCHANGED back

-----------------------------------------------------------------------------
(* PUT and DELETE /webview/identityexchange *)

\* The name, which GET requests return, is left out.  A request while one is in
\* use is answered without a change; a bad name is refused when the machine has
\* left wait already, and nothing takes it back there.
PutIdentityExchange(goodName) ==
  /\ Free /\ ~peerStarted
  /\ early' = FALSE
  /\ \/ state = "wait" /\ Start /\ queue' = IF goodName THEN "start" ELSE "idle"
     \/ state # "wait" /\ Illegal
  /\ UNCHANGED <<peerStarted, peers, exchange>>

\* The callback of a start, which is not reached when a peer was stored while
\* the manager was starting: emitPeer fails for it, startIdentityExchange's
\* handler of errors fires an event that is illegal by now, and the front end
\* waits for ever.
Started ==
  /\ queue = "start"
  /\ StartIsDone
  /\ IF early THEN UNCHANGED <<queue, peerStarted>>
     ELSE queue' = "idle" /\ peerStarted' = TRUE
  /\ UNCHANGED <<peers, early, exchange>>

StartFailed ==
  /\ queue = "start"
  /\ StartFails
  /\ queue' = "idle"
  /\ UNCHANGED <<peerStarted, peers, early, exchange>>

DeleteIdentityExchange ==
  /\ Free /\ peerStarted
  /\ \/ state = "findPeersDoingIdentityExchange" /\ Stop /\ queue' = "stop"
     \/ state # "findPeersDoingIdentityExchange" /\ Illegal
  /\ UNCHANGED <<peerStarted, peers, early, exchange>>

\* clearState
Stopped ==
  /\ queue = "stop"
  /\ StopIsDone
  /\ queue' = "idle"
  /\ peerStarted' = FALSE
  /\ peerIdentifier' = 0 /\ exchangeStatus' = "none"
  /\ verificationCode' = "none"
  /\ UNCHANGED <<peers, early>>

\* The exchange has stopped nevertheless.
StopFailed ==
  /\ queue = "stop"
  /\ StopIsDone
  /\ queue' = "idle"
  /\ UNCHANGED <<peerStarted, peers, early, exchange>>

-----------------------------------------------------------------------------
(* PUT and DELETE /webview/identityexchange/executeexchange *)

\* Peers that are not known, and others than that of a current exchange, are
\* refused without a change.
PutExecuteExchange(p) ==
  /\ Free /\ peerStarted
  /\ peerIdentifier \in {0, p} /\ p \in peers
  /\ peerIdentifier' = p /\ exchangeStatus' = "pending"
  /\ \/ state = "findPeersDoingIdentityExchange" /\ Execute(p)
        /\ UNCHANGED queue
     \/ state # "findPeersDoingIdentityExchange" /\ Illegal
  /\ UNCHANGED <<peerStarted, peers, early,
                 verificationCode>>

\* The callback of executeIdentityExchange. generateValidationCode takes a hash as
\* a number modulo 10^6: the code may be 0.
CodeReported ==
  /\ Report
  /\ exchangeStatus' = "complete" /\ verificationCode' \in {"digits", "zero"}
  /\ UNCHANGED <<queue, peerStarted, peers, early,
                 peerIdentifier>>

\* Broken: only the peer is forgotten.
DeleteForgetsPeerOnly ==
  /\ Free /\ peerIdentifier # 0
  /\ StopExecuting
  /\ peerIdentifier' = 0
  /\ UNCHANGED <<queue, peerStarted, peers, early,
                 exchangeStatus, verificationCode>>

\* Broken: the peer is kept.
DeleteKeepsPeer ==
  /\ Free /\ peerIdentifier # 0
  /\ StopExecuting
  /\ exchangeStatus' = "none" /\ verificationCode' = "none"
  /\ UNCHANGED <<queue, peerStarted, peers, early,
                 peerIdentifier>>

\* clearIdentityExchangeState.  While a peer is set and the chain is alive,
\* an exchange is executed, so that its machine allows the event.
DeleteExecuteExchange ==
  /\ Free /\ peerIdentifier # 0
  /\ StopExecuting
  /\ peerIdentifier' = 0 /\ exchangeStatus' = "none"
  /\ verificationCode' = "none"
  /\ UNCHANGED <<queue, peerStarted, peers, early>>

-----------------------------------------------------------------------------
(* GET /webview/identityexchange/executeexchange *)

\* How often a GET is answered while there is a peer. The handler answers for a
\* pending exchange and, in a condition of its own, for a code; 0 is falsy.
GetAnswers == (IF exchangeStatus = "pending" THEN 1 ELSE 0)
              + (IF verificationCode = "digits" THEN 1 ELSE 0)

-----------------------------------------------------------------------------
(* Events. *)

\* PeerIdentityExchange; a peer is never forgotten again.
PeerSeen(p) ==
  /\ ~gone
  /\ \/ /\ state \in {"findPeersDoingIdentityExchange", "exchangeIdentity"}
        /\ ~early
        /\ peers' = peers \cup {p} /\ UNCHANGED early
     \/ state = "startIdentityExchangeCalledCB" /\ queue = "start"
        /\ early' = TRUE /\ UNCHANGED peers
  /\ UNCHANGED <<back, queue, peerStarted, exchange>>

Dies == /\ Die
        /\ UNCHANGED <<queue, peerStarted, peers, early,
                       exchange>>

FrontInit ==
  /\ ApiInit
  /\ queue = "idle" /\ peerStarted = FALSE
  /\ peers = {} /\ early = FALSE
  /\ peerIdentifier = 0 /\ exchangeStatus = "none"
  /\ verificationCode = "none"

FrontNext ==
  \/ \E goodName \in BOOLEAN : PutIdentityExchange(goodName)
  \/ Started \/ StartFailed
  \/ DeleteIdentityExchange
  \/ Stopped \/ StopFailed
  \/ \E p \in Peer : PutExecuteExchange(p) \/ PeerSeen(p)
  \/ CodeReported
  \/ DeleteExecuteExchange
  \/ Dies

FrontSpec == FrontInit /\ [][FrontNext]_frontVars

-----------------------------------------------------------------------------
(* Properties *)

\* As long as requests are worked off, the front end's view of the exchange is
\* that of the back end, whatever order requests, codes, failures and peers come
\* in: an exchange has a peer exactly while it is executed, and a code exactly
\* when one was reported for it.
FrontFollowsBack ==
  Alive => /\ peerIdentifier = party
           /\ verificationCode # "none" <=> shown # 0

\* As long as requests are worked off, no GET of executeexchange is answered twice,
\* and each is answered unless the code is 0: an exchange is pending or has a code,
\* and never both.
GetAnswersOnce ==
  (Alive /\ peerIdentifier # 0) =>
    /\ GetAnswers <= 1
    /\ GetAnswers = 0 => verificationCode = "zero" /\ exchangeStatus = "complete"

\* The front end keeps up with the back end: what it shows is so, and each of its
\* GET requests gets one answer, or none where the code is 0.
FrontKeepsUp == FrontFollowsBack /\ GetAnswersOnce

\* src/doc/api/thaliBrowserRESTAPI.md on PUT executeexchange: "it is fine to issue
\* multiple PUT requests with the same value. This will not affect the identity
\* exchange process"
RepeatedPutIsNoop ==
  [][\A p \in Peer : (PutExecuteExchange(p) /\ peerIdentifier = p)
                       => UNCHANGED <<queue, exchange>>]_frontVars

\* The same on GET executeexchange, which returns 404 without an exchange: "Otherwise a
\* JSON object will be returned describing the current status of the exchange."
\* It is not where the code is 0.
GetIsAnswered == (Alive /\ peerIdentifier # 0) => GetAnswers = 1

\* The same of DELETE identityexchange that fails: "Also make sure we properly
\* mark status as not being in an identity exchange"
FailedStopIsStopped == [][StopFailed => ~peerStarted']_frontVars

\* src/thali/NextGeneration/identityExchange/identityexchange.js of the peers that
\* come while the manager starts: "we queue up any peers we find while we wait for
\* the replication manager to get going and then return them once everything is
\* set up"
EarlyPeersAreReturned == ~(early /\ state = "findPeersDoingIdentityExchange")
=============================================================================
