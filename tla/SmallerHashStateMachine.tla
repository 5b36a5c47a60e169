----------------------- MODULE SmallerHashStateMachine -----------------------
(***************************************************************************)
(* SmallerHashStateMachine.js: the half of the identity exchange that asks.*)
(* It looks a port up, commits to a random number (/cb), then reveals it   *)
(* (/rnmine); it starts over after an error or when the other party is not *)
(* ready.  A machine is a record, "none" before start and after it was     *)
(* dropped; the one request it may have out is told by its state.          *)
(***************************************************************************)
EXTENDS IdentityExchangeUtils

SmallerStates == {"none", "GetPeerIdPort", "MakeCbRequest",
                  "WaitForIdentityExchangeToStart", "MakeRnMineRequest",
                  "Exit"}

NewSmaller ==
  [state   |-> "none",
   peer    |-> None,      \* otherPkHashBuffer
   rn      |-> None,      \* rnMineBuffer, as long as a request is out
   rnOther |-> None,      \* rnOtherBuffer, while /rnmine is out
   newer   |-> FALSE,     \* the port has to be newer than the one that failed
   waiting |-> "no"]      \* "port" for portListener, "manager" for the stop

\* start: the machine of the larger hash exits at once.
StartSearch(my, peer) ==
  [NewSmaller EXCEPT !.state = IF my > peer THEN "Exit" ELSE "GetPeerIdPort",
                     !.peer  = peer]

\* The states in which a request is out.
Asking(m) == m.state \in {"MakeCbRequest", "MakeRnMineRequest"}

\* getPeerIdPort without an entry that will do: portListener waits for one.
WaitForPort(m) == [m EXCEPT !.waiting = "port"]

\* foundPeerPort: a new random number, and the /cb request goes out.
FoundPeerPort(m, rn) ==
  [m EXCEPT !.state = "MakeCbRequest", !.rn = rn, !.rnOther = None,
            !.newer = FALSE, !.waiting = "no"]

\* cbRequestSucceeded: the /rnmine request goes out.
CbRequestSucceeded(m, rnOther) ==
  [m EXCEPT !.state = "MakeRnMineRequest", !.rnOther = rnOther]

\* identityExchangeNotStarted: in 100 ms a port is looked up again.
IdentityExchangeNotStarted(m) ==
  [m EXCEPT !.state = "WaitForIdentityExchangeToStart", !.rn = None,
            !.rnOther = None]

\* channelBindingError: the replication manager is stopped and started again,
\* to cut all connections.
ChannelBindingError(m) ==
  [m EXCEPT !.state = "GetPeerIdPort", !.rn = None, !.rnOther = None,
            !.newer = TRUE, !.waiting = "manager"]

ExitCalled(m) ==
  [m EXCEPT !.state = "Exit", !.rn = None, !.rnOther = None,
            !.waiting = "no"]

SmallerCode(m, my) ==
  GenerateValidationCode(m.rnOther, m.peer, my, m.rn)

\* makeRequestParseResponse: the event an answer leads to.
Reaction(m, answer) ==
  IF answer.kind = "notFound" THEN "notStarted"
  ELSE IF answer.pk # m.peer THEN "error"
  ELSE IF answer.kind = "ok" THEN "ok"
  ELSE IF answer.kind = "wrongPeer" THEN "exit"
  ELSE IF answer.kind = "notDoingIdentityExchange" THEN "notStarted"
  ELSE "error"
=============================================================================
