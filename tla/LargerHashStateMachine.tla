----------------------- MODULE LargerHashStateMachine -----------------------
(***************************************************************************)
(* LargerHashStateMachine.js: the half of the identity exchange that waits *)
(* for requests.  A machine is a record, its events map a machine to the   *)
(* next one, and a request is a record [pk, other, rn]: the sender's hash, *)
(* the hash it believes it talks to, and its random number.                *)
(***************************************************************************)
EXTENDS IdentityExchangeUtils

LargerStates == {"none", "NoIdentityExchange", "WrongPeer", "WaitForCb",
                 "WaitForRnMine"}

NewLarger == [state |-> "none", other |-> None, cb |-> NoCb, rn |-> None]

\* start: the routes are added to the Express application once, for ever.
StartListening(m) == [m EXCEPT !.state = "NoIdentityExchange"]

\* stop: cbValueBuffer and rnMineBuffer are read in WaitForRnMine only, which
\* sets them anew; what they are in another state does not matter.
StopLarger(m) == [m EXCEPT !.state = "NoIdentityExchange", !.other = None,
                           !.cb = NoCb, !.rn = None]

ExchangeIdentity(m, my, other) ==
  [m EXCEPT !.other = other,
            !.state = IF my < other THEN "WrongPeer" ELSE "WaitForCb"]

\* What both routes answer before they look at the request; "notFound" is
\* Express's own answer as long as the routes have not been added.
EarlyAnswer(m) ==
  IF m.state = "none" THEN "notFound"
  ELSE IF m.state = "NoIdentityExchange" THEN "notDoingIdentityExchange"
  ELSE "wrongPeer"

-----------------------------------------------------------------------------
(* /identity/cb *)

CbAnswer(m, request) ==
  IF m.state \in {"WaitForCb", "WaitForRnMine"} /\ request.pk = m.other
  THEN "ok"
  ELSE EarlyAnswer(m)

\* Broken: a second commitment does not replace the first one.
AfterCbKeepsFirst(m, request, rn) ==
  IF CbAnswer(m, request) # "ok" THEN m
  ELSE [m EXCEPT !.cb = IF m.state = "WaitForCb"
                        THEN GenerateCb(request.rn, request.pk, request.other)
                        ELSE @,
                 !.rn = rn,
                 !.state = "WaitForRnMine"]

\* Each accepted commitment gets a random number of its own.
AfterCb(m, request, rn) ==
  IF CbAnswer(m, request) # "ok" THEN m
  ELSE [m EXCEPT !.cb = GenerateCb(request.rn, request.pk, request.other),
                 !.rn = rn,
                 !.state = "WaitForRnMine"]

-----------------------------------------------------------------------------
(* /identity/rnmine *)

\* Broken: the random number is not checked against the commitment.
RnMineAnswerUnchecked(m, my, request) ==
  IF m.state = "WaitForCb" THEN "skippedAhead"
  ELSE IF m.state # "WaitForRnMine" THEN EarlyAnswer(m)
  ELSE IF request.pk # m.other THEN "wrongPeer"
  ELSE "ok"

RnMineAnswer(m, my, request) ==
  IF m.state = "WaitForCb" THEN "skippedAhead"
  ELSE IF m.state # "WaitForRnMine" THEN EarlyAnswer(m)
  ELSE IF request.pk # m.other THEN "wrongPeer"
  ELSE IF m.cb # GenerateCb(request.rn, m.other, my) THEN "malformed"
  ELSE "ok"

\* What ValidationCodeGenerated carries when the answer is "ok".
LargerCode(m, my, request) ==
  GenerateValidationCode(m.rn, my, m.other, request.rn)
=============================================================================
