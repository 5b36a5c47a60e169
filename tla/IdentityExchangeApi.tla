------------------------ MODULE IdentityExchangeApi ------------------------
(***************************************************************************)
(* What one device's identity exchange promises to its caller, whatever    *)
(* the machines, the manager and the network do: identityexchange.js seen  *)
(* through its four methods and their callbacks.  Codes are reported while *)
(* an exchange is executed only, and for its peer.                         *)
(***************************************************************************)
EXTENDS Integers

CONSTANT Peer   \* who an exchange can be executed with, positive integers

VARIABLES
  state,   \* identityExchangeStateMachine.current
  party,   \* the peer of the exchange that is executed, 0 for none
  shown,   \* the peer that the code last reported is for, 0 for none
  gone     \* the process has ended with an exception

\* With a good name or a bad one: only a good one leads to an event.
Start == /\ ~gone /\ state = "wait"
         /\ state' = "startIdentityExchangeCalledCB"
         /\ UNCHANGED <<party, shown, gone>>

StartIsDone == /\ ~gone /\ state = "startIdentityExchangeCalledCB"
               /\ state' = "findPeersDoingIdentityExchange"
               /\ UNCHANGED <<party, shown, gone>>

StartFails == /\ ~gone /\ state = "startIdentityExchangeCalledCB"
              /\ state' = "wait"
              /\ UNCHANGED <<party, shown, gone>>

Stop == /\ ~gone /\ state = "findPeersDoingIdentityExchange"
        /\ state' = "stopIdentityExchangeCalledCB"
        /\ UNCHANGED <<party, shown, gone>>

\* With an error or without.
StopIsDone == /\ ~gone /\ state = "stopIdentityExchangeCalledCB"
              /\ state' = "wait"
              /\ UNCHANGED <<party, shown, gone>>

Execute(p) == /\ ~gone /\ state = "findPeersDoingIdentityExchange"
              /\ state' = "exchangeIdentity" /\ party' = p
              /\ UNCHANGED <<shown, gone>>

\* Called back, maybe several times and with several codes.
Report == /\ ~gone /\ state = "exchangeIdentity"
          /\ shown' = party
          /\ UNCHANGED <<state, party, gone>>

StopExecuting == /\ ~gone /\ state = "exchangeIdentity"
                 /\ state' = "findPeersDoingIdentityExchange"
                 /\ party' = 0 /\ shown' = 0
                 /\ UNCHANGED gone

\* smallerHashExitListener meets an error, and fails itself.
Die == /\ ~gone /\ state = "exchangeIdentity"
       /\ gone' = TRUE
       /\ UNCHANGED <<state, party, shown>>

ApiInit == state = "wait" /\ party = 0 /\ shown = 0 /\ gone = FALSE

ApiNext ==
  \/ Start \/ StartIsDone \/ StartFails
  \/ Stop \/ StopIsDone
  \/ \E p \in Peer : Execute(p)
  \/ Report
  \/ StopExecuting
  \/ Die

ApiSpec == ApiInit /\ [][ApiNext]_<<state, party, shown, gone>>
=============================================================================
