-------------------------- MODULE IdentityExchange --------------------------
(***************************************************************************)
(* identityexchange.js with both of its state machines, on several devices *)
(* at once: two users who want to know each other's public key execute an  *)
(* exchange with each other and compare the codes their devices show.  The *)
(* device with the smaller hash commits to a random number, gets the other *)
(* one's and reveals its own; late requests of attempts that were given up *)
(* still arrive.  The replication manager is not in the repository: it     *)
(* starts and stops on request, and either may fail.                       *)
(***************************************************************************)
EXTENDS LargerHashStateMachine, SmallerHashStateMachine, FiniteSets

CONSTANTS
  Devices,   \* the devices that run, each known by its public key hash
  Peers,     \* all hashes, those of absent devices included
  Known,     \* the peers that the user of each device can choose from
  MaxLate,   \* bound on the requests nobody waits for that may still arrive
  Rns,       \* random numbers; one that is in use is not drawn again
  Troubles   \* what users do and managers meet, besides exchanges

ASSUME DevicesAssumption ==
  /\ Peers \subseteq Int \ {None}
  /\ Devices \subseteq Peers
  /\ Known \in [Devices -> SUBSET Peers]
  /\ Rns \subseteq Int \ {None}
  /\ MaxLate \in Nat
  /\ Troubles \subseteq {"bad name", "restart", "start error", "stop error"}

VARIABLES
  (* identityexchange.js *)
  ie,            \* identityExchangeStateMachine.current
  larger,        \* largerHashStateMachine
  smaller,       \* smallerHashStateMachine
  code,          \* what the callback of executeIdentityExchange last got
  uncaught,      \* an exception nobody catches has ended the process

  (* The replication manager and its connectionSuccess events. *)
  rm,
  table,         \* connectionTable: no entry, the one last used, a newer one

  (* The network. *)
  requests,      \* those on their way
  answer         \* the one on its way to a smaller machine

api  == <<ie, uncaught>>
vars == <<api, larger, smaller, code, rm, table, requests, answer>>

MaybeRns == Rns \cup {None}
States == {"wait", "startIdentityExchangeCalledCB",
           "findPeersDoingIdentityExchange", "stopIdentityExchangeCalledCB",
           "exchangeIdentity"}
Paths  == {"cb", "rnmine"}
NoAnswer == [kind |-> "none", pk |-> None, rnOther |-> None]

NoTable == [p \in Peers |-> "none"]
Finding(d)    == ie[d] = "findPeersDoingIdentityExchange"
Exchanging(d) == ie[d] = "exchangeIdentity"
Up(d)         == ~uncaught[d]

-----------------------------------------------------------------------------
(* Random numbers and requests. *)

Request(path, d, m) ==
  [path |-> path, pk |-> d, other |-> m.peer, rn |-> m.rn]

\* The request smaller machine m of device d has out, as the network knows it.
RequestOf(d, m) ==
  Request(IF m.state = "MakeCbRequest" THEN "cb" ELSE "rnmine", d, m)

Waits(r) == /\ Asking(smaller[r.pk])
            /\ r = RequestOf(r.pk, smaller[r.pk])

\* Device d gives the request up that it may have out: it has left for good, or
\* is lost.
GiveUp(d) ==
  LET own == {r \in requests : r.pk = d /\ Waits(r)}
  IN  \/ /\ Cardinality({r \in requests : ~Waits(r)} \cup own) \leq MaxLate
         /\ UNCHANGED requests
      \/ own # {} /\ requests' = requests \ own
      \/ own = {} /\ UNCHANGED requests

InUse == {r.rn : r \in requests} \cup
           UNION {{smaller[d].rn, smaller[d].rnOther, code[d].key, code[d].last,
                   answer[d].rnOther} : d \in Devices}
Kept(d) == {larger[d].rn, larger[d].cb[1]}

\* crypto.randomBytes: a number not in use, no matter which.  What larger
\* machines keep is in use unless it is about to be replaced.
RandomBytes(keepers) ==
  LET fresh == Rns \ (InUse \cup UNION {Kept(d) : d \in keepers})
  IN  {rn \in fresh : \A x \in fresh : rn \leq x}

\* getPeerIdPort by machine m, which becomes that of device d.
LookUp(d, m) ==
  IF table[d][m.peer] = "newer" \/ (table[d][m.peer] = "used" /\ ~m.newer)
  THEN /\ \E rn \in RandomBytes(Devices) :
            LET found == FoundPeerPort(m, rn)
            IN  /\ smaller' = [smaller EXCEPT ![d] = found]
                /\ requests' = requests \cup {RequestOf(d, found)}
       /\ table' = [table EXCEPT ![d][m.peer] = "used"]
  ELSE /\ smaller' = [smaller EXCEPT ![d] = WaitForPort(m)]
       /\ UNCHANGED <<requests, table>>

-----------------------------------------------------------------------------
(* startIdentityExchange and stopIdentityExchange. *)

\* The device knows its identity: the routes are there, the manager starts.
StartIdentityExchange(d) ==
  /\ Up(d) /\ ie[d] = "wait"
  /\ ie' = [ie EXCEPT ![d] = "startIdentityExchangeCalledCB"]
  /\ table' = [table EXCEPT ![d] = NoTable]
  /\ larger' = [larger EXCEPT ![d] = StartListening(@)]
  /\ rm' = [rm EXCEPT ![d] = "starting"]
  /\ UNCHANGED <<uncaught, smaller, code, requests, answer>>

\* A name that is refused is refused after the transition, and no event takes
\* the machine back.
StartWithBadName(d) ==
  /\ "bad name" \in Troubles
  /\ Up(d) /\ ie[d] = "wait"
  /\ ie' = [ie EXCEPT ![d] = "startIdentityExchangeCalledCB"]
  /\ UNCHANGED <<uncaught, larger, smaller, code, rm, table, requests, answer>>

StopIdentityExchange(d) ==
  /\ "restart" \in Troubles
  /\ Up(d) /\ Finding(d)
  /\ ie' = [ie EXCEPT ![d] = "stopIdentityExchangeCalledCB"]
  /\ table' = [table EXCEPT ![d] = NoTable]
  /\ larger' = [larger EXCEPT ![d] = StopLarger(@)]
  /\ rm' = [rm EXCEPT ![d] = "stopping"]
  /\ UNCHANGED <<uncaught, smaller, code, requests, answer>>

-----------------------------------------------------------------------------
(* executeIdentityExchange and stopExecutingIdentityExchange. *)

ExecuteIdentityExchange(d, p) ==
  /\ Up(d) /\ Finding(d) /\ p # d
  /\ ie' = [ie EXCEPT ![d] = "exchangeIdentity"]
  /\ larger' = [larger EXCEPT ![d] = ExchangeIdentity(@, d, p)]
  /\ LET m == StartSearch(d, p)
     IN  IF m.state = "Exit"
         THEN /\ smaller' = [smaller EXCEPT ![d] = m]
              /\ UNCHANGED <<requests, table>>
         ELSE LookUp(d, m)
  /\ UNCHANGED <<uncaught, code, rm, answer>>

\* Broken: the machine that waits for requests goes on.
StopExecutingKeepsLarger(d) ==
  /\ Up(d) /\ Exchanging(d)
  /\ ie' = [ie EXCEPT ![d] = "findPeersDoingIdentityExchange"]
  /\ smaller' = [smaller EXCEPT ![d] = NewSmaller]
  /\ answer' = [answer EXCEPT ![d] = NoAnswer]
  /\ code' = [code EXCEPT ![d] = NoCode]
  /\ GiveUp(d)
  /\ UNCHANGED <<uncaught, larger, rm, table>>

\* The request that is out is aborted, but may have left; the front end
\* forgets the code.
StopExecutingIdentityExchange(d) ==
  /\ Up(d) /\ Exchanging(d)
  /\ ie' = [ie EXCEPT ![d] = "findPeersDoingIdentityExchange"]
  /\ larger' = [larger EXCEPT ![d] = StopLarger(@)]
  /\ smaller' = [smaller EXCEPT ![d] = NewSmaller]
  /\ answer' = [answer EXCEPT ![d] = NoAnswer]
  /\ code' = [code EXCEPT ![d] = NoCode]
  /\ GiveUp(d)
  /\ UNCHANGED <<uncaught, rm, table>>

-----------------------------------------------------------------------------
(* The replication manager. *)

\* started, for whoever asked: startIdentityExchange or a smaller machine.
ManagerStarts(d) ==
  /\ Up(d) /\ rm[d] = "starting"
  /\ rm' = [rm EXCEPT ![d] = "on"]
  /\ ie' = [ie EXCEPT ![d] = IF @ = "startIdentityExchangeCalledCB"
                             THEN "findPeersDoingIdentityExchange" ELSE @]
  /\ UNCHANGED <<uncaught, larger, smaller, code, table, requests, answer>>

\* startError.  A smaller machine is not told: its promise was not returned.
ManagerFailsToStart(d) ==
  /\ "start error" \in Troubles
  /\ Up(d) /\ rm[d] = "starting"
  /\ rm' = [rm EXCEPT ![d] = "off"]
  /\ ie' = [ie EXCEPT ![d] = IF @ = "startIdentityExchangeCalledCB"
                             THEN "wait" ELSE @]
  /\ UNCHANGED <<uncaught, larger, smaller, code, table, requests, answer>>

StopSettled(d) ==
  ie' = [ie EXCEPT ![d] = IF @ = "stopIdentityExchangeCalledCB" THEN "wait"
                                                                ELSE @]

\* stopped.  A smaller machine that waits for it starts the manager again and
\* looks its port up without waiting for the start; one that has exited since
\* does neither, and the manager stays off.
ManagerStops(d) ==
  /\ Up(d) /\ rm[d] = "stopping"
  /\ StopSettled(d)
  /\ IF smaller[d].waiting = "manager"
     THEN /\ rm' = [rm EXCEPT ![d] = "starting"]
          /\ LookUp(d, smaller[d])
     ELSE /\ rm' = [rm EXCEPT ![d] = "off"]
          /\ UNCHANGED <<smaller, requests, table>>
  /\ UNCHANGED <<uncaught, larger, code, answer>>

\* stopError.  stopIdentityExchange goes on; the handler of a smaller machine
\* fails itself (JSON.stringfy), so that nothing waits for anything any more.
ManagerFailsToStop(d) ==
  /\ "stop error" \in Troubles
  /\ Up(d) /\ rm[d] = "stopping"
  /\ rm' = [rm EXCEPT ![d] = "on"]
  /\ StopSettled(d)
  /\ smaller' = [smaller EXCEPT ![d].waiting =
                   IF @ = "manager" THEN "nothing" ELSE @]
  /\ UNCHANGED <<uncaught, larger, code, table, requests,
                 answer>>

\* connectionSuccess: a port to a peer, for the machine that waits for one.
\* Those to peers with a smaller hash are recorded as well, and never read.
ConnectionSuccess(d, p) ==
  /\ Up(d) /\ p > d /\ rm[d] = "on"
  /\ Finding(d) \/ Exchanging(d)
  /\ IF smaller[d].waiting = "port" /\ smaller[d].peer = p
     THEN /\ \E rn \in RandomBytes(Devices) :
               LET found == FoundPeerPort(smaller[d], rn)
               IN  /\ smaller' = [smaller EXCEPT ![d] = found]
                   /\ requests' = requests \cup {RequestOf(d, found)}
          /\ table' = [table EXCEPT ![d][p] = "used"]
     ELSE /\ table[d][p] # "newer"
          /\ table' = [table EXCEPT ![d][p] = "newer"]
          /\ UNCHANGED <<smaller, requests>>
  /\ UNCHANGED <<api, larger, code, rm, answer>>

-----------------------------------------------------------------------------
(* The requests of the smaller machines. *)

\* The answer reaches a machine that waits for it, and no other one.
Answer(r, d, kind, rnOther) ==
  answer' = IF Waits(r)
            THEN [answer EXCEPT ![r.pk] =
                    [kind |-> kind, pk |-> d, rnOther |-> rnOther]]
            ELSE answer

\* cbParser.  The port of a peer may by now lead to another device.
CbArrives(d, r) ==
  /\ Up(d) /\ r.path = "cb" /\ r.pk # d
  /\ requests' = requests \ {r}
  /\ LET kind == CbAnswer(larger[d], r)
     IN  \E rn \in IF kind = "ok" THEN RandomBytes(Devices \ {d}) ELSE {None} :
           /\ larger' = [larger EXCEPT ![d] = AfterCb(@, r, rn)]
           /\ Answer(r, d, kind, rn)
  /\ UNCHANGED <<api, smaller, code, rm, table>>

\* rnMineParser.
RnMineArrives(d, r) ==
  /\ Up(d) /\ r.path = "rnmine" /\ r.pk # d
  /\ requests' = requests \ {r}
  /\ LET kind == RnMineAnswer(larger[d], d, r)
     IN  /\ code' = IF kind = "ok"
                    THEN [code EXCEPT ![d] = LargerCode(larger[d], d, r)]
                    ELSE code
         /\ Answer(r, d, kind, None)
  /\ UNCHANGED <<api, larger, smaller, rm, table>>

\* An error instead of an answer; the request may still arrive.
RequestFails(d) ==
  /\ Up(d) /\ Asking(smaller[d])
  /\ smaller' = [smaller EXCEPT ![d] = ChannelBindingError(@)]
  /\ rm' = [rm EXCEPT ![d] = "stopping"]
  /\ answer' = [answer EXCEPT ![d] = NoAnswer]
  /\ GiveUp(d)
  /\ UNCHANGED <<api, larger, code, table>>

Reacts(d, event) == /\ Up(d) /\ answer[d] # NoAnswer
                    /\ Reaction(smaller[d], answer[d]) = event
                    /\ answer' = [answer EXCEPT ![d] = NoAnswer]

CbSucceeds(d) ==
  /\ smaller[d].state = "MakeCbRequest"
  /\ Reacts(d, "ok")
  /\ LET m == CbRequestSucceeded(smaller[d], answer[d].rnOther)
     IN  /\ smaller' = [smaller EXCEPT ![d] = m]
         /\ requests' = requests \cup {RequestOf(d, m)}
  /\ UNCHANGED <<api, larger, code, rm, table>>

RnMineSucceeds(d) ==
  /\ smaller[d].state = "MakeRnMineRequest"
  /\ Reacts(d, "ok")
  /\ smaller' = [smaller EXCEPT ![d] = ExitCalled(@)]
  /\ code' = [code EXCEPT ![d] = SmallerCode(smaller[d], d)]
  /\ UNCHANGED <<api, larger, rm, table, requests>>

OtherNotStarted(d) ==
  /\ Reacts(d, "notStarted")
  /\ smaller' = [smaller EXCEPT ![d] = IdentityExchangeNotStarted(@)]
  /\ UNCHANGED <<api, larger, code, rm, table, requests>>

BadAnswer(d) ==
  /\ Reacts(d, "error")
  /\ smaller' = [smaller EXCEPT ![d] = ChannelBindingError(@)]
  /\ rm' = [rm EXCEPT ![d] = "stopping"]
  /\ UNCHANGED <<api, larger, code, table, requests>>

\* smallerHashExitListener calls a method its machine does not have before it
\* would call back: the exception ends the process.
WrongPeer(d) ==
  /\ Reacts(d, "exit")
  /\ smaller' = [smaller EXCEPT ![d] = ExitCalled(@)]
  /\ uncaught' = [uncaught EXCEPT ![d] = TRUE]
  /\ UNCHANGED <<ie, larger, code, rm, table, requests>>

\* onIdentityExchangeNotStartedTimeout.
TriesAgain(d) ==
  /\ Up(d) /\ smaller[d].state = "WaitForIdentityExchangeToStart"
  /\ LookUp(d, smaller[d])
  /\ UNCHANGED <<api, larger, code, rm, answer>>

-----------------------------------------------------------------------------
Init ==
  /\ ie = [d \in Devices |-> "wait"]
  /\ uncaught = [d \in Devices |-> FALSE]
  /\ larger = [d \in Devices |-> NewLarger]
  /\ smaller = [d \in Devices |-> NewSmaller]
  /\ code = [d \in Devices |-> NoCode]
  /\ rm = [d \in Devices |-> "off"]
  /\ table = [d \in Devices |-> NoTable]
  /\ requests = {}
  /\ answer = [d \in Devices |-> NoAnswer]

Calls(d) ==
  \/ StartIdentityExchange(d)
  \/ StartWithBadName(d)
  \/ StopIdentityExchange(d)
  \/ \E p \in Known[d] : ExecuteIdentityExchange(d, p)
  \/ StopExecutingIdentityExchange(d)

Manager(d) ==
  \/ ManagerStarts(d) \/ ManagerFailsToStart(d)
  \/ ManagerStops(d)  \/ ManagerFailsToStop(d)
  \/ \E p \in Known[d] : ConnectionSuccess(d, p)

Exchange(d) ==
  \/ \E r \in requests : CbArrives(d, r) \/ RnMineArrives(d, r)
  \/ RequestFails(d)
  \/ CbSucceeds(d) \/ RnMineSucceeds(d) \/ OtherNotStarted(d) \/ BadAnswer(d)
  \/ WrongPeer(d)
  \/ TriesAgain(d)

Next == \E d \in Devices : Calls(d) \/ Manager(d) \/ Exchange(d)

Spec == Init /\ [][Next]_vars

\* Requests get to their peers, answers and timers to the machines, and the
\* manager gets done with what it was asked for and finds peers again.
Fairness ==
  \A d \in Devices :
    /\ WF_vars(ManagerStops(d) \/ ManagerFailsToStop(d))
    /\ WF_vars(ManagerStarts(d) \/ ManagerFailsToStart(d))
    /\ \A p \in Known[d] : WF_vars(/\ smaller[d].waiting = "port"
                                /\ ConnectionSuccess(d, p))
    /\ WF_vars(\E r \in requests : /\ r.other = d /\ Waits(r)
                                   /\ CbArrives(d, r) \/ RnMineArrives(d, r))
    /\ WF_vars(CbSucceeds(d) \/ RnMineSucceeds(d) \/ OtherNotStarted(d)
               \/ BadAnswer(d) \/ WrongPeer(d))
    /\ WF_vars(TriesAgain(d))

\* From some time on no connection breaks.
Settles == <>[][\A d \in Devices : ~RequestFails(d)]_vars

LiveSpec == Spec /\ Fairness /\ Settles

-----------------------------------------------------------------------------
(* Properties *)

TypeOK ==
  /\ ie \in [Devices -> States]
  /\ uncaught \in [Devices -> BOOLEAN]
  /\ larger \in [Devices -> [state : LargerStates, other : Int,
                             cb : MaybeRns \X Int \X Int, rn : MaybeRns]]
  /\ smaller \in [Devices -> [state : SmallerStates, peer : Int, rn : MaybeRns,
                              rnOther : MaybeRns, newer : BOOLEAN,
                              waiting : {"no", "port", "manager", "nothing"}]]
  /\ code \in [Devices -> [key : MaybeRns, first : Int, second : Int,
                           last : MaybeRns]]
  /\ rm \in [Devices -> {"off", "starting", "on", "stopping"}]
  /\ table \in [Devices -> [Peers -> {"none", "used", "newer"}]]
  /\ requests \subseteq [path : Paths, pk : Devices, other : Peers, rn : Rns]
  /\ answer \in [Devices -> [kind : Errors \cup {"none", "ok"}, pk : Int,
                             rnOther : MaybeRns]]

\* Two devices that show a code for each other show the same code, whatever
\* was retried, given up or delivered late: cbParser takes a new commitment
\* at any time, and rnMineParser must not confirm an older attempt.
CodesAgree ==
  \A s, l \in Devices :
    (/\ code[s] # NoCode /\ smaller[s].peer = l /\ s < l
     /\ code[l] # NoCode /\ larger[l].other = s)
      => code[s] = code[l]

\* The machines run exactly as long as the exchange does, and only one of a
\* device's two machines is at work: stopExecutingIdentityExchange must reach
\* every state an answer, a timer or the manager can have led to.
MachinesFollow ==
  \A d \in Devices :
    /\ ~Exchanging(d) => /\ smaller[d] = NewSmaller /\ code[d] = NoCode
                         /\ larger[d].state \in {"none", "NoIdentityExchange"}
                         /\ answer[d] = NoAnswer
    /\ Exchanging(d) =>
         \/ larger[d].state = "WrongPeer" /\ smaller[d].peer > d
         \/ /\ larger[d].state \in {"WaitForCb", "WaitForRnMine"}
            /\ smaller[d].state = "Exit" /\ smaller[d].peer < d

\* Two users who exchange identities with each other, the smaller machine's
\* number not yet on its way, end up with the same code on both devices, whatever
\* failed or came late before, unless one of them gives up, a process has ended,
\* or the replication manager could not be stopped or started.
Together(s, l) ==
  /\ Exchanging(s) /\ smaller[s].peer = l /\ Up(s)
  /\ Exchanging(l) /\ larger[l].other = s /\ Up(l)
Broken(d) == smaller[d].waiting = "nothing" \/ rm[d] = "off"
BothGetTheCode ==
  \A s, l \in Devices :
    s < l => (/\ Together(s, l) /\ code[s] = NoCode
              /\ smaller[s].state # "MakeRnMineRequest")
               ~> \/ code[s] # NoCode /\ code[l] = code[s]
                  \/ ~Together(s, l) \/ Broken(s)

\* The peer that the code of device d is for.
ShownFor(d) == IF code[d].first = d THEN code[d].second ELSE code[d].first

\* Seen from its caller, each device keeps what IdentityExchangeApi promises:
\* whatever a late answer, a timer or the manager does to the machines, codes
\* are reported while an exchange is executed only, and for its peer.
Api(d) == INSTANCE IdentityExchangeApi WITH
            Peer  <- Peers \ {d},
            state <- ie[d],
            party <- larger[d].other,
            shown <- ShownFor(d),
            gone  <- uncaught[d]
KeepsApi ==
  /\ \A d \in Devices : Api(d)!ApiInit
  /\ [][\A d \in Devices :
          [Api(d)!ApiNext]_<<ie[d], larger[d].other, ShownFor(d), uncaught[d]>>]_vars

\* Of the manager: src/doc/api/identityexchange.md says of the state
\* findPeersDoingIdentityExchange that "In this state the replication manager
\* is running and we are listening to connectionSuccess events".
FindingRunsManager ==
  \A d \in Devices : (Finding(d) \/ Exchanging(d)) => rm[d] # "off"
=============================================================================
