----------------------- MODULE IdentityExchange_proofs -----------------------
(***************************************************************************)
(* Proofs about the identity exchange, for any set of devices, any choice  *)
(* of peers, any supply of random numbers and any number of requests that  *)
(* arrive late; and, at the end, about the front end that drives it.       *)
(***************************************************************************)
EXTENDS IdentityExchange, IdentityExchangeEndpoint, TLAPS

-----------------------------------------------------------------------------
(* The machines of one device. *)

LargerMachines  == [state : LargerStates, other : Int,
                    cb : MaybeRns \X Int \X Int, rn : MaybeRns]
SmallerMachines == [state : SmallerStates, peer : Int, rn : MaybeRns,
                    rnOther : MaybeRns, newer : BOOLEAN,
                    waiting : {"no", "port", "manager", "nothing"}]
Answers  == [kind : Errors \cup {"none", "ok"}, pk : Int, rnOther : MaybeRns]
Codes    == [key : MaybeRns, first : Int, second : Int, last : MaybeRns]
Messages == [path : Paths, pk : Devices, other : Peers, rn : Rns]

\* No exchange is executed.
Resting(d) ==
  /\ smaller[d] = NewSmaller /\ code[d] = NoCode /\ answer[d] = NoAnswer
  /\ larger[d].state \in {"none", "NoIdentityExchange"}
  /\ larger[d].other = None /\ larger[d].cb = NoCb /\ larger[d].rn = None

\* The device has the smaller hash, and asks.
Seeking(d) ==
  /\ larger[d].state = "WrongPeer" /\ larger[d].other = smaller[d].peer
  /\ larger[d].cb = NoCb /\ larger[d].rn = None
  /\ smaller[d].peer \in Peers /\ d < smaller[d].peer
  /\ smaller[d].state # "none"
  /\ smaller[d].waiting # "no" =>
       smaller[d].state \in {"GetPeerIdPort", "WaitForIdentityExchangeToStart"}
  /\ Asking(smaller[d]) <=> smaller[d].rn # None
  /\ answer[d] # NoAnswer => Asking(smaller[d])
  /\ code[d] # NoCode => /\ smaller[d].state = "Exit"
                         /\ code[d].first = smaller[d].peer
                         /\ code[d].second = d

\* The device has the larger hash, and is asked.
Listening(d) ==
  /\ larger[d].state \in {"WaitForCb", "WaitForRnMine"}
  /\ larger[d].other = smaller[d].peer
  /\ smaller[d].peer \in Peers /\ smaller[d].peer < d
  /\ smaller[d].state = "Exit" /\ smaller[d].waiting = "no"
  /\ smaller[d].rn = None /\ answer[d] = NoAnswer
  /\ code[d] # NoCode => /\ code[d].first = d
                         /\ code[d].second = smaller[d].peer

Following(d) == IF Exchanging(d) THEN Seeking(d) \/ Listening(d) ELSE Resting(d)

Types ==
  /\ ie \in [Devices -> States]
  /\ uncaught \in [Devices -> BOOLEAN]
  /\ larger \in [Devices -> LargerMachines]
  /\ smaller \in [Devices -> SmallerMachines]
  /\ code \in [Devices -> Codes]
  /\ rm \in [Devices -> {"off", "starting", "on", "stopping"}]
  /\ table \in [Devices -> [Peers -> {"none", "used", "newer"}]]
  /\ requests \subseteq Messages
  /\ answer \in [Devices -> Answers]

Sound == Types /\ \A d \in Devices : Following(d)

LEMMA Numbers ==
  /\ None \notin Rns /\ None \in MaybeRns /\ Rns \subseteq MaybeRns
  /\ Devices \subseteq Peers /\ Peers \subseteq Int /\ None \notin Peers
  /\ None \in Int
  /\ \A d \in Devices : Known[d] \subseteq Peers
<1>1. None \in Int
  BY DEF None
<1>2. \A d \in Devices : Known[d] \subseteq Peers
  BY DevicesAssumption, Zenon
<1> QED
  BY <1>1, <1>2, DevicesAssumption DEF MaybeRns

LEMMA Nothings ==
  /\ NewSmaller \in SmallerMachines /\ NewLarger \in LargerMachines
  /\ NoCode \in Codes /\ NoAnswer \in Answers /\ NoCb \in MaybeRns \X Int \X Int
  /\ NoCb[1] = None
BY Numbers DEF NewSmaller, SmallerMachines, SmallerStates, NewLarger,
   LargerMachines, LargerStates, NoCode, GenerateValidationCode, Codes, NoAnswer,
   Answers, NoCb

\* What a machine becomes is a machine.
LEMMA SmallerBecomes ==
  ASSUME NEW m \in SmallerMachines
  PROVE  /\ WaitForPort(m) \in SmallerMachines
         /\ \A rn \in Rns : FoundPeerPort(m, rn) \in SmallerMachines
         /\ \A o \in MaybeRns : CbRequestSucceeded(m, o) \in SmallerMachines
         /\ IdentityExchangeNotStarted(m) \in SmallerMachines
         /\ ChannelBindingError(m) \in SmallerMachines
         /\ ExitCalled(m) \in SmallerMachines
         /\ [m EXCEPT !.waiting = IF @ = "manager" THEN "nothing" ELSE @]
              \in SmallerMachines
BY Numbers DEF SmallerMachines, SmallerStates, WaitForPort, FoundPeerPort,
   CbRequestSucceeded, IdentityExchangeNotStarted, ChannelBindingError, ExitCalled

LEMMA LargerBecomes ==
  ASSUME NEW m \in LargerMachines
  PROVE  /\ StartListening(m) \in LargerMachines
         /\ StopLarger(m) \in LargerMachines
         /\ \A my, other \in Int : ExchangeIdentity(m, my, other) \in LargerMachines
         /\ \A r \in Messages, rn \in Rns : AfterCb(m, r, rn) \in LargerMachines
<1>1. StartListening(m) \in LargerMachines
  BY DEF LargerMachines, LargerStates, StartListening
<1>2. StopLarger(m) \in LargerMachines
  BY Numbers, Nothings DEF LargerMachines, LargerStates, StopLarger
<1>3. ASSUME NEW my \in Int, NEW other \in Int
      PROVE  ExchangeIdentity(m, my, other) \in LargerMachines
  BY DEF LargerMachines, LargerStates, ExchangeIdentity
<1>4. ASSUME NEW r \in Messages, NEW rn \in Rns
      PROVE  AfterCb(m, r, rn) \in LargerMachines
  <2>1. GenerateCb(r.rn, r.pk, r.other) \in MaybeRns \X Int \X Int
    BY Numbers DEF GenerateCb, Messages
  <2> QED
    BY <2>1, Numbers DEF LargerMachines, LargerStates, AfterCb
<1> QED
  BY <1>1, <1>2, <1>3, <1>4

\* A random number that is drawn is not in use.
LEMMA Drawn ==
  ASSUME NEW keepers \in SUBSET Devices, NEW rn \in RandomBytes(keepers)
  PROVE  /\ rn \in Rns /\ rn # None
         /\ \A d \in Devices : rn # smaller[d].rn
         /\ \A r \in requests : rn # r.rn
         /\ \A d \in keepers : rn # larger[d].cb[1]
<1>1. rn \in Rns /\ rn \notin InUse /\ \A d \in keepers : rn \notin Kept(d)
  BY DEF RandomBytes
<1> DEFINE Held(d) == {smaller[d].rn, smaller[d].rnOther, code[d].key, code[d].last,
                       answer[d].rnOther}
              Sent == {r.rn : r \in requests}
<1> HIDE DEF Held, Sent
<1>2. InUse = Sent \cup UNION {Held(d) : d \in Devices}
  BY Zenon DEF InUse, Held, Sent
<1>3. \A d \in Devices : smaller[d].rn \in InUse
  <2> TAKE d \in Devices
  <2>1. smaller[d].rn \in Held(d)
    BY Zenon DEF Held
  <2> QED
    BY <1>2, <2>1, Zenon
<1>4. \A r \in requests : r.rn \in InUse
  <2> TAKE r \in requests
  <2>1. r.rn \in Sent
    BY DEF Sent
  <2> QED
    BY <1>2, <2>1, Zenon
<1> QED
  BY <1>1, <1>3, <1>4, Numbers DEF Kept

\* A port is there, and a request goes out; or a listener waits for one.
Finds(d, m) ==
  \E rn \in RandomBytes(Devices) :
    /\ smaller' = [smaller EXCEPT ![d] = FoundPeerPort(m, rn)]
    /\ requests' = requests \cup {RequestOf(d, FoundPeerPort(m, rn))}
Awaits(d, m) ==
  /\ smaller' = [smaller EXCEPT ![d] = WaitForPort(m)]
  /\ requests' = requests

LEMMA LookedUp ==
  ASSUME Types, NEW d \in Devices, NEW m \in SmallerMachines, m.peer \in Peers,
         LookUp(d, m)
  PROVE  /\ Finds(d, m) \/ Awaits(d, m)
         /\ table' \in [Devices -> [Peers -> {"none", "used", "newer"}]]
<1>1. CASE table[d][m.peer] = "newer" \/ (table[d][m.peer] = "used" /\ ~m.newer)
  <2>1. Finds(d, m)
    BY <1>1 DEF LookUp, Finds
  <2>2. table' = [table EXCEPT ![d][m.peer] = "used"]
    BY <1>1 DEF LookUp
  <2> QED
    BY <2>1, <2>2 DEF Types
<1>2. CASE ~(table[d][m.peer] = "newer" \/ (table[d][m.peer] = "used" /\ ~m.newer))
  BY <1>2 DEF LookUp, Awaits, Types
<1> QED
  BY <1>1, <1>2

LEMMA RequestFound ==
  ASSUME NEW d \in Devices, NEW m \in SmallerMachines, NEW rn \in Rns
  PROVE  /\ RequestOf(d, FoundPeerPort(m, rn)) =
              [path |-> "cb", pk |-> d, other |-> m.peer, rn |-> rn]
         /\ FoundPeerPort(m, rn).state = "MakeCbRequest"
         /\ FoundPeerPort(m, rn).rn = rn
         /\ FoundPeerPort(m, rn).peer = m.peer
         /\ FoundPeerPort(m, rn).waiting = "no"
BY DEF RequestOf, Request, FoundPeerPort, SmallerMachines

\* The machines and the requests keep their types.
LEMMA FoundTypes ==
  ASSUME Types, NEW d \in Devices, NEW m \in SmallerMachines, m.peer \in Peers,
         Finds(d, m) \/ Awaits(d, m)
  PROVE  smaller' \in [Devices -> SmallerMachines] /\ requests' \subseteq Messages
<1>1. CASE Awaits(d, m)
  BY <1>1, SmallerBecomes DEF Awaits, Types
<1>2. CASE Finds(d, m)
  <2>1. PICK rn \in RandomBytes(Devices) :
          /\ smaller' = [smaller EXCEPT ![d] = FoundPeerPort(m, rn)]
          /\ requests' = requests \cup {RequestOf(d, FoundPeerPort(m, rn))}
    BY <1>2 DEF Finds
  <2>2. rn \in Rns
    BY Drawn
  <2>3. FoundPeerPort(m, rn) \in SmallerMachines
    BY <2>2, SmallerBecomes
  <2>4. RequestOf(d, FoundPeerPort(m, rn)) \in Messages
    BY <2>2, RequestFound DEF Messages, Paths
  <2> QED
    BY <2>1, <2>3, <2>4 DEF Types
<1> QED
  BY <1>1, <1>2

-----------------------------------------------------------------------------
(* Types. *)

LEMMA CallsTypes ==
  ASSUME Sound, NEW d \in Devices, Calls(d)
  PROVE  Types'
<1>0. Types
  BY DEF Sound
<1> USE DEF Types, States
<1>1. larger[d] \in LargerMachines /\ NoTable \in [Peers -> {"none", "used", "newer"}]
  BY <1>0 DEF NoTable
<1>2. CASE StartIdentityExchange(d)
  BY <1>0, <1>1, <1>2, LargerBecomes DEF StartIdentityExchange
<1>3. CASE StartWithBadName(d)
  BY <1>0, <1>3 DEF StartWithBadName
<1>4. CASE StopIdentityExchange(d)
  BY <1>0, <1>1, <1>4, LargerBecomes DEF StopIdentityExchange
<1>5. CASE \E p \in Known[d] : ExecuteIdentityExchange(d, p)
  <2>1. PICK p \in Known[d] : ExecuteIdentityExchange(d, p)
    BY <1>5
  <2>2. p \in Peers /\ p \in Int /\ d \in Int
    BY Numbers
  <2>3. ExchangeIdentity(larger[d], d, p) \in LargerMachines
    BY <1>1, <2>2, LargerBecomes
  <2>4. StartSearch(d, p) \in SmallerMachines /\ StartSearch(d, p).peer = p
    BY <2>2, Numbers DEF StartSearch, NewSmaller, SmallerMachines, SmallerStates
  <2>5. /\ smaller' \in [Devices -> SmallerMachines] /\ requests' \subseteq Messages
        /\ table' \in [Devices -> [Peers -> {"none", "used", "newer"}]]
    <3>1. CASE StartSearch(d, p).state = "Exit"
      BY <1>0, <2>1, <2>4, <3>1 DEF ExecuteIdentityExchange
    <3>2. CASE StartSearch(d, p).state # "Exit"
      <4>1. LookUp(d, StartSearch(d, p))
        BY <2>1, <3>2 DEF ExecuteIdentityExchange
      <4> QED
        BY <1>0, <2>2, <2>4, <4>1, LookedUp, FoundTypes
    <3> QED
      BY <3>1, <3>2
  <2> QED
    BY <1>0, <2>1, <2>3, <2>5 DEF ExecuteIdentityExchange
<1>6. CASE StopExecutingIdentityExchange(d)
  <2>1. requests' \subseteq Messages
    BY <1>0, <1>6 DEF StopExecutingIdentityExchange, GiveUp
  <2> QED
    BY <1>0, <1>1, <1>6, <2>1, Nothings, LargerBecomes DEF StopExecutingIdentityExchange
<1> QED
  BY <1>2, <1>3, <1>4, <1>5, <1>6 DEF Calls

\* Only a device that executes an exchange asks or waits, and whom it knows.
LEMMA AskingSeeks ==
  ASSUME Sound, NEW d \in Devices,
         Asking(smaller[d]) \/ smaller[d].waiting # "no"
           \/ smaller[d].state = "WaitForIdentityExchangeToStart"
  PROVE  /\ Exchanging(d) /\ Seeking(d)
         /\ smaller[d] \in SmallerMachines /\ smaller[d].peer \in Peers
         /\ code[d] = NoCode
         /\ Asking(smaller[d]) => smaller[d].rn \in Rns /\ smaller[d].waiting = "no"
         /\ ~Asking(smaller[d]) => smaller[d].rn = None /\ answer[d] = NoAnswer
<1>1. smaller[d] \in SmallerMachines /\ Following(d)
  BY DEF Sound, Types
<1>2. ~Resting(d) /\ ~Listening(d)
  BY DEF Resting, Listening, NewSmaller, Asking
<1>3. Exchanging(d) /\ Seeking(d)
  BY <1>1, <1>2 DEF Following
<1> QED
  BY <1>1, <1>3 DEF Seeking, Asking, SmallerMachines, MaybeRns

LEMMA ManagerTypes ==
  ASSUME Sound, NEW d \in Devices, Manager(d)
  PROVE  Types'
<1>0. Types
  BY DEF Sound
<1> USE DEF Types, States
<1>1. CASE ManagerStarts(d) \/ ManagerFailsToStart(d)
  BY <1>0, <1>1 DEF ManagerStarts, ManagerFailsToStart
<1>2. CASE ManagerStops(d)
  <2>1. CASE smaller[d].waiting = "manager"
    <3>1. LookUp(d, smaller[d]) /\ smaller[d] \in SmallerMachines /\ smaller[d].peer \in Peers
      BY <1>2, <2>1, AskingSeeks DEF ManagerStops
    <3> QED
      BY <1>0, <1>2, <2>1, <3>1, LookedUp, FoundTypes DEF ManagerStops, StopSettled
  <2>2. CASE smaller[d].waiting # "manager"
    BY <1>0, <1>2, <2>2 DEF ManagerStops, StopSettled
  <2> QED
    BY <2>1, <2>2
<1>3. CASE ManagerFailsToStop(d)
  <2>1. smaller' \in [Devices -> SmallerMachines]
    BY <1>0, <1>3, SmallerBecomes DEF ManagerFailsToStop
  <2> QED
    BY <1>0, <1>3, <2>1 DEF ManagerFailsToStop, StopSettled
<1>4. CASE \E p \in Known[d] : ConnectionSuccess(d, p)
  <2>1. PICK p \in Known[d] : ConnectionSuccess(d, p)
    BY <1>4
  <2>2. p \in Peers
    BY Numbers
  <2>3. /\ smaller' \in [Devices -> SmallerMachines] /\ requests' \subseteq Messages
        /\ table' \in [Devices -> [Peers -> {"none", "used", "newer"}]]
    <3>1. CASE smaller[d].waiting = "port" /\ smaller[d].peer = p
      <4>1. Finds(d, smaller[d]) /\ smaller[d] \in SmallerMachines
        BY <2>1, <3>1, AskingSeeks DEF ConnectionSuccess, Finds
      <4>2. table' = [table EXCEPT ![d][p] = "used"]
        BY <2>1, <3>1 DEF ConnectionSuccess
      <4> QED
        BY <1>0, <2>2, <3>1, <4>1, <4>2, FoundTypes
    <3>2. CASE ~(smaller[d].waiting = "port" /\ smaller[d].peer = p)
      <4>1. /\ table' = [table EXCEPT ![d][p] = "newer"]
            /\ smaller' = smaller /\ requests' = requests
        BY <2>1, <3>2 DEF ConnectionSuccess
      <4> QED
        BY <1>0, <2>2, <4>1
    <3> QED
      BY <3>1, <3>2
  <2> QED
    BY <1>0, <2>1, <2>3 DEF ConnectionSuccess, api
<1> QED
  BY <1>1, <1>2, <1>3, <1>4 DEF Manager

LEMMA ExchangeTypes ==
  ASSUME Sound, NEW d \in Devices, Exchange(d)
  PROVE  Types'
<1>0. Types
  BY DEF Sound
<1> USE DEF Types
<1>1. ASSUME NEW r \in requests, CbArrives(d, r)
      PROVE  Types'
  <2>1. r \in Messages /\ larger[d] \in LargerMachines
    BY <1>0
  <2>2. PICK rn \in IF CbAnswer(larger[d], r) = "ok" THEN RandomBytes(Devices \ {d})
                    ELSE {None} :
          /\ larger' = [larger EXCEPT ![d] = AfterCb(@, r, rn)]
          /\ Answer(r, d, CbAnswer(larger[d], r), rn)
    BY <1>1 DEF CbArrives
  <2>3. rn \in MaybeRns
    BY <2>2, Drawn, Numbers
  <2>4. AfterCb(larger[d], r, rn) \in LargerMachines
    <3>1. CASE CbAnswer(larger[d], r) = "ok"
      BY <2>1, <2>2, <3>1, Drawn, LargerBecomes
    <3>2. CASE CbAnswer(larger[d], r) # "ok"
      BY <2>1, <3>2 DEF AfterCb
    <3> QED
      BY <3>1, <3>2
  <2>5. [kind |-> CbAnswer(larger[d], r), pk |-> d, rnOther |-> rn] \in Answers
    BY <2>3, Numbers DEF Answers, CbAnswer, EarlyAnswer, Errors
  <2>6. answer' \in [Devices -> Answers]
    BY <1>0, <2>1, <2>2, <2>5 DEF Answer, Messages
  <2> QED
    BY <1>0, <1>1, <2>2, <2>4, <2>6 DEF CbArrives, api
<1>2. ASSUME NEW r \in requests, RnMineArrives(d, r)
      PROVE  Types'
  <2>1. r \in Messages /\ larger[d] \in LargerMachines
    BY <1>0
  <2>2. [kind |-> RnMineAnswer(larger[d], d, r), pk |-> d, rnOther |-> None] \in Answers
    BY Numbers DEF Answers, RnMineAnswer, EarlyAnswer, Errors
  <2>3. answer' \in [Devices -> Answers]
    BY <1>0, <1>2, <2>1, <2>2 DEF RnMineArrives, Answer, Messages
  <2>4. LargerCode(larger[d], d, r) \in Codes
    BY <2>1, Numbers DEF LargerCode, GenerateValidationCode, Codes, LargerMachines, Messages
  <2>5. code' \in [Devices -> Codes]
    BY <1>0, <1>2, <2>4 DEF RnMineArrives
  <2> QED
    BY <1>0, <1>2, <2>3, <2>5 DEF RnMineArrives, api
<1>3. CASE RequestFails(d)
  <2>1. requests' \subseteq Messages
    BY <1>0, <1>3 DEF RequestFails, GiveUp
  <2> QED
    BY <1>0, <1>3, <2>1, SmallerBecomes, Nothings DEF RequestFails, api
<1>4. CASE CbSucceeds(d)
  <2>1. Asking(smaller[d])
    BY <1>4 DEF CbSucceeds, Asking
  <2>2. /\ smaller[d] \in SmallerMachines /\ smaller[d].peer \in Peers
        /\ smaller[d].rn \in Rns
    BY <2>1, AskingSeeks
  <2>3. answer[d].rnOther \in MaybeRns
    BY <1>0 DEF Answers
  <2> DEFINE m == CbRequestSucceeded(smaller[d], answer[d].rnOther)
  <2>4. m \in SmallerMachines
    BY <2>2, <2>3, SmallerBecomes
  <2>5. RequestOf(d, m) \in Messages
    BY <2>2 DEF RequestOf, Request, CbRequestSucceeded, Messages, Paths, SmallerMachines
  <2> QED
    BY <1>0, <1>4, <2>4, <2>5, Nothings DEF CbSucceeds, Reacts, api
<1>5. CASE RnMineSucceeds(d)
  <2>1. SmallerCode(smaller[d], d) \in Codes
    BY <1>0, Numbers DEF SmallerCode, GenerateValidationCode, Codes, SmallerMachines
  <2> QED
    BY <1>0, <1>5, <2>1, SmallerBecomes, Nothings DEF RnMineSucceeds, Reacts, api
<1>6. CASE OtherNotStarted(d)
  BY <1>0, <1>6, SmallerBecomes, Nothings DEF OtherNotStarted, Reacts, api
<1>7. CASE BadAnswer(d)
  BY <1>0, <1>7, SmallerBecomes, Nothings DEF BadAnswer, Reacts, api
<1>8. CASE WrongPeer(d)
  BY <1>0, <1>8, SmallerBecomes, Nothings DEF WrongPeer, Reacts
<1>9. CASE TriesAgain(d)
  <2>1. /\ LookUp(d, smaller[d]) /\ smaller[d] \in SmallerMachines
        /\ smaller[d].peer \in Peers
    BY <1>9, AskingSeeks DEF TriesAgain
  <2> QED
    BY <1>0, <1>9, <2>1, LookedUp, FoundTypes DEF TriesAgain, api
<1> QED
  BY <1>1, <1>2, <1>3, <1>4, <1>5, <1>6, <1>7, <1>8, <1>9 DEF Exchange

-----------------------------------------------------------------------------
(* The machines follow the calls. *)

Same(d) == /\ ie'[d] = ie[d] /\ larger'[d] = larger[d] /\ smaller'[d] = smaller[d]
           /\ code'[d] = code[d] /\ answer'[d] = answer[d]

LEMMA SameFollows ==
  ASSUME NEW d \in Devices, Following(d), Same(d)
  PROVE  Following(d)'
BY DEF Same, Following, Exchanging, Resting, Seeking, Listening, Asking

\* While a machine looks for a port, or once it has found one, it seeks.
LEMMA FoundSeeks ==
  ASSUME Sound, NEW d \in Devices, NEW m \in SmallerMachines,
         Finds(d, m) \/ Awaits(d, m),
         m.state \in {"GetPeerIdPort", "WaitForIdentityExchangeToStart"},
         m.rn = None, m.peer \in Peers, d < m.peer,
         answer[d] = NoAnswer, code[d] = NoCode,
         answer' = answer, code' = code,
         larger'[d].state = "WrongPeer", larger'[d].other = m.peer,
         larger'[d].cb = NoCb, larger'[d].rn = None
  PROVE  Seeking(d)' /\ \A e \in Devices \ {d} : smaller'[e] = smaller[e]
<1>0. smaller \in [Devices -> SmallerMachines]
  BY DEF Sound, Types
<1>1. CASE Awaits(d, m)
  <2>1. smaller'[d] = WaitForPort(m) /\ \A e \in Devices \ {d} : smaller'[e] = smaller[e]
    BY <1>0, <1>1 DEF Awaits
  <2>2. /\ WaitForPort(m).state = m.state /\ WaitForPort(m).peer = m.peer
        /\ WaitForPort(m).rn = m.rn
    BY DEF WaitForPort, SmallerMachines
  <2> QED
    BY <2>1, <2>2 DEF Seeking, Asking
<1>2. CASE Finds(d, m)
  <2>1. PICK rn \in RandomBytes(Devices) :
          smaller' = [smaller EXCEPT ![d] = FoundPeerPort(m, rn)]
    BY <1>2 DEF Finds
  <2>2. rn \in Rns /\ rn # None
    BY Drawn
  <2>3. /\ smaller'[d] = FoundPeerPort(m, rn)
        /\ \A e \in Devices \ {d} : smaller'[e] = smaller[e]
    BY <1>0, <2>1
  <2> QED
    BY <2>2, <2>3, RequestFound DEF Seeking, Asking
<1> QED
  BY <1>1, <1>2

LEMMA CallsFollow ==
  ASSUME Sound, NEW d \in Devices, Calls(d)
  PROVE  \A e \in Devices : Following(e)'
<1>0. /\ Types /\ Following(d) /\ larger[d] \in LargerMachines
      /\ smaller[d] \in SmallerMachines
  BY DEF Sound, Types
<1>1. SUFFICES Following(d)' /\ \A e \in Devices \ {d} : Same(e)
  BY SameFollows DEF Sound
<1>2. CASE StartIdentityExchange(d)
  BY <1>0, <1>2 DEF StartIdentityExchange, Following, Exchanging, Resting, Same,
     Types, StartListening, LargerMachines
<1>3. CASE StartWithBadName(d)
  BY <1>0, <1>3 DEF StartWithBadName, Following, Exchanging, Resting, Same, Types
<1>4. CASE StopIdentityExchange(d)
  BY <1>0, <1>4 DEF StopIdentityExchange, Following, Exchanging, Finding, Resting,
     Same, Types, StopLarger, LargerMachines
<1>5. CASE \E p \in Known[d] : ExecuteIdentityExchange(d, p)
  <2>1. PICK p \in Known[d] : ExecuteIdentityExchange(d, p)
    BY <1>5
  <2>2. p \in Peers /\ p \in Int /\ d \in Int /\ p # d
    BY <2>1, Numbers DEF ExecuteIdentityExchange
  <2>3. Resting(d)
    BY <1>0, <2>1 DEF Following, ExecuteIdentityExchange, Finding, Exchanging
  <2>4. /\ Exchanging(d)'
        /\ larger'[d] = ExchangeIdentity(larger[d], d, p)
        /\ answer' = answer /\ code' = code
        /\ \A e \in Devices \ {d} : ie'[e] = ie[e] /\ larger'[e] = larger[e]
    BY <1>0, <2>1 DEF ExecuteIdentityExchange, Exchanging, Types
  <2>5. /\ larger'[d].state = IF d < p THEN "WrongPeer" ELSE "WaitForCb"
        /\ larger'[d].other = p /\ larger'[d].cb = NoCb /\ larger'[d].rn = None
    BY <1>0, <2>3, <2>4 DEF ExchangeIdentity, LargerMachines, Resting
  <2>6. /\ StartSearch(d, p) \in SmallerMachines /\ StartSearch(d, p).peer = p
        /\ StartSearch(d, p).rn = None /\ StartSearch(d, p).waiting = "no"
        /\ StartSearch(d, p).state = IF d > p THEN "Exit" ELSE "GetPeerIdPort"
    BY <2>2, Numbers DEF StartSearch, NewSmaller, SmallerMachines, SmallerStates
  <2>7. CASE d > p
    <3>1. smaller' = [smaller EXCEPT ![d] = StartSearch(d, p)]
      BY <2>1, <2>6, <2>7 DEF ExecuteIdentityExchange
    <3>2. smaller'[d] = StartSearch(d, p) /\ \A e \in Devices \ {d} : smaller'[e] = smaller[e]
      BY <1>0, <3>1 DEF Types
    <3>3. Listening(d)'
      BY <2>2, <2>3, <2>4, <2>5, <2>6, <2>7, <3>2 DEF Listening, Resting
    <3> QED
      BY <2>4, <3>2, <3>3 DEF Following, Same
  <2>8. CASE d < p
    <3>1. LookUp(d, StartSearch(d, p))
      BY <2>1, <2>2, <2>6, <2>8 DEF ExecuteIdentityExchange
    <3>2. Finds(d, StartSearch(d, p)) \/ Awaits(d, StartSearch(d, p))
      BY <1>0, <2>2, <2>6, <3>1, LookedUp
    <3>3. Seeking(d)' /\ \A e \in Devices \ {d} : smaller'[e] = smaller[e]
      BY <2>2, <2>3, <2>4, <2>5, <2>6, <2>8, <3>2, FoundSeeks DEF Resting
    <3> QED
      BY <2>4, <3>3 DEF Following, Same
  <2> QED
    BY <2>2, <2>7, <2>8
<1>6. CASE StopExecutingIdentityExchange(d)
  <2>1. larger'[d] = StopLarger(larger[d])
    BY <1>0, <1>6 DEF StopExecutingIdentityExchange, Types
  <2> QED
    BY <1>0, <1>6, <2>1 DEF StopExecutingIdentityExchange, Following, Exchanging,
       Resting, Same, Types, StopLarger, LargerMachines
<1> QED
  BY <1>2, <1>3, <1>4, <1>5, <1>6 DEF Calls

LEMMA ManagerFollows ==
  ASSUME Sound, NEW d \in Devices, Manager(d)
  PROVE  \A e \in Devices : Following(e)'
<1>0. /\ Types /\ Following(d) /\ larger[d] \in LargerMachines
      /\ smaller[d] \in SmallerMachines
  BY DEF Sound, Types
<1>1. SUFFICES Following(d)' /\ \A e \in Devices \ {d} : Same(e)
  BY SameFollows DEF Sound
<1>2. CASE ManagerStarts(d) \/ ManagerFailsToStart(d)
  BY <1>0, <1>2 DEF ManagerStarts, ManagerFailsToStart, Following, Exchanging, Resting,
     Seeking, Listening, Asking, Same, Types
<1>3. ASSUME StopSettled(d)
      PROVE  /\ Exchanging(d)' <=> Exchanging(d)
             /\ \A e \in Devices \ {d} : ie'[e] = ie[e]
  BY <1>0, <1>3 DEF StopSettled, Exchanging, Types
<1>4. ASSUME Finds(d, smaller[d]) \/ Awaits(d, smaller[d]), smaller[d].waiting # "no",
             UNCHANGED <<larger, code, answer>>
      PROVE  Seeking(d)' /\ \A e \in Devices \ {d} : smaller'[e] = smaller[e]
  <2>1. Exchanging(d) /\ Seeking(d) /\ code[d] = NoCode
    BY <1>4, AskingSeeks
  <2> QED
    BY <1>0, <1>4, <2>1, FoundSeeks DEF Seeking, Asking
<1>5. CASE ManagerStops(d)
  <2>1. CASE smaller[d].waiting = "manager"
    <3>1. Finds(d, smaller[d]) \/ Awaits(d, smaller[d])
      BY <1>0, <1>5, <2>1, AskingSeeks, LookedUp DEF ManagerStops
    <3>2. Exchanging(d)
      BY <2>1, AskingSeeks
    <3>3. Seeking(d)' /\ \A e \in Devices \ {d} : smaller'[e] = smaller[e]
      BY <1>4, <1>5, <2>1, <3>1 DEF ManagerStops
    <3> QED
      BY <1>3, <1>5, <3>2, <3>3 DEF ManagerStops, Following, Same
  <2>2. CASE smaller[d].waiting # "manager"
    BY <1>0, <1>3, <1>5, <2>2 DEF ManagerStops, Following, Same, Resting, Seeking,
       Listening, Asking
  <2> QED
    BY <2>1, <2>2
<1>6. CASE ManagerFailsToStop(d)
  <2>1. CASE smaller[d].waiting = "manager"
    <3>1. Exchanging(d) /\ Seeking(d)
      BY <2>1, AskingSeeks
    <3>2. /\ smaller'[d] = [smaller[d] EXCEPT !.waiting = "nothing"]
          /\ \A e \in Devices \ {d} : smaller'[e] = smaller[e]
      BY <1>0, <1>6, <2>1 DEF ManagerFailsToStop, Types
    <3>3. /\ smaller'[d].peer = smaller[d].peer /\ smaller'[d].state = smaller[d].state
          /\ smaller'[d].rn = smaller[d].rn
      BY <1>0, <3>2 DEF SmallerMachines
    <3>4. Seeking(d)'
      BY <1>6, <2>1, <3>1, <3>3 DEF ManagerFailsToStop, Seeking, Asking
    <3> QED
      BY <1>3, <1>6, <3>1, <3>2, <3>4 DEF ManagerFailsToStop, Following, Same
  <2>2. CASE smaller[d].waiting # "manager"
    <3>1. smaller' = smaller
      BY <1>0, <1>6, <2>2 DEF ManagerFailsToStop, Types, SmallerMachines
    <3> QED
      BY <1>0, <1>3, <1>6, <3>1 DEF ManagerFailsToStop, Following, Same, Resting,
         Seeking, Listening, Asking
  <2> QED
    BY <2>1, <2>2
<1>7. CASE \E p \in Known[d] : ConnectionSuccess(d, p)
  <2>1. PICK p \in Known[d] : ConnectionSuccess(d, p)
    BY <1>7
  <2>2. CASE smaller[d].waiting = "port" /\ smaller[d].peer = p
    <3>1. Finds(d, smaller[d])
      BY <2>1, <2>2 DEF ConnectionSuccess, Finds
    <3>2. Seeking(d)' /\ \A e \in Devices \ {d} : smaller'[e] = smaller[e]
      BY <1>4, <2>1, <2>2, <3>1 DEF ConnectionSuccess
    <3> QED
      BY <2>1, <2>2, <3>2, AskingSeeks DEF ConnectionSuccess, api, Following, Exchanging, Same
  <2>3. CASE ~(smaller[d].waiting = "port" /\ smaller[d].peer = p)
    BY <1>0, <2>1, <2>3 DEF ConnectionSuccess, api, Following, Exchanging, Resting,
       Seeking, Listening, Asking, Same
  <2> QED
    BY <2>2, <2>3
<1> QED
  BY <1>2, <1>5, <1>6, <1>7 DEF Manager

\* An answer reaches nobody but a machine that asks.
LEMMA AnswerFollows ==
  ASSUME Sound, NEW d \in Devices, NEW r \in requests, r.pk # d,
         NEW kind, NEW rnOther, Answer(r, d, kind, rnOther),
         UNCHANGED <<ie, smaller>>,
         Following(d) => (answer'[d] = answer[d] => Following(d)'),
         \A e \in Devices \ {d} : larger'[e] = larger[e] /\ code'[e] = code[e]
  PROVE  \A e \in Devices : Following(e)'
<1>1. answer'[d] = answer[d] /\ r.pk \in Devices
  BY DEF Answer, Sound, Types, Messages
<1>2. ASSUME NEW e \in Devices \ {d}
      PROVE  Following(e)'
  <2>1. CASE Same(e)
    BY <2>1, SameFollows DEF Sound
  <2>2. CASE ~Same(e)
    <3>1. e = r.pk /\ Waits(r)
      BY <1>1, <2>2 DEF Same, Answer, Sound, Types
    <3>2. Asking(smaller[e])
      BY <3>1 DEF Waits
    <3>3. Exchanging(e) /\ Seeking(e) /\ code[e] = NoCode
      BY <3>2, AskingSeeks
    <3>4. Seeking(e)'
      BY <3>2, <3>3 DEF Seeking, Asking
    <3> QED
      BY <3>3, <3>4 DEF Following, Exchanging
  <2> QED
    BY <2>1, <2>2
<1> QED
  BY <1>1, <1>2 DEF Sound

LEMMA ArrivalsFollow ==
  ASSUME Sound, NEW d \in Devices, NEW r \in requests,
         CbArrives(d, r) \/ RnMineArrives(d, r)
  PROVE  \A e \in Devices : Following(e)'
<1>0. /\ Types /\ Following(d) /\ larger[d] \in LargerMachines
      /\ smaller[d] \in SmallerMachines
  BY DEF Sound, Types
<1>1. CASE CbArrives(d, r)
  <2>1. PICK rn : /\ larger' = [larger EXCEPT ![d] = AfterCb(@, r, rn)]
                  /\ Answer(r, d, CbAnswer(larger[d], r), rn)
    BY <1>1 DEF CbArrives
  <2>2. larger'[d] = AfterCb(larger[d], r, rn)
    BY <1>0, <2>1 DEF Types
  <2>3. CASE CbAnswer(larger[d], r) = "ok"
    <3>1. larger[d].state \in {"WaitForCb", "WaitForRnMine"}
      BY <2>3 DEF CbAnswer, EarlyAnswer
    <3>2. Exchanging(d) /\ Listening(d)
      BY <1>0, <3>1 DEF Following, Seeking, Resting
    <3>3. larger'[d].state = "WaitForRnMine" /\ larger'[d].other = larger[d].other
      BY <1>0, <2>2, <2>3 DEF AfterCb, LargerMachines
    <3>4. answer'[d] = answer[d] => Following(d)'
      BY <1>1, <3>2, <3>3 DEF CbArrives, api, Following, Exchanging, Listening
    <3> QED
      BY <1>0, <1>1, <2>1, <3>4, AnswerFollows DEF CbArrives, api, Types
  <2>4. CASE CbAnswer(larger[d], r) # "ok"
    <3>1. larger' = larger
      BY <1>0, <2>1, <2>2, <2>4 DEF AfterCb, Types
    <3>2. answer'[d] = answer[d] => Following(d)'
      BY <1>0, <1>1, <3>1, SameFollows DEF CbArrives, api, Same
    <3> QED
      BY <1>0, <1>1, <2>1, <3>1, <3>2, AnswerFollows DEF CbArrives, api
  <2> QED
    BY <2>3, <2>4
<1>2. CASE RnMineArrives(d, r)
  <2>1. CASE RnMineAnswer(larger[d], d, r) = "ok"
    <3>1. larger[d].state = "WaitForRnMine"
      BY <2>1 DEF RnMineAnswer, EarlyAnswer
    <3>2. Exchanging(d) /\ Listening(d)
      BY <1>0, <3>1 DEF Following, Seeking, Resting
    <3>3. code'[d] = LargerCode(larger[d], d, r) /\ \A e \in Devices \ {d} : code'[e] = code[e]
      BY <1>0, <1>2, <2>1 DEF RnMineArrives, Types
    <3>4. answer'[d] = answer[d] => Following(d)'
      BY <1>2, <3>2, <3>3 DEF RnMineArrives, api, Following, Exchanging, Listening,
         LargerCode, GenerateValidationCode
    <3> QED
      BY <1>2, <3>3, <3>4, AnswerFollows DEF RnMineArrives, api
  <2>2. CASE RnMineAnswer(larger[d], d, r) # "ok"
    <3>1. answer'[d] = answer[d] => Following(d)'
      BY <1>0, <1>2, <2>2, SameFollows DEF RnMineArrives, api, Same
    <3> QED
      BY <1>2, <2>2, <3>1, AnswerFollows DEF RnMineArrives, api
  <2> QED
    BY <2>1, <2>2
<1> QED
  BY <1>1, <1>2

LEMMA ExchangeFollows ==
  ASSUME Sound, NEW d \in Devices, Exchange(d)
  PROVE  \A e \in Devices : Following(e)'
<1>0. /\ Types /\ Following(d) /\ larger[d] \in LargerMachines
      /\ smaller[d] \in SmallerMachines
  BY DEF Sound, Types
<1>1. CASE \E r \in requests : CbArrives(d, r) \/ RnMineArrives(d, r)
  BY <1>1, ArrivalsFollow
<1>2. SUFFICES ASSUME ~(\E r \in requests : CbArrives(d, r) \/ RnMineArrives(d, r))
               PROVE  Following(d)' /\ \A e \in Devices \ {d} : Same(e)
  BY <1>1, SameFollows DEF Sound
<1>3. ASSUME Asking(smaller[d])
      PROVE  Exchanging(d) /\ Seeking(d) /\ code[d] = NoCode
  BY <1>3, AskingSeeks
<1>4. ASSUME answer[d] # NoAnswer
      PROVE  Asking(smaller[d])
  BY <1>0, <1>4 DEF Following, Resting, Seeking, Listening
<1>5. CASE RequestFails(d) \/ BadAnswer(d)
  <2>1. Exchanging(d) /\ Seeking(d) /\ code[d] = NoCode
    BY <1>3, <1>4, <1>5 DEF RequestFails, BadAnswer, Reacts
  <2>2. smaller'[d] = ChannelBindingError(smaller[d]) /\ answer'[d] = NoAnswer
    BY <1>0, <1>5 DEF RequestFails, BadAnswer, Reacts, Types
  <2>3. /\ smaller'[d].state = "GetPeerIdPort" /\ smaller'[d].rn = None
        /\ smaller'[d].peer = smaller[d].peer
    BY <1>0, <2>2 DEF ChannelBindingError, SmallerMachines
  <2> QED
    BY <1>0, <1>5, <2>1, <2>2, <2>3 DEF RequestFails, BadAnswer, Reacts, api, Types,
       Following, Exchanging, Seeking, Asking, Same
<1>6. CASE CbSucceeds(d)
  <2>1. Exchanging(d) /\ Seeking(d) /\ code[d] = NoCode /\ smaller[d].waiting = "no"
        /\ smaller[d].rn # None
    BY <1>6, AskingSeeks, Numbers DEF CbSucceeds, Asking
  <2>2. /\ smaller'[d] = CbRequestSucceeded(smaller[d], answer[d].rnOther)
        /\ answer'[d] = NoAnswer
    BY <1>0, <1>6 DEF CbSucceeds, Reacts, Types
  <2>3. /\ smaller'[d].state = "MakeRnMineRequest" /\ smaller'[d].rn = smaller[d].rn
        /\ smaller'[d].peer = smaller[d].peer /\ smaller'[d].waiting = smaller[d].waiting
    BY <1>0, <2>2 DEF CbRequestSucceeded, SmallerMachines
  <2> QED
    BY <1>0, <1>6, <2>1, <2>2, <2>3 DEF CbSucceeds, Reacts, api, Types,
       Following, Exchanging, Seeking, Asking, Same
<1>7. CASE RnMineSucceeds(d) \/ WrongPeer(d)
  <2>1. Exchanging(d) /\ Seeking(d) /\ code[d] = NoCode
    BY <1>3, <1>4, <1>7 DEF RnMineSucceeds, WrongPeer, Reacts
  <2>2. smaller'[d] = ExitCalled(smaller[d]) /\ answer'[d] = NoAnswer
    BY <1>0, <1>7 DEF RnMineSucceeds, WrongPeer, Reacts, Types
  <2>3. /\ smaller'[d].state = "Exit" /\ smaller'[d].rn = None
        /\ smaller'[d].peer = smaller[d].peer /\ smaller'[d].waiting = "no"
    BY <1>0, <2>2 DEF ExitCalled, SmallerMachines
  <2>4. code'[d] # NoCode => code'[d].first = smaller[d].peer /\ code'[d].second = d
    BY <1>0, <1>7, <2>1 DEF RnMineSucceeds, WrongPeer, SmallerCode,
       GenerateValidationCode, Types
  <2> QED
    BY <1>0, <1>7, <2>1, <2>2, <2>3, <2>4 DEF RnMineSucceeds, WrongPeer, Reacts, api,
       Types, Following, Exchanging, Seeking, Asking, Same
<1>8. CASE OtherNotStarted(d)
  <2>1. Exchanging(d) /\ Seeking(d) /\ code[d] = NoCode
    BY <1>3, <1>4, <1>8 DEF OtherNotStarted, Reacts
  <2>2. smaller'[d] = IdentityExchangeNotStarted(smaller[d]) /\ answer'[d] = NoAnswer
    BY <1>0, <1>8 DEF OtherNotStarted, Reacts, Types
  <2>3. /\ smaller'[d].state = "WaitForIdentityExchangeToStart" /\ smaller'[d].rn = None
        /\ smaller'[d].peer = smaller[d].peer
    BY <1>0, <2>2 DEF IdentityExchangeNotStarted, SmallerMachines
  <2> QED
    BY <1>0, <1>8, <2>1, <2>2, <2>3 DEF OtherNotStarted, Reacts, api, Types,
       Following, Exchanging, Seeking, Asking, Same
<1>9. CASE TriesAgain(d)
  <2>1. Exchanging(d) /\ Seeking(d) /\ code[d] = NoCode /\ LookUp(d, smaller[d])
        /\ smaller[d].rn = None /\ answer[d] = NoAnswer
    BY <1>9, AskingSeeks DEF TriesAgain, Asking
  <2>2. Finds(d, smaller[d]) \/ Awaits(d, smaller[d])
    BY <1>0, <2>1, LookedUp DEF Seeking
  <2>3. Seeking(d)' /\ \A e \in Devices \ {d} : smaller'[e] = smaller[e]
    BY <1>0, <1>9, <2>1, <2>2, FoundSeeks DEF TriesAgain, Seeking
  <2> QED
    BY <1>9, <2>1, <2>3 DEF TriesAgain, api, Following, Exchanging, Same
<1> QED
  BY <1>2, <1>5, <1>6, <1>7, <1>8, <1>9 DEF Exchange

LEMMA InitSound == Init => Sound
<1> SUFFICES ASSUME Init PROVE Sound
  OBVIOUS
<1>1. Types
  BY Nothings DEF Init, Types, States, NoTable
<1>2. \A d \in Devices : Following(d)
  BY DEF Init, Following, Exchanging, Resting, NewLarger
<1> QED
  BY <1>1, <1>2 DEF Sound

LEMMA StepSound == Sound /\ [Next]_vars => Sound'
<1> SUFFICES ASSUME Sound, [Next]_vars PROVE Sound'
  OBVIOUS
<1>1. CASE UNCHANGED vars
  <2>1. Types'
    BY <1>1 DEF Sound, Types, vars, api
  <2>2. \A d \in Devices : Same(d)
    BY <1>1 DEF vars, api, Same
  <2> QED
    BY <2>1, <2>2, SameFollows DEF Sound
<1>2. ASSUME NEW d \in Devices, Calls(d) \/ Manager(d) \/ Exchange(d)
      PROVE  Sound'
  BY <1>2, CallsTypes, ManagerTypes, ExchangeTypes, CallsFollow, ManagerFollows,
     ExchangeFollows DEF Sound
<1> QED
  BY <1>1, <1>2 DEF Next

\* Every variable of all devices and of the network keeps to its type.
THEOREM TypeCorrect == Spec => []TypeOK
<1>1. Sound => TypeOK
  BY DEF Sound, Types, TypeOK, LargerMachines, SmallerMachines, Codes, Messages, Answers
<1> QED
  BY InitSound, StepSound, <1>1, PTL DEF Spec

\* The machines run exactly as long as the exchange does (identityexchange.js,
\* onExecuteIdentityExchangeCalled and onStopExecutingIdentityExchangeCalled).
THEOREM Follow == Spec => []MachinesFollow
<1>1. Sound => MachinesFollow
  <2> SUFFICES ASSUME Sound, NEW d \in Devices, Following(d)
               PROVE  /\ ~Exchanging(d) =>
                           /\ smaller[d] = NewSmaller /\ code[d] = NoCode
                           /\ larger[d].state \in {"none", "NoIdentityExchange"}
                           /\ answer[d] = NoAnswer
                      /\ Exchanging(d) =>
                           \/ larger[d].state = "WrongPeer" /\ smaller[d].peer > d
                           \/ /\ larger[d].state \in {"WaitForCb", "WaitForRnMine"}
                              /\ smaller[d].state = "Exit" /\ smaller[d].peer < d
    BY DEF Sound, MachinesFollow
  <2> QED
    BY Numbers DEF Following, Resting, Seeking, Listening
<1> QED
  BY InitSound, StepSound, <1>1, PTL DEF Spec

-----------------------------------------------------------------------------
(* The codes. *)

\* Random numbers tell attempts apart: of machines, of requests on their way,
\* and of commitments that have been accepted.
Distinct ==
  /\ \A d, e \in Devices :
       smaller[d].rn # None /\ smaller[d].rn = smaller[e].rn => d = e
  /\ \A q, r \in requests : q.rn = r.rn => q = r
  /\ \A d \in Devices, r \in requests :
       r.rn = smaller[d].rn => r = RequestOf(d, smaller[d])
  /\ \A d \in Devices, r \in requests :
       answer[d] # NoAnswer => r.rn # smaller[d].rn
  /\ \A l \in Devices, r \in requests :
       r.path = "cb" => larger[l].cb[1] # r.rn

\* What the peer of machine s knows of the machine's attempt.
PeerOf(s)     == smaller[s].peer
AnsweredOk(s) == answer[s].kind = "ok" /\ answer[s].pk = PeerOf(s)

\* As long as the commitment it keeps is that of the attempt, its own number is
\* the one the machine got.
Agreed(s) ==
  (PeerOf(s) \in Devices /\ smaller[s].rn # None
     /\ larger[PeerOf(s)].cb[1] = smaller[s].rn) =>
    /\ smaller[s].state = "MakeCbRequest" /\ AnsweredOk(s)
         => larger[PeerOf(s)].rn = answer[s].rnOther
    /\ smaller[s].state = "MakeRnMineRequest"
         => larger[PeerOf(s)].rn = smaller[s].rnOther

Committed(s) ==
  \/ smaller[s].state = "MakeCbRequest" /\ AnsweredOk(s)
  \/ smaller[s].state = "MakeRnMineRequest"
  \/ smaller[s].state = "Exit" /\ code[s] # NoCode

\* Once it has accepted the commitment of an attempt, the commitment it keeps is
\* never again one whose number was revealed in an older attempt.
NoOlder(s) ==
  (PeerOf(s) \in Devices /\ s < PeerOf(s) /\ Committed(s)) =>
    \A r \in requests :
      (r.path = "rnmine" /\ r.pk = s /\ r.rn # smaller[s].rn)
        => larger[PeerOf(s)].cb[1] # r.rn

\* Its code is the one the machine will show, and then the one it shows.
Left(s)      == code[PeerOf(s)] = NoCode \/ larger[PeerOf(s)].other # s
Confirmed(s) ==
  (PeerOf(s) \in Devices /\ smaller[s].state = "MakeRnMineRequest" /\ AnsweredOk(s))
    => Left(s) \/ code[PeerOf(s)] = SmallerCode(smaller[s], s)
Shown(s) ==
  (PeerOf(s) \in Devices /\ s < PeerOf(s) /\ code[s] # NoCode)
    => Left(s) \/ code[PeerOf(s)] = code[s]

Attempt(s) == Agreed(s) /\ NoOlder(s) /\ Confirmed(s) /\ Shown(s)
IInv == Sound /\ Distinct /\ \A s \in Devices : Attempt(s)

-----------------------------------------------------------------------------
(* What a step does to the attempts of device d. *)

Others(d) ==
  \A e \in Devices \ {d} :
    /\ larger'[e] = larger[e] /\ smaller'[e] = smaller[e]
    /\ code'[e] = code[e] /\ answer'[e] = answer[e]

\* Nothing.
Rests ==
  /\ \A e \in Devices :
       /\ smaller'[e] = smaller[e] /\ code'[e] = code[e] /\ answer'[e] = answer[e]
       /\ larger'[e].cb = larger[e].cb /\ larger'[e].rn = larger[e].rn
       /\ larger'[e].other = larger[e].other
  /\ requests' = requests

\* None is under way, and no code is shown.
Ends(d) ==
  /\ Others(d)
  /\ requests' \subseteq requests
  /\ ~Asking(smaller'[d]) /\ smaller'[d].rn = None
  /\ answer'[d] = NoAnswer /\ code'[d] = NoCode
  /\ \/ larger'[d].cb = larger[d].cb /\ larger'[d].rn = larger[d].rn
     \/ larger'[d].cb = NoCb

\* One begins.
Begins(d) ==
  /\ Others(d)
  /\ \E rn \in RandomBytes(Devices) :
       /\ smaller'[d].state = "MakeCbRequest" /\ smaller'[d].rn = rn
       /\ RequestOf(d, smaller'[d]).rn = rn /\ RequestOf(d, smaller'[d]).path = "cb"
       /\ requests' = requests \cup {RequestOf(d, smaller'[d])}
  /\ answer'[d] = NoAnswer /\ code'[d] = NoCode
  /\ larger'[d].cb = larger[d].cb /\ larger'[d].rn = larger[d].rn

LEMMA Facts ==
  ASSUME Sound
  PROVE  /\ \A r \in requests : r \in Messages /\ r.rn \in Rns /\ r.rn # None
                                  /\ r.pk \in Devices
         /\ NoCb[1] = None /\ NoAnswer.kind # "ok"
         /\ \A d \in Devices : d \in Int
         /\ \A d \in Devices : PeerOf(d) \in Devices => PeerOf(d) \in Int
BY Numbers DEF Sound, Types, Messages, NoCb, NoAnswer, PeerOf

LEMMA RestsKeeps ==
  ASSUME IInv, Rests
  PROVE  Distinct' /\ \A s \in Devices : Attempt(s)'
<1>1. Distinct'
  BY DEF IInv, Distinct, Rests
<1>2. ASSUME NEW s \in Devices
      PROVE  Attempt(s)'
  BY SMTT(20) DEF IInv, Rests, Attempt, Agreed, NoOlder, Confirmed, Shown, Left,
                  Committed, AnsweredOk, PeerOf
<1> QED
  BY <1>1, <1>2

LEMMA EndsKeeps ==
  ASSUME IInv, NEW d \in Devices, Ends(d)
  PROVE  Distinct' /\ \A s \in Devices : Attempt(s)'
<1> USE Facts DEF IInv
<1>1. Distinct'
  BY DEF Distinct, Ends, Others
<1>2. Attempt(d)'
  BY DEF Ends, Attempt, Agreed, NoOlder, Confirmed, Shown, Committed, Asking
<1>3. ASSUME NEW s \in Devices \ {d}
      PROVE  Attempt(s)'
  <2>1. Attempt(s) /\ PeerOf(s)' = PeerOf(s)
    BY DEF Ends, Others, PeerOf
  <2>2. Agreed(s)' /\ NoOlder(s)'
    BY <2>1 DEF Ends, Others, Attempt, Agreed, NoOlder, Committed, AnsweredOk, PeerOf
  <2>3. Confirmed(s)' /\ Shown(s)'
    BY <2>1 DEF Ends, Others, Attempt, Confirmed, Shown, Left, AnsweredOk, PeerOf
  <2> QED
    BY <2>2, <2>3 DEF Attempt
<1> QED
  BY <1>1, <1>2, <1>3

LEMMA BeginsKeeps ==
  ASSUME IInv, NEW d \in Devices, Begins(d)
  PROVE  Distinct' /\ \A s \in Devices : Attempt(s)'
<1> USE Facts DEF IInv
<1>1. PICK rn \in RandomBytes(Devices) :
        /\ smaller'[d].state = "MakeCbRequest" /\ smaller'[d].rn = rn
        /\ RequestOf(d, smaller'[d]).rn = rn /\ RequestOf(d, smaller'[d]).path = "cb"
        /\ requests' = requests \cup {RequestOf(d, smaller'[d])}
  BY DEF Begins
<1>2. /\ rn # None
      /\ \A e \in Devices : rn # smaller[e].rn
      /\ \A r \in requests : rn # r.rn
      /\ \A e \in Devices : rn # larger[e].cb[1] /\ larger'[e].cb = larger[e].cb
                             /\ larger'[e].rn = larger[e].rn
  BY Drawn DEF Begins, Others
<1>3. Distinct'
  BY <1>1, <1>2 DEF Distinct, Begins, Others
<1>4. Attempt(d)'
  BY <1>1, <1>2 DEF Begins, Attempt, Agreed, NoOlder, Confirmed, Shown, Committed,
     AnsweredOk, PeerOf
<1>5. ASSUME NEW s \in Devices \ {d}
      PROVE  Attempt(s)'
  <2>1. Attempt(s) /\ PeerOf(s)' = PeerOf(s)
    BY DEF Begins, Others, PeerOf
  <2>2. Agreed(s)' /\ NoOlder(s)'
    BY <1>1, <1>2, <2>1 DEF Begins, Others, Attempt, Agreed, NoOlder, Committed,
       AnsweredOk, PeerOf
  <2>3. Confirmed(s)' /\ Shown(s)'
    BY <2>1 DEF Begins, Others, Attempt, Confirmed, Shown, Left, AnsweredOk, PeerOf
  <2> QED
    BY <2>2, <2>3 DEF Attempt
<1> QED
  BY <1>3, <1>4, <1>5

LEMMA CbSucceedsKeeps ==
  ASSUME IInv, NEW d \in Devices, CbSucceeds(d)
  PROVE  Distinct' /\ \A s \in Devices : Attempt(s)'
<1> USE Facts DEF IInv
<1>1. /\ smaller[d].state = "MakeCbRequest" /\ answer[d] # NoAnswer /\ AnsweredOk(d)
      /\ Asking(smaller[d])
  BY DEF CbSucceeds, Reacts, Reaction, AnsweredOk, PeerOf, Asking
<1>2. smaller[d] \in SmallerMachines /\ smaller[d].rn \in Rns /\ smaller[d].rn # None
  BY <1>1, AskingSeeks, Numbers
<1> DEFINE m == CbRequestSucceeded(smaller[d], answer[d].rnOther)
<1>3. /\ m.state = "MakeRnMineRequest" /\ m.rn = smaller[d].rn /\ m.peer = smaller[d].peer
      /\ m.rnOther = answer[d].rnOther
  BY <1>2 DEF CbRequestSucceeded, SmallerMachines
<1>4. /\ RequestOf(d, m).path = "rnmine" /\ RequestOf(d, m).rn = smaller[d].rn
      /\ RequestOf(d, m).pk = d
  BY <1>3 DEF RequestOf, Request
<1> HIDE DEF m
<1>5. /\ smaller'[d] = m /\ answer'[d] = NoAnswer /\ Others(d)
      /\ requests' = requests \cup {RequestOf(d, m)}
      /\ larger' = larger /\ code' = code
  BY DEF CbSucceeds, Reacts, Sound, Types, m, Others
<1>6. Distinct'
  <2>1. \A r \in requests : r.rn # smaller[d].rn
    BY <1>1 DEF Distinct
  <2> QED
    BY <1>2, <1>3, <1>4, <1>5, <2>1 DEF Distinct, Others
<1>7. Attempt(d)'
  <2>1. Attempt(d) /\ Committed(d) /\ PeerOf(d)' = PeerOf(d)
    BY <1>1, <1>3, <1>5 DEF Committed, PeerOf
  <2>2. Agreed(d)' /\ NoOlder(d)'
    BY <1>1, <1>3, <1>4, <1>5, <2>1 DEF Attempt, Agreed, NoOlder, PeerOf
  <2>3. Confirmed(d)' /\ Shown(d)'
    BY <1>3, <1>5, <2>1 DEF Attempt, Confirmed, AnsweredOk, Shown, Left, PeerOf
  <2> QED
    BY <2>2, <2>3 DEF Attempt
<1>8. ASSUME NEW s \in Devices \ {d}
      PROVE  Attempt(s)'
  <2>1. Attempt(s) /\ PeerOf(s)' = PeerOf(s)
    BY <1>5 DEF Others, PeerOf
  <2> QED
    BY <1>4, <1>5, <2>1 DEF Others, Attempt, Agreed, NoOlder, Confirmed, Shown, Left,
       Committed, AnsweredOk, PeerOf
<1> QED
  BY <1>6, <1>7, <1>8

\* A device that asks is nobody's larger party but that of a larger one.
LEMMA LargerParty ==
  ASSUME Sound, NEW d \in Devices, Asking(smaller[d]), NEW s \in Devices, s < d
  PROVE  larger[d].other # s
<1>1. Seeking(d)
  BY AskingSeeks
<1>2. larger[d].other = smaller[d].peer /\ d < smaller[d].peer /\ smaller[d].peer \in Peers
  BY <1>1 DEF Seeking
<1>3. d \in Int /\ s \in Int /\ smaller[d].peer \in Int
  BY <1>2, Numbers
<1> QED
  BY <1>2, <1>3

LEMMA RnMineSucceedsKeeps ==
  ASSUME IInv, NEW d \in Devices, RnMineSucceeds(d)
  PROVE  Distinct' /\ \A s \in Devices : Attempt(s)'
<1> USE Facts DEF IInv
<1>1. /\ smaller[d].state = "MakeRnMineRequest" /\ answer[d] # NoAnswer /\ AnsweredOk(d)
      /\ Asking(smaller[d])
  BY DEF RnMineSucceeds, Reacts, Reaction, AnsweredOk, PeerOf, Asking
<1>2. smaller[d] \in SmallerMachines /\ smaller[d].rn # None /\ d < PeerOf(d)
  BY <1>1, AskingSeeks, Numbers DEF Seeking, PeerOf
<1>3. /\ ExitCalled(smaller[d]).state = "Exit" /\ ExitCalled(smaller[d]).rn = None
      /\ ExitCalled(smaller[d]).peer = smaller[d].peer
  BY <1>2 DEF ExitCalled, SmallerMachines
<1>4. /\ smaller'[d] = ExitCalled(smaller[d]) /\ answer'[d] = NoAnswer /\ Others(d)
      /\ requests' = requests /\ larger' = larger
      /\ code'[d] = SmallerCode(smaller[d], d)
  BY DEF RnMineSucceeds, Reacts, Sound, Types, Others
<1>5. Distinct'
  BY <1>2, <1>3, <1>4 DEF Distinct, Others
<1>6. Attempt(d)'
  <2>1. Attempt(d) /\ Committed(d) /\ PeerOf(d)' = PeerOf(d) /\ PeerOf(d) # d
    BY <1>1, <1>2, <1>3, <1>4 DEF Committed, PeerOf
  <2>2. \A r \in requests : r.rn # smaller[d].rn
    BY <1>1 DEF Distinct
  <2>3. Agreed(d)' /\ NoOlder(d)'
    BY <1>2, <1>3, <1>4, <2>1, <2>2 DEF Attempt, Agreed, NoOlder, PeerOf
  <2>4. Confirmed(d)' /\ Shown(d)'
    BY <1>1, <1>3, <1>4, <2>1 DEF Attempt, Confirmed, Shown, Left, PeerOf, Others
  <2> QED
    BY <2>3, <2>4 DEF Attempt
<1>7. ASSUME NEW s \in Devices \ {d}
      PROVE  Attempt(s)'
  <2>1. Attempt(s) /\ PeerOf(s)' = PeerOf(s)
    BY <1>4 DEF Others, PeerOf
  <2>2. Agreed(s)' /\ NoOlder(s)'
    BY <1>4, <2>1 DEF Others, Attempt, Agreed, NoOlder, Committed, AnsweredOk, PeerOf
  <2>3. s < d => larger[d].other # s
    BY <1>1, LargerParty
  <2>4. Shown(s)'
    BY <1>4, <2>1, <2>3 DEF Others, Attempt, Shown, Left, PeerOf
  <2>5. Confirmed(s)'
    <3>1. smaller[s].state = "MakeRnMineRequest" => s < PeerOf(s)
      BY AskingSeeks DEF Asking, Seeking, PeerOf
    <3> QED
      BY <1>4, <2>1, <2>3, <3>1 DEF Others, Attempt, Confirmed, Left, AnsweredOk, PeerOf
  <2> QED
    BY <2>2, <2>4, <2>5 DEF Attempt
<1> QED
  BY <1>5, <1>6, <1>7

-----------------------------------------------------------------------------
(* Requests that arrive. *)

\* An answer comes from the device the request reached, and is the only one.
LEMMA Answered ==
  ASSUME IInv, NEW d \in Devices, NEW r \in requests, NEW kind, NEW rnOther,
         Answer(r, d, kind, rnOther), requests' = requests \ {r},
         UNCHANGED smaller
  PROVE  /\ \A s \in Devices :
              \/ answer'[s] = answer[s]
              \/ /\ s = r.pk /\ Waits(r) /\ r = RequestOf(s, smaller[s])
                 /\ r.rn = smaller[s].rn
                 /\ answer'[s] = [kind |-> kind, pk |-> d, rnOther |-> rnOther]
         /\ \A s \in Devices :
              r.rn = smaller[s].rn => /\ s = r.pk /\ Waits(r)
                /\ answer'[s] = [kind |-> kind, pk |-> d, rnOther |-> rnOther]
         /\ \A s \in Devices, q \in requests' :
              answer'[s] # NoAnswer => q.rn # smaller[s].rn
<1> USE Facts DEF IInv
<1>1. ASSUME NEW s \in Devices, answer'[s] # answer[s]
      PROVE  /\ s = r.pk /\ Waits(r) /\ r = RequestOf(s, smaller[s])
             /\ r.rn = smaller[s].rn
             /\ answer'[s] = [kind |-> kind, pk |-> d, rnOther |-> rnOther]
  BY <1>1 DEF Answer, Sound, Types, Waits, RequestOf, Request
<1>2. ASSUME NEW s \in Devices, r.rn = smaller[s].rn
      PROVE  /\ s = r.pk /\ Waits(r)
             /\ answer'[s] = [kind |-> kind, pk |-> d, rnOther |-> rnOther]
  <2>1. r = RequestOf(s, smaller[s])
    BY <1>2 DEF Distinct
  <2>2. r.pk = s
    BY <2>1 DEF RequestOf, Request
  <2>3. Asking(smaller[s])
    <3>1. Following(s)
      BY DEF Sound
    <3> QED
      BY <1>2, <3>1 DEF Following, Resting, Listening, Seeking, NewSmaller
  <2>4. Waits(r)
    BY <2>1, <2>2, <2>3 DEF Waits
  <2> QED
    BY <2>2, <2>4 DEF Answer, Sound, Types
<1>3. ASSUME NEW s \in Devices, NEW q \in requests', answer'[s] # NoAnswer
      PROVE  q.rn # smaller[s].rn
  BY <1>1, <1>3 DEF Distinct
<1> QED
  BY <1>1, <1>2, <1>3

LEMMA CbArrivesKeeps ==
  ASSUME IInv, NEW d \in Devices, NEW r \in requests, CbArrives(d, r)
  PROVE  Distinct' /\ \A s \in Devices : Attempt(s)'
<1> USE Facts DEF IInv
<1> DEFINE kind == CbAnswer(larger[d], r)
<1>1. PICK rn \in IF kind = "ok" THEN RandomBytes(Devices \ {d}) ELSE {None} :
        /\ larger' = [larger EXCEPT ![d] = AfterCb(@, r, rn)]
        /\ Answer(r, d, kind, rn)
  BY DEF CbArrives
<1>2. /\ r.path = "cb" /\ requests' = requests \ {r} /\ smaller' = smaller
      /\ code' = code /\ larger[d] \in LargerMachines /\ r \in Messages
      /\ \A e \in Devices \ {d} : larger'[e] = larger[e]
      /\ larger'[d] = AfterCb(larger[d], r, rn)
  BY <1>1 DEF CbArrives, Sound, Types
<1>3. larger'[d].other = larger[d].other
  BY <1>2 DEF AfterCb, LargerMachines
<1>4. \/ larger'[d].cb = larger[d].cb /\ larger'[d].rn = larger[d].rn
      \/ /\ larger'[d].cb[1] = r.rn /\ larger'[d].rn = rn /\ kind = "ok"
         /\ r.pk = larger[d].other /\ Listening(d)
  <2>1. CASE kind # "ok"
    BY <1>2, <2>1 DEF AfterCb
  <2>2. CASE kind = "ok"
    <3>1. larger[d].state \in {"WaitForCb", "WaitForRnMine"} /\ r.pk = larger[d].other
      BY <2>2 DEF CbAnswer, EarlyAnswer
    <3>2. Following(d)
      BY DEF Sound
    <3>3. Listening(d)
      BY <3>1, <3>2 DEF Following, Seeking, Resting
    <3>4. larger'[d].cb = GenerateCb(r.rn, r.pk, r.other) /\ larger'[d].rn = rn
      BY <1>2, <2>2 DEF AfterCb, LargerMachines
    <3> QED
      BY <2>2, <3>1, <3>3, <3>4 DEF GenerateCb
  <2> QED
    BY <2>1, <2>2
<1> HIDE DEF kind
<1>5. /\ \A s \in Devices :
            \/ answer'[s] = answer[s]
            \/ /\ s = r.pk /\ Waits(r) /\ r = RequestOf(s, smaller[s])
               /\ r.rn = smaller[s].rn
               /\ answer'[s] = [kind |-> kind, pk |-> d, rnOther |-> rn]
      /\ \A s \in Devices :
            r.rn = smaller[s].rn => /\ s = r.pk /\ Waits(r)
              /\ answer'[s] = [kind |-> kind, pk |-> d, rnOther |-> rn]
      /\ \A s \in Devices, q \in requests' :
            answer'[s] # NoAnswer => q.rn # smaller[s].rn
  BY <1>1, <1>2, Answered
<1>6. \A q \in requests' : q \in requests /\ q.rn # r.rn
  BY <1>2 DEF Distinct
<1>7. Distinct'
  <2>1. \A l \in Devices, q \in requests' : q.path = "cb" => larger'[l].cb[1] # q.rn
    BY <1>2, <1>4, <1>6 DEF Distinct
  <2> QED
    BY <1>2, <1>5, <1>6, <2>1 DEF Distinct, RequestOf, Request
<1>8. ASSUME NEW s \in Devices
      PROVE  Attempt(s)'
  <2>1. /\ Attempt(s) /\ PeerOf(s)' = PeerOf(s) /\ smaller'[s] = smaller[s]
        /\ code'[s] = code[s] /\ \A l \in Devices : larger'[l].other = larger[l].other
    BY <1>2, <1>3 DEF PeerOf
  \* The request arrives at the peer of the machine it comes from, or elsewhere.
  <2>2. CASE r.rn = smaller[s].rn
    <3>1. /\ s = r.pk /\ answer'[s] = [kind |-> kind, pk |-> d, rnOther |-> rn]
          /\ smaller[s].state = "MakeCbRequest" /\ code[s] = NoCode
      <4>1. s = r.pk /\ Waits(r) /\ answer'[s] = [kind |-> kind, pk |-> d, rnOther |-> rn]
        BY <1>5, <2>2
      <4>2. Asking(smaller[s]) /\ r = RequestOf(s, smaller[s])
        BY <4>1 DEF Waits
      <4>3. smaller[s].state = "MakeCbRequest"
        BY <1>2, <4>2 DEF Asking, RequestOf, Request
      <4> QED
        BY <4>1, <4>2, <4>3, AskingSeeks
    <3>2. \A l \in Devices : larger[l].cb[1] # r.rn
      BY <1>2 DEF Distinct
    <3>3. Agreed(s)'
      BY <1>2, <1>4, <2>1, <2>2, <3>1, <3>2 DEF Agreed, AnsweredOk, PeerOf
    <3>4. NoOlder(s)'
      <4>1. ASSUME PeerOf(s) \in Devices, Committed(s)'
            PROVE  PeerOf(s) = d /\ kind = "ok"
        BY <2>1, <3>1, <4>1 DEF Committed, AnsweredOk, PeerOf
      <4>2. kind = "ok" => larger'[d].cb[1] = r.rn
        BY <1>2 DEF AfterCb, GenerateCb, LargerMachines, kind
      <4> QED
        BY <1>6, <2>1, <4>1, <4>2 DEF NoOlder
    <3> QED
      BY <2>1, <3>1, <3>3, <3>4 DEF Attempt, Confirmed, Shown
  <2>3. CASE r.rn # smaller[s].rn
    <3>1. answer'[s] = answer[s]
      BY <1>5, <2>3
    <3>2. Agreed(s)'
      BY <1>2, <1>4, <2>1, <2>3, <3>1 DEF Attempt, Agreed, AnsweredOk, PeerOf
    <3>3. NoOlder(s)'
      BY <1>2, <1>4, <1>6, <2>1, <3>1 DEF Attempt, NoOlder, Committed, AnsweredOk, PeerOf
    <3>4. Confirmed(s)' /\ Shown(s)'
      BY <1>2, <2>1, <3>1 DEF Attempt, Confirmed, Shown, Left, AnsweredOk, PeerOf
    <3> QED
      BY <3>2, <3>3, <3>4 DEF Attempt
  <2> QED
    BY <2>2, <2>3
<1> QED
  BY <1>7, <1>8

LEMMA RnMineArrivesKeeps ==
  ASSUME IInv, NEW d \in Devices, NEW r \in requests, RnMineArrives(d, r)
  PROVE  Distinct' /\ \A s \in Devices : Attempt(s)'
<1> USE Facts DEF IInv
<1> DEFINE kind == RnMineAnswer(larger[d], d, r)
<1>1. /\ r.path = "rnmine" /\ requests' = requests \ {r} /\ smaller' = smaller
      /\ larger' = larger /\ Answer(r, d, kind, None)
      /\ \A e \in Devices \ {d} : code'[e] = code[e]
      /\ kind # "ok" => code'[d] = code[d]
  BY DEF RnMineArrives, Sound, Types
<1>2. kind = "ok" =>
        /\ r.pk = larger[d].other /\ larger[d].cb[1] = r.rn /\ Listening(d)
        /\ code'[d] = GenerateValidationCode(larger[d].rn, d, r.pk, r.rn)
  <2>1. SUFFICES ASSUME kind = "ok"
                 PROVE  /\ r.pk = larger[d].other /\ larger[d].cb[1] = r.rn /\ Listening(d)
                        /\ code'[d] = GenerateValidationCode(larger[d].rn, d, r.pk, r.rn)
    OBVIOUS
  <2>2. /\ larger[d].state = "WaitForRnMine" /\ r.pk = larger[d].other
        /\ larger[d].cb = GenerateCb(r.rn, larger[d].other, d)
    BY <2>1 DEF RnMineAnswer, EarlyAnswer
  <2>3. Listening(d)
    BY <2>2 DEF Sound, Following, Seeking, Resting
  <2>4. code'[d] = LargerCode(larger[d], d, r)
    BY <2>1 DEF RnMineArrives, Sound, Types
  <2> QED
    BY <2>2, <2>3, <2>4 DEF LargerCode, GenerateCb
<1> HIDE DEF kind
<1>3. /\ \A s \in Devices :
            \/ answer'[s] = answer[s]
            \/ /\ s = r.pk /\ Waits(r) /\ r = RequestOf(s, smaller[s])
               /\ r.rn = smaller[s].rn
               /\ answer'[s] = [kind |-> kind, pk |-> d, rnOther |-> None]
      /\ \A s \in Devices :
            r.rn = smaller[s].rn => /\ s = r.pk /\ Waits(r)
              /\ answer'[s] = [kind |-> kind, pk |-> d, rnOther |-> None]
      /\ \A s \in Devices, q \in requests' :
            answer'[s] # NoAnswer => q.rn # smaller[s].rn
  BY <1>1, Answered
<1>4. Distinct'
  BY <1>1, <1>3 DEF Distinct, RequestOf, Request
<1>5. ASSUME NEW s \in Devices
      PROVE  Attempt(s)'
  <2>1. /\ Attempt(s) /\ PeerOf(s)' = PeerOf(s) /\ smaller'[s] = smaller[s]
        /\ Following(s)
    BY <1>1 DEF PeerOf, Sound
  \* The machine whose request it is waits for the other party's number no more.
  <2>2. ASSUME answer'[s] # answer[s]
        PROVE  /\ smaller[s].state = "MakeRnMineRequest" /\ r.rn = smaller[s].rn
               /\ s = r.pk /\ answer'[s].kind = kind /\ answer'[s].pk = d
    <3>1. /\ Waits(r) /\ s = r.pk /\ r = RequestOf(s, smaller[s])
          /\ r.rn = smaller[s].rn
          /\ answer'[s] = [kind |-> kind, pk |-> d, rnOther |-> None]
      BY <1>3, <2>2
    <3>2. smaller[s].state = "MakeRnMineRequest"
      BY <1>1, <3>1 DEF Waits, Asking, RequestOf, Request
    <3>3. answer'[s].kind = kind /\ answer'[s].pk = d
      BY <3>1
    <3> QED
      BY <3>1, <3>2, <3>3, Zenon
  \* A code is confirmed for the attempt the device knows of, and for no older one.
  <2>3. ASSUME PeerOf(s) = d, s < d, kind = "ok", Committed(s), r.rn # smaller[s].rn
        PROVE  larger[d].other # s
    BY <1>1, <1>2, <2>1, <2>3 DEF Attempt, NoOlder
  <2>4. Agreed(s)'
    BY <1>1, <2>1, <2>2 DEF Attempt, Agreed, AnsweredOk, PeerOf
  <2>5. CASE s = d /\ kind = "ok"
    <3>1. PeerOf(s) < s /\ smaller[s].state = "Exit"
      BY <1>2, <2>5 DEF Listening, PeerOf
    <3>2. PeerOf(s) \in Devices => ~(s < PeerOf(s))
      BY <3>1
    <3> QED
      BY <2>1, <2>4, <3>1, <3>2 DEF Attempt, NoOlder, Confirmed, Shown
  <2>6. CASE ~(s = d /\ kind = "ok")
    <3>1. code'[s] = code[s]
      BY <1>1, <2>6
    <3>2. smaller[s].state = "MakeRnMineRequest" => s < PeerOf(s)
      BY <2>1, AskingSeeks DEF Asking, Seeking, PeerOf
    <3>3. NoOlder(s)'
      BY <1>1, <2>1, <2>2, <3>1 DEF Attempt, NoOlder, Committed, AnsweredOk, PeerOf
    <3>4. Confirmed(s)'
      <4>1. SUFFICES ASSUME PeerOf(s) \in Devices,
                            smaller[s].state = "MakeRnMineRequest", AnsweredOk(s)'
                     PROVE  Left(s)' \/ code'[PeerOf(s)] = SmallerCode(smaller[s], s)
        BY <2>1 DEF Confirmed, PeerOf
      <4>2. CASE answer'[s] = answer[s]
        <5>1. Left(s) \/ code[PeerOf(s)] = SmallerCode(smaller[s], s)
          BY <2>1, <4>1, <4>2 DEF Attempt, Confirmed, AnsweredOk, PeerOf
        <5>2. CASE PeerOf(s) # d \/ kind # "ok"
          BY <1>1, <2>1, <4>1, <5>1, <5>2 DEF Left
        <5>3. CASE PeerOf(s) = d /\ kind = "ok"
          <6>1. CASE r.rn # smaller[s].rn
            BY <1>1, <2>1, <2>3, <3>2, <4>1, <5>3, <6>1 DEF Left, Committed
          <6>2. CASE r.rn = smaller[s].rn
            BY <1>2, <1>3, <2>1, <4>1, <5>3, <6>2 DEF Attempt, Agreed, SmallerCode, PeerOf,
               Waits, Asking, GenerateValidationCode
          <6> QED
            BY <6>1, <6>2
        <5> QED
          BY <5>2, <5>3
      <4>3. CASE answer'[s] # answer[s]
        <5>1. r.rn = smaller[s].rn /\ s = r.pk /\ PeerOf(s) = d /\ kind = "ok"
          BY <2>1, <2>2, <4>1, <4>3 DEF AnsweredOk
        <5>2. larger[d].rn = smaller[s].rnOther
          BY <1>2, <2>1, <4>1, <5>1 DEF Attempt, Agreed
        <5> QED
          BY <1>2, <5>1, <5>2 DEF SmallerCode, PeerOf
      <4> QED
        BY <4>2, <4>3
    <3>5. Shown(s)'
      <4>1. SUFFICES ASSUME PeerOf(s) \in Devices, s < PeerOf(s), code[s] # NoCode
                     PROVE  Left(s)' \/ code'[PeerOf(s)] = code[s]
        BY <2>1, <3>1 DEF Shown
      <4>2. Left(s) \/ code[PeerOf(s)] = code[s]
        BY <2>1, <4>1 DEF Attempt, Shown
      <4>3. CASE PeerOf(s) # d \/ kind # "ok"
        BY <1>1, <2>1, <4>1, <4>2, <4>3 DEF Left
      <4>4. CASE PeerOf(s) = d /\ kind = "ok"
        <5>1. Exchanging(s) /\ Seeking(s)
          BY <2>1, <4>1 DEF Following, Resting, Listening, PeerOf
        <5>2. smaller[s].state = "Exit" /\ smaller[s].rn = None
          BY <4>1, <5>1 DEF Seeking, Asking
        <5>3. larger[d].other # s
          BY <2>3, <4>1, <4>4, <5>2 DEF Committed
        <5> QED
          BY <1>1, <2>1, <4>4, <5>3 DEF Left
      <4> QED
        BY <4>3, <4>4
    <3> QED
      BY <2>4, <3>3, <3>4, <3>5 DEF Attempt
  <2> QED
    BY <2>5, <2>6
<1> QED
  BY <1>4, <1>5

-----------------------------------------------------------------------------
(* Every step. *)

\* When a machine looks for a port, an attempt begins, or none is under way.
LEMMA FoundBegins ==
  ASSUME Sound, NEW d \in Devices, NEW m \in SmallerMachines,
         Finds(d, m) \/ Awaits(d, m),
         m.state \in {"GetPeerIdPort", "WaitForIdentityExchangeToStart"},
         m.rn = None, answer[d] = NoAnswer, code[d] = NoCode,
         UNCHANGED <<answer, code>>,
         \A e \in Devices \ {d} : larger'[e] = larger[e],
         larger'[d].cb = larger[d].cb, larger'[d].rn = larger[d].rn
  PROVE  Ends(d) \/ Begins(d)
<1>0. smaller \in [Devices -> SmallerMachines]
  BY DEF Sound, Types
<1>1. CASE Awaits(d, m)
  <2>1. /\ smaller'[d] = WaitForPort(m) /\ requests' = requests
        /\ \A e \in Devices \ {d} : smaller'[e] = smaller[e]
    BY <1>0, <1>1 DEF Awaits
  <2>2. ~Asking(WaitForPort(m)) /\ WaitForPort(m).rn = None
    BY DEF WaitForPort, Asking, SmallerMachines
  <2> QED
    BY <2>1, <2>2 DEF Ends, Others
<1>2. CASE Finds(d, m)
  <2>1. PICK rn \in RandomBytes(Devices) :
          /\ smaller' = [smaller EXCEPT ![d] = FoundPeerPort(m, rn)]
          /\ requests' = requests \cup {RequestOf(d, FoundPeerPort(m, rn))}
    BY <1>2 DEF Finds
  <2>2. /\ smaller'[d] = FoundPeerPort(m, rn)
        /\ \A e \in Devices \ {d} : smaller'[e] = smaller[e]
    BY <1>0, <2>1
  <2>3. /\ FoundPeerPort(m, rn).state = "MakeCbRequest" /\ FoundPeerPort(m, rn).rn = rn
        /\ RequestOf(d, FoundPeerPort(m, rn)).rn = rn
        /\ RequestOf(d, FoundPeerPort(m, rn)).path = "cb"
    BY Drawn, RequestFound
  <2> HIDE DEF Finds
  <2> QED
    BY <2>1, <2>2, <2>3 DEF Begins, Others
<1> QED
  BY <1>1, <1>2

LEMMA CallsAttempts ==
  ASSUME Sound, NEW d \in Devices, Calls(d)
  PROVE  Rests \/ Ends(d) \/ Begins(d)
<1>0. /\ Types /\ Following(d) /\ larger[d] \in LargerMachines
      /\ smaller[d] \in SmallerMachines
  BY DEF Sound, Types
<1>1. CASE StartIdentityExchange(d)
  BY <1>0, <1>1 DEF StartIdentityExchange, Rests, Types, StartListening, LargerMachines
<1>2. CASE StartWithBadName(d)
  BY <1>2 DEF StartWithBadName, Rests
<1>3. CASE StopIdentityExchange(d)
  <2>1. Resting(d)
    BY <1>0, <1>3 DEF StopIdentityExchange, Finding, Following, Exchanging
  <2> QED
    BY <1>0, <1>3, <2>1 DEF StopIdentityExchange, Rests, Types, StopLarger,
       LargerMachines, Resting
<1>4. CASE \E p \in Known[d] : ExecuteIdentityExchange(d, p)
  <2>1. PICK p \in Known[d] : ExecuteIdentityExchange(d, p)
    BY <1>4
  <2>2. p \in Peers /\ p \in Int /\ d \in Int
    BY Numbers
  <2>3. Resting(d)
    BY <1>0, <2>1 DEF Following, ExecuteIdentityExchange, Finding, Exchanging
  <2>4. /\ larger'[d].cb = larger[d].cb /\ larger'[d].rn = larger[d].rn
        /\ \A e \in Devices \ {d} : larger'[e] = larger[e]
        /\ UNCHANGED <<answer, code>>
    BY <1>0, <2>1 DEF ExecuteIdentityExchange, ExchangeIdentity, LargerMachines, Types
  <2>5. /\ StartSearch(d, p) \in SmallerMachines /\ StartSearch(d, p).peer = p
        /\ StartSearch(d, p).rn = None
        /\ StartSearch(d, p).state = IF d > p THEN "Exit" ELSE "GetPeerIdPort"
    BY <2>2, Numbers DEF StartSearch, NewSmaller, SmallerMachines, SmallerStates
  <2>6. CASE d > p
    <3>1. smaller' = [smaller EXCEPT ![d] = StartSearch(d, p)] /\ requests' = requests
      BY <2>1, <2>5, <2>6 DEF ExecuteIdentityExchange
    <3>2. /\ smaller'[d] = StartSearch(d, p)
          /\ \A e \in Devices \ {d} : smaller'[e] = smaller[e]
      BY <1>0, <3>1 DEF Types
    <3> QED
      BY <2>3, <2>4, <2>5, <2>6, <3>1, <3>2 DEF Ends, Others, Asking, Resting
  <2>7. CASE ~(d > p)
    <3>1. LookUp(d, StartSearch(d, p))
      BY <2>1, <2>5, <2>7 DEF ExecuteIdentityExchange
    <3>2. Finds(d, StartSearch(d, p)) \/ Awaits(d, StartSearch(d, p))
      BY <1>0, <2>2, <2>5, <3>1, LookedUp
    <3> QED
      BY <2>3, <2>4, <2>5, <2>7, <3>2, FoundBegins DEF Resting
  <2> QED
    BY <2>6, <2>7
<1>5. CASE StopExecutingIdentityExchange(d)
  <2>1. requests' \subseteq requests
    BY <1>5 DEF StopExecutingIdentityExchange, GiveUp
  <2>2. ~Asking(NewSmaller) /\ NewSmaller.rn = None
    BY DEF NewSmaller, Asking
  <2>3. StopLarger(larger[d]).cb = NoCb
    BY <1>0 DEF StopLarger, LargerMachines
  <2> QED
    BY <1>0, <1>5, <2>1, <2>2, <2>3 DEF StopExecutingIdentityExchange, Ends, Others, Types
<1> QED
  BY <1>1, <1>2, <1>3, <1>4, <1>5 DEF Calls

LEMMA ManagerAttempts ==
  ASSUME Sound, NEW d \in Devices, Manager(d)
  PROVE  Rests \/ Ends(d) \/ Begins(d)
<1>0. /\ Types /\ smaller[d] \in SmallerMachines
  BY DEF Sound, Types
<1>1. CASE ManagerStarts(d) \/ ManagerFailsToStart(d)
  BY <1>1 DEF ManagerStarts, ManagerFailsToStart, Rests
<1>2. ASSUME Finds(d, smaller[d]) \/ Awaits(d, smaller[d]), smaller[d].waiting # "no",
             UNCHANGED <<larger, code, answer>>
      PROVE  Ends(d) \/ Begins(d)
  <2>1. /\ Seeking(d) /\ code[d] = NoCode
        /\ ~Asking(smaller[d]) => smaller[d].rn = None /\ answer[d] = NoAnswer
    BY <1>2, AskingSeeks
  <2>2. smaller[d].state \in {"GetPeerIdPort", "WaitForIdentityExchangeToStart"}
    BY <1>2, <2>1 DEF Seeking
  <2> QED
    BY <1>0, <1>2, <2>1, <2>2, FoundBegins DEF Asking
<1>3. CASE ManagerStops(d)
  <2>1. CASE smaller[d].waiting = "manager"
    BY <1>0, <1>2, <1>3, <2>1, AskingSeeks, LookedUp DEF ManagerStops
  <2>2. CASE smaller[d].waiting # "manager"
    BY <1>3, <2>2 DEF ManagerStops, Rests
  <2> QED
    BY <2>1, <2>2
<1>4. CASE ManagerFailsToStop(d)
  <2>1. CASE smaller[d].waiting = "manager"
    <3>1. /\ Seeking(d) /\ code[d] = NoCode
          /\ ~Asking(smaller[d]) => smaller[d].rn = None /\ answer[d] = NoAnswer
      BY <2>1, AskingSeeks
    <3>2. ~Asking(smaller[d])
      BY <2>1, <3>1 DEF Seeking, Asking
    <3>3. /\ smaller'[d] = [smaller[d] EXCEPT !.waiting = "nothing"]
          /\ \A e \in Devices \ {d} : smaller'[e] = smaller[e]
      BY <1>0, <1>4, <2>1 DEF ManagerFailsToStop, Types
    <3>4. smaller'[d].state = smaller[d].state /\ smaller'[d].rn = smaller[d].rn
      BY <1>0, <3>3 DEF SmallerMachines
    <3> QED
      BY <1>4, <3>1, <3>2, <3>3, <3>4 DEF ManagerFailsToStop, Ends, Others, Asking
  <2>2. CASE smaller[d].waiting # "manager"
    <3>1. smaller' = smaller
      BY <1>0, <1>4, <2>2 DEF ManagerFailsToStop, Types, SmallerMachines
    <3> QED
      BY <1>4, <3>1 DEF ManagerFailsToStop, Rests
  <2> QED
    BY <2>1, <2>2
<1>5. CASE \E p \in Known[d] : ConnectionSuccess(d, p)
  <2>1. PICK p \in Known[d] : ConnectionSuccess(d, p)
    BY <1>5
  <2>2. CASE smaller[d].waiting = "port" /\ smaller[d].peer = p
    BY <1>2, <2>1, <2>2 DEF ConnectionSuccess, Finds
  <2>3. CASE ~(smaller[d].waiting = "port" /\ smaller[d].peer = p)
    BY <2>1, <2>3 DEF ConnectionSuccess, Rests
  <2> QED
    BY <2>2, <2>3
<1> QED
  BY <1>1, <1>3, <1>4, <1>5 DEF Manager

LEMMA ExchangeAttempts ==
  ASSUME Sound, NEW d \in Devices,
         \/ RequestFails(d) \/ BadAnswer(d) \/ OtherNotStarted(d) \/ WrongPeer(d)
         \/ TriesAgain(d)
  PROVE  Ends(d) \/ Begins(d)
<1>0. /\ Types /\ Following(d) /\ smaller[d] \in SmallerMachines
  BY DEF Sound, Types
<1>1. ASSUME answer[d] # NoAnswer
      PROVE  Asking(smaller[d])
  BY <1>0, <1>1 DEF Following, Resting, Seeking, Listening
<1>2. CASE TriesAgain(d)
  <2>1. /\ LookUp(d, smaller[d]) /\ code[d] = NoCode /\ smaller[d].peer \in Peers
        /\ smaller[d].rn = None /\ answer[d] = NoAnswer
    BY <1>2, AskingSeeks DEF TriesAgain, Asking
  <2>2. Finds(d, smaller[d]) \/ Awaits(d, smaller[d])
    BY <1>0, <2>1, LookedUp
  <2> QED
    BY <1>0, <1>2, <2>1, <2>2, FoundBegins DEF TriesAgain
<1>3. CASE RequestFails(d) \/ BadAnswer(d) \/ OtherNotStarted(d) \/ WrongPeer(d)
  <2>1. code[d] = NoCode
    BY <1>1, <1>3, AskingSeeks
       DEF RequestFails, BadAnswer, OtherNotStarted, WrongPeer, Reacts
  <2>2. requests' \subseteq requests
    BY <1>3 DEF RequestFails, GiveUp, BadAnswer, OtherNotStarted, WrongPeer
  <2>3. \E m \in {ChannelBindingError(smaller[d]), IdentityExchangeNotStarted(smaller[d]),
                  ExitCalled(smaller[d])} : smaller' = [smaller EXCEPT ![d] = m]
    BY <1>3 DEF RequestFails, BadAnswer, OtherNotStarted, WrongPeer
  <2>4. ~Asking(smaller'[d]) /\ smaller'[d].rn = None
    <3>1. PICK m \in {ChannelBindingError(smaller[d]), IdentityExchangeNotStarted(smaller[d]),
                      ExitCalled(smaller[d])} : smaller' = [smaller EXCEPT ![d] = m]
      BY <2>3
    <3>2. m.state \notin {"MakeCbRequest", "MakeRnMineRequest"} /\ m.rn = None
      BY <1>0 DEF ChannelBindingError, IdentityExchangeNotStarted, ExitCalled,
         SmallerMachines
    <3>3. smaller'[d] = m
      BY <1>0, <3>1 DEF Types
    <3> QED
      BY <3>2, <3>3 DEF Asking
  <2>5. /\ answer' = [answer EXCEPT ![d] = NoAnswer] /\ larger' = larger /\ code' = code
    BY <1>3 DEF RequestFails, BadAnswer, OtherNotStarted, WrongPeer, Reacts
  <2> QED
    BY <1>0, <2>1, <2>2, <2>3, <2>4, <2>5 DEF Ends, Others, Types
<1> QED
  BY <1>2, <1>3

LEMMA InitIInv == Init => IInv
<1> SUFFICES ASSUME Init PROVE IInv
  OBVIOUS
<1>1. Distinct
  BY DEF Init, Distinct, NewSmaller
<1>2. \A s \in Devices : Attempt(s)
  BY DEF Init, Attempt, Agreed, NoOlder, Confirmed, Shown, NewSmaller, PeerOf
<1> QED
  BY <1>1, <1>2, InitSound DEF IInv

LEMMA StepIInv == IInv /\ [Next]_vars => IInv'
<1> SUFFICES ASSUME IInv, [Next]_vars PROVE Distinct' /\ \A s \in Devices : Attempt(s)'
  BY StepSound DEF IInv
<1>1. CASE UNCHANGED vars
  BY <1>1, RestsKeeps DEF vars, Rests
<1>2. ASSUME NEW d \in Devices, Calls(d) \/ Manager(d) \/ Exchange(d)
      PROVE  Distinct' /\ \A s \in Devices : Attempt(s)'
  <2>1. Sound
    BY DEF IInv
  <2>2. CASE Rests \/ Ends(d) \/ Begins(d)
    BY <2>2, RestsKeeps, EndsKeeps, BeginsKeeps
  <2>3. CASE Calls(d) \/ Manager(d)
    BY <2>1, <2>2, <2>3, CallsAttempts, ManagerAttempts
  <2>4. CASE Exchange(d)
    BY <2>1, <2>2, <2>4, ExchangeAttempts, CbArrivesKeeps, RnMineArrivesKeeps,
       CbSucceedsKeeps, RnMineSucceedsKeeps DEF Exchange
  <2> QED
    BY <1>2, <2>3, <2>4
<1> QED
  BY <1>1, <1>2 DEF Next

\* Two devices that show a code for each other show the same code, whatever was
\* retried, given up or delivered late (LargerHashStateMachine.js, cbParser and
\* rnMineParser).
THEOREM SameCodes == Spec => []CodesAgree
<1>1. IInv => CodesAgree
  <2> SUFFICES ASSUME IInv, NEW s \in Devices, NEW l \in Devices,
                      code[s] # NoCode, smaller[s].peer = l, s < l,
                      code[l] # NoCode, larger[l].other = s
               PROVE  code[s] = code[l]
    BY DEF CodesAgree
  <2> QED
    BY DEF IInv, Attempt, Shown, Left, PeerOf
<1> QED
  BY InitIInv, StepIInv, <1>1, PTL DEF Spec

-----------------------------------------------------------------------------
(* Seen by its caller. *)

Seen(d) == <<ie[d], larger[d].other, ShownFor(d), uncaught[d]>>

LEMMA Unseen ==
  ASSUME NEW d \in Devices, ie'[d] = ie[d], larger'[d].other = larger[d].other,
         code'[d] = code[d], uncaught'[d] = uncaught[d]
  PROVE  UNCHANGED Seen(d)
BY DEF Seen, ShownFor

LEMMA CallsSeen ==
  ASSUME Sound, NEW d \in Devices, Calls(d)
  PROVE  Api(d)!ApiNext \/ UNCHANGED Seen(d)
<1>0. /\ Types /\ Following(d) /\ larger[d] \in LargerMachines /\ None \notin Devices
  BY Numbers DEF Sound, Types
<1>1. CASE StartIdentityExchange(d)
  <2>1. Api(d)!Start
    BY <1>0, <1>1 DEF StartIdentityExchange, Up, Api!Start, ShownFor, Types,
       StartListening, LargerMachines
  <2> QED
    BY <2>1 DEF Api!ApiNext
<1>2. CASE StartWithBadName(d)
  <2>1. Api(d)!Start
    BY <1>0, <1>2 DEF StartWithBadName, Up, Api!Start, ShownFor, Types
  <2> QED
    BY <2>1 DEF Api!ApiNext
<1>3. CASE StopIdentityExchange(d)
  <2>1. Resting(d)
    BY <1>0, <1>3 DEF StopIdentityExchange, Finding, Following, Exchanging
  <2>2. Api(d)!Stop
    BY <1>0, <1>3, <2>1 DEF StopIdentityExchange, Finding, Up, Api!Stop, ShownFor, Types,
       StopLarger, LargerMachines, Resting
  <2> QED
    BY <2>2 DEF Api!ApiNext
<1>4. CASE \E p \in Known[d] : ExecuteIdentityExchange(d, p)
  <2>1. PICK p \in Known[d] : ExecuteIdentityExchange(d, p)
    BY <1>4
  <2>2. p \in Peers \ {d}
    BY <2>1, Numbers DEF ExecuteIdentityExchange
  <2>3. Api(d)!Execute(p)
    BY <1>0, <2>1 DEF ExecuteIdentityExchange, Finding, Up, Api!Execute, ShownFor, Types,
       ExchangeIdentity, LargerMachines
  <2> QED
    BY <2>2, <2>3 DEF Api!ApiNext
<1>5. CASE StopExecutingIdentityExchange(d)
  <2>1. /\ larger'[d].other = None /\ code'[d] = NoCode
    BY <1>0, <1>5 DEF StopExecutingIdentityExchange, StopLarger, LargerMachines, Types
  <2>2. ShownFor(d)' = None
    BY <1>0, <2>1 DEF ShownFor, NoCode, GenerateValidationCode
  <2>3. Api(d)!StopExecuting
    BY <1>0, <1>5, <2>1, <2>2 DEF StopExecutingIdentityExchange, Exchanging, Up,
       Api!StopExecuting, Types, None
  <2> QED
    BY <2>3 DEF Api!ApiNext
<1> QED
  BY <1>1, <1>2, <1>3, <1>4, <1>5 DEF Calls

LEMMA ManagerSeen ==
  ASSUME Sound, NEW d \in Devices, Manager(d)
  PROVE  Api(d)!ApiNext \/ UNCHANGED Seen(d)
<1>0. Types
  BY DEF Sound
<1>1. CASE ManagerStarts(d)
  <2>1. Api(d)!StartIsDone \/ ie'[d] = ie[d]
    BY <1>0, <1>1 DEF ManagerStarts, Up, Api!StartIsDone, ShownFor, Types
  <2> QED
    BY <1>1, <2>1, Unseen DEF ManagerStarts, Api!ApiNext
<1>2. CASE ManagerFailsToStart(d)
  <2>1. Api(d)!StartFails \/ ie'[d] = ie[d]
    BY <1>0, <1>2 DEF ManagerFailsToStart, Up, Api!StartFails, ShownFor, Types
  <2> QED
    BY <1>2, <2>1, Unseen DEF ManagerFailsToStart, Api!ApiNext
<1>3. CASE ManagerStops(d) \/ ManagerFailsToStop(d)
  <2>1. Api(d)!StopIsDone \/ ie'[d] = ie[d]
    BY <1>0, <1>3 DEF ManagerStops, ManagerFailsToStop, StopSettled, Up, Api!StopIsDone,
       ShownFor, Types
  <2> QED
    BY <1>3, <2>1, Unseen DEF ManagerStops, ManagerFailsToStop, Api!ApiNext
<1>4. CASE \E p \in Known[d] : ConnectionSuccess(d, p)
  BY <1>4, Unseen DEF ConnectionSuccess, api
<1> QED
  BY <1>1, <1>2, <1>3, <1>4 DEF Manager

LEMMA ExchangeSeen ==
  ASSUME Sound, NEW d \in Devices, Exchange(d)
  PROVE  Api(d)!ApiNext \/ UNCHANGED Seen(d)
<1>0. /\ Types /\ Following(d) /\ larger[d] \in LargerMachines
      /\ smaller[d] \in SmallerMachines
  BY DEF Sound, Types
<1>1. ASSUME NEW r \in requests, CbArrives(d, r)
      PROVE  UNCHANGED Seen(d)
  <2>1. PICK rn : larger' = [larger EXCEPT ![d] = AfterCb(@, r, rn)]
    BY <1>1 DEF CbArrives
  <2>2. larger'[d].other = larger[d].other
    BY <1>0, <2>1 DEF Types, AfterCb, LargerMachines
  <2> QED
    BY <1>1, <2>2, Unseen DEF CbArrives, api
<1>2. ASSUME NEW r \in requests, RnMineArrives(d, r)
      PROVE  Api(d)!ApiNext \/ UNCHANGED Seen(d)
  <2>1. CASE RnMineAnswer(larger[d], d, r) # "ok"
    BY <1>2, <2>1, Unseen DEF RnMineArrives, api
  <2>2. CASE RnMineAnswer(larger[d], d, r) = "ok"
    <3>1. larger[d].state = "WaitForRnMine" /\ r.pk = larger[d].other
      BY <2>2 DEF RnMineAnswer, EarlyAnswer
    <3>2. Exchanging(d)
      BY <1>0, <3>1 DEF Following, Resting
    <3>3. code'[d] = LargerCode(larger[d], d, r)
      BY <1>0, <1>2, <2>2 DEF RnMineArrives, Types
    <3>4. ShownFor(d)' = larger[d].other
      BY <3>1, <3>3 DEF ShownFor, LargerCode, GenerateValidationCode
    <3>5. Api(d)!Report
      BY <1>2, <3>2, <3>4 DEF RnMineArrives, api, Up, Exchanging, Api!Report
    <3> QED
      BY <3>5 DEF Api!ApiNext
  <2> QED
    BY <2>1, <2>2
<1>3. CASE RequestFails(d) \/ CbSucceeds(d) \/ OtherNotStarted(d) \/ BadAnswer(d)
           \/ TriesAgain(d)
  BY <1>3, Unseen DEF RequestFails, CbSucceeds, OtherNotStarted, BadAnswer, TriesAgain, api
<1>4. ASSUME answer[d] # NoAnswer
      PROVE  Exchanging(d) /\ Seeking(d)
  BY <1>0, <1>4 DEF Following, Resting, Listening
<1>5. CASE RnMineSucceeds(d)
  <2>1. Exchanging(d) /\ Seeking(d)
    BY <1>4, <1>5 DEF RnMineSucceeds, Reacts
  <2>2. code'[d] = SmallerCode(smaller[d], d)
    BY <1>0, <1>5 DEF RnMineSucceeds, Types
  <2>3. ShownFor(d)' = larger[d].other
    BY <2>1, <2>2, Numbers DEF ShownFor, SmallerCode, GenerateValidationCode, Seeking
  <2>4. Api(d)!Report
    BY <1>5, <2>1, <2>3 DEF RnMineSucceeds, Reacts, api, Up, Exchanging, Api!Report
  <2> QED
    BY <2>4 DEF Api!ApiNext
<1>6. CASE WrongPeer(d)
  <2>1. Exchanging(d)
    BY <1>4, <1>6 DEF WrongPeer, Reacts
  <2>2. Api(d)!Die
    BY <1>0, <1>6, <2>1 DEF WrongPeer, Reacts, Up, Exchanging, Types, ShownFor, Api!Die
  <2> QED
    BY <2>2 DEF Api!ApiNext
<1> QED
  BY <1>1, <1>2, <1>3, <1>5, <1>6 DEF Exchange

\* What device d does, the callers on other devices do not see.
LEMMA OthersUnseen ==
  ASSUME Sound, NEW d \in Devices, NEW e \in Devices \ {d},
         Calls(d) \/ Manager(d) \/ Exchange(d)
  PROVE  UNCHANGED Seen(e)
<1>0. Types
  BY DEF Sound
<1>1. CASE Calls(d)
  BY <1>0, <1>1, Unseen DEF Calls, StartIdentityExchange, StartWithBadName,
     StopIdentityExchange, ExecuteIdentityExchange, StopExecutingIdentityExchange, Types
<1>2. CASE Manager(d)
  BY <1>0, <1>2, Unseen DEF Manager, ManagerStarts, ManagerFailsToStart, ManagerStops,
     ManagerFailsToStop, ConnectionSuccess, StopSettled, api, Types
<1>3. CASE \E r \in requests : CbArrives(d, r) \/ RnMineArrives(d, r)
  BY <1>0, <1>3, Unseen DEF CbArrives, RnMineArrives, api, Types
<1>4. CASE RequestFails(d) \/ CbSucceeds(d) \/ RnMineSucceeds(d) \/ OtherNotStarted(d)
           \/ BadAnswer(d) \/ WrongPeer(d) \/ TriesAgain(d)
  BY <1>0, <1>4, Unseen DEF RequestFails, CbSucceeds, RnMineSucceeds, OtherNotStarted,
     BadAnswer, WrongPeer, TriesAgain, api, Types
<1> QED
  BY <1>1, <1>2, <1>3, <1>4 DEF Exchange

\* On every device identityexchange.js keeps what IdentityExchangeApi promises
\* the caller, whatever the machines, the manager and the network do.
THEOREM ImplementsApi == Spec => KeepsApi
<1>1. Init => \A d \in Devices : Api(d)!ApiInit
  BY Numbers DEF Init, Api!ApiInit, NewLarger, ShownFor, NoCode, GenerateValidationCode, None
<1>2. Sound /\ [Next]_vars =>
        [\A d \in Devices : [Api(d)!ApiNext]_<<ie[d], larger[d].other, ShownFor(d), uncaught[d]>>]_vars
  <2> SUFFICES ASSUME Sound, Next, NEW e \in Devices
               PROVE  Api(e)!ApiNext \/ UNCHANGED Seen(e)
    BY DEF Seen
  <2>1. PICK d \in Devices : Calls(d) \/ Manager(d) \/ Exchange(d)
    BY DEF Next
  <2> QED
    BY <2>1, CallsSeen, ManagerSeen, ExchangeSeen, OthersUnseen
<1> QED
  BY InitSound, StepSound, <1>1, <1>2, PTL DEF Spec, KeepsApi

-----------------------------------------------------------------------------
(* The REST front end, for any set of peers. *)

\* What FrontKeepsUp needs of the back end: it has a party exactly while an
\* exchange is executed, and shows codes then only.
BackIsSound == /\ party # 0 <=> state = "exchangeIdentity"
               /\ shown # 0 => party # 0

FrontInv == Alive => BackIsSound /\ FrontKeepsUp

LEMMA FrontInitSound == FrontInit => FrontInv
BY DEF FrontInit, ApiInit, FrontInv, BackIsSound, FrontKeepsUp,
       FrontFollowsBack, GetAnswersOnce, GetAnswers

LEMMA FrontStepSound == FrontInv /\ [FrontNext]_frontVars => FrontInv'
<1> SUFFICES ASSUME FrontInv, [FrontNext]_frontVars, Alive'
             PROVE  BackIsSound' /\ FrontKeepsUp'
  BY DEF FrontInv
<1> USE DEF BackIsSound, FrontKeepsUp, FrontFollowsBack,
            GetAnswersOnce, GetAnswers, back, exchange
<1>1. Alive
  BY DEF Alive, FrontNext, frontVars, PutIdentityExchange,
         Started, StartFailed, DeleteIdentityExchange,
         Stopped, StopFailed, PutExecuteExchange,
         PeerSeen, CodeReported, DeleteExecuteExchange,
         Dies, Illegal, Free, Start, StartIsDone,
         StartFails, Stop, StopIsDone, Execute,
         Report, StopExecuting, Die
<1>2. BackIsSound /\ FrontKeepsUp
  BY <1>1 DEF FrontInv
<1>3. CASE UNCHANGED frontVars
  BY <1>1, <1>2, <1>3 DEF frontVars, Alive
<1>4. CASE \E goodName \in BOOLEAN : PutIdentityExchange(goodName)
  BY <1>1, <1>2, <1>4 DEF PutIdentityExchange, Start, Illegal,
                          Alive
<1>5. CASE Started \/ StartFailed
  BY <1>1, <1>2, <1>5 DEF Started, StartFailed, StartIsDone,
                          StartFails, Alive
<1>6. CASE DeleteIdentityExchange
  BY <1>1, <1>2, <1>6 DEF DeleteIdentityExchange, Stop,
                          Illegal, Alive
<1>7. CASE Stopped \/ StopFailed
  BY <1>1, <1>2, <1>7 DEF Stopped, StopFailed, StopIsDone,
                          Alive
<1>8. ASSUME NEW p \in Peer, PutExecuteExchange(p)
      PROVE  BackIsSound' /\ FrontKeepsUp'
  <2>1. Execute(p)
    BY <1>8 DEF PutExecuteExchange, Illegal, Alive
  <2>2. p # 0
    BY EndpointAssumption
  <2>3. party = 0 /\ shown = 0 /\ peerIdentifier = 0 
        /\ verificationCode = "none"
    BY <1>1, <1>2, <2>1 DEF Execute
  <2> QED
    BY <1>1, <1>8, <2>1, <2>2, <2>3 DEF PutExecuteExchange, Execute,
           Alive
<1>9. ASSUME NEW p \in Peer, PeerSeen(p)
      PROVE  BackIsSound' /\ FrontKeepsUp'
  BY <1>1, <1>2, <1>9 DEF PeerSeen, Alive
<1>10. CASE CodeReported
  BY <1>1, <1>2, <1>10 DEF CodeReported, Report, Alive
<1>11. CASE DeleteExecuteExchange
  BY <1>1, <1>2, <1>11 DEF DeleteExecuteExchange, StopExecuting,
                           Alive
<1>12. CASE Dies
  BY <1>12 DEF Dies, Die, Alive
<1> QED
  BY <1>3, <1>4, <1>5, <1>6, <1>7, <1>8, <1>9, <1>10, <1>11,
         <1>12 DEF FrontNext

\* The front end's view of the exchange is that of the back end as long as it
\* works requests off, and a GET of the exchange gets one answer, or none where the
\* code is 0, whatever order requests, codes, failures and peers come in
\* (identityexchangeendpoint.js).
THEOREM KeepsUp == FrontSpec => []FrontKeepsUp
<1>1. FrontInv => FrontKeepsUp
  BY DEF FrontInv, FrontKeepsUp, FrontFollowsBack, GetAnswersOnce
<1> QED
  BY FrontInitSound, FrontStepSound, <1>1, PTL DEF FrontSpec
=============================================================================
