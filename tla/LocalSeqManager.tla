--------------------------- MODULE LocalSeqManager ---------------------------
(***************************************************************************)
(* localSeqManager.js and the replication that feeds it                    *)
(* (thaliReplicationPeerAction.js): what the replication has pulled is     *)
(* written to our _local document in the remote database, not too often,   *)
(* one request at a time, with the revision of the write before.           *)
(*                                                                         *)
(* One replication of the peer runs at a time: that of a Wi-Fi peer may    *)
(* begin while requests of the last one are under way (Overlap).  The      *)
(* replication never asks for an immediate update.                         *)
(***************************************************************************)
EXTENDS Naturals, FiniteSets

CONSTANTS
  MaxSeq,   \* bounds the remote database's changes
  Overlap   \* may a replication begin before the last one's requests end?

\* Assumed by ThaliSequencePoints.
WriterAssumption ==
  MaxSeq \in Nat /\ Overlap \in BOOLEAN

VARIABLES
  seq,      \* update_seq of the remote database
  pulled,   \* the last change that is in our database
  live,     \* a replication runs, and its manager is not stopped
  nextSeq,  \* _nextSeqValueToSend, 0: none
  timer,    \* _timerPromise is there
  blocked,  \* _blockedUpdateRequest is there
  requests, \* what _doImmediateSeqUpdate has under way; own: not for a manager
            \* that has been stopped
  rev,      \* _seqDocRev, 0: not known
  doc,      \* the document: its number and its revision, 0: not there
  failed    \* history: a request of this manager has failed

writerVars == <<pulled, live, nextSeq, timer, blocked, requests, rev, doc,
                failed>>

Request == [seq : 1 .. MaxSeq, at : {"get", "put"}, rev : Nat, own : BOOLEAN]

NewRequest == [seq |-> nextSeq, at |-> "get", rev |-> 0, own |-> TRUE]

WriterInit ==
  /\ pulled = 0
  /\ live = FALSE
  /\ nextSeq = 0
  /\ timer = FALSE
  /\ blocked = FALSE
  /\ requests = {}
  /\ rev = 0
  /\ doc = [seq |-> 0, rev |-> 0]
  /\ failed = FALSE

-----------------------------------------------------------------------------
(* The replication *)

\* A new action has a new manager.
Begin ==
  /\ ~live
  /\ Overlap \/ requests = {}
  /\ live' = TRUE
  /\ nextSeq' = 0
  /\ rev' = 0
  /\ failed' = FALSE
  /\ UNCHANGED <<pulled, timer, blocked, requests, doc>>

\* update: what waits already will send the new number when its turn comes. The
\* first number of a manager is always due.
Update(s, due) ==
  IF s <= nextSeq
  THEN UNCHANGED <<nextSeq, timer, blocked>>
  ELSE /\ nextSeq' = s
       /\ \/ blocked /\ UNCHANGED <<timer, blocked>>
          \/ ~blocked /\ due /\ timer' = FALSE /\ blocked' = TRUE
          \/ ~blocked /\ ~due /\ timer' = TRUE /\ UNCHANGED blocked

Changes(s) ==
  /\ live /\ pulled < s /\ s <= seq
  /\ pulled' = s
  /\ \E due \in {nextSeq = 0, TRUE} : Update(s, due)
  /\ UNCHANGED <<live, requests, rev, doc, failed>>

\* complete, an error, the idle timer or a kill: all stop the manager. What waits
\* for its turn then is rejected when that comes.
Ends ==
  /\ live
  /\ live' = FALSE
  /\ timer' = FALSE
  /\ blocked' = FALSE
  /\ requests' = {[r EXCEPT !.own = FALSE] : r \in requests}
  /\ UNCHANGED <<pulled, nextSeq, rev, doc, failed>>

-----------------------------------------------------------------------------
(* The manager's own steps *)

TimerFires ==
  /\ timer
  /\ timer' = FALSE
  /\ blocked' = TRUE
  /\ UNCHANGED <<pulled, live, nextSeq, requests, rev, doc, failed>>

\* Broken: runUpdate does not wait for the request before it.
UnblockedAtOnce ==
  /\ blocked
  /\ blocked' = FALSE
  /\ requests' = requests \cup {NewRequest}
  /\ UNCHANGED <<pulled, live, nextSeq, timer, rev, doc, failed>>

\* runUpdate goes on when the request before it is settled, and sends what is
\* the latest number then.
Unblocked ==
  /\ blocked /\ \A r \in requests : ~r.own
  /\ blocked' = FALSE
  /\ requests' = requests \cup {NewRequest}
  /\ UNCHANGED <<pulled, live, nextSeq, timer, rev, doc, failed>>

\* The revision that is known is taken, or that of the document is asked for; there
\* a stopped manager gives up.
RevisionComes(r) ==
  /\ r \in requests /\ r.at = "get"
  /\ requests' = (requests \ {r}) \cup
       (IF r.own THEN {[r EXCEPT !.at = "put",
                                !.rev = IF rev # 0 THEN rev ELSE doc.rev]}
        ELSE {})
  /\ UNCHANGED <<pulled, live, nextSeq, timer, blocked, rev, doc, failed>>

\* The put is made whether or not the manager has been stopped in between; one
\* with another revision than the document's is refused.
Put(r) ==
  /\ r \in requests /\ r.at = "put"
  /\ requests' = requests \ {r}
  /\ \/ /\ r.rev = doc.rev
        /\ doc' = [seq |-> r.seq, rev |-> doc.rev + 1]
        /\ rev' = IF r.own THEN doc.rev + 1 ELSE rev
     \/ /\ r.rev # doc.rev
        /\ UNCHANGED <<doc, rev>>
  /\ UNCHANGED <<pulled, live, nextSeq, timer, blocked, failed>>

\* A request does not get there, or its answer does not come back.
RequestFails(r) ==
  /\ r \in requests /\ (r.at = "put" \/ rev = 0)
  /\ requests' = requests \ {r}
  /\ \/ UNCHANGED doc
     \/ /\ r.at = "put" /\ r.rev = doc.rev
        /\ doc' = [seq |-> r.seq, rev |-> doc.rev + 1]
  /\ failed' = (failed \/ r.own)
  /\ UNCHANGED <<pulled, live, nextSeq, timer, blocked, rev>>

-----------------------------------------------------------------------------
(* The module on its own *)

\* What only waits for the event loop, a timer or the answer to a request.
Works ==
  \/ TimerFires \/ Unblocked
  \/ \E r \in requests : RevisionComes(r) \/ Put(r)

Fails == \E r \in requests : RequestFails(r)

Replicates == Begin \/ Ends \/ \E s \in 1 .. MaxSeq : Changes(s)

RemoteChange == seq < MaxSeq /\ seq' = seq + 1

Next ==
  \/ (Replicates \/ Works \/ Fails) /\ UNCHANGED seq
  \/ RemoteChange /\ UNCHANGED writerVars

Init == seq = 0 /\ WriterInit

Spec ==
  Init /\ [][Next]_<<seq, writerVars>> /\ WF_<<seq, writerVars>>(Works /\ UNCHANGED seq)

-----------------------------------------------------------------------------
(* Properties *)

\* Types; the document never claims more than was pulled.
TypeOK ==
  /\ seq \in 0 .. MaxSeq
  /\ pulled \in 0 .. seq
  /\ live \in BOOLEAN /\ timer \in BOOLEAN /\ blocked \in BOOLEAN
  /\ failed \in BOOLEAN
  /\ nextSeq \in 0 .. pulled
  /\ requests \subseteq Request
  /\ rev \in 0 .. doc.rev
  /\ doc.seq \in 0 .. pulled /\ doc.rev \in Nat

\* While a replication lasts, and no request of it fails, the last number that it
\* has reported reaches the remote peer, whatever timers and requests were under
\* way when it came.
LastIsSent ==
  \A n \in 1 .. MaxSeq :
    (live /\ nextSeq = n) ~> (doc.seq >= n \/ ~live \/ failed)

\* The same without that condition: a number that failed is not sent again
\* (localSeqManager.js:167).
LastIsSentAnyhow ==
  \A n \in 1 .. MaxSeq : (live /\ nextSeq = n) ~> (doc.seq >= n \/ ~live)

\* The revision that the manager keeps is the document's. When the answer to a put
\* is lost it is an older one, and every later put is refused.
RevisionIsKnown == live /\ requests = {} /\ rev # 0 => rev = doc.rev

\* The documentation of the replication action (line 165) asks for a final write
\* when the replication ends. Its kill stops the manager, so there is none.
FinalWrite == ~live /\ requests = {} => doc.seq = pulled

=============================================================================
