---------------------- MODULE ThaliNotificationServer ----------------------
(***************************************************************************)
(* thaliNotificationServer.js: the beacons a device serves, and the        *)
(* identities it accepts because of them.  A peer keeps the stream it was  *)
(* served for as long as it likes, and comes back with an identity out of  *)
(* it; in the meantime the beacons were renewed, time has gone by, or the  *)
(* server was stopped and started again.  What an identity may ask for is  *)
(* settled by the access rules of thaliManager.js at each request.         *)
(***************************************************************************)
EXTENDS ThaliNotificationBeacons, ThaliPskMapCache

CONSTANTS
  Device,      \* who serves
  Strangers,   \* peers that do not have it in their address books
  KeyLists,    \* what start is called with
  Life,        \* millisecondsUntilExpiration, in ticks
  Early,       \* how much before that secrets expire
  OneDay,      \* the furthest expiration that is not out of range
  Fuzz,        \* what may be added to the expiration of beacons
  MaxCache,    \* MAX_NOTIFICATIONSERVER_PSK_MAP_CACHE_SIZE
  MaxStarts,   \* bound on start
  MaxTime,     \* bound on the clock
  NoCache

PublicKeys == UNION {ToSet(keys) : keys \in KeyLists}

\* What a secret is found under, and the dictionaries of the cache.
Identities == Nat \X Int \X [to : PublicKeys, from : {Device}]
Secrets == [id : Identities, publicKey : PublicKeys]
Items == [keySecret : Seq(Secrets), expiration : Int]

ASSUME ServerAssumption ==
  /\ \A keys \in KeyLists : keys \in Seq(ToSet(keys))
  /\ Nobody \notin PublicKeys /\ NoCache \notin Seq(Items)
  /\ OneDay \in Nat /\ Life \in 1 .. OneDay /\ Early \in Nat /\ Fuzz \subseteq Nat
  /\ MaxCache \in Nat \ {0} /\ MaxStarts \in Nat /\ MaxTime \in Nat

VARIABLES
  preambleAndBeacons,  \* _preambleAndBeacons
  secrets,             \* _secrets, NoCache before the first start and after stop
  now,
  starts,              \* serial number of the last stream
  served,              \* the streams peers may have got since the last stop,
                       \* and when they were made
  advertising          \* what ThaliMobile was told last

serverVars == <<preambleAndBeacons, secrets, now, starts, served, advertising>>

\* start: a list that is not empty makes a new stream.  The call returns before
\* ThaliMobile's answer, and without one when there was nothing before either.
Start(keys) ==
  /\ starts < MaxStarts
  /\ starts' = starts + 1
  /\ IF keys = <<>>
     THEN /\ preambleAndBeacons' = NoStream
          /\ UNCHANGED <<secrets, served>>
     ELSE \E fuzz \in Fuzz :
            LET stream == GeneratePreambleAndBeacons(keys, Device, starts',
                                                     now + Life + fuzz)
                cache == IF secrets = NoCache THEN <<>> ELSE secrets
            IN  /\ preambleAndBeacons' = stream
                /\ secrets' = Push(cache, GeneratePskSecrets(keys, stream), now,
                                   Life - Early, MaxCache)
                /\ served' = Append(served, [stream |-> stream, made |-> now])
  /\ advertising' = (advertising \/ preambleAndBeacons' # NoStream
                                 \/ preambleAndBeacons # NoStream)
  /\ UNCHANGED now

Stop ==
  /\ preambleAndBeacons' = NoStream
  /\ secrets' = NoCache
  /\ advertising' = FALSE
  /\ served' = <<>>
  /\ UNCHANGED <<now, starts>>

\* getPskIdToPublicKey for the identity of a beacon, which has a secret when it has
\* a public key; what a call cleans away it would not find.
PskIdToPublicKey(id) ==
  IF secrets = NoCache THEN Nobody
  ELSE GetPublic(Clean(secrets, FALSE, now, MaxCache), id, Nobody)

-----------------------------------------------------------------------------
(* thaliManager.js: what a request may do.  Paths are the patterns of the  *)
(* access list: "point" are the local documents with the sequence points,  *)
(* "local" all others, which hold PouchDB's checkpoints.                   *)

\* A hash of its own, and no stream's.
BeaconIdentity == <<"beacons">>

\* _connectionFilter, with getPskIdToSecret; "public" has no rules.  TLS has let in
\* whoever comes, but that may be long ago.
PskRole(id) ==
  IF id = BeaconIdentity /\ secrets # NoCache THEN "beacon"
  ELSE IF id # BeaconIdentity /\ PskIdToPublicKey(id) # Nobody THEN "replication"
  ELSE "public"

\* _acl: of each role the paths with their verbs.
Acl(role) ==
  CASE role = "replication" ->
         {"root", "db", "changes", "doc", "attachment", "local", "point"} \X {"GET"}
           \cup {"bulk_get", "revs_diff", "changes"} \X {"POST"}
           \cup {"all_docs", "bulk_docs"} \X {"GET", "HEAD", "POST"}
           \cup {"local", "point"} \X {"PUT", "DELETE"}
    [] role = "beacon" -> {<<"beacons", "GET">>}
    [] OTHER -> {}

\* What a peer's pull replication asks: PouchDB for the changes, the documents
\* and its checkpoint, LocalSeqManager for its point.  Other paths have no owner.
On(paths, verb, owner) == [path : paths, verb : {verb}, owner : {owner}]
ReplicationRequests(p) ==
  On({"db", "changes", "doc", "attachment", "local"}, "GET", Nobody)
    \cup On({"bulk_get", "changes"}, "POST", Nobody)
    \cup On({"local"}, "PUT", Nobody)
    \cup On({"point"}, "GET", p) \cup On({"point"}, "PUT", p)
BeaconRequests == On({"beacons"}, "GET", Nobody)
Requests == BeaconRequests \cup UNION {ReplicationRequests(p) : p \in PublicKeys}

\* _resolveThaliId: a point is accepted from its owner.
ResolveThaliId(owner, publicKey) == owner = publicKey

\* The requests that the router with salti lets through, which applies the list and
\* has the owners of points checked.
GetThrough(id) ==
  LET publicKey == PskIdToPublicKey(id)
      rules == Acl(PskRole(id))
  IN  {r \in Requests : /\ <<r.path, r.verb>> \in rules
                        /\ r.path = "point" => ResolveThaliId(r.owner, publicKey)}

-----------------------------------------------------------------------------
(* Time, and peers who ask. *)

\* A peer comes with an identity, and the expired secrets go.
Asked ==
  /\ secrets # NoCache
  /\ secrets' = Clean(secrets, FALSE, now, MaxCache)
  /\ UNCHANGED <<preambleAndBeacons, now, starts, served, advertising>>

\* The clock.
Tick ==
  /\ now < MaxTime
  /\ now' = now + 1
  /\ UNCHANGED <<preambleAndBeacons, secrets, starts, served, advertising>>

ServerInit ==
  /\ preambleAndBeacons = NoStream /\ secrets = NoCache
  /\ now = 0 /\ starts = 0 /\ served = <<>>
  /\ advertising = FALSE

ServerNext ==
  \/ \E keys \in KeyLists : Start(keys)
  \/ Stop
  \/ Asked
  \/ Tick

ServerSpec == ServerInit /\ [][ServerNext]_serverVars

-----------------------------------------------------------------------------
(* Properties *)

AddressBook(p) == IF p \in Strangers THEN {} ELSE {Device}
IdentitiesOf(p, stream) ==
  ParseBeacons(stream, p, AddressBook(p), now, OneDay)

\* The streams that a peer can still come with: the last ones that fit into the
\* cache, until their secrets expire.
Recent == {i \in DOMAIN served : /\ Len(served) - i < MaxCache
                                 /\ now <= served[i].made + Life - Early}

\* Every peer that finds a beacon for itself in one of the last streams is
\* accepted with its identity until the secrets expire, however often the beacons
\* were renewed or withdrawn since, and whoever came in between; every request of
\* its replication gets through, the writing of its sequence point included.  The
\* beacons themselves can be asked for as long as they are advertised.
RecentIsAccepted ==
  /\ \A i \in Recent : \A p \in PublicKeys :
       \A id \in IdentitiesOf(p, served[i].stream) :
         ReplicationRequests(p) \subseteq GetThrough(id)
  /\ advertising => BeaconRequests \subseteq GetThrough(BeaconIdentity)

\* An identity leads to the public key of the very peer that finds it in a stream,
\* for all streams ever served: nobody can move the sequence point of another peer,
\* which would hide that peer's changes from the next beacons, and whoever may
\* fetch beacons cannot replicate.
IdentityIsTheAddressees ==
  /\ \A i \in DOMAIN served : \A p \in PublicKeys :
       \A id \in IdentitiesOf(p, served[i].stream) :
         /\ PskIdToPublicKey(id) \in {p, Nobody}
         /\ \A r \in GetThrough(id) : r.path = "point" => r.owner = p
  /\ GetThrough(BeaconIdentity) \subseteq BeaconRequests

\* What is served at any time is accepted as long as those who get it do not find
\* it out of range.
\* src/thali/NextGeneration/notification/thaliPskMapCache.js: "The number of
\* milliseconds into the future after which the dictionary should expire."
ServedIsAccepted ==
  preambleAndBeacons # NoStream =>
    \A p \in PublicKeys : \A id \in IdentitiesOf(p, preambleAndBeacons) :
      PskIdToPublicKey(id) # Nobody
=============================================================================
