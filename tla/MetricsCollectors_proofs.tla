----------------------- MODULE MetricsCollectors_proofs -----------------------
(***************************************************************************)
(* Proofs about MetricsCollectors, for any databases, declarations, names  *)
(* and bounds: the types, who owns which connection, that the registry     *)
(* holds collectors with open connections only, and that a scrape meets no *)
(* series twice.                                                           *)
(***************************************************************************)
EXTENDS MetricsCollectors, FiniteSetTheorems, TLAPS

Working ==
    [pc : {"open", "replace", "close", "register", "admin", "rest"},
     db : databaseLinks, decl : Declarations, handle : open \cup {NoHandle}]

\* A worker with any other pc than that of none has a database, and is not Idle.
LEMMA WorkerAtWork ==
    ASSUME MetricsTypeOK
    PROVE  /\ worker # Idle => worker \in Working
           /\ worker.pc # "idle" => worker # Idle
           /\ worker # Idle => worker.db \in databaseLinks /\ worker.db \in Databases
           /\ worker = Idle => worker.pc = "idle"
BY DEF MetricsTypeOK, Working, Idle

\* Every collector has a connection.
LEMMA CollectorFields ==
    ASSUME NEW c \in Collectors
    PROVE  /\ c.handle \in Handles /\ c.decl \in Declarations
           /\ \E d \in Databases : c.name = Name[d] /\ c.descs = Descs(Name[d], c.decl)
BY DEF Collectors, Collector

LEMMA NewCollector ==
    ASSUME NEW d \in Databases, NEW decl \in Declarations, NEW h \in Handles
    PROVE  /\ Collector(d, decl, h) \in Collectors
           /\ Collector(d, decl, h).handle = h
BY DEF Collectors, Collector

(***************************************************************************)
(* The owners of the connections, one connection and one collector at a    *)
(* time.                                                                   *)
(***************************************************************************)
Known == DOMAIN databaseMetricsCollectors
Closing(d) == worker.pc = "close" /\ d = worker.db
PerCollector ==
    /\ \A d, e \in Known : d # e =>
          databaseMetricsCollectors[d].handle # databaseMetricsCollectors[e].handle
    /\ \A d \in Known : databaseMetricsCollectors[d].handle \notin refused \cup OwnHandle
    /\ OwnHandle \cap refused = {}
    /\ \A h : h \in open <=> \/ \E d \in Known : h = databaseMetricsCollectors[d].handle
                            \/ h \in refused \/ h \in OwnHandle
    /\ \A c : c \in registered <=>
          \E d \in Known : /\ c = databaseMetricsCollectors[d] /\ c.descs # {}
                          /\ ~Closing(d)
    /\ \A c \in unchecked : c.descs = {}
    /\ worker.pc = "close" => worker.db \in Known
    /\ worker.pc = "register" => worker.db \notin Known
    /\ worker.pc \in {"open", "admin"} => OwnHandle = {}
    /\ worker.pc \in {"replace", "close", "register", "rest"} => OwnHandle # {}

LEMMA InvPointwise == CollectorsInv <=> PerCollector
<1>1. CollectorsInv => PerCollector
  BY DEF CollectorsInv, PerCollector, Known, Closing
<1>2. PerCollector => CollectorsInv
  BY DEF CollectorsInv, PerCollector, Known, Closing
<1> QED
  BY <1>1, <1>2

LEMMA InvPointwiseNext == PerCollector' => CollectorsInv'
BY InvPointwise, PTL

LEMMA InitKept == MetricsInit => MetricsTypeOK /\ CollectorsInv
<1> SUFFICES ASSUME MetricsInit PROVE MetricsTypeOK /\ CollectorsInv
  OBVIOUS
<1>1. /\ DOMAIN databaseMetricsCollectors = {}
      /\ databaseMetricsCollectors \in [DOMAIN databaseMetricsCollectors -> Collectors]
  BY DEF MetricsInit
<1>2. worker = Idle /\ worker.pc = "idle" /\ scrape.pending = {}
  BY DEF MetricsInit, Idle, NoScrape
<1>3. DOMAIN declared \subseteq Databases /\ declared \in [DOMAIN declared -> Declarations]
  BY DEF MetricsInit
<1>4. MetricsTypeOK
  BY <1>1, <1>2, <1>3 DEF MetricsInit, MetricsTypeOK
<1>5. CollectorsInv
  BY <1>1, <1>2 DEF MetricsInit, CollectorsInv, OwnHandle
<1> QED
  BY <1>4, <1>5

-----------------------------------------------------------------------------
(***************************************************************************)
(* People, informers and scrapes leave the operator's process alone.       *)
(***************************************************************************)
Outside ==
    \/ Gather
    \/ \E d \in Databases :
          \/ GetGone(d) \/ Event(d) \/ DeleteDatabase(d)
          \/ \E decl \in Declarations : Edit(d, decl)
    \/ \E c \in scrape.pending : \E answered \in Answers(c.decl) : Collect(c, answered)

LEMMA CollectorsInvKept ==
    ASSUME CollectorsInv, UNCHANGED <<process, worker>>
    PROVE  CollectorsInv'
BY DEF CollectorsInv, OwnHandle, process

LEMMA OutsideKeeps ==
    ASSUME MetricsTypeOK, CollectorsInv, Outside
    PROVE  MetricsTypeOK' /\ CollectorsInv'
<1>1. UNCHANGED <<process, worker>>
  BY DEF Outside, Gather, GetGone, Event, DeleteDatabase, Edit, Collect
<1>2. queue' \subseteq Databases
  BY DEF Outside, Gather, GetGone, Event, DeleteDatabase, Edit, Collect, MetricsTypeOK
<1>3. scrape'.pending \subseteq Collectors
  <2>1. CASE Gather
    BY <2>1 DEF Gather, NoScrape, MetricsTypeOK
  <2>2. ASSUME NEW c, NEW answered, Collect(c, answered) PROVE <1>3!:
    BY <2>2 DEF Collect, MetricsTypeOK
  <2>3. CASE UNCHANGED scrape
    BY <2>3 DEF MetricsTypeOK
  <2> QED
    BY <2>1, <2>2, <2>3 DEF Outside, GetGone, Event, DeleteDatabase, Edit
<1>4. DOMAIN declared' \subseteq Databases /\ declared' \in [DOMAIN declared' -> Declarations]
  <2>1. CASE UNCHANGED declared
    BY <2>1 DEF MetricsTypeOK
  <2>2. ASSUME NEW d \in Databases, DeleteDatabase(d) PROVE <1>4!:
    BY <2>2 DEF MetricsTypeOK, DeleteDatabase
  <2>3. ASSUME NEW d \in Databases, NEW decl \in Declarations, Edit(d, decl) PROVE <1>4!:
    BY <2>3 DEF MetricsTypeOK, Edit
  <2> QED
    BY <2>1, <2>2, <2>3 DEF Outside, Gather, GetGone, Event, Collect
<1>5. MetricsTypeOK'
  BY <1>1, <1>2, <1>3, <1>4 DEF MetricsTypeOK, process
<1> QED
  BY <1>1, <1>5, CollectorsInvKept

-----------------------------------------------------------------------------
(***************************************************************************)
(* One lemma for each step of the reconcile.                               *)
(***************************************************************************)
LEMMA GetKeeps ==
    ASSUME MetricsTypeOK, CollectorsInv, NEW d \in Databases, Get(d)
    PROVE  MetricsTypeOK' /\ CollectorsInv'
<1>1. worker' = [pc |-> "open", db |-> d, decl |-> declared[d], handle |-> NoHandle]
      /\ declared[d] \in Declarations /\ databaseLinks' = databaseLinks \cup {d}
  BY DEF Get, MetricsTypeOK
<1>2. worker' \in Working' /\ worker'.pc = "open" /\ worker'.handle = NoHandle
  BY <1>1 DEF Working, Get
<1>3. MetricsTypeOK'
  BY <1>1, <1>2 DEF MetricsTypeOK, Get, Working
<1>4. worker = Idle /\ worker.pc = "idle" /\ OwnHandle = {} /\ OwnHandle' = {}
  BY <1>2 DEF Get, OwnHandle, Idle
<1>5. CollectorsInv'
  BY <1>2, <1>4 DEF CollectorsInv, Get
<1> QED
  BY <1>3, <1>5

LEMMA OpenConnectionKeeps ==
    ASSUME MetricsTypeOK, CollectorsInv, OpenMetricsAdmin \/ OpenAdmin
    PROVE  MetricsTypeOK' /\ CollectorsInv'
<1>1. PICK from \in {"open", "admin"}, to \in {"replace", "rest"} : OpenConnection(from, to)
  BY DEF OpenMetricsAdmin, OpenAdmin
<1>2. worker.pc \in {"open", "admin"} /\ worker \in Working /\ worker # Idle
  BY <1>1, WorkerAtWork DEF OpenConnection
<1>3. PICK h \in FreeHandles : /\ open' = open \cup {h}
                               /\ worker' = [worker EXCEPT !.pc = to, !.handle = h]
  BY <1>1 DEF OpenConnection
<1>4. h \in Handles /\ h \notin open /\ h # NoHandle
  BY <1>3, MetricsAssumption DEF FreeHandles
<1>5. worker' \in Working' /\ worker'.pc = to /\ worker'.handle = h /\ worker' # Idle
  BY <1>1, <1>2, <1>3 DEF Working, OpenConnection, Idle
<1>6. UNCHANGED <<declared, queue, databaseLinks, databaseMetricsCollectors, registered,
                  unchecked, refused, scrape>>
  BY <1>1 DEF OpenConnection
<1>7. MetricsTypeOK'
  BY <1>3, <1>4, <1>5, <1>6 DEF MetricsTypeOK, Working
<1>8. OwnHandle = {} /\ OwnHandle' = {h}
  BY <1>2, <1>4, <1>5 DEF OwnHandle, CollectorsInv
<1>9. CollectorsInv'
  BY <1>2, <1>3, <1>4, <1>5, <1>6, <1>8 DEF CollectorsInv
<1> QED
  BY <1>7, <1>9

LEMMA OpenFailsKeeps ==
    ASSUME MetricsTypeOK, CollectorsInv, OpenFails
    PROVE  MetricsTypeOK' /\ CollectorsInv'
<1>1. MetricsTypeOK'
  BY DEF MetricsTypeOK, OpenFails, process
<1>2. OwnHandle = {} /\ OwnHandle' = {} /\ worker'.pc = "idle"
  BY DEF OpenFails, OwnHandle, CollectorsInv, Idle
<1>3. CollectorsInv'
  BY <1>2 DEF CollectorsInv, OpenFails, process
<1> QED
  BY <1>1, <1>3

LEMMA UnregisterKeeps ==
    ASSUME MetricsTypeOK, CollectorsInv, Unregister
    PROVE  MetricsTypeOK' /\ CollectorsInv'
<1>1. worker.pc = "replace" /\ worker \in Working /\ worker # Idle
  BY WorkerAtWork DEF Unregister
<1>2. /\ worker' \in Working' /\ worker' # Idle /\ worker'.db = worker.db
      /\ worker'.handle = worker.handle
      /\ worker'.pc = IF Mine THEN "close" ELSE "register"
  BY <1>1 DEF Unregister, Working, Idle
<1>3. registered' = IF Mine THEN registered \ {MyCollector} ELSE registered
  BY DEF Unregister
<1>4. UNCHANGED <<declared, queue, databaseLinks, databaseMetricsCollectors, unchecked, open,
                  refused, scrape>>
  BY DEF Unregister
<1>5. MetricsTypeOK'
  BY <1>2, <1>3, <1>4 DEF MetricsTypeOK, Working
<1>6. OwnHandle' = OwnHandle
  BY <1>1, <1>2 DEF OwnHandle
<1>7. CollectorsInv'
  BY <1>1, <1>2, <1>3, <1>4, <1>6 DEF CollectorsInv, Mine, MyCollector
<1> QED
  BY <1>5, <1>7

LEMMA CloseKeeps ==
    ASSUME MetricsTypeOK, CollectorsInv, Close
    PROVE  MetricsTypeOK' /\ CollectorsInv'
<1>1. worker.pc = "close" /\ worker \in Working /\ worker # Idle
  BY WorkerAtWork DEF Close
<1>2. /\ worker'.pc = "register" /\ worker' # Idle /\ worker'.db = worker.db
      /\ worker'.handle = worker.handle /\ worker'.decl = worker.decl
      /\ worker' = [worker EXCEPT !.pc = "register"]
  BY <1>1 DEF Close, Working, Idle
<1>3. worker.db \in DOMAIN databaseMetricsCollectors
  BY <1>1 DEF CollectorsInv
<1>4. /\ open' = open \ {databaseMetricsCollectors[worker.db].handle}
      /\ databaseMetricsCollectors' =
            [d \in DOMAIN databaseMetricsCollectors \ {worker.db} |-> databaseMetricsCollectors[d]]
  BY DEF Close, MyCollector
<1>5. UNCHANGED <<declared, queue, databaseLinks, registered, unchecked, refused, scrape>>
  BY DEF Close
<1>6. OwnHandle' = OwnHandle /\ OwnHandle = {worker.handle}
  BY <1>1, <1>2 DEF OwnHandle, CollectorsInv
<1>7. PerCollector'
  <2>1. PerCollector
    BY InvPointwise
  <2>2. /\ Known' = Known \ {worker.db} /\ worker.db \in Known
        /\ \A d \in Known' : databaseMetricsCollectors'[d] = databaseMetricsCollectors[d]
    BY <1>3, <1>4 DEF Known
  <2>3. \A d, e \in Known' : d # e =>
           databaseMetricsCollectors'[d].handle # databaseMetricsCollectors'[e].handle
    BY <2>1, <2>2 DEF PerCollector
  <2>4. \A d \in Known' : databaseMetricsCollectors'[d].handle \notin refused' \cup OwnHandle'
    BY <1>5, <1>6, <2>1, <2>2 DEF PerCollector
  <2>5. \A h : h \in open' <=> \/ \E d \in Known' : h = databaseMetricsCollectors'[d].handle
                               \/ h \in refused' \/ h \in OwnHandle'
    <3> TAKE h
    <3> DEFINE mine == databaseMetricsCollectors[worker.db].handle
    <3>1. h \in open' <=> h \in open /\ h # mine
      BY <1>4
    <3>2. mine \notin refused' /\ mine \notin OwnHandle'
      BY <1>5, <1>6, <2>1, <2>2 DEF PerCollector
    <3>3. (\E d \in Known' : h = databaseMetricsCollectors'[d].handle)
             <=> h # mine /\ \E d \in Known : h = databaseMetricsCollectors[d].handle
      BY <2>1, <2>2 DEF PerCollector
    <3> HIDE DEF mine
    <3> QED
      BY <1>5, <1>6, <2>1, <3>1, <3>2, <3>3 DEF PerCollector
  <2>6. \A c : c \in registered' <=>
           \E d \in Known' : c = databaseMetricsCollectors'[d] /\ c.descs # {}
    BY <1>1, <1>5, <2>1, <2>2 DEF PerCollector, Closing
  <2>7. OwnHandle' \cap refused' = {} /\ OwnHandle' # {}
    BY <1>5, <1>6, <2>1 DEF PerCollector
  <2> QED
    BY <1>2, <1>5, <2>1, <2>2, <2>3, <2>4, <2>5, <2>6, <2>7 DEF PerCollector, Closing
<1>8. worker.handle \in open' /\ refused \subseteq open'
  BY <1>3, <1>4, <1>6 DEF CollectorsInv
<1>9. worker' \in Working'
  BY <1>1, <1>2, <1>5, <1>8 DEF Working
<1>10. MetricsTypeOK'
  BY <1>4, <1>5, <1>8, <1>9 DEF MetricsTypeOK, Working
<1> QED
  BY <1>7, <1>10, InvPointwiseNext

LEMMA RegisterKeeps ==
    ASSUME MetricsTypeOK, CollectorsInv, Register
    PROVE  MetricsTypeOK' /\ CollectorsInv'
<1> DEFINE new == Collector(worker.db, worker.decl, worker.handle)
<1>1. worker.pc = "register" /\ worker \in Working /\ worker # Idle
  BY WorkerAtWork DEF Register
<1>2. OwnHandle = {worker.handle} /\ worker.handle \in open
      /\ worker.db \notin DOMAIN databaseMetricsCollectors
  BY <1>1 DEF OwnHandle, CollectorsInv
<1>3. new \in Collectors /\ new.handle = worker.handle
  BY <1>1, <1>2, NewCollector, WorkerAtWork DEF MetricsTypeOK, Working
<1>4. /\ databaseMetricsCollectors' =
            [d \in DOMAIN databaseMetricsCollectors \cup {worker.db} |->
                IF d = worker.db THEN new ELSE databaseMetricsCollectors[d]]
      /\ registered' = IF new.descs = {} THEN registered ELSE registered \cup {new}
      /\ unchecked' = IF new.descs = {} THEN unchecked \cup {new} ELSE unchecked
  BY DEF Register
<1>5. /\ worker' = [worker EXCEPT !.pc = "admin", !.handle = NoHandle]
      /\ UNCHANGED <<declared, queue, databaseLinks, open, refused, scrape>>
  BY DEF Register
<1> HIDE DEF new
<1>6. worker' \in Working' /\ worker'.pc = "admin" /\ worker'.handle = NoHandle
  BY <1>1, <1>5 DEF Working
<1>7. OwnHandle' = {}
  BY <1>6 DEF OwnHandle
<1>8. MetricsTypeOK'
  BY <1>1, <1>3, <1>4, <1>5, <1>6 DEF MetricsTypeOK, Working
<1>9. PerCollector'
  <2>1. PerCollector
    BY InvPointwise
  <2>2. /\ Known' = Known \cup {worker.db} /\ worker.db \notin Known
        /\ databaseMetricsCollectors'[worker.db] = new
        /\ \A d \in Known : databaseMetricsCollectors'[d] = databaseMetricsCollectors[d]
    BY <1>2, <1>4 DEF Known
  <2>3. \A d, e \in Known' : d # e =>
           databaseMetricsCollectors'[d].handle # databaseMetricsCollectors'[e].handle
    BY <1>2, <1>3, <2>1, <2>2 DEF PerCollector
  <2>4. \A d \in Known' : databaseMetricsCollectors'[d].handle \notin refused' \cup OwnHandle'
    BY <1>2, <1>3, <1>5, <1>7, <2>1, <2>2 DEF PerCollector
  <2>5. \A h : h \in open' <=> \/ \E d \in Known' : h = databaseMetricsCollectors'[d].handle
                               \/ h \in refused' \/ h \in OwnHandle'
    BY <1>2, <1>3, <1>5, <1>7, <2>1, <2>2 DEF PerCollector
  <2>6. \A c : c \in registered' <=>
           \E d \in Known' : c = databaseMetricsCollectors'[d] /\ c.descs # {}
    <3>1. \A c : c \in registered <=>
             \E d \in Known : c = databaseMetricsCollectors[d] /\ c.descs # {}
      BY <1>1, <2>1 DEF PerCollector, Closing
    <3> TAKE c
    <3>2. c \in registered' <=> c \in registered \/ (c = new /\ c.descs # {})
      BY <1>4
    <3>3. (\E d \in Known' : c = databaseMetricsCollectors'[d])
             <=> c = new \/ \E d \in Known : c = databaseMetricsCollectors[d]
      BY <2>2
    <3> QED
      BY <3>1, <3>2, <3>3
  <2>7. \A c \in unchecked' : c.descs = {}
    BY <1>4, <2>1 DEF PerCollector
  <2> QED
    BY <1>6, <1>7, <2>3, <2>4, <2>5, <2>6, <2>7 DEF PerCollector, Closing
<1> QED
  BY <1>8, <1>9, InvPointwiseNext

LEMMA RegisterRefusedKeeps ==
    ASSUME MetricsTypeOK, CollectorsInv, RegisterRefused
    PROVE  MetricsTypeOK' /\ CollectorsInv'
<1>1. worker.pc = "register" /\ worker \in Working /\ worker # Idle
  BY WorkerAtWork DEF RegisterRefused
<1>2. OwnHandle = {worker.handle} /\ worker.handle \in open
  BY <1>1 DEF OwnHandle, CollectorsInv
<1>3. OwnHandle' = {} /\ worker' = Idle /\ worker'.pc = "idle"
  BY DEF OwnHandle, RegisterRefused, Idle
<1>4. MetricsTypeOK'
  BY <1>2, <1>3 DEF MetricsTypeOK, RegisterRefused
<1>5. CollectorsInv'
  BY <1>1, <1>2, <1>3 DEF CollectorsInv, RegisterRefused
<1> QED
  BY <1>4, <1>5

LEMMA RestKeeps ==
    ASSUME MetricsTypeOK, CollectorsInv, Rest
    PROVE  MetricsTypeOK' /\ CollectorsInv'
<1>1. worker.pc = "rest" /\ worker \in Working /\ worker # Idle
  BY WorkerAtWork DEF Rest
<1>2. OwnHandle = {worker.handle} /\ worker.handle \notin refused
  BY <1>1 DEF OwnHandle, CollectorsInv
<1>3. OwnHandle' = {} /\ worker' = Idle /\ worker'.pc = "idle"
  BY DEF OwnHandle, Rest, Idle
<1>4. MetricsTypeOK'
  BY <1>2, <1>3 DEF MetricsTypeOK, Rest
<1>5. CollectorsInv'
  BY <1>1, <1>2, <1>3 DEF CollectorsInv, Rest
<1> QED
  BY <1>4, <1>5

LEMMA RestartKeeps ==
    ASSUME MetricsTypeOK, CollectorsInv, Restart
    PROVE  MetricsTypeOK' /\ CollectorsInv'
<1>1. /\ DOMAIN databaseMetricsCollectors' = {}
      /\ databaseMetricsCollectors' \in [DOMAIN databaseMetricsCollectors' -> Collectors]
  BY DEF Restart
<1>2. worker' = Idle /\ worker'.pc = "idle" /\ scrape'.pending = {} /\ OwnHandle' = {}
  BY DEF Restart, Idle, NoScrape, OwnHandle
<1>3. MetricsTypeOK'
  BY <1>1, <1>2 DEF Restart, MetricsTypeOK
<1>4. CollectorsInv'
  BY <1>1, <1>2 DEF Restart, CollectorsInv
<1> QED
  BY <1>3, <1>4

LEMMA NextKept ==
    ASSUME MetricsTypeOK, CollectorsInv, [MetricsNext]_vars
    PROVE  MetricsTypeOK' /\ CollectorsInv'
<1>1. CASE UNCHANGED vars
  BY <1>1, CollectorsInvKept DEF vars, process, MetricsTypeOK
<1>2. CASE MetricsNext
  BY <1>2, OutsideKeeps, GetKeeps, OpenConnectionKeeps, OpenFailsKeeps, UnregisterKeeps,
     CloseKeeps, RegisterKeeps, RegisterRefusedKeeps, RestKeeps, RestartKeeps
     DEF MetricsNext, Outside, Reconcile
<1> QED
  BY <1>1, <1>2

(***************************************************************************)
(* The types, and who owns which connection.                               *)
(***************************************************************************)
THEOREM CollectorsInvariant == MetricsSpec => [](MetricsTypeOK /\ CollectorsInv)
BY InitKept, NextKept, PTL DEF MetricsSpec

\* A collector that describes nothing asks its database nothing.
LEMMA NothingDescribed ==
    ASSUME NEW c \in Collectors, c.descs = {}
    PROVE  ~AsksDatabase(c.decl)
<1>1. PICK d \in Databases, decl \in Declarations, h \in Handles : c = Collector(d, decl, h)
  BY DEF Collectors
<1>2. c.decl = decl /\ Descs(Name[d], decl) = {}
  BY <1>1 DEF Collector
<1>3. \A table : table \notin ToSet(decl.estimates)
  <2> SUFFICES ASSUME NEW table \in ToSet(decl.estimates) PROVE FALSE
    OBVIOUS
  <2>1. Desc("table_rows_estimate", "table", <<Name[d], table>>) \in Descs(Name[d], decl)
    BY DEF Descs
  <2> QED
    BY <1>2, <2>1
<1>4. \A table : table \notin ToSet(decl.nextIDs)
  <2> SUFFICES ASSUME NEW table \in ToSet(decl.nextIDs) PROVE FALSE
    OBVIOUS
  <2>1. Desc("table_next_id", "table", <<Name[d], table>>) \in Descs(Name[d], decl)
    BY DEF Descs
  <2> QED
    BY <1>2, <2>1
<1>5. \A q : q \notin decl.queries
  <2> SUFFICES ASSUME NEW q \in decl.queries PROVE FALSE
    OBVIOUS
  <2>1. Desc(q.metric, q.dims, <<Name[d], q.values>>) \in Descs(Name[d], decl)
    BY DEF Descs
  <2> QED
    BY <1>2, <2>1
<1>6. DOMAIN decl.estimates = {} /\ DOMAIN decl.nextIDs = {}
  BY <1>3, <1>4 DEF ToSet
<1> QED
  BY <1>2, <1>5, <1>6 DEF AsksDatabase

(***************************************************************************)
(* A scrape that starts at any moment of a replacement finds, registered   *)
(* or unchecked, only collectors that have an open connection or ask the   *)
(* database nothing.                                                       *)
(***************************************************************************)
THEOREM RegistryIsOpen == MetricsSpec => []ScrapesFindOpenConnections
<1>1. ASSUME MetricsTypeOK, CollectorsInv, NEW c \in registered \cup unchecked,
             AsksDatabase(c.decl)
      PROVE  c.handle \in open
  <2>1. c \in registered
    BY <1>1, NothingDescribed DEF CollectorsInv, MetricsTypeOK
  <2> QED
    BY <1>1, <2>1 DEF CollectorsInv
<1>2. MetricsTypeOK /\ CollectorsInv => ScrapesFindOpenConnections
  BY <1>1 DEF ScrapesFindOpenConnections
<1> QED
  BY <1>2, CollectorsInvariant, PTL

(***************************************************************************)
(* Between two reconciles no connection is open but those of the           *)
(* collectors the controller remembers and of the refused ones.            *)
(***************************************************************************)
THEOREM NoConnectionLost == MetricsSpec => []ConnectionsAccounted
<1>1. ASSUME CollectorsInv, worker = Idle
      PROVE  /\ registered = {c \in Range(databaseMetricsCollectors) : c.descs # {}}
             /\ open = {c.handle : c \in Range(databaseMetricsCollectors)} \cup refused
  <2>1. OwnHandle = {} /\ worker.pc = "idle"
    BY <1>1 DEF OwnHandle, Idle
  <2> QED
    BY <1>1, <2>1 DEF CollectorsInv, Range
<1>2. CollectorsInv => ConnectionsAccounted
  BY <1>1 DEF ConnectionsAccounted
<1> QED
  BY <1>2, CollectorsInvariant, PTL

-----------------------------------------------------------------------------
(***************************************************************************)
(* What a collector sends. A set is walked once ...                        *)
(***************************************************************************)
LEMMA SetToSeqWalksOnce ==
    ASSUME NEW S, IsFiniteSet(S)
    PROVE  /\ Cardinality(S) \in Nat
           /\ SetToSeq(S) \in [1..Cardinality(S) -> S]
           /\ IsInjective(SetToSeq(S))
<1>1. Cardinality(S) \in Nat /\ ExistsBijection(1..Cardinality(S), S)
  BY FS_CardinalityType
<1>2. \E f \in [1..Cardinality(S) -> S] : IsInjective(f)
  BY <1>1 DEF ExistsBijection, Bijection, Injection, IsInjective
<1> QED
  BY <1>1, <1>2 DEF SetToSeq

\* ... and the names of a list are finitely many.
LEMMA NamesAreFinite ==
    ASSUME NEW f, IsFiniteSet(DOMAIN f)
    PROVE  IsFiniteSet(ToSet(f))
<1> DEFINE g == [x \in DOMAIN f |-> f[x]]
<1>1. g \in Surjection(DOMAIN f, ToSet(f))
  BY DEF Surjection, ToSet
<1> QED
  BY <1>1, FS_Surjection

\* Two lists without repetitions and without a common element make another one.
LEMMA ConcatenationInjective ==
    ASSUME NEW S, NEW a \in Seq(S), NEW b \in Seq(S), IsInjective(a), IsInjective(b),
           \A i \in DOMAIN a, j \in DOMAIN b : a[i] # b[j]
    PROVE  IsInjective(a \o b)
<1> SUFFICES ASSUME NEW i \in 1..(Len(a) + Len(b)), NEW j \in 1..(Len(a) + Len(b)),
                    (a \o b)[i] = (a \o b)[j]
             PROVE  i = j
  BY DEF IsInjective
<1>1. \A k \in 1..(Len(a) + Len(b)) :
         \/ k \in DOMAIN a /\ (a \o b)[k] = a[k]
         \/ k - Len(a) \in DOMAIN b /\ (a \o b)[k] = b[k - Len(a)]
  OBVIOUS
<1>2. CASE i \in DOMAIN a /\ j \in DOMAIN a
  BY <1>2 DEF IsInjective
<1>3. CASE i \notin DOMAIN a /\ j \notin DOMAIN a
  BY <1>1, <1>3 DEF IsInjective
<1>4. CASE ~(i \in DOMAIN a <=> j \in DOMAIN a)
  BY <1>1, <1>4
<1> QED
  BY <1>2, <1>3, <1>4

\* The series of the tables of one list: each is sent once.
LEMMA TableSeriesOnce ==
    ASSUME NEW metric, NEW name, NEW tables, IsFiniteSet(DOMAIN tables)
    PROVE  /\ TableSeries(metric, name, tables)
                 \in Seq({<<metric, <<name, t>>>> : t \in ToSet(tables)})
           /\ IsInjective(TableSeries(metric, name, tables))
<1> DEFINE walk == SetToSeq(ToSet(tables))
           n == Cardinality(ToSet(tables))
<1>1. n \in Nat /\ walk \in [1..n -> ToSet(tables)] /\ IsInjective(walk)
  BY NamesAreFinite, SetToSeqWalksOnce
<1>2. TableSeries(metric, name, tables) = [i \in 1..n |-> <<metric, <<name, walk[i]>>>>]
  BY DEF TableSeries
<1> HIDE DEF walk, n
<1> QED
  BY <1>1, <1>2 DEF IsInjective

\* What a collector describes has an identity.
LEMMA DescIsIdentified ==
    ASSUME NEW descs, NEW metric, NEW dimensions, NEW v, Desc(metric, dimensions, v) \in descs
    PROVE  <<metric, v>> \in Ids(descs)
<1>1. /\ Desc(metric, dimensions, v).metric = metric
      /\ Desc(metric, dimensions, v).values = v
  BY DEF Desc
<1>2. \E desc \in descs : <<metric, v>> = <<desc.metric, desc.values>>
  BY <1>1
<1> QED
  BY <1>2 DEF Ids

(***************************************************************************)
(* A collector sends only series it describes, and none of them twice if   *)
(* its queries have metrics of their own.                                  *)
(***************************************************************************)
LEMMA CollectedOnce ==
    ASSUME NEW c \in Collectors, NEW answered \in Answers(c.decl)
    PROVE  /\ DistinctMetrics => IsInjective(Collected(c, answered))
           /\ ToSet(Collected(c, answered)) \subseteq Ids(c.descs)
<1> DEFINE S == Ids(c.descs)
           decl == c.decl
           tables == IF answered.estimates
                     THEN TableSeries("table_rows_estimate", c.name, decl.estimates) ELSE <<>>
           ids == IF answered.nextIDs
                  THEN TableSeries("table_next_id", c.name, decl.nextIDs) ELSE <<>>
           queries == SetToSeq(answered.queries)
           values == [i \in DOMAIN queries |-> <<queries[i].metric, <<c.name, queries[i].values>>>>]
           timings == [i \in DOMAIN queries |->
                          <<"query_duration_seconds", <<c.name, queries[i].metric>>>>]
<1>1. decl \in Declarations /\ c.descs = Descs(c.name, decl)
  BY CollectorFields
<1>2. /\ \A t \in ToSet(decl.estimates) : <<"table_rows_estimate", <<c.name, t>>>> \in S
      /\ \A t \in ToSet(decl.nextIDs) : <<"table_next_id", <<c.name, t>>>> \in S
  <2>1. \A t \in ToSet(decl.estimates) :
           Desc("table_rows_estimate", "table", <<c.name, t>>) \in c.descs
    BY <1>1 DEF Descs
  <2>2. \A t \in ToSet(decl.nextIDs) :
           Desc("table_next_id", "table", <<c.name, t>>) \in c.descs
    BY <1>1 DEF Descs
  <2> QED
    BY <2>1, <2>2, DescIsIdentified
<1>3. \A q \in decl.queries : /\ <<q.metric, <<c.name, q.values>>>> \in S
                              /\ <<"query_duration_seconds", <<c.name, q.metric>>>> \in S
  <2>1. \A q \in decl.queries :
           /\ Desc(q.metric, q.dims, <<c.name, q.values>>) \in c.descs
           /\ Desc("query_duration_seconds", "query", <<c.name, q.metric>>) \in c.descs
    BY <1>1 DEF Descs
  <2> QED
    BY <2>1, DescIsIdentified
<1>4. /\ IsFiniteSet(DOMAIN decl.estimates) /\ IsFiniteSet(DOMAIN decl.nextIDs)
      /\ IsFiniteSet(decl.queries)
  BY <1>1, MetricsAssumption
<1>5. /\ <<>> \in Seq(S) /\ IsInjective(<<>>)
      /\ \A m : \A i \in DOMAIN <<>> : <<>>[i][1] = m
  BY DEF IsInjective
<1>6. /\ tables \in Seq(S) /\ IsInjective(tables)
      /\ \A i \in DOMAIN tables : tables[i][1] = "table_rows_estimate"
  <2> DEFINE series == TableSeries("table_rows_estimate", c.name, decl.estimates)
  <2> DEFINE T == {<<"table_rows_estimate", <<c.name, t>>>> : t \in ToSet(decl.estimates)}
  <2>1. series \in Seq(T) /\ IsInjective(series)
    BY <1>4, TableSeriesOnce
  <2>2. T \subseteq S /\ \A x \in T : x[1] = "table_rows_estimate"
    BY <1>2
  <2> HIDE DEF series, T, S
  <2>3. /\ series \in Seq(S) /\ IsInjective(series)
        /\ \A i \in DOMAIN series : series[i][1] = "table_rows_estimate"
    BY <2>1, <2>2
  <2>4. tables \in {series, <<>>}
    BY DEF series
  <2> HIDE DEF tables
  <2> QED
    BY <1>5, <2>3, <2>4
<1>7. /\ ids \in Seq(S) /\ IsInjective(ids)
      /\ \A i \in DOMAIN ids : ids[i][1] = "table_next_id"
  <2> DEFINE series == TableSeries("table_next_id", c.name, decl.nextIDs)
  <2> DEFINE T == {<<"table_next_id", <<c.name, t>>>> : t \in ToSet(decl.nextIDs)}
  <2>1. series \in Seq(T) /\ IsInjective(series)
    BY <1>4, TableSeriesOnce
  <2>2. T \subseteq S /\ \A x \in T : x[1] = "table_next_id"
    BY <1>2
  <2> HIDE DEF series, T, S
  <2>3. /\ series \in Seq(S) /\ IsInjective(series)
        /\ \A i \in DOMAIN series : series[i][1] = "table_next_id"
    BY <2>1, <2>2
  <2>4. ids \in {series, <<>>}
    BY DEF series
  <2> HIDE DEF ids
  <2> QED
    BY <1>5, <2>3, <2>4
<1>8. answered.queries \subseteq decl.queries
  BY DEF Answers
<1>9. IsFiniteSet(answered.queries)
  BY <1>4, <1>8, FS_Subset
<1>10. /\ Cardinality(answered.queries) \in Nat
       /\ queries \in [1..Cardinality(answered.queries) -> answered.queries]
       /\ IsInjective(queries)
  BY <1>9, SetToSeqWalksOnce
<1> HIDE DEF S, decl, tables, ids, queries
<1>11. /\ values \in Seq(S) /\ DOMAIN values = DOMAIN queries
       /\ \A i \in DOMAIN queries : values[i][1] = queries[i].metric
  <2>1. \A i \in DOMAIN queries : values[i] \in S /\ values[i][1] = queries[i].metric
    BY <1>3, <1>8, <1>10
  <2> QED
    BY <1>10, <2>1
<1>12. /\ timings \in Seq(S) /\ DOMAIN timings = DOMAIN queries
       /\ \A i \in DOMAIN queries : /\ timings[i][2][2] = queries[i].metric
                                    /\ timings[i][1] = "query_duration_seconds"
  <2>1. \A i \in DOMAIN queries : /\ timings[i] \in S /\ timings[i][2][2] = queries[i].metric
                                   /\ timings[i][1] = "query_duration_seconds"
    BY <1>3, <1>8, <1>10
  <2> QED
    BY <1>10, <2>1
<1>13. Collected(c, answered) = ((tables \o ids) \o values) \o timings
  BY DEF Collected, tables, ids, queries, decl
<1> DEFINE front == tables \o ids
           most == front \o values
<1> HIDE DEF values, timings, front, most
<1>14. front \in Seq(S) /\ most \in Seq(S) /\ most \o timings \in Seq(S)
  <2>1. front \in Seq(S)
    BY <1>6, <1>7 DEF front
  <2>2. most \in Seq(S)
    BY <1>11, <2>1 DEF most
  <2> QED
    BY <1>12, <2>1, <2>2
<1>15. ToSet(most \o timings) \subseteq S
  BY <1>14 DEF ToSet
<1>16. ASSUME DistinctMetrics PROVE IsInjective(most \o timings)
  <2>1. \A i, j \in DOMAIN queries : queries[i].metric = queries[j].metric => i = j
    BY <1>1, <1>8, <1>10, <1>16 DEF DistinctMetrics, IsInjective
  <2>2. \A i \in DOMAIN queries :
           queries[i].metric \notin {"table_rows_estimate", "table_next_id",
                                     "query_duration_seconds"}
    BY <1>1, <1>8, <1>10, <1>16 DEF DistinctMetrics
  <2>3. IsInjective(values) /\ IsInjective(timings)
    BY <1>11, <1>12, <2>1 DEF IsInjective
  <2>4. IsInjective(front)
    BY <1>6, <1>7, ConcatenationInjective DEF front
  <2>5. \A i \in DOMAIN front : front[i][1] \in {"table_rows_estimate", "table_next_id"}
    BY <1>6, <1>7 DEF front
  <2>6. IsInjective(most)
    BY <1>11, <1>14, <2>2, <2>3, <2>4, <2>5, ConcatenationInjective DEF most
  <2>7. \A i \in DOMAIN most : most[i][1] # "query_duration_seconds"
    <3>1. \A i \in DOMAIN values : values[i][1] # "query_duration_seconds"
      BY <1>11, <2>2
    <3> QED
      BY <1>11, <1>14, <2>5, <3>1 DEF most
  <2> QED
    BY <1>12, <1>14, <2>3, <2>6, <2>7, ConcatenationInjective
<1> QED
  BY <1>13, <1>15, <1>16 DEF most, front, S

-----------------------------------------------------------------------------
LEMMA ScrapeInvKept ==
    ASSUME ScrapeInv, UNCHANGED scrape, registered' \subseteq registered
    PROVE  ScrapeInv'
BY DEF ScrapeInv, Apart

\* The registry refuses a collector that describes a series of another one.
LEMMA RegisterKeepsApart ==
    ASSUME ScrapeInv, Register
    PROVE  ScrapeInv' /\ UNCHANGED scrape
<1> DEFINE new == Collector(worker.db, worker.decl, worker.handle)
<1>1. ~Clashes(new.descs, registered) /\ UNCHANGED scrape
      /\ registered' = IF new.descs = {} THEN registered ELSE registered \cup {new}
  BY DEF Register
<1> HIDE DEF new
<1>2. \A c \in registered : Ids(new.descs) \cap Ids(c.descs) = {}
  BY <1>1 DEF Clashes
<1>3. Apart(registered')
  BY <1>1, <1>2 DEF Apart, ScrapeInv
<1> QED
  BY <1>1, <1>3 DEF ScrapeInv

\* The unchecked collectors of a scrape describe no series that others could repeat.
LEMMA GatherKeepsApart ==
    ASSUME CollectorsInv, ScrapeInv, Gather
    PROVE  ScrapeInv' /\ ScrapeSucceeds'
<1>1. scrape'.pending = registered \cup unchecked /\ scrape'.series = {} /\ ~scrape'.failed
      /\ UNCHANGED registered
  BY DEF Gather, NoScrape, process
<1>2. \A c \in unchecked : Ids(c.descs) = {}
  BY DEF CollectorsInv, Ids
<1>3. Apart(scrape'.pending)
  BY <1>1, <1>2 DEF ScrapeInv, Apart
<1> QED
  BY <1>1, <1>3 DEF ScrapeInv, ScrapeSucceeds

LEMMA CollectKeepsApart ==
    ASSUME MetricsTypeOK, ScrapeInv,
           NEW c \in scrape.pending, NEW answered \in Answers(c.decl), Collect(c, answered)
    PROVE  /\ ScrapeInv'
           /\ DistinctMetrics /\ ScrapeSucceeds => ScrapeSucceeds'
<1> DEFINE sent == ToSet(Collected(c, answered))
<1>1. sent \subseteq Ids(c.descs) /\ (DistinctMetrics => IsInjective(Collected(c, answered)))
  BY CollectedOnce DEF MetricsTypeOK
<1>2. /\ scrape'.pending = scrape.pending \ {c}
      /\ scrape'.series \subseteq scrape.series \cup sent
      /\ scrape'.failed <=> \/ scrape.failed \/ ~IsInjective(Collected(c, answered))
                            \/ sent \cap scrape.series # {}
      /\ UNCHANGED registered
  BY DEF Collect, process
<1> HIDE DEF sent
<1>3. DistinctMetrics /\ ScrapeSucceeds => ScrapeSucceeds'
  BY <1>1, <1>2 DEF ScrapeInv, ScrapeSucceeds
<1>4. \A e \in scrape'.pending : scrape'.series \cap Ids(e.descs) = {}
  BY <1>1, <1>2 DEF ScrapeInv, Apart
<1>5. Apart(registered') /\ Apart(scrape'.pending)
  BY <1>2 DEF ScrapeInv, Apart
<1> QED
  BY <1>3, <1>4, <1>5 DEF ScrapeInv

LEMMA RestartKeepsApart ==
    ASSUME Restart
    PROVE  ScrapeInv' /\ ScrapeSucceeds'
BY DEF Restart, NoScrape, ScrapeInv, ScrapeSucceeds, Apart

\* What every step does to a scrape that is under way.
LEMMA ScrapeStep ==
    ASSUME MetricsTypeOK, CollectorsInv, ScrapeInv, [MetricsNext]_vars
    PROVE  ScrapeInv' /\ (DistinctMetrics /\ ScrapeSucceeds => ScrapeSucceeds')
<1>1. CASE Register
  BY <1>1, RegisterKeepsApart DEF ScrapeSucceeds
<1>2. CASE Gather
  BY <1>2, GatherKeepsApart
<1>3. ASSUME NEW c \in scrape.pending, NEW answered \in Answers(c.decl), Collect(c, answered)
      PROVE  ScrapeInv' /\ (DistinctMetrics /\ ScrapeSucceeds => ScrapeSucceeds')
  BY <1>3, CollectKeepsApart
<1>4. CASE Restart
  BY <1>4, RestartKeepsApart
<1>5. CASE UNCHANGED scrape /\ registered' \subseteq registered
  BY <1>5, ScrapeInvKept DEF ScrapeSucceeds
<1>6. CASE OpenMetricsAdmin \/ OpenAdmin \/ OpenFails \/ Unregister \/ Close
           \/ RegisterRefused \/ Rest
  BY <1>5, <1>6
     DEF OpenMetricsAdmin, OpenAdmin, OpenConnection, OpenFails, Unregister, Close,
         RegisterRefused, Rest, process
<1>7. ASSUME NEW d \in Databases,
             \/ GetGone(d) \/ Get(d) \/ Event(d) \/ DeleteDatabase(d)
             \/ \E decl \in Declarations : Edit(d, decl)
      PROVE  UNCHANGED scrape /\ registered' \subseteq registered
  BY <1>7 DEF GetGone, Get, Event, DeleteDatabase, Edit, process
<1>8. CASE UNCHANGED vars
  BY <1>5, <1>8 DEF vars
<1> QED
  BY <1>1, <1>2, <1>3, <1>4, <1>5, <1>6, <1>7, <1>8 DEF MetricsNext, Reconcile

LEMMA ScrapeInit == MetricsInit => ScrapeInv /\ ScrapeSucceeds
BY DEF MetricsInit, NoScrape, ScrapeInv, ScrapeSucceeds, Apart

(***************************************************************************)
(* The whole inductive invariant: who owns which connection, and that the  *)
(* collectors of the registry and of a scrape describe different series.   *)
(***************************************************************************)
THEOREM MetricsInvariant == MetricsSpec => []MetricsInv
<1>1. MetricsTypeOK /\ CollectorsInv /\ ScrapeInv /\ [MetricsNext]_vars => ScrapeInv'
  BY ScrapeStep
<1>2. MetricsSpec => []ScrapeInv
  BY <1>1, ScrapeInit, CollectorsInvariant, PTL DEF MetricsSpec
<1> QED
  BY <1>2, CollectorsInvariant, PTL DEF MetricsInv

(***************************************************************************)
(* A scrape never fails as a whole, however it interleaves with the        *)
(* replacement of collectors, if the queries of each declaration have      *)
(* metrics of their own.                                                   *)
(***************************************************************************)
THEOREM ScrapesSucceed ==
    ASSUME DistinctMetrics
    PROVE  MetricsSpec => []ScrapeSucceeds
<1>1. MetricsTypeOK /\ MetricsInv /\ ScrapeSucceeds /\ [MetricsNext]_vars => ScrapeSucceeds'
  BY ScrapeStep DEF MetricsInv
<1> QED
  BY <1>1, ScrapeInit, CollectorsInvariant, MetricsInvariant, PTL DEF MetricsSpec
=============================================================================
