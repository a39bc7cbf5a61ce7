-------------------------- MODULE MetricsCollectors --------------------------
(***************************************************************************)
(* The data metrics of the managed databases: every reconcile replaces the *)
(* collector of its database (reconcileMetricsCollectors), each collector  *)
(* owns a connection, and Prometheus scrapes the registry at any time.     *)
(*                                                                         *)
(* The registry is external (client_golang 0.9): it refuses a collector    *)
(* that repeats a description of another one, or one whose label names or  *)
(* help text differ from what the metric was FIRST registered with; that   *)
(* memory survives Unregister. A collector without descriptions is kept    *)
(* "unchecked": Unregister does not find it, and every scrape to come      *)
(* collects it. A scrape that meets the same series twice fails as a       *)
(* whole.                                                                  *)
(***************************************************************************)
EXTENDS SequencesExt

CONSTANTS
    Databases,      \* SelfLinks of ManagedDatabases
    Name,           \* [Databases -> names]: the name without the namespace
    Declarations,   \* the ExportDataMetrics people write
    Handles,        \* bound: connections the operator can have open
    NoHandle,
    MaxEdits,       \* bound: edits of the objects
    MaxRestarts     \* bound: restarts of the operator

ASSUME MetricsAssumption ==
    /\ DOMAIN Name = Databases
    /\ \A decl \in Declarations :
          /\ IsFiniteSet(DOMAIN decl.estimates) /\ IsFiniteSet(DOMAIN decl.nextIDs)
          /\ IsFiniteSet(decl.queries)
    /\ IsFiniteSet(Handles) /\ NoHandle \notin Handles
    /\ MaxEdits \in Nat /\ MaxRestarts \in Nat

VARIABLES
    declared,                   \* [ManagedDatabases that exist -> their ExportDataMetrics]
    queue,
    databaseLinks,
    databaseMetricsCollectors,  \* [SelfLinks -> collectors]
    registered,                 \* the collectors in the registry
    unchecked,                  \* the collectors in it that describe nothing
    dims,                       \* the registry's memory: <<metric, dimensions>>
    open,                       \* open connections
    refused,                    \* connections of collectors the registry refused
    worker,                     \* ReconcileManagedDatabase
    scrape,                     \* collectors still to be collected, series so far
    used

vars == <<declared, queue, databaseLinks, databaseMetricsCollectors, registered, unchecked,
          dims, open, refused, worker, scrape, used>>
process == <<databaseLinks, databaseMetricsCollectors, registered, unchecked, dims, open, refused>>

Idle == [pc |-> "idle"]
NoScrape == [pending |-> {}, series |-> {}, failed |-> FALSE]

-----------------------------------------------------------------------------
\* NewDatabaseMetricsCollector: what the collector describes ...
Desc(metric, dimensions, values) ==
    [metric |-> metric, dims |-> dimensions, values |-> values]

Descs(dbName, decl) ==
    {Desc("table_rows_estimate", "table", <<dbName, t>>) : t \in ToSet(decl.estimates)}
    \cup {Desc("table_next_id", "table", <<dbName, t>>) : t \in ToSet(decl.nextIDs)}
    \cup {Desc(q.metric, q.dims, <<dbName, q.values>>) : q \in decl.queries}
    \cup {Desc("query_duration_seconds", "query", <<dbName, q.metric>>) : q \in decl.queries}

Collector(d, decl, handle) ==
    [descs |-> Descs(Name[d], decl), name |-> Name[d], decl |-> decl, handle |-> handle]

Collectors == {Collector(d, decl, h) : d \in Databases, decl \in Declarations, h \in Handles}

Ids(descs) == {<<desc.metric, desc.values>> : desc \in descs}

(***************************************************************************)
(* ... and what Collect sends when the queries in "answered" succeed, as a *)
(* sequence of series. The references to tables are keys of a map, so that *)
(* a table named twice is sent once; but two queries for one metric each   *)
(* send a histogram of their own with the same labels.                     *)
(***************************************************************************)
\* Seeded bug: the list of names is walked instead of the map.
TableSeries_List(metric, name, tables) ==
    [i \in DOMAIN tables |-> <<metric, <<name, tables[i]>>>>]

TableSeries(metric, name, tables) ==
    [i \in 1..Cardinality(ToSet(tables)) |-> <<metric, <<name, SetToSeq(ToSet(tables))[i]>>>>]

\* GetNextIDs fails if it does not find as many tables as it was given names.
NextIDsPossible(decl) == IsInjective(decl.nextIDs)

Answers(decl) ==
    [estimates : BOOLEAN, nextIDs : {FALSE, NextIDsPossible(decl)}, queries : SUBSET decl.queries]
NoAnswer == [estimates |-> FALSE, nextIDs |-> FALSE, queries |-> {}]

Collected(c, answered) ==
    LET tables == IF answered.estimates
                  THEN TableSeries("table_rows_estimate", c.name, c.decl.estimates) ELSE <<>>
        ids == IF answered.nextIDs
               THEN TableSeries("table_next_id", c.name, c.decl.nextIDs) ELSE <<>>
        queries == SetToSeq(answered.queries)
        values == [i \in DOMAIN queries |-> <<queries[i].metric, <<c.name, queries[i].values>>>>]
        timings == [i \in DOMAIN queries |->
                       <<"query_duration_seconds", <<c.name, queries[i].metric>>>>]
    IN  tables \o ids \o values \o timings

-----------------------------------------------------------------------------
MetricsInit ==
    /\ \E existing \in SUBSET Databases : declared \in [existing -> Declarations]
    /\ queue = DOMAIN declared
    /\ databaseLinks = {} /\ databaseMetricsCollectors = <<>>
    /\ registered = {} /\ unchecked = {} /\ dims = {}
    /\ open = {} /\ refused = {}
    /\ worker = Idle /\ scrape = NoScrape
    /\ used = [edits |-> 0, restarts |-> 0]

Use(what, bound) == used[what] < bound /\ used' = [used EXCEPT ![what] = @ + 1]

\* People create, change and delete ManagedDatabases; each change is an event.
Edit(d, decl) ==
    /\ Use("edits", MaxEdits)
    /\ declared' = [e \in DOMAIN declared \cup {d} |-> IF e = d THEN decl ELSE declared[e]]
    /\ queue' = queue \cup {d}
    /\ UNCHANGED <<process, worker, scrape>>

DeleteDatabase(d) ==
    /\ Use("edits", MaxEdits)
    /\ d \in DOMAIN declared
    /\ declared' = [e \in DOMAIN declared \ {d} |-> declared[e]]
    /\ queue' = queue \cup {d}
    /\ UNCHANGED <<process, worker, scrape>>

\* A Job, a Secret or the status of the object changes, or the cache is resynced.
Event(d) ==
    /\ d \in DOMAIN declared
    /\ queue' = queue \cup {d}
    /\ UNCHANGED <<declared, process, worker, scrape, used>>

(***************************************************************************)
(* ReconcileManagedDatabase. An object that is gone leaves db.SelfLink     *)
(* empty, and no database has that link: nothing is removed.               *)
(***************************************************************************)
\* Seeded bug: the link is removed and the collector is not.
GetGone_LinkOnly(d) ==
    /\ worker = Idle /\ d \in queue \ DOMAIN declared
    /\ queue' = queue \ {d}
    /\ databaseLinks' = databaseLinks \ {d}
    /\ UNCHANGED <<declared, databaseMetricsCollectors, registered, unchecked, dims, open,
                   refused, worker, scrape, used>>

GetGone(d) ==
    /\ worker = Idle /\ d \in queue \ DOMAIN declared
    /\ queue' = queue \ {d}
    /\ UNCHANGED <<declared, process, worker, scrape, used>>

Get(d) ==
    /\ worker = Idle /\ d \in queue \cap DOMAIN declared
    /\ queue' = queue \ {d}
    /\ databaseLinks' = databaseLinks \cup {d}
    /\ worker' = [pc |-> "open", db |-> d, decl |-> declared[d], handle |-> NoHandle]
    /\ UNCHANGED <<declared, databaseMetricsCollectors, registered, unchecked, dims, open,
                   refused, scrape, used>>

\* A connection that is not open and that no collector of a scrape refers to.
FreeHandles == Handles \ (open \cup {c.handle : c \in unchecked \cup scrape.pending})

\* initializeAdminConnection, first for the metrics and then for the rest.
OpenConnection(from, to) ==
    /\ worker.pc = from
    /\ \E handle \in FreeHandles :
          /\ handle = CHOOSE h \in FreeHandles : TRUE
          /\ open' = open \cup {handle}
          /\ worker' = [worker EXCEPT !.pc = to, !.handle = handle]
    /\ UNCHANGED <<declared, queue, databaseLinks, databaseMetricsCollectors, registered,
                   unchecked, dims, refused, scrape, used>>
OpenMetricsAdmin == OpenConnection("open", "replace")
OpenAdmin == OpenConnection("admin", "rest")

\* The Secret with the DSN cannot be read, or the connection cannot be made.
OpenFails ==
    /\ worker.pc \in {"open", "admin"}
    /\ worker' = Idle
    /\ UNCHANGED <<declared, queue, process, scrape, used>>

(***************************************************************************)
(* reconcileMetricsCollectors: Unregister, Close, and the new collector is *)
(* registered; a scrape may run between any two of these.                  *)
(***************************************************************************)
Mine == worker.db \in DOMAIN databaseMetricsCollectors
MyCollector == databaseMetricsCollectors[worker.db]

\* Seeded bug: the old collector is closed while it can still be scraped.
Unregister_Later ==
    /\ worker.pc = "replace"
    /\ open' = IF Mine THEN open \ {MyCollector.handle} ELSE open
    /\ worker' = [worker EXCEPT !.pc = IF Mine THEN "close" ELSE "register"]
    /\ UNCHANGED <<declared, queue, databaseLinks, databaseMetricsCollectors, registered,
                   unchecked, dims, refused, scrape, used>>

\* Seeded bug: a database that has a collector keeps it.
Unregister_KeepsExisting ==
    /\ worker.pc = "replace"
    /\ open' = IF Mine THEN open \ {worker.handle} ELSE open
    /\ worker' = IF Mine THEN [worker EXCEPT !.pc = "admin", !.handle = NoHandle]
                         ELSE [worker EXCEPT !.pc = "register"]
    /\ UNCHANGED <<declared, queue, databaseLinks, databaseMetricsCollectors, registered,
                   unchecked, dims, refused, scrape, used>>

\* An unchecked collector is not found by Unregister.
Unregister ==
    /\ worker.pc = "replace"
    /\ registered' = IF Mine THEN registered \ {MyCollector} ELSE registered
    /\ worker' = [worker EXCEPT !.pc = IF Mine THEN "close" ELSE "register"]
    /\ UNCHANGED <<declared, queue, databaseLinks, databaseMetricsCollectors, unchecked, dims,
                   open, refused, scrape, used>>

\* Seeded bug: the collector is forgotten without being closed.
Close_Forgotten ==
    /\ worker.pc = "close"
    /\ databaseMetricsCollectors' =
          [d \in DOMAIN databaseMetricsCollectors \ {worker.db} |-> databaseMetricsCollectors[d]]
    /\ worker' = [worker EXCEPT !.pc = "register"]
    /\ UNCHANGED <<declared, queue, databaseLinks, registered, unchecked, dims, open, refused,
                   scrape, used>>

Close ==
    /\ worker.pc = "close"
    /\ open' = open \ {MyCollector.handle}
    /\ databaseMetricsCollectors' =
          [d \in DOMAIN databaseMetricsCollectors \ {worker.db} |-> databaseMetricsCollectors[d]]
    /\ worker' = [worker EXCEPT !.pc = "register"]
    /\ UNCHANGED <<declared, queue, databaseLinks, registered, unchecked, dims, refused, scrape,
                   used>>

(***************************************************************************)
(* The registry's verdict on a collector with these descriptions, next to  *)
(* the others.                                                             *)
(***************************************************************************)
Clashes(descs, others) ==
    \/ \E desc \in descs, known \in dims \cup {<<e.metric, e.dims>> : e \in descs} :
          desc.metric = known[1] /\ desc.dims # known[2]
    \/ \E c \in others : Ids(descs) \cap Ids(c.descs) # {}

Register ==
    /\ worker.pc = "register"
    /\ LET new == Collector(worker.db, worker.decl, worker.handle)
       IN  /\ ~Clashes(new.descs, registered)
           /\ databaseMetricsCollectors' =
                 [d \in DOMAIN databaseMetricsCollectors \cup {worker.db} |->
                     IF d = worker.db THEN new ELSE databaseMetricsCollectors[d]]
           /\ dims' = dims \cup {<<desc.metric, desc.dims>> : desc \in new.descs}
           /\ registered' = IF new.descs = {} THEN registered ELSE registered \cup {new}
           /\ unchecked' = IF new.descs = {} THEN unchecked \cup {new} ELSE unchecked
    /\ worker' = [worker EXCEPT !.pc = "admin", !.handle = NoHandle]
    /\ UNCHANGED <<declared, queue, databaseLinks, open, refused, scrape, used>>

\* The error ends the reconcile before anything is migrated.
RegisterRefused ==
    /\ worker.pc = "register"
    /\ Clashes(Collector(worker.db, worker.decl, worker.handle).descs, registered)
    /\ refused' = refused \cup {worker.handle}
    /\ worker' = Idle
    /\ UNCHANGED <<declared, queue, databaseLinks, databaseMetricsCollectors, registered,
                   unchecked, dims, open, scrape, used>>

\* The rest of the reconcile, which ends by closing its own connection.
Rest ==
    /\ worker.pc = "rest"
    /\ open' = open \ {worker.handle}
    /\ worker' = Idle
    /\ UNCHANGED <<declared, queue, databaseLinks, databaseMetricsCollectors, registered,
                   unchecked, dims, refused, scrape, used>>

-----------------------------------------------------------------------------
\* Prometheus gathers the collectors of the moment, the unchecked ones too, and
\* collects each of them.
Gather ==
    /\ scrape.pending = {}
    /\ scrape' = [NoScrape EXCEPT !.pending = registered \cup unchecked]
    /\ UNCHANGED <<declared, queue, process, worker, used>>

(***************************************************************************)
(* Collect: any query may fail, and all do once the connection is closed.  *)
(***************************************************************************)
Collect(c, answered) ==
    /\ c \in scrape.pending
    /\ c.handle \notin open => answered = NoAnswer
    /\ LET sent == Collected(c, answered)
       IN  scrape' = [pending |-> scrape.pending \ {c},
                      series |-> IF scrape.pending = {c} THEN {} ELSE scrape.series \cup ToSet(sent),
                      failed |-> \/ scrape.failed \/ ~IsInjective(sent)
                                 \/ ToSet(sent) \cap scrape.series # {}]
    /\ UNCHANGED <<declared, queue, process, worker, used>>

\* The operator starts again with an empty registry and every object queued.
Restart ==
    /\ Use("restarts", MaxRestarts)
    /\ databaseLinks' = {} /\ databaseMetricsCollectors' = <<>>
    /\ registered' = {} /\ unchecked' = {} /\ dims' = {} /\ open' = {} /\ refused' = {}
    /\ worker' = Idle /\ scrape' = NoScrape
    /\ queue' = DOMAIN declared
    /\ UNCHANGED declared

Reconcile ==
    OpenMetricsAdmin \/ OpenFails \/ Unregister \/ Close \/ Register \/ RegisterRefused
    \/ OpenAdmin \/ Rest

MetricsNext ==
    \/ Reconcile \/ Gather \/ Restart
    \/ \E d \in Databases :
          \/ GetGone(d) \/ Get(d) \/ Event(d) \/ DeleteDatabase(d)
          \/ \E decl \in Declarations : Edit(d, decl)
    \/ \E c \in scrape.pending : \E answered \in Answers(c.decl) : Collect(c, answered)

(***************************************************************************)
(* The worker runs, the queue serves every request in turn, the informers  *)
(* queue every object again at each resync, and a connection that is tried *)
(* again and again is made in the end.                                     *)
(***************************************************************************)
MetricsSpec ==
    /\ MetricsInit /\ [][MetricsNext]_vars
    /\ WF_vars(Reconcile)
    /\ \A d \in Databases :
          /\ SF_vars(Get(d)) /\ WF_vars(Event(d))
          /\ SF_vars(OpenMetricsAdmin /\ worker.db = d)

-----------------------------------------------------------------------------
(***************************************************************************)
(* The values have their types.                                            *)
(***************************************************************************)
MetricsTypeOK ==
    /\ DOMAIN declared \subseteq Databases /\ declared \in [DOMAIN declared -> Declarations]
    /\ queue \subseteq Databases /\ databaseLinks \subseteq Databases
    /\ DOMAIN databaseMetricsCollectors \subseteq databaseLinks
    /\ databaseMetricsCollectors \in [DOMAIN databaseMetricsCollectors -> Collectors]
    /\ registered \subseteq Collectors /\ unchecked \subseteq Collectors
    /\ scrape.pending \subseteq Collectors
    /\ open \subseteq Handles /\ refused \subseteq open
    /\ worker \in {Idle} \cup
          [pc : {"open", "replace", "close", "register", "admin", "rest"},
           db : databaseLinks, decl : Declarations, handle : open \cup {NoHandle}]

(***************************************************************************)
(* A scrape that starts now, at any moment of a replacement, finds only    *)
(* collectors with an open connection, except for those that ask the       *)
(* database nothing: a database without metrics leaves such a one behind   *)
(* in the registry at every reconcile, closed (reconcileMetricsCollectors, *)
(* Collect). A scrape that has started earlier may meet a closed one.      *)
(***************************************************************************)
AsksDatabase(decl) ==
    DOMAIN decl.estimates # {} \/ DOMAIN decl.nextIDs # {} \/ decl.queries # {}

ScrapesFindOpenConnections ==
    \A c \in registered \cup unchecked : AsksDatabase(c.decl) => c.handle \in open

(***************************************************************************)
(* Between two reconciles the collectors with descriptions in the registry *)
(* are exactly those the controller remembers, and every open connection   *)
(* is that of a remembered collector or of one the registry refused        *)
(* (reconcileMetricsCollectors).                                           *)
(***************************************************************************)
ConnectionsAccounted ==
    worker = Idle =>
        LET mine == Range(databaseMetricsCollectors)
        IN  /\ registered = {c \in mine : c.descs # {}}
            /\ open = {c.handle : c \in mine} \cup refused

(***************************************************************************)
(* A scrape never meets a series twice, which would fail it as a whole     *)
(* (Collect).                                                              *)
(***************************************************************************)
ScrapeSucceeds == ~scrape.failed

(***************************************************************************)
(* Every query of a declaration has a metric of its own, and none takes    *)
(* the name of a metric the collector has itself. The operator does not    *)
(* check this; without it two queries for one metric fail the scrape.      *)
(***************************************************************************)
DistinctMetrics ==
    \A decl \in Declarations : \A q \in decl.queries :
        /\ q.metric \notin {"table_rows_estimate", "table_next_id", "query_duration_seconds"}
        /\ \A r \in decl.queries : q.metric = r.metric => q = r

\* The connection the worker holds, if any.
OwnHandle == IF worker = Idle THEN {} ELSE {worker.handle} \ {NoHandle}

(***************************************************************************)
(* Every open connection has one owner: a collector, the worker, or a      *)
(* collector that was refused; and the registry holds what the controller  *)
(* remembers, less the collector that is about to be closed                *)
(* (reconcileMetricsCollectors).                                           *)
(***************************************************************************)
CollectorsInv ==
    LET known == DOMAIN databaseMetricsCollectors
        handles == {databaseMetricsCollectors[d].handle : d \in known}
        closing == {d \in known : worker.pc = "close" /\ d = worker.db}
    IN  /\ \A d, e \in known : d # e =>
              databaseMetricsCollectors[d].handle # databaseMetricsCollectors[e].handle
        /\ handles \cap refused = {}
        /\ OwnHandle \cap (handles \cup refused) = {}
        /\ open = handles \cup refused \cup OwnHandle
        /\ registered = {databaseMetricsCollectors[d] :
                            d \in {e \in known \ closing :
                                      databaseMetricsCollectors[e].descs # {}}}
        /\ \A c \in unchecked : c.descs = {}
        /\ worker.pc = "close" => worker.db \in known
        /\ worker.pc = "register" => worker.db \notin known
        /\ worker.pc \in {"open", "admin"} => OwnHandle = {}
        /\ worker.pc \in {"replace", "close", "register", "rest"} => OwnHandle # {}

\* No two of these collectors describe the same series.
Apart(collectors) ==
    \A c, e \in collectors : c # e => Ids(c.descs) \cap Ids(e.descs) = {}

(***************************************************************************)
(* No two collectors of the registry, or of a scrape that is under way,    *)
(* describe the same series, and none describes a series the scrape has    *)
(* met already (Collect, Describe).                                        *)
(***************************************************************************)
ScrapeInv ==
    /\ Apart(registered) /\ Apart(scrape.pending)
    /\ \A c \in scrape.pending : scrape.series \cap Ids(c.descs) = {}

(***************************************************************************)
(* At every step of a replacement and of a scrape, each open connection    *)
(* has one owner, the registry holds what the controller remembers, and    *)
(* the collectors that are scraped together describe different series      *)
(* (reconcileMetricsCollectors, Collect).                                  *)
(***************************************************************************)
MetricsInv == CollectorsInv /\ ScrapeInv

Published(d, decl) ==
    /\ d \in DOMAIN databaseMetricsCollectors
    /\ databaseMetricsCollectors[d].decl = decl

\* The registered collectors but the database's own, which a reconcile replaces.
Others(d) ==
    {c \in registered :
        d \in DOMAIN databaseMetricsCollectors => c # databaseMetricsCollectors[d]}

(***************************************************************************)
(* The metrics a database declares are published in the end, also those    *)
(* that keep series its previous declaration had, unless they clash with   *)
(* what other databases have registered or what the registry remembers of  *)
(* a metric (reconcileMetricsCollectors), or the bound on connections is   *)
(* used up.                                                                *)
(***************************************************************************)
DeclaredIsPublished ==
    \A d \in Databases, decl \in Declarations :
        (d \in DOMAIN declared /\ declared[d] = decl) ~>
            \/ Published(d, decl) \/ FreeHandles = {}
            \/ Clashes(Descs(Name[d], decl), Others(d))
            \/ d \notin DOMAIN declared \/ declared[d] # decl
=============================================================================
