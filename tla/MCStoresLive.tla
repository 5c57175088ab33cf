---------------------------- MODULE MCStoresLive ----------------------------
(***************************************************************************)
(* Small instances of the storages in which callers wait for each other or  *)
(* for a server, with the fairness of the event loop: what begins must end. *)
(* A run explores several scenes: one is chosen in the initial state and    *)
(* stays, its component moves and the others rest.                          *)
(***************************************************************************)
EXTENDS Naturals, TLC

CONSTANTS Scenes, Attempts,   \* attempts of a call of PostgreSQLDB in an outage
          a1, b1,           \* operations, users or tasks
          p1, q1,           \* processes or workers
          i1, j1,           \* rows
          None

VARIABLES scene,
          file, s, ops, cancel, promised, banned,                     \* NetworkXStore
          inst, mgr, pool, reconnect, ensured, pools, u, server,      \* PostgresClient
          col, code, start, truth, unsure, writes,                    \* MilvusMigration
          row, docs, dels, db, task, said, erasing, gone, seen, version, \* PgVectorStore
          lock, faults                                                \* of two of them

\* two documents of a batch; saves, loads and notifications fail
Graph == INSTANCE NetworkXStore WITH
    Procs <- {p1, q1}, Docs <- {a1, b1}, Admins <- {}, Home <- a1 :> p1 @@ b1 :> p1,
    Changes <- 1, Faults <- {"save", "notify", "load"}

\* one connection for two storages, two breaks of the connections
PoolSlots == INSTANCE PostgresClient WITH
    Users <- {a1, b1}, Attempts <- 2, PoolSize <- 1, Calls <- 2, MaxPools <- 4,
    MaxBlips <- 2, MaxOutages <- 0, Signatures <- [x \in {a1, b1} |-> 1],
    Faults <- {"timeout"}

\* two outages of the server
PoolOutage == INSTANCE PostgresClient WITH
    Users <- {a1, b1}, Attempts <- Attempts, PoolSize <- 2, Calls <- 2, MaxPools <- 6,
    MaxBlips <- 0, MaxOutages <- 2, Signatures <- [x \in {a1, b1} |-> 1], Faults <- {}

\* every failure of a migration
Milvus == INSTANCE MilvusMigration WITH
    Rows <- {i1}, Versions <- 3, Retries <- 1, MaxFaults <- 2, MaxWrites <- 1,
    Beginnings <- {"fresh", "current", "legacy", "both"},
    Faults <- {"down", "lost", "error", "index", "death"}, p <- start

\* two tasks of one worker
PgVector == INSTANCE PgVectorStore WITH
    Ids <- {i1, j1}, Entities <- {p1, q1}, About <- i1 :> {p1} @@ j1 :> {p1, q1},
    Tasks <- {a1, b1}, Clients <- {p1}, ClientOf <- a1 :> p1 @@ b1 :> p1, Writer <- p1,
    MaxVersion <- 1, MaxFaults <- 1, Kinds <- {"down"},
    Calls <- {"upsert", "commit", "delete_entity", "get_vectors", "drop"}

ASSUME StoresLiveAssumptions ==
    /\ Graph!GraphAssumption /\ PoolSlots!ClientAssumption /\ PoolOutage!ClientAssumption
    /\ Milvus!MigrationAssumption /\ PgVector!PgVectorAssumption

graph == <<file, s, ops, cancel, promised, banned>>
client == <<inst, mgr, pool, reconnect, ensured, pools, u, server>>
migration == <<col, code, start, truth, unsure, writes>>
vectors == <<row, docs, dels, db, task, said, erasing, gone, seen, version>>
vars == <<scene, graph, client, migration, vectors, lock, faults>>

\* the variables of a component that rests
Rest(v) == v = None
GraphRests ==
    /\ Rest(file) /\ Rest(s) /\ Rest(ops) /\ Rest(cancel) /\ Rest(promised) /\ Rest(banned)
ClientRests ==
    /\ Rest(inst) /\ Rest(mgr) /\ Rest(pool) /\ Rest(reconnect) /\ Rest(ensured)
    /\ Rest(pools) /\ Rest(u) /\ Rest(server)
MigrationRests ==
    /\ Rest(col) /\ Rest(code) /\ Rest(start) /\ Rest(truth) /\ Rest(unsure) /\ Rest(writes)
VectorsRest ==
    /\ Rest(row) /\ Rest(docs) /\ Rest(dels) /\ Rest(db) /\ Rest(task) /\ Rest(said)
    /\ Rest(erasing) /\ Rest(gone) /\ Rest(seen) /\ Rest(version)

Init ==
    /\ scene \in Scenes
    /\ scene # "graph" => GraphRests
    /\ scene \notin {"pool_slots", "pool_outage"} => ClientRests
    /\ scene # "milvus" => MigrationRests
    /\ scene # "vectors" => VectorsRest
    /\ scene \notin {"graph", "vectors"} => Rest(lock)
    /\ scene \notin {"milvus", "vectors"} => Rest(faults)
    /\ CASE scene = "graph" -> Graph!Init
         [] scene = "pool_slots" -> PoolSlots!Init
         [] scene = "pool_outage" -> PoolOutage!Init
         [] scene = "milvus" -> Milvus!Init
         [] scene = "vectors" -> PgVector!Init

In(name, others) == scene = name /\ scene' = scene /\ UNCHANGED others
InGraph == In("graph", <<client, migration, vectors, faults>>)
InPool(name) == In(name, <<graph, migration, vectors, lock, faults>>)
InMilvus == In("milvus", <<graph, client, vectors, lock>>)
InVectors == In("vectors", <<graph, client, migration>>)

Next ==
    \/ InGraph /\ Graph!Next
    \/ InPool("pool_slots") /\ PoolSlots!Next
    \/ InPool("pool_outage") /\ PoolOutage!Next
    \/ InMilvus /\ Milvus!Next
    \/ InVectors /\ PgVector!Next

\* the event loop runs every task that is ready: what a caller has begun goes on
Runs(x) ==
    \/ InGraph /\ Graph!CarryOn(x)
    \/ InPool("pool_slots") /\ PoolSlots!Working(x)
    \/ InPool("pool_outage") /\ PoolOutage!Working(x)
    \/ x = a1 /\ InMilvus /\ Milvus!Program
    \/ InVectors /\ PgVector!Continue(x) /\ PgVector!Observe

\* the server comes back
Recovers == InPool("pool_outage") /\ PoolOutage!Recover

\* an asyncio lock is handed over in the order in which it was asked for
Caches(x) == InVectors /\ PgVector!CacheVector(x) /\ PgVector!Observe

Spec ==
    /\ Init /\ [][Next]_vars
    /\ \A x \in {a1, b1} : WF_vars(Runs(x)) /\ SF_vars(Caches(x))
    /\ WF_vars(Recovers)

-----------------------------------------------------------------------------
StoreBusy(x) ==
    \/ scene = "graph" /\ Graph!Active(x)
    \/ scene = "pool_slots" /\ PoolSlots!Calling(x)
    \/ scene = "pool_outage" /\ PoolOutage!Calling(x)
    \/ scene = "vectors" /\ ~PgVector!At(x, "idle")

\* Every operation of a storage ends: the gate and the owed reload of NetworkXStorage
\* block nobody for good, nor do the pool of PostgreSQLDB while its server comes back
\* and the one lock of PGVectorStorage.
EveryStoreCallEnds == \A x \in {a1, b1} : StoreBusy(x) ~> ~StoreBusy(x)

\* When the failures of a migration are over, initialize ends with a collection that is
\* served, after a recovery maybe one of the older schema; only a drop that failed half
\* way leaves none.
AlwaysServesAgain ==
    (scene = "milvus" /\ start.at \notin {"serving", "broken"})
        ~> (scene = "milvus" /\ start.at \in {"serving", "broken"})
=============================================================================
