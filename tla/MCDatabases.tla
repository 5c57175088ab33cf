---------------------------- MODULE MCDatabases -----------------------------
(***************************************************************************)
(* Small instances of the storages that keep their rows on a server: the    *)
(* shared Postgres client, the vector storage on it, and the migration of   *)
(* Milvus collections.  A run explores several scenes: one is chosen in the *)
(* initial state and stays, its component moves and the others rest.        *)
(***************************************************************************)
EXTENDS Naturals, TLC

CONSTANTS Scenes,
          a, b,          \* users of the client
          Triple, Twins, \* users or rows that nothing tells apart
          i1, i2, e1, e2, \* rows, entities
          t1, t2, t3,    \* tasks
          w1, w2,        \* the worker that writes, one that reads
          None

VARIABLES scene,
          inst, mgr, pool, reconnect, ensured, pools, u, server,  \* PostgresClient
          col, code, p, truth, unsure, writes,                    \* MilvusMigration
          row, docs, dels, db, lock, task, said, erasing, gone, seen, version, \* PgVectorStore
          faults                                                  \* of the last two

\* three storages whose connections break once
Pool == INSTANCE PostgresClient WITH
    Users <- Triple, Attempts <- 3, PoolSize <- 2, Calls <- 1, MaxPools <- 5,
    MaxBlips <- 1, MaxOutages <- 0, Signatures <- [x \in Triple |-> 1], Faults <- {}

\* different vector settings, closes that time out, rejected statements, an outage
PoolFaults == INSTANCE PostgresClient WITH
    Users <- {a, b}, Attempts <- 2, PoolSize <- 2, Calls <- 2, MaxPools <- 4,
    MaxBlips <- 1, MaxOutages <- 1, Signatures <- a :> 1 @@ b :> 2,
    Faults <- {"timeout", "reject"}

\* two upgrades in place with calls that fail, lost answers and deaths
Milvus == INSTANCE MilvusMigration WITH
    Rows <- Twins, Versions <- 3, Retries <- 1, MaxFaults <- 2, MaxWrites <- 1,
    Beginnings <- {"fresh", "current"}, Faults <- {"down", "lost", "death"}

\* the process dies between any two calls, beside a collection of an older release too
MilvusDeaths == INSTANCE MilvusMigration WITH
    Rows <- Twins, Versions <- 3, Retries <- 1, MaxFaults <- 3, MaxWrites <- 1,
    Beginnings <- {"fresh", "current", "legacy", "both"}, Faults <- {"death"}

Ids == {i1, i2}
About == i1 :> {e1} @@ i2 :> {e1, e2}

\* tasks of one worker, a crash
Pg == INSTANCE PgVectorStore WITH
    Entities <- {e1, e2}, Tasks <- {t1, t2}, Clients <- {w1}, Writer <- w1,
    ClientOf <- t1 :> w1 @@ t2 :> w1, MaxVersion <- 2, MaxFaults <- 1, Kinds <- {"down"},
    Calls <- {"upsert", "commit", "delete_entity", "get_by_id", "get_vectors", "crash"}

\* finalize, drop, a second worker that reads, lost answers
PgClose == INSTANCE PgVectorStore WITH
    Entities <- {e1, e2}, Tasks <- {t1, t3}, Clients <- {w1, w2}, Writer <- w1,
    ClientOf <- t1 :> w1 @@ t3 :> w2, MaxVersion <- 2, MaxFaults <- 1,
    Kinds <- {"down", "lost"},
    Calls <- {"upsert", "delete", "commit", "finalize", "get_by_id", "delete_entity",
              "drop", "drop_pending"}

ASSUME DatabaseAssumptions ==
    /\ Pool!ClientAssumption /\ PoolFaults!ClientAssumption
    /\ Milvus!MigrationAssumption /\ MilvusDeaths!MigrationAssumption
    /\ Pg!PgVectorAssumption /\ PgClose!PgVectorAssumption
    /\ Pg!FinalizesAlone /\ PgClose!FinalizesAlone

client == <<inst, mgr, pool, reconnect, ensured, pools, u, server>>
migration == <<col, code, p, truth, unsure, writes>>
vectors == <<row, docs, dels, db, lock, task, said, erasing, gone, seen, version>>
vars == <<scene, client, migration, vectors, faults>>

\* the variables of a component that rests; a vector storage that rests is empty
Rest(v) == v = None
ClientRests ==
    /\ Rest(inst) /\ Rest(mgr) /\ Rest(pool) /\ Rest(reconnect) /\ Rest(ensured)
    /\ Rest(pools) /\ Rest(u) /\ Rest(server)
MigrationRests ==
    /\ Rest(col) /\ Rest(code) /\ Rest(p) /\ Rest(truth) /\ Rest(unsure) /\ Rest(writes)

Init ==
    /\ scene \in Scenes
    /\ IF scene = "pg_close" THEN PgClose!Init ELSE Pg!Init
    /\ \/ scene = "pool" /\ Pool!Init /\ MigrationRests
       \/ scene = "pool_faults" /\ PoolFaults!Init /\ MigrationRests
       \/ scene = "milvus" /\ Milvus!Init /\ ClientRests
       \/ scene = "milvus_deaths" /\ MilvusDeaths!Init /\ ClientRests
       \/ scene \in {"pg", "pg_close"} /\ ClientRests /\ MigrationRests

Next ==
    /\ scene' = scene
    /\ \/ scene = "pool" /\ Pool!Next /\ UNCHANGED <<migration, vectors, faults>>
       \/ scene = "pool_faults" /\ PoolFaults!Next /\ UNCHANGED <<migration, vectors, faults>>
       \/ scene = "milvus" /\ Milvus!Next /\ UNCHANGED <<client, vectors>>
       \/ scene = "milvus_deaths" /\ MilvusDeaths!Next /\ UNCHANGED <<client, vectors>>
       \/ scene = "pg" /\ Pg!Next /\ UNCHANGED <<client, migration>>
       \/ scene = "pg_close" /\ PgClose!Next /\ UNCHANGED <<client, migration>>

Spec == Init /\ [][Next]_vars

-----------------------------------------------------------------------------
(* Properties: those of the components, in the scenes they are about *)

\* The reference count of ClientManager is the number of storages between
\* get_client and release_client, and they all have the object it hands out: no
\* reset, retry or failure closes the pool under one of them.
PoolsAreCounted ==
    /\ scene = "pool" => Pool!TypeOK /\ Pool!UsersAreCounted
    /\ scene = "pool_faults" => PoolFaults!TypeOK /\ PoolFaults!UsersAreCounted

\* _ensure_age_graph skips the check only for a graph that exists.
EnsuredGraphExists ==
    /\ scene = "pool" => Pool!EnsuredGraphExists
    /\ scene = "pool_faults" => PoolFaults!EnsuredGraphExists

\* One break of the connections makes none of the three calls of _run_with_retry, one
\* of each storage and with three attempts each, fail while the server stays up, and no
\* reset or release that it leads to forgets open connections.
OneBlipSurvived == scene = "pool" => Pool!OneBlipSurvived /\ Pool!NoPoolForgotten

\* Whichever two connections break, answers get lost or deaths come between in the
\* upgrades of a Milvus collection, and whenever the process dies beside a collection of
\* an older release: a collection that is served has the rows that the application
\* stored, and until the copy of a migration has its name, one collection is whole.
RowsSurvive ==
    /\ scene = "milvus" => Milvus!TypeOK /\ Milvus!ServedIsStored /\ Milvus!WholeSomewhere
    /\ scene = "milvus_deaths" =>
          /\ MilvusDeaths!TypeOK /\ MilvusDeaths!ServedIsStored
          /\ MilvusDeaths!WholeSomewhere

\* A row and a pending document never have the embedding of another content.
VectorsMatch ==
    /\ scene = "pg" => Pg!TypeOK /\ Pg!VectorsMatch
    /\ scene = "pg_close" => PgClose!TypeOK

\* A read is answered with what the row was at some moment of the read, unless its query
\* failed: then a row that is there may be answered as absent.
ReadsAreCurrent == scene = "pg" => Pg!ReadsAreCurrent

\* Rows that delete_entity erased do not come back from a buffer.
ErasedStayErased == scene = "pg" => Pg!ErasedStayErased

\* The storage implements VectorStorePromise: no buffered write is dropped silently,
\* and a commit that succeeds has put all of them on the server.
KeepsPromise == Pg!Promise!PromiseSpec

Symmetry == Permutations(Triple) \cup Permutations(Twins)
=============================================================================
