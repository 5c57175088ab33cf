---------------------------- MODULE PostgresClient ----------------------------
(***************************************************************************)
(* lightrag/kg/postgres_impl.py: the connection pool of PostgreSQLDB with   *)
(* its retries, and ClientManager, which shares one PostgreSQLDB between    *)
(* the storages of a process.                                               *)
(*                                                                          *)
(* A user is a storage: it initialises, makes calls and is finalised, one   *)
(* thing after the other; users interleave at every await.  A lock is the   *)
(* queue of those who asked for it, its head holds it (asyncio.Lock is      *)
(* first come, first served, and not reentrant).  The server and asyncpg    *)
(* are external: connections break together (a blip), or nothing can        *)
(* connect for a while (an outage).  Time is left out: the waits between    *)
(* attempts may be of any length.                                           *)
(***************************************************************************)
EXTENDS Naturals, Sequences, FiniteSets

CONSTANTS Users,
          Attempts,     \* connection_retry_attempts
          PoolSize,     \* max_connections
          Calls,        \* bound: calls that a user makes
          MaxPools,     \* bound: pools that are not closed
          MaxBlips,     \* bound: times that the open connections break
          MaxOutages,   \* bound: times that the server goes away
          Signatures,   \* the vector settings of each user
          Faults        \* what else a model injects

VARIABLES inst,         \* ClientManager._instances
          mgr,          \* ClientManager._lock
          pool,         \* the pool of each database object, 0 for Null
          reconnect,    \* _pool_reconnect_lock of each database object
          ensured,      \* _ensured_age_graphs has the graph, of each object
          pools,        \* the state of each pool that was created
          u,            \* the progress of each user
          server        \* up, whether the graph exists, blips and outages so far

vars == <<inst, mgr, pool, reconnect, ensured, pools, u, server>>

ClientAssumption ==
    /\ Attempts \in Nat \ {0} /\ PoolSize \in Nat \ {0} /\ IsFiniteSet(Users)
    /\ Calls \in Nat /\ MaxBlips \in Nat /\ MaxOutages \in Nat /\ MaxPools \in Nat \ {0}
    /\ Faults \subseteq {"reject", "timeout"}

Dbs == 1..Cardinality(Users)
Pools == 1..MaxPools
Null == 0

Steps == {"out", "getting", "creating", "resetting", "closing", "ensuring", "waiting",
          "configuring", "running", "member", "leaving", "draining", "refused", "failed"}

TypeOK ==
    /\ inst.db \in Dbs \cup {Null} /\ inst.ref \in 0..Cardinality(Users)
    /\ inst.db = Null => inst.sig = Null
    /\ pool \in [Dbs -> Pools \cup {Null}] /\ pools \in [Pools -> {"open", "closing", "closed"}]
    /\ \A x \in Users : /\ u[x].at \in Steps
                        /\ u[x].attempt \in 1..Attempts /\ u[x].creation \in 1..Attempts
                        /\ u[x].conn => u[x].at \in {"configuring", "running"}

Init ==
    /\ inst = [db |-> Null, ref |-> 0, sig |-> Null]
    /\ mgr = << >>
    /\ pool = [d \in Dbs |-> Null] /\ reconnect = [d \in Dbs |-> << >>]
    /\ ensured = [d \in Dbs |-> FALSE] /\ pools = [i \in Pools |-> "closed"]
    /\ u = [x \in Users |-> [at |-> "out", db |-> Null, tables |-> FALSE, ensure |-> FALSE,
                             inner |-> FALSE, attempt |-> 1, creation |-> 1, pool |-> Null,
                             conn |-> FALSE, broken |-> FALSE, done |-> 0]]
    /\ server = [up |-> TRUE, graph |-> FALSE, blips |-> 0, outages |-> 0]

Holds(q, x) == q # << >> /\ Head(q) = x
Using(p) == {x \in Users : u[x].conn /\ u[x].pool = p}
Db(x) == u[x].db
\* the number of a pool that is closed and forgotten is used again
Unused == {i \in Pools : /\ pools[i] = "closed" /\ \A d \in Dbs : pool[d] # i
                          /\ \A x \in Users : u[x].pool # i}
-----------------------------------------------------------------------------
(* ClientManager *)

\* storage.initialize, up to the lock of get_client
Initialize(x) ==
    /\ u[x].at = "out" /\ mgr' = Append(mgr, x)
    /\ u' = [u EXCEPT ![x].at = "getting"]
    /\ UNCHANGED <<inst, pool, reconnect, ensured, pools, server>>

\* get_client; the number of a database object that nobody has is used again
GetClient(x) ==
    /\ u[x].at = "getting" /\ Holds(mgr, x)
    /\ \/ /\ inst.db = Null
          /\ LET d == CHOOSE e \in Dbs : \A y \in Users : u[y].db # e
             IN /\ u' = [u EXCEPT ![x].at = "creating", ![x].db = d, ![x].tables = TRUE,
                                  ![x].creation = 1]
                /\ pool' = [pool EXCEPT ![d] = Null] /\ ensured' = [ensured EXCEPT ![d] = FALSE]
          /\ UNCHANGED <<inst, mgr>>
       \/ /\ inst.db # Null /\ inst.sig = Signatures[x]
          /\ inst' = [inst EXCEPT !.ref = @ + 1] /\ mgr' = Tail(mgr)
          /\ u' = [u EXCEPT ![x].at = "member", ![x].db = inst.db]
          /\ UNCHANGED <<pool, ensured>>
       \/ /\ inst.db # Null /\ inst.sig # Signatures[x]
          /\ mgr' = Tail(mgr) /\ u' = [u EXCEPT ![x].at = "refused"]
          /\ UNCHANGED <<inst, pool, ensured>>
    /\ UNCHANGED <<reconnect, pools, server>>

\* mutant: the reference is given back before the lock is held
LeaveUncounted(x) ==
    /\ u[x].at = "member" /\ mgr' = Append(mgr, x)
    /\ u' = [u EXCEPT ![x].at = "leaving"]
    /\ inst' = [inst EXCEPT !.ref = IF @ > 0 THEN @ - 1 ELSE 0]
    /\ UNCHANGED <<pool, reconnect, ensured, pools, server>>

\* storage.finalize, up to the lock of release_client
Leave(x) ==
    /\ u[x].at = "member" /\ mgr' = Append(mgr, x)
    /\ u' = [u EXCEPT ![x].at = "leaving"]
    /\ UNCHANGED <<inst, pool, reconnect, ensured, pools, server>>

\* release_client up to the close of the pool by the last user
ReleaseClient(x) ==
    /\ u[x].at = "leaving" /\ Holds(mgr, x)
    /\ LET d == Db(x)
           last == inst.ref = 1
       IN \/ /\ inst.db = d /\ ~last
             /\ inst' = [inst EXCEPT !.ref = @ - 1] /\ mgr' = Tail(mgr)
             /\ u' = [u EXCEPT ![x].at = "out", ![x].db = Null]
             /\ UNCHANGED pools
          \/ /\ inst.db = d /\ last /\ pool[d] = Null
             /\ inst' = [db |-> Null, ref |-> 0, sig |-> Null] /\ mgr' = Tail(mgr)
             /\ u' = [u EXCEPT ![x].at = "out", ![x].db = Null]
             /\ UNCHANGED pools
          \/ /\ pool[d] # Null /\ (inst.db = d => last)
             /\ inst' = IF inst.db = d THEN [inst EXCEPT !.ref = 0] ELSE inst
             /\ pools' = [pools EXCEPT ![pool[d]] = "closing"]
             /\ u' = [u EXCEPT ![x].at = "draining", ![x].pool = pool[d]]
             /\ UNCHANGED mgr
    /\ UNCHANGED <<pool, reconnect, ensured, server>>

\* mutant: the settings of the closed object are kept
ReleasedKept(x) ==
    /\ u[x].at = "draining" /\ Using(u[x].pool) = {}
    /\ pools' = [pools EXCEPT ![u[x].pool] = "closed"]
    /\ inst' = IF inst.db = Db(x) THEN [inst EXCEPT !.db = Null] ELSE inst
    /\ pool' = [pool EXCEPT ![Db(x)] = Null]
    /\ mgr' = Tail(mgr) /\ u' = [u EXCEPT ![x].at = "out", ![x].db = Null, ![x].pool = Null]
    /\ UNCHANGED <<reconnect, ensured, server>>

\* release_client after the close, which waits for the connections in use
Released(x) ==
    /\ u[x].at = "draining" /\ Using(u[x].pool) = {}
    /\ pools' = [pools EXCEPT ![u[x].pool] = "closed"]
    /\ inst' = IF inst.db = Db(x) THEN [db |-> Null, ref |-> 0, sig |-> Null] ELSE inst
    /\ pool' = [pool EXCEPT ![Db(x)] = Null]
    /\ mgr' = Tail(mgr) /\ u' = [u EXCEPT ![x].at = "out", ![x].db = Null, ![x].pool = Null]
    /\ UNCHANGED <<reconnect, ensured, server>>
-----------------------------------------------------------------------------
(* The end of a call, of the tables' check of get_client or of a user's own *)

\* a result is returned: the caller of get_client publishes the object
Returned(x, w) ==
    LET v == [w EXCEPT !.at = "member", !.attempt = 1, !.pool = Null, !.conn = FALSE,
                       !.broken = FALSE]
    IN \/ /\ w.tables
          /\ inst' = [db |-> w.db, ref |-> 1, sig |-> Signatures[x]] /\ mgr' = Tail(mgr)
          /\ u' = [u EXCEPT ![x] = [v EXCEPT !.tables = FALSE]]
       \/ ~w.tables /\ u' = [u EXCEPT ![x] = [v EXCEPT !.done = @ + 1]] /\ UNCHANGED <<inst, mgr>>

\* an exception leaves get_client, or is reported to the user
Raised(x, w) ==
    LET v == [w EXCEPT !.attempt = 1, !.creation = 1, !.pool = Null, !.conn = FALSE,
                       !.broken = FALSE]
    IN \/ /\ w.tables /\ mgr' = Tail(mgr)
          /\ u' = [u EXCEPT ![x] = [v EXCEPT !.tables = FALSE, !.at = "failed", !.db = Null]]
       \/ /\ ~w.tables /\ UNCHANGED mgr
          /\ u' = [u EXCEPT ![x] = [v EXCEPT !.at = "failed", !.done = @ + 1]]

\* _before_sleep up to the lock of _reset_pool
BeforeSleep(x, w) ==
    /\ reconnect' = [reconnect EXCEPT ![w.db] = Append(@, x)]
    /\ u' = [u EXCEPT ![x] = [w EXCEPT !.at = "resetting"]]

\* mutant: the last attempt is not made
TransientShort(x) ==
    LET w == [u[x] EXCEPT !.conn = FALSE, !.broken = FALSE, !.pool = Null, !.inner = FALSE]
    IN \/ /\ w.attempt + 1 < Attempts /\ BeforeSleep(x, [w EXCEPT !.attempt = @ + 1])
          /\ UNCHANGED mgr
       \/ /\ w.attempt + 1 >= Attempts /\ Raised(x, w) /\ UNCHANGED reconnect

\* a transient exception in an attempt of _run_with_retry: the connection, if there
\* is one, goes back, and the next attempt is prepared or the exception is raised
Transient(x) ==
    LET w == [u[x] EXCEPT !.conn = FALSE, !.broken = FALSE, !.pool = Null, !.inner = FALSE]
    IN \/ /\ w.attempt < Attempts /\ BeforeSleep(x, [w EXCEPT !.attempt = @ + 1])
          /\ UNCHANGED mgr
       \/ /\ w.attempt = Attempts /\ Raised(x, w) /\ UNCHANGED reconnect
-----------------------------------------------------------------------------
(* PostgreSQLDB *)

\* query and execute
Call(x) ==
    /\ u[x].at = "member" /\ u[x].done < Calls
    /\ u' = [u EXCEPT ![x].at = "ensuring"]
    /\ UNCHANGED <<inst, mgr, pool, reconnect, ensured, pools, server>>

\* the first part of pool.acquire, which does not wait: a pool that is closing refuses;
\* q is what the caller leaves of the lock's queue
Queue(x, w, q) ==
    LET p == pool[w.db]
    IN \/ /\ pools[p] = "open" /\ u' = [u EXCEPT ![x] = [w EXCEPT !.at = "waiting", !.pool = p]]
          /\ UNCHANGED mgr
          /\ reconnect' = [reconnect EXCEPT ![w.db] = q]
       \/ /\ pools[p] # "open" /\ w.attempt < Attempts /\ UNCHANGED mgr
          /\ reconnect' = [reconnect EXCEPT ![w.db] = Append(q, x)]
          /\ u' = [u EXCEPT ![x] = [w EXCEPT !.at = "resetting", !.attempt = @ + 1]]
       \/ /\ pools[p] # "open" /\ w.attempt = Attempts /\ Raised(x, w)
          /\ reconnect' = [reconnect EXCEPT ![w.db] = q]

\* _ensure_pool and what follows it without an await
EnsurePool(x) ==
    /\ u[x].at = "ensuring"
    /\ LET d == Db(x)
       IN \/ /\ ~u[x].ensure /\ pool[d] # Null /\ Queue(x, u[x], reconnect[d])
          \/ /\ ~u[x].ensure /\ pool[d] = Null
             /\ reconnect' = [reconnect EXCEPT ![d] = Append(@, x)]
             /\ u' = [u EXCEPT ![x].ensure = TRUE] /\ UNCHANGED mgr
          \/ /\ u[x].ensure /\ Holds(reconnect[d], x) /\ pool[d] # Null
             /\ Queue(x, [u[x] EXCEPT !.ensure = FALSE], Tail(reconnect[d]))
          \/ /\ u[x].ensure /\ Holds(reconnect[d], x) /\ pool[d] = Null
             /\ u' = [u EXCEPT ![x].at = "creating", ![x].creation = 1]
             /\ UNCHANGED <<reconnect, mgr>>
    /\ UNCHANGED <<inst, pool, ensured, pools, server>>

\* _create_pool_once succeeds: initdb returns to get_client, or to _ensure_pool, and the
\* call takes the connection that the pool was created with
CreatePool(x) ==
    /\ u[x].at = "creating" /\ server.up /\ Unused # {}
    /\ LET d == Db(x)
           n == CHOOSE i \in Unused : TRUE
       IN /\ pools' = [pools EXCEPT ![n] = "open"] /\ pool' = [pool EXCEPT ![d] = n]
          /\ \/ /\ u[x].ensure /\ reconnect' = [reconnect EXCEPT ![d] = Tail(@)]
                /\ u' = [u EXCEPT ![x].at = "configuring", ![x].conn = TRUE, ![x].ensure = FALSE,
                                  ![x].pool = n]
             \/ ~u[x].ensure /\ u' = [u EXCEPT ![x].at = "ensuring"] /\ UNCHANGED reconnect
    /\ UNCHANGED <<inst, mgr, ensured, server>>

\* an attempt of initdb fails: the next one is prepared, or the exception is raised,
\* out of get_client or into the attempt of the call
CreateFails(x) ==
    /\ u[x].at = "creating" /\ ~server.up
    /\ \/ /\ u[x].creation < Attempts
          /\ BeforeSleep(x, [u[x] EXCEPT !.creation = @ + 1, !.inner = TRUE])
          /\ UNCHANGED mgr
       \/ /\ u[x].creation = Attempts /\ ~u[x].ensure /\ Raised(x, u[x]) /\ UNCHANGED reconnect
       \/ /\ u[x].creation = Attempts /\ u[x].ensure
          /\ LET w == [u[x] EXCEPT !.creation = 1, !.ensure = FALSE]
             IN \/ /\ w.attempt < Attempts
                   /\ reconnect' = [reconnect EXCEPT ![w.db] = Append(Tail(@), x)]
                   /\ u' = [u EXCEPT ![x] = [w EXCEPT !.attempt = @ + 1, !.at = "resetting"]]
                   /\ UNCHANGED mgr
                \/ /\ w.attempt = Attempts /\ Raised(x, w)
                   /\ reconnect' = [reconnect EXCEPT ![w.db] = Tail(@)]
    /\ UNCHANGED <<inst, pool, ensured, pools, server>>

\* the reset is over: initdb or _run_with_retry goes on with its next attempt
AfterReset(w) == [w EXCEPT !.at = IF w.inner THEN "creating" ELSE "ensuring", !.inner = FALSE,
                           !.pool = Null]

\* mutant: the pool is dropped without a close
ResetPoolDropping(x) ==
    /\ u[x].at = "resetting" /\ Holds(reconnect[Db(x)], x) /\ ~u[x].ensure
    /\ u' = [u EXCEPT ![x] = AfterReset(u[x])] /\ pool' = [pool EXCEPT ![Db(x)] = Null]
    /\ reconnect' = [reconnect EXCEPT ![Db(x)] = Tail(@)]
    /\ UNCHANGED <<inst, mgr, ensured, pools, server>>

\* _reset_pool up to the close
ResetPool(x) ==
    /\ u[x].at = "resetting" /\ Holds(reconnect[Db(x)], x) /\ ~u[x].ensure
    /\ LET d == Db(x)
       IN \/ /\ pool[d] = Null /\ u' = [u EXCEPT ![x] = AfterReset(u[x])]
             /\ reconnect' = [reconnect EXCEPT ![d] = Tail(@)] /\ UNCHANGED pools
          \/ /\ pool[d] # Null /\ u' = [u EXCEPT ![x].at = "closing", ![x].pool = pool[d]]
             /\ pools' = [pools EXCEPT ![pool[d]] = "closing"] /\ UNCHANGED reconnect
    /\ UNCHANGED <<inst, mgr, pool, ensured, server>>

\* _reset_pool after the close; one that takes too long terminates the pool, which
\* breaks the connections in use
PoolClosed(x) ==
    /\ u[x].at = "closing" /\ (Using(u[x].pool) = {} \/ "timeout" \in Faults)
    /\ pools' = [pools EXCEPT ![u[x].pool] = "closed"] /\ pool' = [pool EXCEPT ![Db(x)] = Null]
    /\ reconnect' = [reconnect EXCEPT ![Db(x)] = Tail(@)]
    /\ u' = [y \in Users |-> IF y = x THEN AfterReset(u[x])
                             ELSE [u[y] EXCEPT !.broken = @ \/ y \in Using(u[x].pool)]]
    /\ UNCHANGED <<inst, mgr, ensured, server>>

\* pool.acquire
Acquire(x) ==
    /\ u[x].at = "waiting"
    /\ \/ /\ pools[u[x].pool] = "open" /\ server.up /\ Cardinality(Using(u[x].pool)) < PoolSize
          /\ u' = [u EXCEPT ![x].at = "configuring", ![x].conn = TRUE]
          /\ UNCHANGED <<mgr, reconnect>>
       \/ (pools[u[x].pool] # "open" \/ ~server.up) /\ Transient(x)
    /\ UNCHANGED <<inst, pool, ensured, pools, server>>

\* mutant: the graph is remembered before it is created
ConfigureAgeEarly(x) ==
    /\ u[x].at = "configuring"
    /\ \/ ~u[x].broken /\ u' = [u EXCEPT ![x].at = "running"]
          /\ server' = [server EXCEPT !.graph = TRUE] /\ UNCHANGED <<mgr, reconnect>>
       \/ u[x].broken /\ Transient(x) /\ UNCHANGED server
    /\ ensured' = [ensured EXCEPT ![Db(x)] = TRUE]
    /\ UNCHANGED <<inst, pool, pools>>

\* configure_age and _ensure_age_graph, which the tables' check does without; the
\* connection may break after the graph was created and before it is remembered
ConfigureAge(x) ==
    /\ u[x].at = "configuring"
    /\ \/ u[x].tables /\ u' = [u EXCEPT ![x].at = "running"]
          /\ UNCHANGED <<mgr, reconnect, ensured, server>>
       \/ /\ ~u[x].tables /\ ~u[x].broken /\ u' = [u EXCEPT ![x].at = "running"]
          /\ ensured' = [ensured EXCEPT ![Db(x)] = TRUE]
          /\ server' = [server EXCEPT !.graph = @ \/ ~ensured[Db(x)]]
          /\ UNCHANGED <<mgr, reconnect>>
       \/ /\ ~u[x].tables /\ u[x].broken /\ Transient(x) /\ UNCHANGED ensured
          /\ \E made \in BOOLEAN :
                server' = [server EXCEPT !.graph = @ \/ (made /\ ~ensured[Db(x)])]
    /\ UNCHANGED <<inst, pool, pools>>

\* the operation itself, on a connection that may have broken under it
Operate(x) ==
    /\ u[x].at = "running"
    /\ \/ ~u[x].broken /\ Returned(x, u[x]) /\ UNCHANGED reconnect
       \/ u[x].broken /\ Transient(x) /\ UNCHANGED inst
       \/ "reject" \in Faults /\ ~u[x].broken /\ Raised(x, u[x]) /\ UNCHANGED <<inst, reconnect>>
    /\ UNCHANGED <<pool, ensured, pools, server>>

\* the user of a storage goes on after an exception of a call
GoOn(x) ==
    /\ u[x].at \in {"failed", "refused"}
    /\ u' = [u EXCEPT ![x].at = IF Db(x) = Null THEN "out" ELSE "member"]
    /\ UNCHANGED <<inst, mgr, pool, reconnect, ensured, pools, server>>
-----------------------------------------------------------------------------
(* The server *)

Break == u' = [x \in Users |-> [u[x] EXCEPT !.broken = @ \/ u[x].conn]]

Blip ==
    /\ server.up /\ server.blips < MaxBlips /\ Break
    /\ server' = [server EXCEPT !.blips = @ + 1]
    /\ UNCHANGED <<inst, mgr, pool, reconnect, ensured, pools>>

Outage ==
    /\ server.up /\ server.outages < MaxOutages /\ Break
    /\ server' = [server EXCEPT !.outages = @ + 1, !.up = FALSE]
    /\ UNCHANGED <<inst, mgr, pool, reconnect, ensured, pools>>

Recover ==
    /\ ~server.up /\ server' = [server EXCEPT !.up = TRUE]
    /\ UNCHANGED <<inst, mgr, pool, reconnect, ensured, pools, u>>

Step(x) ==
    \/ Initialize(x) \/ GetClient(x) \/ Leave(x) \/ ReleaseClient(x) \/ Released(x)
    \/ Call(x) \/ EnsurePool(x) \/ CreatePool(x) \/ CreateFails(x) \/ ResetPool(x)
    \/ PoolClosed(x) \/ Acquire(x) \/ ConfigureAge(x) \/ Operate(x) \/ GoOn(x)

Next == (\E x \in Users : Step(x)) \/ Blip \/ Outage \/ Recover

Spec == Init /\ [][Next]_vars

\* what has begun is carried on: the event loop runs every task that is ready, and the
\* server comes back.  Nobody has to begin anything.
Working(x) ==
    \/ GetClient(x) \/ ReleaseClient(x) \/ Released(x) \/ EnsurePool(x) \/ CreatePool(x)
    \/ CreateFails(x) \/ ResetPool(x) \/ PoolClosed(x) \/ Acquire(x) \/ ConfigureAge(x)
    \/ Operate(x)

-----------------------------------------------------------------------------
Members == {x \in Users : u[x].db # Null /\ ~u[x].tables}

\* Every storage between get_client and release_client has the object that the manager
\* hands out, and the count is the number of those storages: the pool is not closed
\* under a storage that still uses it.
UsersAreCounted ==
    /\ \A x \in Members : u[x].at # "draining" => inst.db = Db(x)
    /\ inst.ref = Cardinality({x \in Members : u[x].at # "draining"})

\* A pool that is not closed belongs to the shared object or to the one that get_client
\* is building: no reset, retry or release forgets open connections.
NoPoolForgotten ==
    \A i \in Pools : pools[i] # "closed" =>
        \E d \in Dbs : /\ pool[d] = i
                       /\ inst.db = d \/ \E x \in Users : Db(x) = d

\* _ensure_age_graph skips the check only for a graph that exists, whenever the
\* connection broke.
EnsuredGraphExists == \A d \in Dbs : ensured[d] => server.graph

\* One break of the connections, with a server that stays up, makes no call fail, though
\* the users that met it reset each other's new pools.  It holds of users with one call
\* each and no fewer attempts than users: _reset_pool does not ask whether the pool is
\* still the one that failed, so with more calls a late reset can hurt a call again.
OneBlipSurvived ==
    server.blips <= 1 /\ server.outages = 0 => \A x \in Users : u[x].at # "failed"

\* in _run_with_retry, get_client or release_client
Calling(x) == u[x].at \notin {"out", "member", "failed", "refused"}
==============================================================================
