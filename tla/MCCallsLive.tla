----------------------------- MODULE MCCallsLive -----------------------------
(***************************************************************************)
(* Small instances of the keyed locks and the limited calls with the        *)
(* fairness of the event loop: whoever waits must get in or an answer.  A   *)
(* run explores several scenes: one is chosen in the initial state and      *)
(* stays, its component moves and the other rests.                          *)
(***************************************************************************)
EXTENDS Naturals, TLC

CONSTANTS Scenes,
          a1, b1, c1,       \* contexts or calls
          p1, q1,           \* processes or workers
          i1, j1,           \* pids or leases
          None

VARIABLES scene,
          ctx, table, locked, holders, proc,                         \* KeyedLock
          call, state, queue, unfinished, live_queued, dispatch, worker, pump,
          held, pending_release, gate, others, accepting, shut, runs \* LimitedCalls

\* two contexts of up to two keys in two processes that may die
Keyed == INSTANCE KeyedLock WITH
    Procs <- {p1, q1}, Contexts <- {a1, b1}, Pids <- {i1, j1}, Keys <- {1, 2},
    Multiprocess <- TRUE, MayMissSample <- FALSE

\* three contexts of up to two keys in one process
Local == INSTANCE KeyedLock WITH
    Procs <- {p1}, Contexts <- {a1, b1, c1}, Pids <- {i1}, Keys <- {1, 2},
    Multiprocess <- FALSE, MayMissSample <- FALSE

\* one slot and one worker: calls get stuck, releases fail, the queue is shut down
Limited == INSTANCE LimitedCalls WITH
    Calls <- {a1, b1}, Workers <- {p1}, Leases <- {i1, j1}, UseGlobalLimit <- TRUE,
    MaxQueue <- 1, Limit <- 1, DrainLimit <- 2, CompactAt <- 0,
    Faults <- {"stuck", "release_fails", "shutdown"}

\* the mode without a global limit
Queued == INSTANCE LimitedCalls WITH
    Calls <- {a1, b1, c1}, Workers <- {p1}, Leases <- {i1, j1}, UseGlobalLimit <- FALSE,
    MaxQueue <- 1, Limit <- 1, DrainLimit <- 2, CompactAt <- 0,
    Faults <- {"cancel", "stuck"}

ASSUME CallsLiveAssumptions ==
    /\ Keyed!KeysAssumption /\ Local!KeysAssumption
    /\ Limited!CallsAssumption /\ Queued!CallsAssumption

keyed == <<ctx, table, locked, holders, proc>>
limited == <<call, state, queue, unfinished, live_queued, dispatch, worker, pump, held,
             pending_release, gate, others, accepting, shut, runs>>
vars == <<scene, keyed, limited>>

\* the variables of a component that rests
Rest(v) == v = None
KeyedRests == Rest(ctx) /\ Rest(table) /\ Rest(locked) /\ Rest(holders) /\ Rest(proc)
LimitedRests ==
    /\ Rest(call) /\ Rest(state) /\ Rest(queue) /\ Rest(unfinished) /\ Rest(live_queued)
    /\ Rest(dispatch) /\ Rest(worker) /\ Rest(pump) /\ Rest(held) /\ Rest(pending_release)
    /\ Rest(gate) /\ Rest(others) /\ Rest(accepting) /\ Rest(shut) /\ Rest(runs)

Init ==
    /\ scene \in Scenes
    /\ \/ scene = "keyed" /\ Keyed!Init /\ LimitedRests
       \/ scene = "local" /\ Local!Init /\ LimitedRests
       \/ scene = "limited" /\ Limited!Init /\ KeyedRests
       \/ scene = "queued" /\ Queued!Init /\ KeyedRests

In(name, others_rest) == scene = name /\ scene' = scene /\ UNCHANGED others_rest

Next ==
    \/ In("keyed", limited) /\ Keyed!Next
    \/ In("local", limited) /\ Local!Next
    \/ In("limited", keyed) /\ Limited!Next
    \/ In("queued", keyed) /\ Queued!Next

\* the event loop runs every task that is ready: what a caller has begun goes on
Runs(x) ==
    \/ x # c1 /\ In("keyed", limited) /\ Keyed!Step(x)
    \/ In("local", limited) /\ Local!Step(x)
    \/ x # c1 /\ In("limited", keyed) /\ Limited!CallerRuns(x)
    \/ In("queued", keyed) /\ Queued!CallerRuns(x)

\* so do the worker and the pump of the limited calls; maintenance comes round
WorkerRuns ==
    \/ In("limited", keyed) /\ (Limited!WorkerRuns(p1) \/ Limited!Shutdown)
    \/ In("queued", keyed) /\ Queued!WorkerRuns(p1)
PumpRuns == In("limited", keyed) /\ Limited!PumpRuns
Maintains ==
    \/ In("limited", keyed) /\ Limited!Maintain
    \/ In("queued", keyed) /\ Queued!Maintain

\* a pump that asks again and again for a slot gets it: the gate favours who waits
PumpGot == In("limited", keyed) /\ Limited!PumpGot

Spec ==
    /\ Init /\ [][Next]_vars
    /\ \A x \in {a1, b1, c1} : WF_vars(Runs(x))
    /\ WF_vars(WorkerRuns) /\ WF_vars(PumpRuns) /\ SF_vars(PumpGot) /\ WF_vars(Maintains)

-----------------------------------------------------------------------------
LockWaits(x) ==
    \/ scene = "keyed" /\ x # c1 /\ Keyed!Waits(x)
    \/ scene = "local" /\ Local!Waits(x)

\* Nobody waits for ever for a key: contexts of several keys do not wait for each
\* other in a circle, and the lease of a dead process is found.
EveryWaiterGetsIn == \A x \in {a1, b1, c1} : LockWaits(x) ~> ~LockWaits(x)

Unanswered(x) ==
    \/ scene = "limited" /\ x # c1 /\ Limited!Unanswered(x)
    \/ scene = "queued" /\ Queued!Unanswered(x)

\* Every caller of a limited function gets an answer when calls get stuck: under the
\* global limit also when releases fail or the queue is shut down, in the default mode
\* while the queue is open.
EveryCallReturns == \A x \in {a1, b1, c1} : Unanswered(x) ~> ~Unanswered(x)
=============================================================================
