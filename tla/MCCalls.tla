------------------------------ MODULE MCCalls -------------------------------
(***************************************************************************)
(* Small instances of the components that admit and order calls: the keyed  *)
(* locks and the global slots of kg/shared_storage.py, and the limited      *)
(* calls of utils.py.  A run explores several scenes: one is chosen in the  *)
(* initial state and stays, its component moves and the others rest in an   *)
(* initial state of theirs.                                                 *)
(***************************************************************************)
EXTENDS Integers, TLC

CONSTANTS Scenes,
          Triple, Pair, Twins, Lone,  \* identities: three, two, two and one
          None

VARIABLES scene,
          ctx, table, locked, holders, proc,
          now, alive, leases, waiters, renewed, favored,
          held,
          call, state, queue, unfinished, live_queued, dispatch, worker, pump,
          pending_release, gate, others, accepting, shut, runs

\* processes of which two may get the same pid; a start time may be unknown
Keyed == INSTANCE KeyedLock WITH
    Procs <- Triple, Contexts <- Triple, Pids <- Pair, Keys <- {1},
    Multiprocess <- TRUE, MayMissSample <- TRUE

\* three contexts of up to two keys in one process
Local == INSTANCE KeyedLock WITH
    Procs <- Lone, Contexts <- Triple, Pids <- Lone, Keys <- {1, 2},
    Multiprocess <- FALSE, MayMissSample <- FALSE

\* one slot; processes die and stall
Slots == INSTANCE GlobalSlots WITH
    Procs <- Triple, LeaseIds <- Twins, Limit <- 1,
    Ttl <- 0, Grace <- 1, StaleTtl <- 1, MaxTime <- 3

\* two slots; callers leave, functions get stuck, releases fail
Limited == INSTANCE LimitedCalls WITH
    Calls <- Triple, Workers <- Pair, Leases <- Twins, UseGlobalLimit <- TRUE,
    MaxQueue <- 1, Limit <- 2, DrainLimit <- 2, CompactAt <- 0,
    Faults <- {"cancel", "user_timeout", "stuck", "release_fails"}

\* one slot that others want too, a worker that may die, a shutdown at any moment
Closing == INSTANCE LimitedCalls WITH
    Calls <- Pair, Workers <- Lone, Leases <- Twins, UseGlobalLimit <- TRUE,
    MaxQueue <- 1, Limit <- 1, DrainLimit <- 2, CompactAt <- 0,
    Faults <- {"user_timeout", "shutdown", "worker_dies", "others"}

\* the mode without a global limit
Queued == INSTANCE LimitedCalls WITH
    Calls <- Triple, Workers <- Pair, Leases <- Twins, UseGlobalLimit <- FALSE,
    MaxQueue <- 1, Limit <- 1, DrainLimit <- 2, CompactAt <- 0,
    Faults <- {"cancel", "user_timeout", "queue_timeout", "stuck", "shutdown"}

ASSUME CallsAssumptions ==
    /\ Keyed!KeysAssumption /\ Local!KeysAssumption /\ Slots!SlotsAssumption
    /\ Limited!CallsAssumption /\ Closing!CallsAssumption /\ Queued!CallsAssumption

keyed == <<ctx, table, locked, holders, proc>>
shared == <<now, alive, leases, waiters, renewed, favored>>
limited == <<call, state, queue, unfinished, live_queued, dispatch, worker, pump,
             pending_release, gate, others, accepting, shut, runs>>
vars == <<scene, keyed, shared, held, limited>>

\* the variables of a component that rests
Rest(v) == v = None
KeyedRests == Rest(ctx) /\ Rest(table) /\ Rest(locked) /\ Rest(holders) /\ Rest(proc)
SharedRests ==
    /\ Rest(now) /\ Rest(alive) /\ Rest(leases) /\ Rest(waiters) /\ Rest(renewed)
    /\ Rest(favored)
LimitedRests ==
    /\ Rest(call) /\ Rest(state) /\ Rest(queue) /\ Rest(unfinished) /\ Rest(live_queued)
    /\ Rest(dispatch) /\ Rest(worker) /\ Rest(pump) /\ Rest(pending_release) /\ Rest(gate)
    /\ Rest(others) /\ Rest(accepting) /\ Rest(shut) /\ Rest(runs)

Init ==
    /\ scene \in Scenes
    /\ \/ scene = "keyed" /\ Keyed!Init /\ SharedRests /\ Rest(held) /\ LimitedRests
       \/ scene = "local" /\ Local!Init /\ SharedRests /\ Rest(held) /\ LimitedRests
       \/ scene = "slots" /\ Slots!Init /\ KeyedRests /\ LimitedRests
       \/ scene = "limited" /\ Limited!Init /\ KeyedRests /\ SharedRests
       \/ scene = "closing" /\ Closing!Init /\ KeyedRests /\ SharedRests
       \/ scene = "queued" /\ Queued!Init /\ KeyedRests /\ SharedRests

Next ==
    /\ scene' = scene
    /\ \/ scene = "keyed" /\ Keyed!Next /\ UNCHANGED <<shared, held, limited>>
       \/ scene = "local" /\ Local!Next /\ UNCHANGED <<shared, held, limited>>
       \/ scene = "slots" /\ Slots!Next /\ UNCHANGED <<keyed, limited>>
       \/ scene = "limited" /\ Limited!Next /\ UNCHANGED <<keyed, shared>>
       \/ scene = "closing" /\ Closing!Next /\ UNCHANGED <<keyed, shared>>
       \/ scene = "queued" /\ Queued!Next /\ UNCHANGED <<keyed, shared>>

Spec == Init /\ [][Next]_vars

-----------------------------------------------------------------------------
(* Properties: those of the components, in the scenes they are about *)

\* Two live contexts never hold the same key of _KeyedLockContext, in one process
\* or in two, whatever was cancelled or taken over from a dead process.
MutualExclusion ==
    /\ scene = "keyed" => Keyed!MutualExclusion
    /\ scene = "local" => Local!MutualExclusion

\* _async_lock_count is the number of contexts that refer to the lock, and they
\* refer to the same object; a context that left, or was cancelled on its way in,
\* leaves no reference, no gate and no lease behind.
LocksAreCounted ==
    /\ scene = "keyed" => Keyed!TypeOK /\ Keyed!RefCountExact /\ Keyed!NothingLeaks
    /\ scene = "local" => Local!TypeOK /\ Local!RefCountExact

\* The shared gate never records more leases than the limit, and a live owner
\* loses its lease only after it was silent for heartbeat and grace.
GateIsRight ==
    scene = "slots" => Slots!TypeOK /\ Slots!CapIsExact /\ Slots!StalledLongEnough

\* Nobody is reclaimed by the first look of _reap_gate_state, and whoever is told
\* to back off does so for a live process that still polls.
ReapsWithCare ==
    [][scene = "slots" => Slots!SuspectedFirstStep /\ Slots!NoGhostFavoredStep]_vars

\* Admission counts exactly the calls that are registered and not started, the
\* unfinished count of the queue is what is queued, dispatched or running, whoever
\* runs holds a slot of its own and every slot the gate has recorded is known:
\* through a shutdown and in both modes.
CallsAreCounted ==
    /\ scene = "limited" =>
          /\ Limited!TypeOK /\ Limited!LiveQueuedExact /\ Limited!UnfinishedExact
          /\ Limited!RunsHoldSlots /\ Limited!NoSlotForgotten
    /\ scene = "closing" => Closing!TypeOK /\ Closing!UnfinishedExact /\ Closing!RunsHoldSlots
    /\ scene = "queued" => Queued!TypeOK /\ Queued!UnfinishedExact

\* A call is run at most once, and never after its caller has left, in both modes.
RunsOnce == [][(scene \in {"limited", "queued"}) => Limited!RunsOnceStep]_vars

Symmetry == Permutations(Triple) \cup Permutations(Pair)
              \cup Permutations(Twins)
=============================================================================
