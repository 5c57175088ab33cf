------------------------- MODULE CallsScenes_proofs -------------------------
(***************************************************************************)
(* The properties of MCCalls for every number of identities: the theorems   *)
(* about the components, applied to the scene in which each component       *)
(* moves.  In a scene the other components rest, so a part of the invariant *)
(* is about one of them at a time.                                          *)
(***************************************************************************)
EXTENDS MCCalls, TLAPS

\* The module of the proofs is also about the documents, which have no part here.
CONSTANTS Docs, Entities, Relations, Ends, Yield, Ready, Deletable, Immediate, Parallel,
          Reprocess, MaxFaults
VARIABLES row, mem, disk, task, faults

\* the proofs, about the same instances
KeyedProof == INSTANCE SharedKnowledge_proofs WITH
    Procs <- Triple, Contexts <- Triple, Pids <- Pair, Keys <- {1},
    Multiprocess <- TRUE, MayMissSample <- TRUE, LeaseIds <- Twins, Limit <- 1,
    Ttl <- 0, Grace <- 1, StaleTtl <- 1, MaxTime <- 3

LocalProof == INSTANCE SharedKnowledge_proofs WITH
    Procs <- Lone, Contexts <- Triple, Pids <- Lone, Keys <- {1, 2},
    Multiprocess <- FALSE, MayMissSample <- FALSE, LeaseIds <- Twins, Limit <- 1,
    Ttl <- 0, Grace <- 1, StaleTtl <- 1, MaxTime <- 3

-----------------------------------------------------------------------------
(* The keyed locks between processes *)

\* The assumption and the initial states of the scene are those of the proofs.
LEMMA KeyedInit == Keyed!Init => KeyedProof!IInv
<1>1. Keyed!KeysAssumption => KeyedProof!KeysAssumption
  BY DEF Keyed!KeysAssumption, KeyedProof!KeysAssumption, Keyed!Record,
         KeyedProof!Record, Keyed!Lease, KeyedProof!Lease
<1>2. Keyed!Init => KeyedProof!Init
  BY DEF Keyed!Init, KeyedProof!Init
<1> QED
  BY <1>1, <1>2, KeyedProof!InitInv, CallsAssumptions

\* A step of the scene keeps the invariant of the keyed locks.
LEMMA KeyedNext == KeyedProof!IInv /\ (Keyed!Next \/ UNCHANGED keyed) => KeyedProof!IInv'
<1>1. KeyedProof!KeysAssumption
  BY CallsAssumptions DEF Keyed!KeysAssumption, KeyedProof!KeysAssumption, Keyed!Record,
         KeyedProof!Record, Keyed!Lease, KeyedProof!Lease
<1>2. Keyed!Next => KeyedProof!Next
  BY DEF Keyed!Next, KeyedProof!Next, Keyed!Step, KeyedProof!Step, Keyed!RefKey,
         KeyedProof!RefKey, Keyed!TakeGate, KeyedProof!TakeGate, Keyed!TryAcquire,
         KeyedProof!TryAcquire, Keyed!Grant, KeyedProof!Grant, Keyed!Exit,
         KeyedProof!Exit, Keyed!ReleaseKey, KeyedProof!ReleaseKey, Keyed!Cancel,
         KeyedProof!Cancel, Keyed!Start, KeyedProof!Start, Keyed!Die, KeyedProof!Die,
         Keyed!At, KeyedProof!At, Keyed!Alive, KeyedProof!Alive, Keyed!NextKey,
         KeyedProof!NextKey, Keyed!ThisKey, KeyedProof!ThisKey, Keyed!Entered,
         KeyedProof!Entered, Keyed!Gate, KeyedProof!Gate, Keyed!HolderDead,
         KeyedProof!HolderDead, Keyed!StartDelta, KeyedProof!StartDelta,
         Keyed!PidAlive, KeyedProof!PidAlive, Keyed!Stamp, KeyedProof!Stamp,
         Keyed!ReleaseLease, KeyedProof!ReleaseLease, Keyed!Min, KeyedProof!Min,
         Keyed!Max, KeyedProof!Max
<1>3. UNCHANGED keyed => UNCHANGED KeyedProof!vars
  BY DEF keyed, KeyedProof!vars
<1> QED
  BY <1>1, <1>2, <1>3, KeyedProof!NextInv

\* What follows from the invariant is what the scene promises.
LEMMA KeyedPromise ==
    KeyedProof!IInv => /\ Keyed!TypeOK /\ Keyed!MutualExclusion
                       /\ Keyed!RefCountExact /\ Keyed!NothingLeaks
<1>1. KeyedProof!KeysAssumption
  BY CallsAssumptions DEF Keyed!KeysAssumption, KeyedProof!KeysAssumption, Keyed!Record,
         KeyedProof!Record, Keyed!Lease, KeyedProof!Lease
<1>2. KeyedProof!IInv => KeyedProof!TypeOK /\ KeyedProof!RefCountExact
  BY KeyedProof!CountsFollow DEF KeyedProof!IInv
<1>3. KeyedProof!TypeOK => Keyed!TypeOK
  BY DEF Keyed!TypeOK, KeyedProof!TypeOK, Keyed!Record, KeyedProof!Record,
         Keyed!Lease, KeyedProof!Lease, Keyed!Pos, KeyedProof!Pos, Keyed!Waiting,
         KeyedProof!Waiting
<1>4. KeyedProof!MutualExclusion => Keyed!MutualExclusion
  BY DEF Keyed!MutualExclusion, KeyedProof!MutualExclusion, Keyed!Holds,
         KeyedProof!Holds, Keyed!Alive, KeyedProof!Alive
<1>5. KeyedProof!RefCountExact => Keyed!RefCountExact
  BY DEF KeyedProof!RefCountExact, Keyed!RefCountExact, KeyedProof!Users, Keyed!Users,
         KeyedProof!Cardinality, Keyed!Cardinality
<1>6. KeyedProof!NothingLeaks => Keyed!NothingLeaks
  BY DEF Keyed!NothingLeaks, KeyedProof!NothingLeaks, Keyed!Alive, KeyedProof!Alive,
         Keyed!Gate, KeyedProof!Gate
<1> QED
  BY <1>1, <1>2, <1>3, <1>4, <1>5, <1>6, KeyedProof!ExclusionFollows,
     KeyedProof!NothingLeaksFollows

-----------------------------------------------------------------------------
(* The keyed locks in one process *)

\* The same for the scene of one process: where it starts,
LEMMA LocalInit == Local!Init => LocalProof!IInv
<1>1. Local!KeysAssumption => LocalProof!KeysAssumption
  BY DEF Local!KeysAssumption, LocalProof!KeysAssumption, Local!Record,
         LocalProof!Record, Local!Lease, LocalProof!Lease
<1>2. Local!Init => LocalProof!Init
  BY DEF Local!Init, LocalProof!Init
<1> QED
  BY <1>1, <1>2, LocalProof!InitInv, CallsAssumptions

\* how it goes on,
LEMMA LocalNext == LocalProof!IInv /\ (Local!Next \/ UNCHANGED keyed) => LocalProof!IInv'
<1>1. LocalProof!KeysAssumption
  BY CallsAssumptions DEF Local!KeysAssumption, LocalProof!KeysAssumption, Local!Record,
         LocalProof!Record, Local!Lease, LocalProof!Lease
<1>2. Local!Next => LocalProof!Next
  BY DEF Local!Next, LocalProof!Next, Local!Step, LocalProof!Step, Local!RefKey,
         LocalProof!RefKey, Local!TakeGate, LocalProof!TakeGate, Local!TryAcquire,
         LocalProof!TryAcquire, Local!Grant, LocalProof!Grant, Local!Exit,
         LocalProof!Exit, Local!ReleaseKey, LocalProof!ReleaseKey, Local!Cancel,
         LocalProof!Cancel, Local!Start, LocalProof!Start, Local!Die, LocalProof!Die,
         Local!At, LocalProof!At, Local!Alive, LocalProof!Alive, Local!NextKey,
         LocalProof!NextKey, Local!ThisKey, LocalProof!ThisKey, Local!Entered,
         LocalProof!Entered, Local!Gate, LocalProof!Gate, Local!HolderDead,
         LocalProof!HolderDead, Local!StartDelta, LocalProof!StartDelta,
         Local!PidAlive, LocalProof!PidAlive, Local!Stamp, LocalProof!Stamp,
         Local!ReleaseLease, LocalProof!ReleaseLease, Local!Min, LocalProof!Min,
         Local!Max, LocalProof!Max
<1>3. UNCHANGED keyed => UNCHANGED LocalProof!vars
  BY DEF keyed, LocalProof!vars
<1> QED
  BY <1>1, <1>2, <1>3, LocalProof!NextInv

\* and what it promises.
LEMMA LocalPromise ==
    LocalProof!IInv => Local!TypeOK /\ Local!MutualExclusion /\ Local!RefCountExact
<1>1. LocalProof!KeysAssumption
  BY CallsAssumptions DEF Local!KeysAssumption, LocalProof!KeysAssumption, Local!Record,
         LocalProof!Record, Local!Lease, LocalProof!Lease
<1>2. LocalProof!IInv => LocalProof!TypeOK /\ LocalProof!RefCountExact
  BY LocalProof!CountsFollow DEF LocalProof!IInv
<1>3. LocalProof!TypeOK => Local!TypeOK
  BY DEF Local!TypeOK, LocalProof!TypeOK, Local!Record, LocalProof!Record,
         Local!Lease, LocalProof!Lease, Local!Pos, LocalProof!Pos, Local!Waiting,
         LocalProof!Waiting
<1>4. LocalProof!MutualExclusion => Local!MutualExclusion
  BY DEF Local!MutualExclusion, LocalProof!MutualExclusion, Local!Holds,
         LocalProof!Holds, Local!Alive, LocalProof!Alive
<1>5. LocalProof!RefCountExact => Local!RefCountExact
  BY DEF LocalProof!RefCountExact, Local!RefCountExact, LocalProof!Users, Local!Users,
         LocalProof!Cardinality, Local!Cardinality
<1> QED
  BY <1>1, <1>2, <1>3, <1>4, <1>5, LocalProof!ExclusionFollows

-----------------------------------------------------------------------------
(* The global slots *)

\* The assumption of the proofs is that of the scene.
LEMMA SlotsAssumed == KeyedProof!Slots!SlotsAssumption
BY CallsAssumptions DEF Slots!SlotsAssumption, KeyedProof!Slots!SlotsAssumption, Slots!Time,
       KeyedProof!Slots!Time, Slots!Lease, KeyedProof!Slots!Lease, Slots!Waiter,
       KeyedProof!Slots!Waiter, Slots!IsFiniteSet, KeyedProof!Slots!IsFiniteSet

\* Where the scene of the gate starts,
LEMMA SlotsInit == Slots!Init => KeyedProof!SlotsInv
<1>1. Slots!Init => KeyedProof!Slots!Init
  BY DEF Slots!Init, KeyedProof!Slots!Init
<1> QED
  BY <1>1, SlotsAssumed, KeyedProof!SlotsInitInv

\* how it goes on,
LEMMA SlotsNext ==
    KeyedProof!SlotsInv /\ (Slots!Next \/ UNCHANGED <<shared, held>>) => KeyedProof!SlotsInv'
<1>1. Slots!Next => KeyedProof!Slots!Next
  BY DEF Slots!Next, KeyedProof!Slots!Next, Slots!Tick, KeyedProof!Slots!Tick, Slots!SlotStep,
         KeyedProof!Slots!SlotStep, Slots!Die, KeyedProof!Slots!Die, Slots!Acquire,
         KeyedProof!Slots!Acquire, Slots!AcquireFull, KeyedProof!Slots!AcquireFull,
         Slots!ProbeFull, KeyedProof!Slots!ProbeFull, Slots!Renew, KeyedProof!Slots!Renew,
         Slots!Reconcile, KeyedProof!Slots!Reconcile, Slots!ClearWaiter,
         KeyedProof!Slots!ClearWaiter, Slots!Release, KeyedProof!Slots!Release, Slots!InUse,
         KeyedProof!Slots!InUse, Slots!ReapedLeases, KeyedProof!Slots!ReapedLeases, Slots!Reaped,
         KeyedProof!Slots!Reaped, Slots!ReapedWaiters, KeyedProof!Slots!ReapedWaiters,
         Slots!Reclaimed, KeyedProof!Slots!Reclaimed, Slots!FreshLease,
         KeyedProof!Slots!FreshLease, Slots!IsLongestLiveWaiter,
         KeyedProof!Slots!IsLongestLiveWaiter, Slots!Cardinality, KeyedProof!Slots!Cardinality,
         Slots!gate, KeyedProof!Slots!gate, Slots!mine, KeyedProof!Slots!mine
<1>2. UNCHANGED <<shared, held>> => UNCHANGED KeyedProof!Slots!vars
  BY DEF shared, KeyedProof!Slots!vars
<1> QED
  BY <1>1, <1>2, SlotsAssumed, KeyedProof!SlotsNextInv

\* what it promises of its states,
LEMMA SlotsPromise ==
    KeyedProof!SlotsInv => Slots!TypeOK /\ Slots!CapIsExact /\ Slots!StalledLongEnough
<1>1. KeyedProof!SlotsInv => KeyedProof!Slots!TypeOK /\ KeyedProof!Slots!CapIsExact
  BY DEF KeyedProof!SlotsInv
<1>2. KeyedProof!Slots!TypeOK => Slots!TypeOK
  BY DEF Slots!TypeOK, KeyedProof!Slots!TypeOK, Slots!Time, KeyedProof!Slots!Time, Slots!Lease,
         KeyedProof!Slots!Lease, Slots!Waiter, KeyedProof!Slots!Waiter
<1>3. KeyedProof!Slots!CapIsExact => Slots!CapIsExact
  BY DEF Slots!CapIsExact, KeyedProof!Slots!CapIsExact, Slots!InUse, KeyedProof!Slots!InUse,
         Slots!Cardinality, KeyedProof!Slots!Cardinality
<1>4. KeyedProof!Slots!StalledLongEnough => Slots!StalledLongEnough
  BY DEF KeyedProof!Slots!StalledLongEnough, Slots!StalledLongEnough
<1> QED
  BY <1>1, <1>2, <1>3, <1>4, KeyedProof!StalledFollows

\* and what it promises of its steps.
LEMMA SlotsStep ==
    KeyedProof!SlotsInv /\ (Slots!Next \/ UNCHANGED <<shared, held>>) =>
        Slots!SuspectedFirstStep /\ Slots!NoGhostFavoredStep
<1>1. Slots!Next => KeyedProof!Slots!Next
  BY DEF Slots!Next, KeyedProof!Slots!Next, Slots!Tick, KeyedProof!Slots!Tick, Slots!SlotStep,
         KeyedProof!Slots!SlotStep, Slots!Die, KeyedProof!Slots!Die, Slots!Acquire,
         KeyedProof!Slots!Acquire, Slots!AcquireFull, KeyedProof!Slots!AcquireFull,
         Slots!ProbeFull, KeyedProof!Slots!ProbeFull, Slots!Renew, KeyedProof!Slots!Renew,
         Slots!Reconcile, KeyedProof!Slots!Reconcile, Slots!ClearWaiter,
         KeyedProof!Slots!ClearWaiter, Slots!Release, KeyedProof!Slots!Release, Slots!InUse,
         KeyedProof!Slots!InUse, Slots!ReapedLeases, KeyedProof!Slots!ReapedLeases, Slots!Reaped,
         KeyedProof!Slots!Reaped, Slots!ReapedWaiters, KeyedProof!Slots!ReapedWaiters,
         Slots!Reclaimed, KeyedProof!Slots!Reclaimed, Slots!FreshLease,
         KeyedProof!Slots!FreshLease, Slots!IsLongestLiveWaiter,
         KeyedProof!Slots!IsLongestLiveWaiter, Slots!Cardinality, KeyedProof!Slots!Cardinality,
         Slots!gate, KeyedProof!Slots!gate, Slots!mine, KeyedProof!Slots!mine
<1>2. UNCHANGED <<shared, held>> => UNCHANGED KeyedProof!Slots!vars
  BY DEF shared, KeyedProof!Slots!vars
<1>3. KeyedProof!Slots!SuspectedFirstStep => Slots!SuspectedFirstStep
  BY DEF KeyedProof!Slots!SuspectedFirstStep, Slots!SuspectedFirstStep
<1>4. KeyedProof!Slots!NoGhostFavoredStep => Slots!NoGhostFavoredStep
  BY DEF Slots!NoGhostFavoredStep, KeyedProof!Slots!NoGhostFavoredStep, Slots!AcquireFull,
         KeyedProof!Slots!AcquireFull, Slots!InUse, KeyedProof!Slots!InUse, Slots!ReapedLeases,
         KeyedProof!Slots!ReapedLeases, Slots!Reaped, KeyedProof!Slots!Reaped,
         Slots!ReapedWaiters, KeyedProof!Slots!ReapedWaiters, Slots!Reclaimed,
         KeyedProof!Slots!Reclaimed, Slots!IsLongestLiveWaiter,
         KeyedProof!Slots!IsLongestLiveWaiter, Slots!Cardinality, KeyedProof!Slots!Cardinality
<1> QED
  BY <1>1, <1>2, <1>3, <1>4, SlotsAssumed, KeyedProof!StepSuspects, KeyedProof!StepFavors

-----------------------------------------------------------------------------
(* The runs' properties *)

\* In the scene of a component its invariant holds; the scene never changes.
SceneInv ==
    /\ scene = "keyed" => KeyedProof!IInv
    /\ scene = "local" => LocalProof!IInv
    /\ scene = "slots" => KeyedProof!SlotsInv

\* The invariant holds in every state of a run, whatever its scenes.
LEMMA SceneInvHolds == Spec => []SceneInv
<1>1. Init => SceneInv
  BY KeyedInit, LocalInit, SlotsInit DEF Init, SceneInv
<1>2. SceneInv /\ [Next]_vars => SceneInv'
  <2>1. ASSUME SceneInv, Next
        PROVE  SceneInv'
    <3>1. /\ scene' = scene
          /\ scene = "keyed" => Keyed!Next
          /\ scene = "local" => Local!Next
          /\ scene = "slots" => Slots!Next
      BY <2>1 DEF Next
    <3> QED
      BY <2>1, <3>1, KeyedNext, LocalNext, SlotsNext DEF SceneInv
  <2>2. ASSUME SceneInv, UNCHANGED vars
        PROVE  SceneInv'
    <3>1. scene' = scene /\ UNCHANGED keyed /\ UNCHANGED <<shared, held>>
      BY <2>2 DEF vars
    <3> QED
      BY <2>2, <3>1, KeyedNext, LocalNext, SlotsNext DEF SceneInv
  <2> QED
    BY <2>1, <2>2
<1> QED
  BY <1>1, <1>2, PTL DEF Spec

\* Two live contexts never hold the same key of _KeyedLockContext, in one process
\* or in two.
THEOREM LocksExclude == Spec => []MutualExclusion
<1>1. SceneInv => MutualExclusion
  BY KeyedPromise, LocalPromise DEF SceneInv, MutualExclusion
<1> QED
  BY <1>1, SceneInvHolds, PTL

\* The counts of _async_lock_count are exact, and whoever left leaves no reference,
\* no asyncio lock and no lease behind.
THEOREM LocksCounted == Spec => []LocksAreCounted
<1>1. SceneInv => LocksAreCounted
  BY KeyedPromise, LocalPromise DEF SceneInv, LocksAreCounted
<1> QED
  BY <1>1, SceneInvHolds, PTL

\* The shared gate never records more leases than its limit, and a live owner loses
\* its lease only after it was silent for the heartbeat and the grace.
THEOREM GateRight == Spec => []GateIsRight
<1>1. SceneInv => GateIsRight
  BY SlotsPromise DEF SceneInv, GateIsRight
<1> QED
  BY <1>1, SceneInvHolds, PTL

\* _reap_gate_state reclaims nobody at the first look, and whoever backs off does so
\* for a live process that still polls.
THEOREM ReapsCarefully == Spec => ReapsWithCare
<1>1. SceneInv /\ [Next]_vars =>
        [scene = "slots" => Slots!SuspectedFirstStep /\ Slots!NoGhostFavoredStep]_vars
  <2>1. ASSUME SceneInv, Next, scene = "slots"
        PROVE  Slots!SuspectedFirstStep /\ Slots!NoGhostFavoredStep
    <3>1. Slots!Next /\ KeyedProof!SlotsInv
      BY <2>1 DEF Next, SceneInv
    <3> QED
      BY <3>1, SlotsStep
  <2> QED
    BY <2>1
<1> QED
  BY <1>1, SceneInvHolds, PTL DEF Spec, ReapsWithCare
=============================================================================
