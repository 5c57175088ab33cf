---------------------------- MODULE GlobalSlots ----------------------------
(***************************************************************************)
(* The cross-process concurrency gate of lightrag/kg/shared_storage.py: a   *)
(* group's leases and waiters under one key of the lease namespace, read    *)
(* and replaced as a whole under the group's keyed lock.                    *)
(*                                                                          *)
(* now is the clock of all processes, in units that Ttl, Grace and StaleTtl *)
(* are given in.  A process that is stalled is one that takes no step.      *)
(***************************************************************************)
EXTENDS Integers, FiniteSets, FiniteSetsExt

CONSTANTS Procs, LeaseIds, Limit,
          Ttl,       \* _heartbeat_ttl
          Grace,     \* _suspect_grace
          StaleTtl,  \* _waiter_stale_ttl
          MaxTime,   \* bound of the clock
          None

VARIABLES now, alive,
          leases,   \* lease id -> lease or None
          waiters,  \* process -> waiter record or None
          held,     \* process -> its held_leases
          renewed,  \* history: lease id -> when its owner last acquired or renewed it
          favored   \* process -> second result of its last acquire

vars == <<now, alive, leases, waiters, held, renewed, favored>>
gate == <<leases, waiters>>
mine == <<held, renewed, favored>>

Time == 0..MaxTime
Lease == [pid : Procs, updated_at : Time, suspect_since : Time \cup {None}]
Waiter == [wait_start : Time, last_poll : Time]

SlotsAssumption ==
    /\ {Limit, Ttl, Grace, StaleTtl, MaxTime} \subseteq Nat
    /\ Limit > 0 /\ IsFiniteSet(LeaseIds)
    /\ None \notin Time \cup Lease \cup Waiter

TypeOK ==
    /\ now \in Time /\ alive \subseteq Procs
    /\ leases \in [LeaseIds -> Lease \cup {None}]
    /\ waiters \in [Procs -> Waiter \cup {None}]
    /\ held \in [Procs -> SUBSET LeaseIds]
    /\ renewed \in [LeaseIds -> Time] /\ favored \in [Procs -> BOOLEAN]

Init ==
    /\ now = 0 /\ alive = Procs
    /\ leases = [l \in LeaseIds |-> None] /\ waiters = [p \in Procs |-> None]
    /\ held = [p \in Procs |-> {}] /\ renewed = [l \in LeaseIds |-> 0]
    /\ favored = [p \in Procs |-> FALSE]

-----------------------------------------------------------------------------
(* _reap_gate_state *)

\* mutant: the grace is counted from the heartbeat, without a first look
ReapedAtFirstLook(l) ==
    LET x == leases[l] IN
    IF x = None \/ x.pid \notin alive THEN None
    ELSE IF now - x.updated_at <= Ttl THEN [x EXCEPT !.suspect_since = None]
    ELSE IF now - x.updated_at > Ttl + Grace THEN None
    ELSE x

\* what one pass leaves of a lease: the owner is dead, or its heartbeat expired
\* and it has been a suspect for longer than the grace
Reaped(l) ==
    LET x == leases[l] IN
    IF x = None \/ x.pid \notin alive THEN None
    ELSE IF now - x.updated_at <= Ttl THEN [x EXCEPT !.suspect_since = None]
    ELSE IF x.suspect_since = None THEN [x EXCEPT !.suspect_since = now]
    ELSE IF now - x.suspect_since > Grace THEN None
    ELSE x

ReapedLeases == [l \in LeaseIds |-> Reaped(l)]
Reclaimed == {leases[l].pid : l \in {i \in LeaseIds : leases[i] # None /\ Reaped(i) = None}}

\* mutant: waiters are not reaped
ReapedNoWaiters == waiters

\* a waiter must be alive, must not have just lost a lease, and must still poll
ReapedWaiters ==
    [p \in Procs |-> IF waiters[p] = None \/ p \in Reclaimed \/ p \notin alive
                        \/ now - waiters[p].last_poll > StaleTtl
                     THEN None ELSE waiters[p]]

\* lease ids that nobody uses
FreshLease ==
    {l \in LeaseIds : leases[l] = None /\ \A p \in Procs : l \notin held[p]}

InUse(ls) == Cardinality({l \in LeaseIds : ls[l] # None})

\* _is_longest_live_waiter
IsLongestLiveWaiter(ws, p) ==
    ws[p] # None /\ \A q \in Procs : ws[q] # None => ws[p].wait_start <= ws[q].wait_start

-----------------------------------------------------------------------------
(* The gate *)

\* _acquire_global_slot when the gate is full: note the waiter, rank it
AcquireFull(p) ==
    /\ p \in alive /\ InUse(ReapedLeases) >= Limit
    /\ leases' = ReapedLeases
    /\ waiters' = [ReapedWaiters EXCEPT
                     ![p] = [wait_start |-> IF @ = None THEN now ELSE @.wait_start,
                             last_poll |-> now]]
    /\ favored' = [favored EXCEPT ![p] = IsLongestLiveWaiter(waiters', p)]
    /\ UNCHANGED <<now, alive, held, renewed>>

\* the same for a caller that does not wait (try_acquire_global_slot)
ProbeFull(p) ==
    /\ p \in alive /\ InUse(ReapedLeases) >= Limit
    /\ leases' = ReapedLeases /\ waiters' = ReapedWaiters
    /\ UNCHANGED <<now, alive, mine>>

\* mutant: off by one
AcquireOneMore(p) ==
    /\ p \in alive /\ InUse(ReapedLeases) <= Limit
    /\ \E l \in FreshLease :
         /\ leases' = [ReapedLeases EXCEPT
                         ![l] = [pid |-> p, updated_at |-> now, suspect_since |-> None]]
         /\ held' = [held EXCEPT ![p] = @ \cup {l}]
         /\ renewed' = [renewed EXCEPT ![l] = now]
    /\ waiters' = [ReapedWaiters EXCEPT ![p] = None]
    /\ favored' = [favored EXCEPT ![p] = TRUE]
    /\ UNCHANGED <<now, alive>>

\* _acquire_global_slot when there is room: a lease with a fresh id
Acquire(p) ==
    /\ p \in alive /\ InUse(ReapedLeases) < Limit
    /\ \E l \in FreshLease :
         /\ leases' = [ReapedLeases EXCEPT
                         ![l] = [pid |-> p, updated_at |-> now, suspect_since |-> None]]
         /\ held' = [held EXCEPT ![p] = @ \cup {l}]
         /\ renewed' = [renewed EXCEPT ![l] = now]
    /\ waiters' = [ReapedWaiters EXCEPT ![p] = None]
    /\ favored' = [favored EXCEPT ![p] = TRUE]
    /\ UNCHANGED <<now, alive>>

\* release_global_slot
Release(p, l) ==
    /\ p \in alive /\ l \in held[p]
    /\ leases' = [leases EXCEPT ![l] = None]
    /\ held' = [held EXCEPT ![p] = @ \ {l}]
    /\ UNCHANGED <<now, alive, waiters, renewed, favored>>

\* mutant: a renewal keeps the suspicion
RenewSuspect(p) ==
    /\ p \in alive /\ held[p] # {}
    /\ leases' = [l \in LeaseIds |->
                    IF l \in held[p] /\ leases[l] # None
                    THEN [leases[l] EXCEPT !.updated_at = now] ELSE leases[l]]
    /\ renewed' = [l \in LeaseIds |->
                    IF l \in held[p] /\ leases[l] # None THEN now ELSE renewed[l]]
    /\ UNCHANGED <<now, alive, waiters, held, favored>>

\* renew_global_slots: the heartbeat of the leases that still exist
Renew(p) ==
    /\ p \in alive /\ held[p] # {}
    /\ leases' = [l \in LeaseIds |->
                    IF l \in held[p] /\ leases[l] # None
                    THEN [pid |-> p, updated_at |-> now, suspect_since |-> None] ELSE leases[l]]
    /\ renewed' = [l \in LeaseIds |-> IF l \in held[p] /\ leases[l] # None THEN now ELSE renewed[l]]
    /\ UNCHANGED <<now, alive, waiters, held, favored>>

\* reconcile_global_slots
Reconcile(p) ==
    /\ p \in alive
    /\ leases' = ReapedLeases /\ waiters' = ReapedWaiters
    /\ UNCHANGED <<now, alive, mine>>

\* clear_slot_waiter
ClearWaiter(p) ==
    /\ p \in alive
    /\ waiters' = [waiters EXCEPT ![p] = None]
    /\ UNCHANGED <<now, alive, leases, mine>>

-----------------------------------------------------------------------------
Tick ==
    /\ now < MaxTime
    /\ now' = now + 1
    /\ UNCHANGED <<alive, gate, mine>>

\* kill -9, out of memory
Die(p) ==
    /\ p \in alive
    /\ alive' = alive \ {p}
    /\ held' = [held EXCEPT ![p] = {}]
    /\ UNCHANGED <<now, gate, renewed, favored>>

SlotStep(p) ==
    \/ Acquire(p) \/ AcquireFull(p) \/ ProbeFull(p) \/ Renew(p) \/ Reconcile(p) \/ ClearWaiter(p)
    \/ \E l \in LeaseIds : Release(p, l)

Next == Tick \/ \E p \in Procs : SlotStep(p) \/ Die(p)

Spec == Init /\ [][Next]_vars

-----------------------------------------------------------------------------
(* Properties *)

\* The gate never records more leases than the limit, although expired ones stay
\* suspects for a while and holders of reclaimed ones go on renewing.
CapIsExact == InUse(leases) <= Limit

\* Work that still runs outside the gate was stalled: a live owner that renewed
\* within the heartbeat and the grace never loses its lease.
StalledLongEnough ==
    \A p \in alive : \A l \in held[p] : leases[l] = None => now - renewed[l] > Ttl + Grace

\* A live owner's lease vanishes only by its own release, or after it was seen as
\* a suspect more than the grace ago: also when the clock jumps, nobody is reclaimed by
\* the first look.
SuspectedFirstStep ==
    \A l \in LeaseIds : \A p \in alive :
          l \in held[p] /\ l \in held'[p] /\ leases[l] # None /\ leases'[l] = None =>
              leases[l].suspect_since # None /\ now - leases[l].suspect_since > Grace

\* A process that is told to back off does so for a live process that waits longer
\* and still polls: no ghost keeps the favored seat.
NoGhostFavoredStep ==
    \A p \in Procs :
          AcquireFull(p) /\ ~favored'[p] =>
              \E q \in alive \ {p} : /\ waiters'[q] # None
                                     /\ waiters'[q].wait_start < waiters'[p].wait_start
                                     /\ now - waiters'[q].last_poll <= StaleTtl
=============================================================================
