----------------------------- MODULE KeyedLock -----------------------------
(***************************************************************************)
(* The keyed locks of lightrag/kg/shared_storage.py: a context takes the    *)
(* locks of several keys in sorted order.  Inside a process a key is an     *)
(* asyncio lock that exists while somebody refers to it; between processes  *)
(* it is a lease in the manager's KeyedHolderTable, which is taken over     *)
(* from a holder that is known to be dead.                                  *)
(*                                                                          *)
(* A step is what runs between two suspension points, except that a context *)
(* may be interrupted between two keys.  try_acquire takes the table's      *)
(* mutex twice and is two steps.  A lease id is the pair of context and key *)
(* because a context is entered once.                                       *)
(***************************************************************************)
EXTENDS Integers, FiniteSets, FiniteSetsExt

CONSTANTS Procs,         \* process instances; several may get the same pid
          Contexts,      \* uses of get_storage_keyed_lock
          Keys,          \* numbers in the order in which keys sort
          Pids,
          Multiprocess,  \* _is_multiprocess
          MayMissSample, \* whether _start_delta may fail to sample a process
          None

VARIABLES ctx,     \* context -> its process, keys and progress
          table,   \* process, key -> entry of _async_lock and _async_lock_count
          locked,  \* asyncio locks that are held, as <<process, key, generation>>
          holders, \* KeyedHolderTable._holders
          proc     \* process -> pid and life

vars == <<ctx, table, locked, holders, proc>>

Waiting == {"gate", "poll", "grant", "steal"}
Pos == {"idle", "next", "held", "leave", "out"} \cup Waiting

Lease == [context : Contexts, key : Keys]
Record == [lease : Lease, owner_pid : Pids, start_delta : Procs \cup {None}]

KeysAssumption ==
    /\ Keys \subseteq Nat \ {0}
    /\ {Multiprocess, MayMissSample} \subseteq BOOLEAN
    /\ Multiprocess \/ \E p \in Procs : Procs = {p}
    /\ None \notin Record \cup Procs

TypeOK ==
    /\ ctx \in [Contexts -> [home : Procs, keys : SUBSET Keys, pos : Pos,
                             refs : SUBSET Keys, entered : SUBSET Keys,
                             gen : [Keys -> Nat], snap : Record \cup {None}]]
    /\ table \in [Procs -> [Keys -> [gen : Nat, count : Nat]]]
    /\ locked \subseteq Procs \X Keys \X Nat
    /\ holders \in [Keys -> Record \cup {None}]
    /\ proc \in [Procs -> [pid : Pids, life : {"unborn", "alive", "dead"}]]

Alive(c) == proc[ctx[c].home].life = "alive"
At(c, pos) == Alive(c) /\ ctx[c].pos = pos

\* the key a context is about to lock, or is locking
NextKey(c) == Min(ctx[c].keys \ ctx[c].refs)
ThisKey(c) == Max(ctx[c].refs)
Gate(c, k) == <<ctx[c].home, k, ctx[c].gen[k]>>

Init ==
    /\ proc \in [Procs -> [pid : Pids, life : {"unborn"}]]
    /\ ctx \in [Contexts -> [home : Procs, keys : SUBSET Keys \ {{}}, pos : {"idle"},
                             refs : {{}}, entered : {{}}, gen : {[k \in Keys |-> 0]},
                             snap : {None}]]
    /\ table = [p \in Procs |-> [k \in Keys |-> [gen |-> 0, count |-> 0]]]
    /\ locked = {}
    /\ holders = [k \in Keys |-> None]

-----------------------------------------------------------------------------
(* Liveness of a holder *)

\* _pid_alive: some process has the pid
PidAlive(pid) == \E p \in Procs : proc[p].pid = pid /\ proc[p].life = "alive"

\* _start_delta: identifies the process that has the pid now, or nothing
StartDelta(pid) ==
    {p \in Procs : proc[p].pid = pid /\ proc[p].life = "alive"}
        \cup (IF MayMissSample THEN {None} ELSE {})

\* _holder_dead: the verdicts it may give.  An uncertain sample never declares
\* the holder dead.
HolderDead(rec) ==
    IF ~PidAlive(rec.owner_pid) THEN {TRUE}
    ELSE {rec.start_delta # None /\ d # None /\ d # rec.start_delta :
             d \in StartDelta(rec.owner_pid)}

-----------------------------------------------------------------------------
(* _KeyedLockContext.__aenter__ *)

\* mutant: the keys are locked in the order in which they were named
RefKeyUnsorted(c) ==
    /\ At(c, "idle") \/ At(c, "next")
    /\ \E k \in ctx[c].keys \ ctx[c].refs :
         LET p == ctx[c].home
             g == IF table[p][k].count = 0 THEN table[p][k].gen + 1 ELSE table[p][k].gen
         IN /\ table' = [table EXCEPT ![p][k] = [gen |-> g, count |-> @.count + 1]]
            /\ ctx' = [ctx EXCEPT ![c].refs = @ \cup {k}, ![c].gen[k] = g, ![c].pos = "gate"]
    /\ UNCHANGED <<locked, holders, proc>>

\* _get_lock_for_key: refer to the key's asyncio lock, creating it if nobody does
RefKey(c) ==
    /\ At(c, "idle") \/ At(c, "next")
    /\ ctx[c].keys # ctx[c].refs
    /\ LET p == ctx[c].home
           k == NextKey(c)
           g == IF table[p][k].count = 0 THEN table[p][k].gen + 1 ELSE table[p][k].gen
       IN /\ table' = [table EXCEPT ![p][k] = [gen |-> g, count |-> @.count + 1]]
          /\ ctx' = [ctx EXCEPT ![c].refs = @ \cup {k}, ![c].gen[k] = g, ![c].pos = "gate"]
    /\ UNCHANGED <<locked, holders, proc>>

Entered(c, k) ==
    ctx' = [ctx EXCEPT ![c].entered = @ \cup {k}, ![c].snap = None,
                       ![c].pos = IF ctx[c].keys = ctx[c].refs THEN "held" ELSE "next"]

\* UnifiedLock.__aenter__: the asyncio lock, alone or as the gate of the lease
TakeGate(c) ==
    /\ At(c, "gate") /\ Gate(c, ThisKey(c)) \notin locked
    /\ locked' = locked \cup {Gate(c, ThisKey(c))}
    /\ IF Multiprocess THEN ctx' = [ctx EXCEPT ![c].pos = "poll"] ELSE Entered(c, ThisKey(c))
    /\ UNCHANGED <<table, holders, proc>>

\* KeyedHolderTable.try_acquire, first section: look at the holder.  A live one
\* makes _KeyedLeaseLock.acquire sleep and poll again.
TryAcquire(c) ==
    /\ At(c, "poll")
    /\ LET rec == holders[ThisKey(c)] IN
       \/ rec = None /\ ctx' = [ctx EXCEPT ![c].pos = "grant"]
       \/ /\ rec # None /\ TRUE \in HolderDead(rec)
          /\ ctx' = [ctx EXCEPT ![c].pos = "steal", ![c].snap = rec]
    /\ UNCHANGED <<table, locked, holders, proc>>

Stamp(c) == {[lease |-> [context |-> c, key |-> ThisKey(c)],
              owner_pid |-> proc[ctx[c].home].pid, start_delta |-> d] :
                d \in StartDelta(proc[ctx[c].home].pid)}

\* mutant: the second section does not look again
GrantBlindly(c) ==
    /\ At(c, "grant") \/ At(c, "steal")
    /\ \E rec \in Stamp(c) : holders' = [holders EXCEPT ![ThisKey(c)] = rec]
    /\ Entered(c, ThisKey(c))
    /\ UNCHANGED <<table, locked, proc>>

\* try_acquire, second section: the slot is still empty, or still held by the
\* same dead lease; otherwise back to polling
Grant(c) ==
    /\ At(c, "grant") \/ At(c, "steal")
    /\ LET k == ThisKey(c)
           same == IF ctx[c].snap = None THEN holders[k] = None
                   ELSE holders[k] # None /\ holders[k].lease = ctx[c].snap.lease
       IN \/ /\ same
             /\ \E rec \in Stamp(c) : holders' = [holders EXCEPT ![k] = rec]
             /\ Entered(c, k)
          \/ /\ ~same
             /\ ctx' = [ctx EXCEPT ![c].pos = "poll", ![c].snap = None]
             /\ UNCHANGED holders
    /\ UNCHANGED <<table, locked, proc>>

\* mutant: a cancelled poller keeps the gate
CancelKeepingGate(c) ==
    /\ At(c, "gate") \/ At(c, "poll")
    /\ ctx' = [ctx EXCEPT ![c].pos = "leave"]
    /\ UNCHANGED <<table, locked, holders, proc>>

\* The task is cancelled while it waits; __aenter__ gives its own gate back and
\* rolls the rest back.
Cancel(c) ==
    /\ At(c, "gate") \/ At(c, "poll")
    /\ locked' = IF ctx[c].pos = "poll" THEN locked \ {Gate(c, ThisKey(c))} ELSE locked
    /\ ctx' = [ctx EXCEPT ![c].pos = "leave"]
    /\ UNCHANGED <<table, holders, proc>>

-----------------------------------------------------------------------------
(* __aexit__ and _rollback_acquired_locks *)

Exit(c) ==
    /\ At(c, "held")
    /\ ctx' = [ctx EXCEPT ![c].pos = "leave"]
    /\ UNCHANGED <<table, locked, holders, proc>>

\* KeyedHolderTable.release: only the lease's own record is deleted
ReleaseLease(c, k) ==
    holders' = IF k \in ctx[c].entered /\ holders[k] # None
                  /\ holders[k].lease = [context |-> c, key |-> k]
               THEN [holders EXCEPT ![k] = None] ELSE holders

\* mutant: rollback forgets a key that was referred to but not entered
ReleaseEnteredOnly(c) ==
    /\ At(c, "leave") /\ ctx[c].refs # {}
    /\ LET k == ThisKey(c)
           p == ctx[c].home
       IN /\ ReleaseLease(c, k)
          /\ locked' = IF k \in ctx[c].entered THEN locked \ {Gate(c, k)} ELSE locked
          /\ table' = IF k \in ctx[c].entered
                      THEN [table EXCEPT ![p][k].count = @ - 1] ELSE table
          /\ ctx' = [ctx EXCEPT ![c].refs = @ \ {k}, ![c].entered = @ \ {k},
                                ![c].pos = IF ctx[c].refs = {k} THEN "out" ELSE "leave"]
    /\ UNCHANGED proc

\* mutant: the reference is given back twice
ReleaseTwice(c) ==
    /\ At(c, "leave") /\ ctx[c].refs # {}
    /\ LET k == ThisKey(c)
           p == ctx[c].home
       IN /\ ReleaseLease(c, k)
          /\ locked' = IF k \in ctx[c].entered THEN locked \ {Gate(c, k)} ELSE locked
          /\ table' = [table EXCEPT ![p][k].count = @ - 2]
          /\ ctx' = [ctx EXCEPT ![c].refs = @ \ {k}, ![c].entered = @ \ {k},
                                ![c].pos = IF ctx[c].refs = {k} THEN "out" ELSE "leave"]
    /\ UNCHANGED proc

\* release one entry, in reverse order: the lease, the asyncio lock, the reference
\* (_release_async_lock drops the lock object with the last one)
ReleaseKey(c) ==
    /\ At(c, "leave") /\ ctx[c].refs # {}
    /\ LET k == ThisKey(c)
           p == ctx[c].home
       IN /\ ReleaseLease(c, k)
          /\ locked' = IF k \in ctx[c].entered THEN locked \ {Gate(c, k)} ELSE locked
          /\ table' = [table EXCEPT ![p][k].count = @ - 1]
          /\ ctx' = [ctx EXCEPT ![c].refs = @ \ {k}, ![c].entered = @ \ {k},
                                ![c].pos = IF ctx[c].refs = {k} THEN "out" ELSE "leave"]
    /\ UNCHANGED proc

-----------------------------------------------------------------------------
(* Processes *)

Start(p) ==
    /\ proc[p].life = "unborn" /\ ~PidAlive(proc[p].pid)
    /\ proc' = [proc EXCEPT ![p].life = "alive"]
    /\ UNCHANGED <<ctx, table, locked, holders>>

Die(p) ==
    /\ Multiprocess /\ proc[p].life = "alive"
    /\ proc' = [proc EXCEPT ![p].life = "dead"]
    /\ UNCHANGED <<ctx, table, locked, holders>>

Step(c) == RefKey(c) \/ TakeGate(c) \/ TryAcquire(c) \/ Grant(c) \/ Exit(c) \/ ReleaseKey(c)

Next ==
    \/ \E c \in Contexts : Step(c) \/ Cancel(c)
    \/ \E p \in Procs : Start(p) \/ Die(p)

Spec == Init /\ [][Next]_vars

-----------------------------------------------------------------------------
(* Properties *)

Holds(c, k) == Alive(c) /\ k \in ctx[c].entered
Users(p, k) == {c \in Contexts : ctx[c].home = p /\ k \in ctx[c].refs}

\* Two live contexts never hold the same key, in one process or in two, whatever
\* was cancelled, rolled back or taken over from a dead process.
MutualExclusion ==
    \A c, d \in Contexts : \A k \in Keys : Holds(c, k) /\ Holds(d, k) => c = d

\* The reference count is the number of contexts that refer to the key, so a lock
\* object in use is never dropped and none outlives its last user; and all of
\* them refer to the same object.
RefCountExact ==
    \A p \in Procs, k \in Keys :
        proc[p].life = "alive" =>
            /\ table[p][k].count = Cardinality(Users(p, k))
            /\ \A c \in Users(p, k) : ctx[c].gen[k] = table[p][k].gen

\* A context that has left, or was cancelled on its way in, leaves neither an
\* asyncio lock nor a lease behind.
NothingLeaks ==
    \A c \in Contexts : Alive(c) /\ ctx[c].pos = "out" =>
        \A k \in Keys : /\ Gate(c, k) \in locked =>
                              \E d \in Contexts \ {c} : Gate(d, k) = Gate(c, k) /\ k \in ctx[d].refs
                        /\ holders[k] # None => holders[k].lease.context # c

\* on its way in, in a live process
Waits(c) == ctx[c].pos \in Waiting /\ Alive(c)
=============================================================================
