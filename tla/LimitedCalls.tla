---------------------------- MODULE LimitedCalls ----------------------------
(***************************************************************************)
(* priority_limit_async_func_call of lightrag/utils.py, in both its modes:  *)
(* workers that take calls from a bounded queue, and, when the group has a  *)
(* global limit, a pump that takes a slot of the cross-process gate before  *)
(* it hands the head of the queue to a worker.                              *)
(*                                                                          *)
(* One process.  A step is what runs between two suspension points of the   *)
(* event loop; the locks of the closure are never held across one.  Other   *)
(* processes appear as slots of the gate that are taken (others).  Counters *)
(* for the statistics are left out.                                         *)
(***************************************************************************)
EXTENDS Integers, Sequences, SequencesExt, FiniteSets

CONSTANTS Calls, Workers, Leases,
          UseGlobalLimit,   \* use_global_limit
          MaxQueue,         \* max_queue_size
          Limit,            \* global limit of the group
          DrainLimit,       \* DEFAULT_GLOBAL_SLOT_DRAIN_LIMIT
          CompactAt,        \* zombie_compact_threshold
          Faults,           \* what a model injects
          None

VARIABLES call,         \* call -> position of its caller, priority, future
          state,        \* task_states
          queue,        \* the physical queue, in heap order
          unfinished,   \* its count of unfinished tasks, for join
          live_queued,
          dispatch,     \* dispatch_queue
          worker, pump, \* positions, with the lease and call they carry
          held, pending_release,
          gate,         \* our leases in the shared gate
          others,       \* slots of the gate that other processes hold
          accepting, shut,
          runs          \* history: how often the function was started for a call

queues == <<queue, unfinished, live_queued, dispatch>>
slots == <<held, pending_release, gate, others>>
vars == <<call, state, queues, worker, pump, slots, accepting, shut, runs>>

FaultKind == {"cancel", "user_timeout", "queue_timeout", "stuck", "release_fails",
              "worker_dies", "shutdown", "others"}

CallsAssumption ==
    /\ {MaxQueue, Limit, DrainLimit, CompactAt} \subseteq Nat
    /\ DrainLimit > 0 /\ MaxQueue > 0
    /\ UseGlobalLimit \in BOOLEAN /\ Faults \subseteq FaultKind
    /\ None \notin Calls \cup Leases

CallPos == {"new", "admit", "put", "wait", "cleanup", "done"}
Future == {"pending", "result", "error", "cancelled"}
ShutPos == {"open", "drain", "force", "pump", "workers", "dispatch", "leases", "closed"}
Carrier == [pos : {"idle", "run", "acquire", "release", "gone"},
            lease : Leases \cup {None}, call : Calls \cup {None}]

TypeOK ==
    /\ call \in [Calls -> [pos : CallPos, priority : 1..2, future : Future, woken : BOOLEAN]]
    /\ state \in [Calls -> [started : BOOLEAN, cancelled : BOOLEAN] \cup {None}]
    /\ queue \in Seq(Calls) /\ unfinished \in Nat /\ live_queued \in 0..MaxQueue
    /\ dispatch \in Seq([lease : Leases, call : Calls])
    /\ worker \in [Workers -> Carrier] /\ pump \in Carrier
    /\ held \subseteq Leases /\ pending_release \subseteq Leases /\ gate \subseteq Leases
    /\ others \in 0..Limit /\ accepting \in BOOLEAN /\ shut \in ShutPos
    /\ runs \in [Calls -> Nat]

Idle == [pos |-> "idle", lease |-> None, call |-> None]
Gone == [pos |-> "gone", lease |-> None, call |-> None]

Init ==
    /\ call \in [Calls -> [pos : {"new"}, priority : 1..2, future : {"pending"}, woken : {FALSE}]]
    /\ state = [c \in Calls |-> None]
    /\ queue = <<>> /\ unfinished = 0 /\ live_queued = 0 /\ dispatch = <<>>
    /\ worker = [w \in Workers |-> Idle] /\ pump = Idle
    /\ held = {} /\ pending_release = {} /\ gate = {} /\ others = 0
    /\ accepting = TRUE /\ shut = "open"
    /\ runs = [c \in Calls |-> 0]

-----------------------------------------------------------------------------
(* Pieces *)

Stopped == shut \notin {"open", "drain", "force"}   \* shutdown_event.is_set()
Executing == Cardinality({w \in Workers : worker[w].pos = "run"})
Dead(c) == state[c] = None \/ state[c].cancelled \/ call[c].future # "pending"

\* heap order: smaller priority first, then the order of arrival
Inserted(c) ==
    LET before == SelectSeq(queue, LAMBDA d : call[d].priority <= call[c].priority)
        after == SelectSeq(queue, LAMBDA d : call[d].priority > call[c].priority)
    IN before \o <<c>> \o after

\* notify_all on admission_cond
Woken(cs) == [c \in Calls |-> IF cs[c].pos = "admit" THEN [cs[c] EXCEPT !.woken = TRUE] ELSE cs[c]]

Settled(cs, c, f) == IF cs[c].future = "pending" THEN [cs EXCEPT ![c].future = f] ELSE cs

\* the reservations that popping the states of cs gives back
Unstarted(cs) == Cardinality({c \in cs : state[c] # None /\ ~state[c].started})

\* put into the physical queue: register, number, insert
Enqueue(c) ==
    /\ queue' = Inserted(c)
    /\ unfinished' = unfinished + 1
    /\ call' = [call EXCEPT ![c].pos = "wait", ![c].woken = FALSE]
    /\ state' = [state EXCEPT ![c] = [started |-> FALSE, cancelled |-> FALSE]]

-----------------------------------------------------------------------------
(* The caller: wait_func and _limited_wait *)

\* ensure_workers restarts what is missing when the health check has ended; here
\* it runs once.  A closed queue rejects.
Submit(c) ==
    /\ call[c].pos = "new"
    /\ IF ~accepting
       THEN /\ call' = [call EXCEPT ![c].pos = "done"]
            /\ UNCHANGED <<state, queues>>
       ELSE IF UseGlobalLimit /\ live_queued >= MaxQueue
       THEN /\ call' = [call EXCEPT ![c].pos = "admit"]
            /\ UNCHANGED <<state, queues>>
       ELSE IF ~UseGlobalLimit /\ Len(queue) >= MaxQueue
       THEN /\ call' = [call EXCEPT ![c].pos = "put"]
            /\ state' = [state EXCEPT ![c] = [started |-> FALSE, cancelled |-> FALSE]]
            /\ UNCHANGED queues
       ELSE /\ Enqueue(c)
            /\ live_queued' = IF UseGlobalLimit THEN live_queued + 1 ELSE live_queued
            /\ UNCHANGED dispatch
    /\ UNCHANGED <<worker, pump, slots, accepting, shut, runs>>

\* a sleeper on admission_cond is woken and looks again
Admit(c) ==
    /\ call[c].pos = "admit" /\ call[c].woken
    /\ IF ~accepting
       THEN /\ call' = [call EXCEPT ![c].pos = "done"] /\ UNCHANGED <<state, queues>>
       ELSE IF live_queued >= MaxQueue
       THEN /\ call' = [call EXCEPT ![c].woken = FALSE] /\ UNCHANGED <<state, queues>>
       ELSE /\ Enqueue(c) /\ live_queued' = live_queued + 1 /\ UNCHANGED dispatch
    /\ UNCHANGED <<worker, pump, slots, accepting, shut, runs>>

\* a putter of the bounded queue gets room; it does not look at accepting again
Put(c) ==
    /\ call[c].pos = "put" /\ Len(queue) < MaxQueue
    /\ queue' = Inserted(c) /\ unfinished' = unfinished + 1
    /\ call' = [call EXCEPT ![c].pos = "wait"]
    /\ UNCHANGED <<state, live_queued, dispatch, worker, pump, slots, accepting, shut, runs>>

\* the finally of both: pop the state; one that never started gives its logical
\* capacity back and wakes the sleepers
Leave(c, cs) ==
    LET freed == IF UseGlobalLimit THEN Unstarted({c}) ELSE 0
        out == [cs EXCEPT ![c].pos = "done"]
    IN /\ call' = IF freed > 0 THEN Woken(out) ELSE out
       /\ state' = [state EXCEPT ![c] = None]
       /\ live_queued' = live_queued - freed

Return(c) ==
    /\ call[c].pos = "wait" /\ call[c].future # "pending"
    /\ Leave(c, call)
    /\ UNCHANGED <<queue, unfinished, dispatch, worker, pump, slots, accepting, shut, runs>>

QueueTimeout(c) ==
    /\ "queue_timeout" \in Faults /\ call[c].pos \in {"admit", "put"}
    /\ Leave(c, call)
    /\ UNCHANGED <<queue, unfinished, dispatch, worker, pump, slots, accepting, shut, runs>>

\* the caller's task is cancelled, and with it the future it awaits
Cancel(c) ==
    /\ "cancel" \in Faults /\ call[c].pos \in {"admit", "put", "wait"}
    /\ Leave(c, Settled(call, c, "cancelled"))
    /\ UNCHANGED <<queue, unfinished, dispatch, worker, pump, slots, accepting, shut, runs>>

\* wait_for gives up: the call is marked, its future cancelled, and the caller
\* polls for a while until a worker has let go of it
UserTimeout(c) ==
    /\ "user_timeout" \in Faults /\ call[c].pos = "wait" /\ call[c].future = "pending"
    /\ state' = IF state[c] = None THEN state ELSE [state EXCEPT ![c].cancelled = TRUE]
    /\ call' = [call EXCEPT ![c].future = "cancelled", ![c].pos = "cleanup"]
    /\ UNCHANGED <<queues, worker, pump, slots, accepting, shut, runs>>

EndCleanup(c) ==
    /\ call[c].pos = "cleanup"
    /\ Leave(c, call)
    /\ UNCHANGED <<queue, unfinished, dispatch, worker, pump, slots, accepting, shut, runs>>

Caller(c) == Submit(c) \/ Admit(c) \/ Put(c) \/ Return(c) \/ EndCleanup(c)

-----------------------------------------------------------------------------
(* Leases *)

\* lease ids that nobody uses
FreshLease == Leases \ (gate \cup held \cup pending_release)

\* mutant: a release that failed is forgotten
ReleaseLeaseOnce(l) ==
    /\ held' = held \ {l}
    /\ \/ gate' = gate \ {l}
       \/ "release_fails" \in Faults /\ gate' \in {gate, gate \ {l}}
    /\ UNCHANGED <<pending_release, others>>

\* _release_lease_safely: the release may fail, with or without effect, and is
\* then left to maintenance
ReleaseLease(l) ==
    /\ held' = held \ {l}
    /\ \/ gate' = gate \ {l} /\ pending_release' = pending_release \ {l}
       \/ /\ "release_fails" \in Faults
          /\ pending_release' = pending_release \cup {l}
          /\ gate' \in {gate, gate \ {l}}
    /\ UNCHANGED others

-----------------------------------------------------------------------------
(* slot_pump *)

\* there is queued work and an idle worker: ask for a slot
PumpAsks ==
    /\ UseGlobalLimit /\ ~Stopped /\ pump.pos = "idle"
    /\ queue # <<>> /\ Len(dispatch) + Executing < Cardinality(Workers)
    /\ pump' = [pump EXCEPT !.pos = "acquire"]
    /\ UNCHANGED <<call, state, queues, worker, slots, accepting, shut, runs>>

PumpRefused ==
    /\ pump.pos = "acquire" /\ Cardinality(gate) + others >= Limit
    /\ pump' = Idle
    /\ UNCHANGED <<call, state, queues, worker, slots, accepting, shut, runs>>

\* how many items the drain loop takes: zombies up to the limit, then a live one
Zombies == LET live == {i \in 1..Len(queue) : ~Dead(queue[i])}
               first == IF live = {} THEN Len(queue)
                        ELSE (CHOOSE i \in live : \A j \in live : i <= j) - 1
           IN IF first < DrainLimit THEN first ELSE DrainLimit

\* mutant: a zombie whose caller is still cleaning up keeps its reservation
PumpGotsLeaky ==
    /\ pump.pos = "acquire" /\ Cardinality(gate) + others < Limit
    /\ \E l \in FreshLease :
         LET z == Zombies
             found == z < Len(queue) /\ z < DrainLimit
             rest == SubSeq(queue, z + 1, Len(queue))
             dead == {queue[i] : i \in 1..z}
             after == [c \in Calls |-> IF c \in dead THEN None ELSE state[c]]
         IN /\ gate' = gate \cup {l} /\ held' = held \cup {l}
            /\ unfinished' = unfinished - z
            /\ live_queued' = live_queued - (IF found THEN 1 ELSE 0)
            /\ call' = Woken(call)
            /\ IF found
               THEN /\ queue' = Tail(rest)
                    /\ state' = [after EXCEPT ![Head(rest)].started = TRUE]
                    /\ dispatch' = Append(dispatch, [lease |-> l, call |-> Head(rest)])
                    /\ pump' = Idle
               ELSE /\ queue' = rest /\ state' = after /\ UNCHANGED dispatch
                    /\ pump' = [pos |-> "release", lease |-> l, call |-> None]
    /\ UNCHANGED <<worker, pending_release, others, accepting, shut, runs>>

\* a slot: drop zombies, commit the head of the queue to it, or give it back
PumpGot ==
    /\ pump.pos = "acquire" /\ Cardinality(gate) + others < Limit
    /\ \E l \in FreshLease :
         LET z == Zombies
             found == z < Len(queue) /\ z < DrainLimit
             rest == SubSeq(queue, z + 1, Len(queue))
             dead == {queue[i] : i \in 1..z}
             after == [c \in Calls |-> IF c \in dead THEN None ELSE state[c]]
             freed == Unstarted(dead) + (IF found THEN 1 ELSE 0)
         IN /\ gate' = gate \cup {l} /\ held' = held \cup {l}
            /\ unfinished' = unfinished - z
            /\ live_queued' = live_queued - freed
            /\ call' = IF freed > 0 THEN Woken(call) ELSE call
            /\ IF found
               THEN /\ queue' = Tail(rest)
                    /\ state' = [after EXCEPT ![Head(rest)].started = TRUE]
                    /\ dispatch' = Append(dispatch, [lease |-> l, call |-> Head(rest)])
                    /\ pump' = Idle
               ELSE /\ queue' = rest /\ state' = after /\ UNCHANGED dispatch
                    /\ pump' = [pos |-> "release", lease |-> l, call |-> None]
    /\ UNCHANGED <<worker, pending_release, others, accepting, shut, runs>>

PumpReturns ==
    /\ pump.pos = "release"
    /\ ReleaseLease(pump.lease)
    /\ pump' = IF Stopped THEN Gone ELSE Idle
    /\ UNCHANGED <<call, state, queues, worker, accepting, shut, runs>>

Pump == PumpAsks \/ PumpRefused \/ PumpGot \/ PumpReturns

-----------------------------------------------------------------------------
(* worker and limited_worker *)

Run(w, c, l) ==
    /\ worker' = [worker EXCEPT ![w] = [pos |-> "run", lease |-> l, call |-> c]]
    /\ runs' = [runs EXCEPT ![c] = @ + 1]

\* worker: the head of the queue, unless its caller is gone
Take(w) ==
    /\ ~UseGlobalLimit /\ ~Stopped /\ worker[w].pos = "idle" /\ queue # <<>>
    /\ LET c == Head(queue) IN
       /\ queue' = Tail(queue)
       /\ IF state[c] = None \/ state[c].cancelled \/ call[c].future = "cancelled"
          THEN /\ state' = [state EXCEPT ![c] = None]
               /\ unfinished' = unfinished - 1
               /\ UNCHANGED <<worker, runs>>
          ELSE /\ state' = [state EXCEPT ![c].started = TRUE]
               /\ Run(w, c, None)
               /\ UNCHANGED unfinished
    /\ UNCHANGED <<call, live_queued, dispatch, pump, slots, accepting, shut>>

\* mutant: the slot is given back when the call starts
TakeDispatchedFree(w) ==
    /\ ~Stopped /\ worker[w].pos = "idle" /\ dispatch # <<>>
    /\ LET d == Head(dispatch) IN
       /\ dispatch' = Tail(dispatch)
       /\ Run(w, d.call, d.lease)
       /\ gate' = gate \ {d.lease} /\ held' = held \ {d.lease}
    /\ UNCHANGED <<call, state, queue, unfinished, live_queued, pump, pending_release, others,
                   accepting, shut>>

\* mutant: a dispatched call is run whatever became of its caller
TakeDispatchedDead(w) ==
    /\ ~Stopped /\ worker[w].pos = "idle" /\ dispatch # <<>>
    /\ LET d == Head(dispatch)
           c == d.call
       IN /\ dispatch' = Tail(dispatch)
          /\ Run(w, c, d.lease) /\ UNCHANGED <<state, unfinished>>
    /\ UNCHANGED <<call, queue, live_queued, pump, slots, accepting, shut>>

\* limited_worker: a dispatched call; its state stays in hand, so a call whose
\* future is settled goes straight to the clean-up
TakeDispatched(w) ==
    /\ ~Stopped /\ worker[w].pos = "idle" /\ dispatch # <<>>
    /\ LET d == Head(dispatch)
           c == d.call
       IN /\ dispatch' = Tail(dispatch)
          /\ IF call[c].future # "pending"
             THEN /\ worker' = [worker EXCEPT ![w] =
                                  [pos |-> "release", lease |-> d.lease, call |-> None]]
                  /\ state' = [state EXCEPT ![c] = None]
                  /\ unfinished' = unfinished - 1
                  /\ UNCHANGED runs
             ELSE Run(w, c, d.lease) /\ UNCHANGED <<state, unfinished>>
    /\ UNCHANGED <<call, queue, live_queued, pump, slots, accepting, shut>>

\* the function returns, raises or exceeds the execution timeout
Finish(w) ==
    /\ worker[w].pos = "run"
    /\ LET c == worker[w].call IN
       /\ \E f \in {"result", "error"} : call' = Settled(call, c, f)
       /\ state' = [state EXCEPT ![c] = None]
    /\ unfinished' = unfinished - 1
    /\ worker' = [worker EXCEPT ![w] = IF UseGlobalLimit
                                       THEN [@ EXCEPT !.pos = "release", !.call = None] ELSE Idle]
    /\ UNCHANGED <<queue, live_queued, dispatch, pump, slots, accepting, shut, runs>>

ReturnSlot(w) ==
    /\ worker[w].pos = "release"
    /\ ReleaseLease(worker[w].lease)
    /\ worker' = [worker EXCEPT ![w] = IF Stopped THEN Gone ELSE Idle]
    /\ UNCHANGED <<call, state, queues, pump, accepting, shut, runs>>

WorkerDies(w) ==
    /\ "worker_dies" \in Faults /\ worker[w].pos = "idle" /\ ~Stopped
    /\ worker' = [worker EXCEPT ![w] = Gone]
    /\ UNCHANGED <<call, state, queues, pump, slots, accepting, shut, runs>>

Work(w) == Take(w) \/ TakeDispatched(w) \/ Finish(w) \/ ReturnSlot(w)

-----------------------------------------------------------------------------
(* enhanced_health_check and _run_maintenance *)

\* a call that has run for too long fails; the worker goes on with it
FailStuck(c) ==
    /\ "stuck" \in Faults /\ ~Stopped
    /\ state[c] # None /\ state[c].started
    /\ call' = Settled(call, c, "error")
    /\ state' = [state EXCEPT ![c] = None]
    /\ UNCHANGED <<queues, worker, pump, slots, accepting, shut, runs>>

Restart ==
    /\ ~Stopped /\ \E w \in Workers : worker[w].pos = "gone"
    /\ worker' = [w \in Workers |-> IF worker[w].pos = "gone" THEN Idle ELSE worker[w]]
    /\ UNCHANGED <<call, state, queues, pump, slots, accepting, shut, runs>>

RetryReleases ==
    /\ ~Stopped /\ pending_release # {}
    /\ \E l \in pending_release : gate' = gate \ {l} /\ pending_release' = pending_release \ {l}
    /\ UNCHANGED <<call, state, queues, worker, pump, held, others, accepting, shut, runs>>

\* mutant: compaction forgets task_done
CompactUncounted ==
    /\ UseGlobalLimit /\ ~Stopped /\ Len(queue) - live_queued > CompactAt
    /\ LET dead == {c \in ToSet(queue) : Dead(c)} IN
       /\ queue' = SelectSeq(queue, LAMBDA c : c \notin dead)
       /\ UNCHANGED unfinished
       /\ state' = [c \in Calls |-> IF c \in dead THEN None ELSE state[c]]
       /\ live_queued' = live_queued - Unstarted(dead)
       /\ call' = IF Unstarted(dead) > 0 THEN Woken(call) ELSE call
    /\ UNCHANGED <<dispatch, worker, pump, slots, accepting, shut, runs>>

\* _compact_physical_queue
Compact ==
    /\ UseGlobalLimit /\ ~Stopped /\ Len(queue) - live_queued > CompactAt
    /\ LET dead == {c \in ToSet(queue) : Dead(c)} IN
       /\ queue' = SelectSeq(queue, LAMBDA c : c \notin dead)
       /\ unfinished' = unfinished - (Len(queue) - Len(queue'))
       /\ state' = [c \in Calls |-> IF c \in dead THEN None ELSE state[c]]
       /\ live_queued' = live_queued - Unstarted(dead)
       /\ call' = IF Unstarted(dead) > 0 THEN Woken(call) ELSE call
    /\ UNCHANGED <<dispatch, worker, pump, slots, accepting, shut, runs>>

Maintain == Restart \/ RetryReleases \/ Compact

-----------------------------------------------------------------------------
(* shutdown *)

\* mutant: shutdown does not wake those who wait for admission
CloseSilently ==
    /\ "shutdown" \in Faults /\ shut = "open"
    /\ accepting' = FALSE
    /\ shut' \in {"drain", "force"}
    /\ UNCHANGED <<call, state, queues, worker, pump, slots, runs>>

Close ==
    /\ "shutdown" \in Faults /\ shut = "open"
    /\ accepting' = FALSE
    /\ shut' \in {"drain", "force"}
    /\ call' = Woken(call)
    /\ UNCHANGED <<state, queues, worker, pump, slots, runs>>

\* queue.join returns, or times out
Drained ==
    /\ shut = "drain"
    /\ \/ unfinished = 0 /\ shut' = "pump"
       \/ unfinished > 0 /\ shut' = "force"
    /\ UNCHANGED <<call, state, queues, worker, pump, slots, accepting, runs>>

\* cancel every future, forget every state, empty the queue
Force ==
    /\ shut = "force"
    /\ call' = [c \in Calls |-> IF call[c].pos \in {"put", "wait"}
                                THEN Settled(call, c, "cancelled")[c] ELSE call[c]]
    /\ state' = [c \in Calls |-> None]
    /\ queue' = <<>> /\ unfinished' = unfinished - Len(queue)
    /\ shut' = "pump"
    /\ UNCHANGED <<live_queued, dispatch, worker, pump, slots, accepting, runs>>

\* cancel the pump: an acquire in flight may leave a lease that nobody knows of
StopPump ==
    /\ shut = "pump"
    /\ pump' = Gone
    /\ \/ pump.pos = "acquire" /\ Cardinality(gate) + others < Limit
          /\ \E l \in FreshLease : gate' = gate \cup {l}
          /\ UNCHANGED <<held, pending_release>>
       \/ pump.pos \in {"idle", "gone", "acquire"} /\ UNCHANGED <<held, pending_release, gate>>
       \/ /\ pump.pos = "release"
          /\ pending_release' = pending_release \cup {pump.lease}
          /\ held' = held \ {pump.lease}
          /\ gate' \in {gate, gate \ {pump.lease}}
    /\ shut' = "workers"
    /\ UNCHANGED <<call, state, queues, worker, others, accepting, runs>>

\* cancel a worker: a call it runs is cancelled and cleaned up, a release it is
\* waiting for is left to the end of shutdown
StopWorker(w) ==
    /\ shut = "workers"
    /\ \/ /\ worker[w].pos = "idle"
          /\ worker' = [worker EXCEPT ![w] = Gone]
          /\ UNCHANGED <<call, state, unfinished, slots>>
       \/ /\ worker[w].pos = "run"
          /\ call' = Settled(call, worker[w].call, "cancelled")
          /\ state' = [state EXCEPT ![worker[w].call] = None]
          /\ unfinished' = unfinished - 1
          /\ worker' = [worker EXCEPT ![w] = IF UseGlobalLimit
                                 THEN [@ EXCEPT !.pos = "release", !.call = None] ELSE Gone]
          /\ UNCHANGED slots
       \/ /\ worker[w].pos = "release"
          /\ held' = held \ {worker[w].lease}
          /\ pending_release' = pending_release \cup {worker[w].lease}
          /\ gate' \in {gate, gate \ {worker[w].lease}}
          /\ worker' = [worker EXCEPT ![w] = Gone]
          /\ UNCHANGED <<call, state, unfinished, others>>
    /\ UNCHANGED <<queue, live_queued, dispatch, pump, accepting, shut, runs>>

WorkersStopped ==
    /\ shut = "workers" /\ \A w \in Workers : worker[w].pos = "gone"
    /\ shut' = "dispatch"
    /\ UNCHANGED <<call, state, queues, worker, pump, slots, accepting, runs>>

\* cancel what was dispatched and not taken, one by one
DrainDispatch ==
    /\ shut = "dispatch"
    /\ IF dispatch = <<>>
       THEN shut' = "leases" /\ UNCHANGED <<call, state, unfinished, dispatch, slots>>
       ELSE LET d == Head(dispatch) IN
            /\ call' = Settled(call, d.call, "cancelled")
            /\ state' = [state EXCEPT ![d.call] = None]
            /\ unfinished' = unfinished - 1
            /\ dispatch' = Tail(dispatch)
            /\ ReleaseLease(d.lease)
            /\ UNCHANGED shut
    /\ UNCHANGED <<queue, live_queued, worker, pump, accepting, runs>>

\* return what is left, best effort
ReturnLeases ==
    /\ shut = "leases"
    /\ held' = {} /\ pending_release' = {}
    /\ gate' \in {gate \ (held \cup pending_release)}
                   \cup (IF "release_fails" \in Faults THEN {gate} ELSE {})
    /\ shut' = "closed"
    /\ UNCHANGED <<call, state, queues, worker, pump, others, accepting, runs>>

Shutdown ==
    \/ Drained \/ Force \/ StopPump \/ WorkersStopped \/ DrainDispatch \/ ReturnLeases
    \/ \E w \in Workers : StopWorker(w)

-----------------------------------------------------------------------------
\* other processes take and return slots
Others ==
    /\ "others" \in Faults
    /\ others' \in 0..(Limit - Cardinality(gate))
    /\ UNCHANGED <<call, state, queues, worker, pump, held, pending_release, gate,
                   accepting, shut, runs>>

Next ==
    \/ \E c \in Calls : Caller(c) \/ QueueTimeout(c) \/ Cancel(c) \/ UserTimeout(c) \/ FailStuck(c)
    \/ \E w \in Workers : Work(w) \/ WorkerDies(w)
    \/ Pump \/ Maintain \/ Close \/ Shutdown \/ Others

Spec == Init /\ [][Next]_vars

\* what the event loop goes on with: a function call ends because of its execution
\* timeout
CallerRuns(c) == Admit(c) \/ Put(c) \/ Return(c) \/ EndCleanup(c)
WorkerRuns(w) == Work(w) \/ StopWorker(w)
PumpRuns == PumpAsks \/ PumpRefused \/ PumpReturns

-----------------------------------------------------------------------------
(* Properties *)

\* The logical capacity that admission counts is exactly that of the calls that
\* are registered and not started: every reservation is given back once,
\* whichever of pump, compaction, caller and health check lets the call go.
LiveQueuedExact == UseGlobalLimit /\ accepting => live_queued = Unstarted(Calls)

\* Every unfinished task of the queue is queued, dispatched or being run, so join
\* returns exactly when the work is done.
UnfinishedExact == unfinished = Len(queue) + Len(dispatch) + Executing

\* Whoever runs holds a slot of its own: the number of running calls of all
\* processes stays within the limit.
RunsHoldSlots ==
    UseGlobalLimit =>
        \A w \in Workers : worker[w].pos = "run" =>
            /\ worker[w].lease \in gate \cap held
            /\ \A v \in Workers \ {w} : worker[v].lease # worker[w].lease
            /\ \A i \in 1..Len(dispatch) : dispatch[i].lease # worker[w].lease

\* Until the pump is stopped, a slot that the gate has recorded for this process
\* is known to it, and will be renewed or released.
NoSlotForgotten ==
    shut \in {"open", "drain", "force", "pump"} =>
        gate \subseteq held \cup pending_release

\* The function is started at most once for a call, and never for one whose
\* caller has left.
RunsOnceStep ==
    \A c \in Calls : runs'[c] # runs[c] =>
          runs[c] = 0 /\ call[c].pos # "done" /\ call[c].future = "pending"

\* admitted and not yet answered
Unanswered(c) == call[c].pos \notin {"new", "done"}
=============================================================================
