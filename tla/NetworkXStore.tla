---------------------------- MODULE NetworkXStore ----------------------------
(***************************************************************************)
(* lightrag/kg/networkx_impl.py, with the writers that drive it: documents  *)
(* of one pipeline batch (pipeline.py) that run at once in one process, and *)
(* admin edits (lightrag.py, _admin_write_gate), one at a time in any.      *)
(*                                                                          *)
(* The graph is one object in the memory of each process, published as a    *)
(* whole by rewriting one file.  There is no redo log: a writer that finds  *)
(* the file moved declines, and a reload throws away what was not saved.    *)
(* A mutator takes the object in one critical section and changes it later, *)
(* without a lock.  A graph is the set of the changes it has; a change is   *)
(* <<operation, number>>.  The count of missed notifications is left out,   *)
(* and so are exceptions of an edit that do not come from the store.        *)
(***************************************************************************)
EXTENDS Naturals, FiniteSets

CONSTANTS Procs, Docs, Admins,
          Home,         \* the process that an operation runs in
          Changes,      \* the changes that each operation makes
          Faults        \* what a model injects

VARIABLES file,         \* what is saved
          s,            \* what each process holds
          lock,         \* the operation in its save, if any
          ops,          \* the progress of each operation
          cancel,       \* cancellation_requested of the running batch
          promised,     \* history: changes of operations reported as done
          banned        \* history: changes of edits reported as failed

vars == <<file, s, lock, ops, cancel, promised, banned>>

Ops == Docs \cup Admins
Of(o) == {<<o, k>> : k \in 1..Changes}
Fence == Cardinality(Procs) > 1     \* fence_enabled: more than one process
Reads == {"ok"} \cup (Faults \cap {"stat", "load"})

GraphAssumption ==
    /\ Docs \cap Admins = {} /\ Home \in [Ops -> Procs] /\ Changes \in Nat \ {0}
    /\ Faults \subseteq {"save", "notify", "stat", "load", "cancel", "drop"}

TypeOK ==
    /\ file.rows \subseteq UNION {Of(o) : o \in Ops} /\ file.exists \in BOOLEAN
    /\ \A p \in Procs : s[p].graph \subseteq UNION {Of(o) : o \in Ops}
    /\ \A p \in Procs : s[p].loaded \in {"current", "old", "missing", "unknown"}
    /\ \A p \in Procs : s[p].gate <=> lock = {} \/ \A o \in lock : Home[o] # p
    /\ Cardinality(lock) <= 1 /\ cancel \in BOOLEAN
    /\ \A o \in Ops : ops[o].at \in {"idle", "work", "got", "fenced", "saving",
                                     "flushed", "failing", "ok", "failed"}

\* the processes that a notification reaches: all, or some
Told == {Procs} \cup (IF "notify" \in Faults THEN SUBSET Procs ELSE {})

Active(o) == ops[o].at \notin {"idle", "ok", "failed"}

Fresh == [graph |-> {}, loaded |-> "missing", flag |-> FALSE, owed |-> FALSE,
          dirty |-> FALSE, discard |-> FALSE, gate |-> TRUE]

Init ==
    /\ file = [rows |-> {}, exists |-> FALSE]
    /\ s = [p \in Procs |-> Fresh]
    /\ lock = {} /\ ops = [o \in Ops |-> [at |-> "idle", live |-> FALSE, made |-> {}, seen |-> {}]]
    /\ cancel = FALSE /\ promised = {} /\ banned = {}

-----------------------------------------------------------------------------
(* Reload *)

Now == IF file.exists THEN "current" ELSE "missing"

\* mutant: the notification alone decides
DivergedByFlag(x, r) == FALSE

\* _peer_commit_detected: a file that cannot be sampled reports no change
Diverged(x, r) == Fence /\ r # "stat" /\ x.loaded # Now

\* _reload_locked: it refuses a file it cannot sample and stays owed; the backstop
\* is armed before the file is read
Reload(x, r, arm) ==
    LET y == [x EXCEPT !.discard = @ \/ (arm /\ x.dirty /\ r # "stat")]
    IN IF r = "ok"
       THEN [y EXCEPT !.graph = file.rows, !.dirty = FALSE, !.loaded = Now, !.flag = FALSE,
                      !.owed = FALSE]
       ELSE [y EXCEPT !.owed = TRUE]

Due(x, r) == x.owed \/ x.flag \/ Diverged(x, r)

\* what _get_graph leaves, and whether it serves the graph
Looked(x, r) ==
    IF Due(x, r) THEN Reload(x, r, ~x.owed)
    ELSE IF Fence /\ r = "stat" /\ x.loaded = "unknown" THEN [x EXCEPT !.owed = TRUE]
    ELSE x

Served(x, r) == ~Looked(x, r).owed

\* the operations of p that hold an object which is no longer the graph
Handles(p, swapped) == [o \in Ops |->
    [ops[o] EXCEPT !.live = @ /\ ~(swapped /\ Home[o] = p)]]

-----------------------------------------------------------------------------
(* Operations *)

\* _admin_write_gate and the busy reservation: an edit runs alone, documents run
\* in one process
Begin(o) ==
    /\ ops[o].at = "idle"
    /\ \A i \in Ops : Active(i) => o \in Docs /\ i \in Docs /\ Home[i] = Home[o]
    /\ cancel => \A i \in Ops : ~Active(i)
    /\ ops' = [ops EXCEPT ![o].at = "work"] /\ cancel' = FALSE
    /\ UNCHANGED <<file, s, lock, promised, banned>>

\* the end of an operation as its caller reports it
Report(o, how, h) ==
    /\ ops' = [h EXCEPT ![o].at = how, ![o].live = FALSE, ![o].seen = {}]
    /\ promised' = IF how = "ok" THEN promised \cup Of(o) ELSE promised
    /\ banned' = IF how = "failed" /\ o \in Admins THEN banned \cup Of(o) ELSE banned

\* a commit that was declined or raised: an edit fails at once, a document fails
\* when the flush of the other stores is over
Refuse(o, h) ==
    \/ o \in Admins /\ Report(o, "failed", h)
    \/ o \in Docs /\ ops' = [h EXCEPT ![o].at = "failing"] /\ UNCHANGED <<promised, banned>>

\* _get_graph on behalf of a mutator: the object, or an exception
GetGraph(o) ==
    /\ ops[o].at = "work" /\ ops[o].made # 1..Changes /\ lock = {}
    /\ \E r \in Reads : LET x == s[Home[o]] IN
         /\ s' = [s EXCEPT ![Home[o]] = Looked(x, r)]
         /\ LET h == Handles(Home[o], Due(x, r) /\ Served(x, r)) IN
            IF Served(x, r)
            THEN /\ ops' = [h EXCEPT ![o].at = "got", ![o].live = TRUE]
                 /\ UNCHANGED <<promised, banned>>
            ELSE Report(o, "failed", h)
    /\ UNCHANGED <<file, lock, cancel>>

\* ... and on behalf of a reader
Read(p) ==
    /\ lock = {}
    /\ \E r \in Reads : LET x == s[p] IN
         /\ Looked(x, r) # x
         /\ s' = [s EXCEPT ![p] = Looked(x, r)]
         /\ ops' = Handles(p, Due(x, r) /\ Served(x, r))
    /\ UNCHANGED <<file, lock, cancel, promised, banned>>

\* mutant: the gate is not waited for
MutateUngated(o) ==
    /\ ops[o].at = "got"
    /\ LET k == Cardinality(ops[o].made) + 1 IN
         /\ ops' = [ops EXCEPT ![o].at = "work", ![o].live = FALSE, ![o].made = @ \cup {k}]
         /\ s' = [s EXCEPT ![Home[o]].dirty = TRUE,
                           ![Home[o]].graph = IF ops[o].live THEN @ \cup {<<o, k>>} ELSE @]
    /\ UNCHANGED <<file, lock, cancel, promised, banned>>

\* upsert_node, upsert_edge, delete_node and the batches: once the gate is open,
\* on the object that was served
Mutate(o) ==
    /\ ops[o].at = "got" /\ s[Home[o]].gate
    /\ LET k == Cardinality(ops[o].made) + 1 IN
         /\ ops' = [ops EXCEPT ![o].at = "work", ![o].live = FALSE, ![o].made = @ \cup {k}]
         /\ s' = [s EXCEPT ![Home[o]].dirty = TRUE,
                           ![Home[o]].graph = IF ops[o].live THEN @ \cup {<<o, k>>} ELSE @]
    /\ UNCHANGED <<file, lock, cancel, promised, banned>>

\* a document checks for an abort before and after its flush
RaiseIfCancelled(o) ==
    /\ o \in Docs /\ cancel
    /\ (ops[o].at = "work" /\ ops[o].made = 1..Changes) \/ ops[o].at = "flushed"
    /\ Report(o, "failed", ops)
    /\ UNCHANGED <<file, s, lock, cancel>>

\* _discard_uncommitted_graph_mutations: an edit is interrupted
Interrupt(o) ==
    /\ "cancel" \in Faults /\ o \in Admins /\ ops[o].at \in {"work", "got", "fenced"}
    /\ s' = [s EXCEPT ![Home[o]].owed = @ \/ s[Home[o]].dirty]
    /\ Report(o, "failed", ops)
    /\ UNCHANGED <<file, lock, cancel>>

-----------------------------------------------------------------------------
(* index_done_callback *)

\* the first critical section: the backstop refuses, a stale writer declines
CommitFence(o) ==
    /\ ops[o].at = "work" /\ ops[o].made = 1..Changes /\ lock = {} /\ ~(o \in Docs /\ cancel)
    /\ LET x == s[Home[o]] IN
       \/ /\ x.discard
          /\ s' = [s EXCEPT ![Home[o]] = [x EXCEPT !.discard = FALSE, !.owed = @ \/ x.dirty]]
          /\ Refuse(o, ops)
       \/ \E r \in Reads :
            /\ ~x.discard /\ Due(x, r)
            /\ s' = [s EXCEPT ![Home[o]] = Reload(x, r, FALSE)]
            /\ Refuse(o, Handles(Home[o], r = "ok"))
       \/ /\ ~x.discard /\ \E r \in Reads : ~Due(x, r)
          /\ ops' = [ops EXCEPT ![o].at = "fenced"]
          /\ UNCHANGED <<s, promised, banned>>
    /\ UNCHANGED <<file, lock, cancel>>

\* the second one: the gate is closed and a worker thread writes the graph ...
SaveBegin(o) ==
    /\ ops[o].at = "fenced" /\ lock = {}
    /\ lock' = {o} /\ s' = [s EXCEPT ![Home[o]].gate = FALSE]
    /\ ops' = [ops EXCEPT ![o].at = "saving", ![o].seen = s[Home[o]].graph]
    /\ UNCHANGED <<file, cancel, promised, banned>>

\* ... which lands, without what the thread did not come across, and is announced
SaveLands(o) ==
    /\ ops[o].at = "saving"
    /\ \E missed \in SUBSET (s[Home[o]].graph \ ops[o].seen) :
         file' = [rows |-> s[Home[o]].graph \ missed, exists |-> TRUE]
    /\ \E r \in Reads \ {"load"}, told \in Told :
         s' = [p \in Procs |->
                 IF p = Home[o]
                 THEN [s[p] EXCEPT !.gate = TRUE, !.dirty = FALSE,
                                   !.loaded = IF r = "ok" THEN "current" ELSE "unknown",
                                   !.flag = IF told = Procs THEN FALSE ELSE @ \/ p \in told]
                 ELSE [s[p] EXCEPT !.flag = @ \/ p \in told,
                                   !.loaded = IF @ = "current" THEN "old" ELSE @]]
    /\ \/ o \in Admins /\ Report(o, "ok", ops)
       \/ o \in Docs /\ ops' = [ops EXCEPT ![o].at = "flushed"] /\ UNCHANGED <<promised, banned>>
    /\ lock' = {} /\ UNCHANGED cancel

\* mutant: the graph is kept as it is
SaveFailsKeeping(o) ==
    /\ "save" \in Faults /\ ops[o].at = "saving"
    /\ s' = [s EXCEPT ![Home[o]].gate = TRUE]
    /\ Refuse(o, ops)
    /\ lock' = {} /\ UNCHANGED <<file, cancel>>

\* mutant: the gate stays closed
SaveFailsLocked(o) ==
    /\ "save" \in Faults /\ ops[o].at = "saving"
    /\ \E r \in Reads :
         /\ s' = [s EXCEPT ![Home[o]] = Reload(s[Home[o]], r, FALSE)]
         /\ Refuse(o, Handles(Home[o], r = "ok"))
    /\ lock' = {} /\ UNCHANGED <<file, cancel>>

\* ... or fails, and what is in memory is thrown away
SaveFails(o) ==
    /\ "save" \in Faults /\ ops[o].at = "saving"
    /\ \E r \in Reads :
         /\ s' = [s EXCEPT ![Home[o]] = [Reload(s[Home[o]], r, FALSE) EXCEPT !.gate = TRUE]]
         /\ Refuse(o, Handles(Home[o], r = "ok"))
    /\ lock' = {} /\ UNCHANGED <<file, cancel>>

\* a document whose flush failed aborts the batch
FailDoc(o) ==
    /\ ops[o].at = "failing"
    /\ Report(o, "failed", ops) /\ cancel' = TRUE
    /\ UNCHANGED <<file, s, lock>>

\* a document whose flush is over is marked PROCESSED
Processed(o) ==
    /\ ops[o].at = "flushed" /\ ~cancel
    /\ Report(o, "ok", ops)
    /\ UNCHANGED <<file, s, lock, cancel>>

\* drop, under the reservation
Drop(p) ==
    /\ "drop" \in Faults /\ lock = {} /\ \A o \in Ops : ~Active(o)
    /\ file' = [rows |-> {}, exists |-> FALSE] /\ promised' = {}
    /\ \E r \in Reads \ {"load"}, told \in Told :
         s' = [q \in Procs |->
                 IF q = p THEN [Fresh EXCEPT !.loaded = IF r = "ok" THEN "missing" ELSE "unknown"]
                 ELSE [s[q] EXCEPT !.flag = @ \/ q \in told,
                                   !.loaded = IF @ = "current" THEN "old" ELSE @]]
    /\ UNCHANGED <<lock, ops, cancel, banned>>

Next ==
    \/ \E o \in Ops : \/ Begin(o) \/ GetGraph(o) \/ Mutate(o) \/ RaiseIfCancelled(o) \/ Interrupt(o)
                      \/ CommitFence(o) \/ SaveBegin(o) \/ SaveLands(o) \/ SaveFails(o)
                      \/ FailDoc(o) \/ Processed(o)
    \/ \E p \in Procs : Read(p) \/ Drop(p)

\* every operation that began is carried on; the worker thread returns
CarryOn(o) ==
    \/ GetGraph(o) \/ Mutate(o) \/ RaiseIfCancelled(o) \/ CommitFence(o) \/ SaveBegin(o)
    \/ SaveLands(o) \/ SaveFails(o) \/ FailDoc(o) \/ Processed(o)

Spec == Init /\ [][Next]_vars

-----------------------------------------------------------------------------
(* Properties *)

\* What a caller was told is done stays in the file until the store is dropped: a
\* reload never takes a change away without its commit being refused, and no commit
\* goes over another process's.
PromisesKept == promised \subseteq file.rows

\* What a caller was told has failed is not published by a later commit of somebody
\* else.
FailedNotPublished == banned \cap file.rows = {}

\* Nothing changes a graph while a worker thread is serialising it, although mutators
\* hold no lock.
StillWhileSaved == \A o \in Ops : ops[o].at = "saving" => ops[o].seen = s[Home[o]].graph
=============================================================================
