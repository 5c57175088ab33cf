--------------------------- MODULE NanoVectorStore ---------------------------
(***************************************************************************)
(* lightrag/kg/nano_vector_db_impl.py: one JSON file of vectors, a client   *)
(* in memory in every process, writes that are buffered until               *)
(* index_done_callback, and two redo logs that carry what was applied to    *)
(* the client and not yet saved across a reload.                            *)
(*                                                                          *)
(* Every operation holds the namespace lock of the store, across processes, *)
(* so it is one step; a read takes the lock twice and is two.  A row is the *)
(* number of the write that made it (__write_seq__), 0 for none.  The file  *)
(* fingerprint is kept as what it is compared for; a stat of the file       *)
(* succeeds.  An operation that fails before it changed anything is the      *)
(* absence of a step.                                                       *)
(***************************************************************************)
EXTENDS Naturals, FiniteSets

CONSTANTS Procs, Ids,
          Writers,      \* the processes that write
          Readers,      \* the processes whose reads are followed
          Incident,     \* ids of the relations of the entity that is deleted
          MaxSeq,       \* bound on the writes
          Faults        \* what a model injects

VARIABLES disk, exists, \* rows of the file; whether there is one
          s,            \* what each process holds
          seq,          \* the last write number
          want,         \* history: what each process last asked for, by id
          touched,      \* history: ids another process changed in the file since
          loose,        \* history: ids whose queued write was given up since
          rd            \* a read between its two critical sections

vars == <<disk, exists, s, seq, want, touched, loose, rd>>

StoreAssumption ==
    /\ MaxSeq \in Nat /\ Writers \cup Readers \subseteq Procs /\ Incident \subseteq Ids
    /\ Faults \subseteq {"embed", "save", "notify", "reset", "crash", "drop"}

Row == 0..MaxSeq
Rows == [Ids -> Row]
Empty == [i \in Ids |-> 0]
NoRead == [id |-> {}, redo |-> 0, logged |-> 0, seen |-> {}]

Process == [pos : {"down", "made", "up"}, client : Rows,
            loaded : {"current", "old", "missing", "none"}, flag : BOOLEAN,
            pend : Rows, pdel : SUBSET Ids, udel : Rows, uups : Rows, dirty : BOOLEAN]

TypeOK ==
    /\ disk \in Rows /\ exists \in BOOLEAN /\ seq \in Row
    /\ s \in [Procs -> Process]
    /\ \A p \in Procs : s[p].pdel \cap {i \in Ids : s[p].pend[i] # 0} = {}
    /\ want \in [Procs -> Rows] /\ {touched, loose} \subseteq [Procs -> SUBSET Ids]
    /\ rd \in [Procs -> [id : SUBSET Ids, redo : Row, logged : Row, seen : SUBSET Row]]

Down == [pos |-> "down", client |-> Empty, loaded |-> "none", flag |-> FALSE,
         pend |-> Empty, pdel |-> {}, udel |-> Empty, uups |-> Empty, dirty |-> FALSE]

Init ==
    /\ disk = Empty /\ exists = FALSE /\ seq = 0
    /\ s = [p \in Procs |-> Down]
    /\ want = [p \in Procs |-> Empty] /\ touched = [p \in Procs |-> {}]
    /\ loose = [p \in Procs |-> {}] /\ rd = [p \in Procs |-> NoRead]

-----------------------------------------------------------------------------
(* Reload *)

\* the fingerprint of the file as it is now
Sample == IF exists THEN "current" ELSE "missing"

\* mutant: the notification alone decides
DivergedNever(x) == FALSE

\* _peer_commit_detected: the recorded fingerprint is not that of the file
Diverged(x) == x.loaded # Sample

\* _reload_client_from_disk_locked: on notification or divergence, whatever the
\* client holds
Reload(x) ==
    IF x.flag \/ Diverged(x)
    THEN [x EXCEPT !.client = disk, !.loaded = Sample, !.flag = FALSE] ELSE x

\* the others recorded a fingerprint that the file no longer has
Outdate(x) == IF x.loaded = "current" THEN [x EXCEPT !.loaded = "old"] ELSE x

-----------------------------------------------------------------------------
(* Flush *)

\* queued deletes, and the logged ones whose very row is back
Deleted(x) ==
    LET hit == {i \in Ids : x.client[i] # 0 /\ (i \in x.pdel \/ x.udel[i] = x.client[i])}
    IN [x EXCEPT !.client = [i \in Ids |-> IF i \in hit THEN 0 ELSE @[i]],
                 !.udel = [i \in Ids |-> IF i \in hit THEN x.client[i] ELSE @[i]],
                 !.dirty = @ \/ hit # {}, !.pdel = {}]

\* logged upserts that the client lost, unless a newer row took their place
Replayed(x) ==
    LET open == {i \in Ids : x.uups[i] # 0 /\ x.pend[i] = 0}
        superseded == {i \in open : x.client[i] > x.uups[i]}
        replay == {i \in open : x.client[i] < x.uups[i]}
    IN [x EXCEPT !.client = [i \in Ids |-> IF i \in replay THEN x.uups[i] ELSE @[i]],
                 !.uups = [i \in Ids |-> IF i \in superseded THEN 0 ELSE @[i]],
                 !.dirty = @ \/ replay # {}]

\* queued upserts, once embedded
Materialized(x) ==
    LET new == {i \in Ids : x.pend[i] # 0}
    IN [x EXCEPT !.client = [i \in Ids |-> IF i \in new THEN x.pend[i] ELSE @[i]],
                 !.uups = [i \in Ids |-> IF i \in new THEN x.pend[i] ELSE @[i]],
                 !.dirty = @ \/ new # {}, !.pend = Empty]

-----------------------------------------------------------------------------
(* Commit *)

\* the ids that another process changed under p
Touch(p, d) == touched' = [q \in Procs |->
    IF q = p THEN touched[q] ELSE touched[q] \cup {i \in Ids : d[i] # disk[i]}]

\* what the committed hook leaves of the writer
Committed(x) == [x EXCEPT !.loaded = "current", !.flag = FALSE, !.dirty = FALSE,
                          !.udel = Empty, !.uups = Empty]

\* _save_to_disk_locked: it fails; it lands and everybody is notified; it lands
\* and some are notified, and the logs stay; it lands and the process dies
Save(p, x) ==
    \/ /\ "save" \in Faults
       /\ s' = [s EXCEPT ![p] = x] /\ UNCHANGED <<disk, exists, touched>>
    \/ /\ disk' = x.client /\ exists' = TRUE /\ Touch(p, x.client)
       /\ \/ s' = [q \in Procs |-> IF q = p THEN Committed(x)
                                   ELSE [Outdate(s[q]) EXCEPT !.flag = TRUE]]
          \/ /\ "notify" \in Faults
             /\ \E told \in SUBSET Procs :
                  s' = [q \in Procs |-> IF q = p THEN [x EXCEPT !.loaded = "current",
                                                                !.flag = @ \/ p \in told]
                                        ELSE [Outdate(s[q]) EXCEPT !.flag = @ \/ q \in told]]
          \/ /\ "crash" \in Faults
             /\ s' = [q \in Procs |-> IF q = p THEN Down ELSE Outdate(s[q])]

\* index_done_callback: reload, flush, save, whether or not there was anything
IndexDone(p) ==
    /\ s[p].pos = "up"
    /\ LET y == Replayed(Deleted(Reload(s[p]))) IN
         \/ /\ "embed" \in Faults /\ y.pend # Empty
            /\ s' = [s EXCEPT ![p] = y] /\ UNCHANGED <<disk, exists, touched>>
         \/ Save(p, Materialized(y))
    /\ UNCHANGED <<seq, want, loose>>

\* finalize: only what is left, and nothing when the flush applied nothing
Finalize(p) ==
    /\ s[p].pos = "up"
    /\ s[p].pend # Empty \/ s[p].pdel # {} \/ s[p].udel # Empty \/ s[p].uups # Empty \/ s[p].dirty
    /\ LET x == Reload(s[p])
           y == Replayed(Deleted(IF x = s[p] THEN x ELSE [x EXCEPT !.dirty = FALSE]))
       IN
         \/ /\ "embed" \in Faults /\ y.pend # Empty
            /\ s' = [s EXCEPT ![p] = y] /\ UNCHANGED <<disk, exists, touched>>
         \/ LET z == Materialized(y) IN
            IF z.dirty THEN Save(p, z)
            ELSE s' = [s EXCEPT ![p] = z] /\ UNCHANGED <<disk, exists, touched>>
    /\ UNCHANGED <<seq, want, loose>>

\* drop: remove the file, then forget everything; the client may fail to be
\* replaced, and then it is marked for reload; notification may fail
Drop(p) ==
    /\ "drop" \in Faults /\ s[p].pos = "up"
    /\ disk' = Empty /\ exists' = FALSE /\ Touch(p, Empty)
    /\ \E reset \in {TRUE} \cup (IF "reset" \in Faults THEN {FALSE} ELSE {}),
          told \in {Procs} \cup (IF "notify" \in Faults THEN SUBSET Procs ELSE {}) :
         s' = [q \in Procs |->
                 IF q # p THEN [Outdate(s[q]) EXCEPT !.flag = @ \/ q \in told]
                 ELSE IF reset THEN [Down EXCEPT !.pos = "up", !.loaded = "missing"]
                 ELSE [Down EXCEPT !.pos = "up", !.flag = TRUE, !.client = s[p].client,
                                   !.dirty = s[p].dirty]]
    /\ want' = [want EXCEPT ![p] = Empty] /\ loose' = [loose EXCEPT ![p] = {}]
    /\ UNCHANGED seq

-----------------------------------------------------------------------------
(* Buffered writes *)

\* p asked for value v of the ids in set
Ask(p, set, v) ==
    /\ want' = [want EXCEPT ![p] = [i \in Ids |-> IF i \in set THEN v ELSE @[i]]]
    /\ touched' = [touched EXCEPT ![p] = @ \ set] /\ loose' = [loose EXCEPT ![p] = @ \ set]
    /\ UNCHANGED <<disk, exists>>

\* mutant: a queued delete of the same id is kept
UpsertOnly(p, i) ==
    /\ s[p].pos = "up" /\ seq < MaxSeq
    /\ seq' = seq + 1
    /\ s' = [s EXCEPT ![p].pend[i] = seq + 1]
    /\ Ask(p, {i}, seq + 1)

Upsert(p, i) ==
    /\ s[p].pos = "up" /\ seq < MaxSeq
    /\ seq' = seq + 1
    /\ s' = [s EXCEPT ![p].pend[i] = seq + 1, ![p].pdel = @ \ {i}]
    /\ Ask(p, {i}, seq + 1)

\* mutant: the redo log still holds the row
DeleteUnlogged(p, i) ==
    /\ s[p].pos = "up"
    /\ s' = [s EXCEPT ![p].pend[i] = 0, ![p].pdel = @ \cup {i}]
    /\ Ask(p, {i}, 0)
    /\ UNCHANGED seq

Delete(p, i) ==
    /\ s[p].pos = "up"
    /\ s' = [s EXCEPT ![p].pend[i] = 0, ![p].uups[i] = 0, ![p].pdel = @ \cup {i}]
    /\ Ask(p, {i}, 0)
    /\ UNCHANGED seq

\* what a delete on the client does to the rows of set
Struck(x, set) ==
    LET hit == {i \in set : x.client[i] # 0}
    IN [x EXCEPT !.client = [i \in Ids |-> IF i \in hit THEN 0 ELSE @[i]],
                 !.pdel = @ \ hit,
                 !.udel = [i \in Ids |-> IF i \in hit THEN x.client[i] ELSE @[i]],
                 !.dirty = @ \/ hit # {},
                 !.pend = [i \in Ids |-> IF i \in set THEN 0 ELSE @[i]],
                 !.uups = [i \in Ids |-> IF i \in set THEN 0 ELSE @[i]]]

DeleteEntity(p, i) ==
    /\ s[p].pos = "up"
    /\ s' = [s EXCEPT ![p] = Struck(Reload(s[p]), {i})]
    /\ Ask(p, {i}, 0)
    /\ UNCHANGED seq

DeleteEntityRelation(p) ==
    /\ s[p].pos = "up" /\ Incident # {}
    /\ s' = [s EXCEPT ![p] = Struck(Reload(s[p]), Incident)]
    /\ Ask(p, Incident, 0)
    /\ UNCHANGED seq

-----------------------------------------------------------------------------
(* Reads *)

\* the answer for id i: what the first section found, then the client
Resolve(redo, logged, resident) ==
    IF redo # 0 THEN (IF resident > redo THEN resident ELSE redo)
    ELSE IF resident = logged THEN 0 ELSE resident

Resident(x, d, mark, i) == IF x.flag \/ x.loaded # mark THEN d[i] ELSE x.client[i]

\* a read of i that nothing interrupts
View(x, d, mark, i) ==
    IF x.pend[i] # 0 THEN x.pend[i]
    ELSE IF i \in x.pdel THEN 0
    ELSE Resolve(x.uups[i], x.udel[i], Resident(x, d, mark, i))

\* drop_pending_index_ops: the queues, not the logs
DropPending(p) ==
    /\ s[p].pos = "up" /\ (s[p].pend # Empty \/ s[p].pdel # {})
    /\ s' = [s EXCEPT ![p].pend = Empty, ![p].pdel = {}]
    /\ loose' = [loose EXCEPT ![p] = @ \cup s[p].pdel \cup {i \in Ids : s[p].pend[i] # 0}]
    /\ UNCHANGED <<disk, exists, seq, want, touched>>

\* mutant: the queued upserts are not consulted
ReadBeginStored(p, i) ==
    /\ p \in Readers /\ s[p].pos = "up" /\ rd[p] = NoRead
    /\ rd' = [rd EXCEPT ![p] = [id |-> {i}, redo |-> s[p].uups[i], logged |-> s[p].udel[i],
                                seen |-> {View(s[p], disk, Sample, i)}]]
    /\ UNCHANGED <<disk, exists, s, seq, want, touched, loose>>

\* get_by_id, get_by_ids, get_vectors_by_ids: the queues and the logs first ...
ReadBegin(p, i) ==
    /\ p \in Readers /\ s[p].pos = "up" /\ rd[p] = NoRead
    /\ s[p].pend[i] = 0 /\ i \notin s[p].pdel
    /\ rd' = [rd EXCEPT ![p] = [id |-> {i}, redo |-> s[p].uups[i], logged |-> s[p].udel[i],
                                seen |-> {View(s[p], disk, Sample, i)}]]
    /\ UNCHANGED <<disk, exists, s, seq, want, touched, loose>>

\* ... and the client, reloaded if need be, after the lock was let go
ReadEnd(p) ==
    /\ rd[p] # NoRead /\ s[p].pos = "up"
    /\ s' = [s EXCEPT ![p] = Reload(s[p])]
    /\ rd' = [rd EXCEPT ![p] = NoRead]
    /\ UNCHANGED <<disk, exists, seq, want, touched, loose>>

\* query and client_storage: _get_client
Refresh(p) ==
    /\ s[p].pos = "up"
    /\ Reload(s[p]) # s[p] /\ s' = [s EXCEPT ![p] = Reload(s[p])]
    /\ UNCHANGED <<disk, exists, seq, want, touched, loose>>

-----------------------------------------------------------------------------
(* Start and end of a process *)

\* __post_init__ samples the file ...
Construct(p) ==
    /\ s[p].pos = "down"
    /\ s' = [s EXCEPT ![p] = [Down EXCEPT !.pos = "made", !.loaded = Sample]]
    /\ UNCHANGED <<disk, exists, seq, want, touched, loose>>

\* ... and initialize reads it
Initialize(p) ==
    /\ s[p].pos = "made"
    /\ s' = [s EXCEPT ![p].pos = "up", ![p].client = disk, ![p].flag = FALSE]
    /\ want' = [want EXCEPT ![p] = disk] /\ touched' = [touched EXCEPT ![p] = {}]
    /\ loose' = [loose EXCEPT ![p] = {}]
    /\ UNCHANGED <<disk, exists, seq>>

Crash(p) ==
    /\ "crash" \in Faults /\ s[p].pos # "down"
    /\ s' = [s EXCEPT ![p] = Down]
    /\ UNCHANGED <<disk, exists, seq, want, touched, loose>>

Write(p) ==
    \/ \E i \in Ids : Upsert(p, i) \/ Delete(p, i) \/ DeleteEntity(p, i)
    \/ DeleteEntityRelation(p) \/ DropPending(p)
    \/ IndexDone(p) \/ Finalize(p) \/ Drop(p)

Step(p) ==
    \/ Construct(p) \/ Initialize(p) \/ Crash(p) \/ Refresh(p)
    \/ p \in Writers /\ Write(p)

\* a read in progress witnesses every value that its id has in the meantime
Watch == rd' = [p \in Procs |->
    IF rd[p] = NoRead \/ s'[p].pos # "up" THEN NoRead
    ELSE LET now == IF exists' THEN "current" ELSE "missing" IN
         [rd[p] EXCEPT !.seen = @ \cup UNION {{disk'[i], View(s'[p], disk', now, i)}
                                              : i \in rd[p].id}]]

Next == \E p \in Procs : \/ Step(p) /\ Watch
                         \/ \E i \in Ids : ReadBegin(p, i)
                         \/ ReadEnd(p)

Spec == Init /\ [][Next]_vars

-----------------------------------------------------------------------------
(* Properties *)

\* A process reads back what it last wrote or deleted, through failed embeddings,
\* failed saves, lost notifications and reloads, until another process commits a
\* change of that id or the batch is given up.
ReadYourWrites ==
    \A p \in Procs : s[p].pos = "up" =>
        \A i \in Ids \ (touched[p] \cup loose[p]) : View(s[p], disk, Sample, i) = want[p][i]

\* A process that has nothing queued, logged or dirty has everything it asked for
\* in the file: finalize may return early.
NothingForgotten ==
    \A p \in Procs :
        s[p].pos = "up" /\ s[p].pend = Empty /\ s[p].pdel = {} /\ s[p].udel = Empty
            /\ s[p].uups = Empty /\ ~s[p].dirty
        => \A i \in Ids \ (touched[p] \cup loose[p]) : disk[i] = want[p][i]

\* p means to change the row of i that the file has now
Intends(p, i) ==
    \/ i \in s[p].pdel \/ s[p].pend[i] # 0
    \/ disk[i] # 0 /\ s[p].udel[i] = disk[i]
    \/ s[p].uups[i] > disk[i]
    \/ s[p].uups[i] # 0 /\ Resident(s[p], disk, Sample, i) = s[p].uups[i]

Saver(p) == s'[p].loaded = "current" \/ (s[p].pos = "up" /\ s'[p].pos = "down")

\* A save never puts back, removes or replaces a row that the writer did not mean
\* to: it does not overwrite a peer's commit from a stale client, nor a newer row
\* from its redo log, nor bring a dropped store back.
PeersKeptStep ==
    exists' => \A i \in Ids : disk'[i] # disk[i] =>
          \E p \in Procs : Saver(p) /\ (Intends(p, i) \/ i \notin touched[p])

\* A read that lets go of the lock between the logs and the client answers with a
\* value that its id had for this process, or in the file, at some moment in between.
ReadIsCurrent ==
    \A p \in Procs : \A i \in rd[p].id :
        Resolve(rd[p].redo, rd[p].logged, Resident(s[p], disk, Sample, i)) \in rd[p].seen
=============================================================================
