-------------------------- MODULE FaissVectorStore --------------------------
(***************************************************************************)
(* lightrag/kg/faiss_impl.py: vectors in an .index file, addressed by       *)
(* position, and their rows in a .meta.json file, renamed one after the     *)
(* other.  What the processes hold in memory is an index and a map from     *)
(* positions to rows; writes are buffered, and two redo logs carry what was *)
(* applied and not saved across a reload.                                   *)
(*                                                                          *)
(* A row is <<id, number of the write>>, and so is the vector it was        *)
(* embedded to.  Every operation holds the lock of the namespace and is one *)
(* step.  The fingerprint of a file is kept as what it is compared for; two *)
(* commits of equal size in one tick of the clock are left out.             *)
(***************************************************************************)
EXTENDS Naturals, Sequences, FiniteSets, SequencesExt

CONSTANTS Procs, Ids,
          Writers,      \* the processes that write
          Incident,     \* ids of the relations of the entity that is deleted
          MaxSeq,       \* bound on the writes
          Told,         \* the sets of processes a commit may manage to notify
          Faults        \* what a model injects

VARIABLES files,        \* the two files, and whether the index is the older one
          s,            \* what each process holds
          seq,          \* the last write number
          want,         \* history: what each process last asked for, by id
          touched,      \* history: ids another process changed in the file since
          loose         \* history: ids whose queued write was given up since

vars == <<files, s, seq, want, touched, loose>>

StoreAssumption ==
    /\ MaxSeq \in Nat /\ Incident \subseteq Ids
    /\ Writers \subseteq Procs /\ Told \subseteq SUBSET Procs
    /\ Faults \subseteq {"embed", "save", "torn", "tick", "reset", "remove", "crash", "drop"}

Num == 0..MaxSeq
RowType == Ids \X (1..MaxSeq)
Empty == [i \in Ids |-> 0]
NoFiles == [index |-> <<>>, meta |-> <<>>, has |-> {}, older |-> TRUE]

Down == [up |-> FALSE, index |-> <<>>, meta |-> <<>>, loaded |-> <<"unknown", "unknown">>,
         flag |-> FALSE, pend |-> Empty, pdel |-> {}, udel |-> [i \in Ids |-> {}],
         uups |-> Empty, dirty |-> FALSE]

\* A queued delete and a queued upsert exclude each other.
TypeOK ==
    /\ files.index \in Seq(RowType) /\ files.has \subseteq {"index", "meta"}
    /\ \A f \in DOMAIN files.meta : f \in Nat \ {0} /\ files.meta[f] \in RowType
    /\ seq \in Num
    /\ \A p \in Procs : LET x == s[p] IN
         /\ {x.up, x.flag, x.dirty} \subseteq BOOLEAN
         /\ x.index \in Seq(RowType)
         /\ \A f \in DOMAIN x.meta : x.meta[f] \in [row : RowType, vec : RowType]
         /\ \A k \in 1..2 : x.loaded[k] \in {"now", "old", "missing", "unknown"}
         /\ x.pend \in [Ids -> Num] /\ x.uups \in [Ids -> Num]
         /\ x.udel \in [Ids -> SUBSET (1..MaxSeq)]
         /\ x.pdel \subseteq {i \in Ids : x.pend[i] = 0}

-----------------------------------------------------------------------------
(* The fence *)

Sample == <<IF "index" \in files.has THEN "now" ELSE "missing",
            IF "meta" \in files.has THEN "now" ELSE "missing">>

\* publication_complete: the marker, renamed last, is strictly the newer one
PublicationComplete ==
    \/ files.has = {}
    \/ files.has = {"index", "meta"} /\ files.older

\* mutant: any change counts
DivergedAtOnce(x) == x.loaded # Sample

\* divergence_detected
Diverged(x) == x.loaded # Sample /\ PublicationComplete

\* _load_faiss_index: a row takes the vector at its position, a row beyond the
\* index is dropped; a pair that cannot be read is an empty store
Load(x) ==
    IF files.has # {"index", "meta"} THEN [x EXCEPT !.index = <<>>, !.meta = <<>>]
    ELSE LET backed == DOMAIN files.meta \cap (1..Len(files.index))
         IN [x EXCEPT !.index = files.index,
                      !.meta = [f \in backed |-> [row |-> files.meta[f], vec |-> files.index[f]]]]

\* _reload_index_from_disk_locked
Reload(x) ==
    IF x.flag \/ Diverged(x)
    THEN [Load(x) EXCEPT !.loaded = Sample, !.flag = FALSE] ELSE x

\* what the others recorded of the files that p renamed or removed
Outdate(x, changed) ==
    [x EXCEPT !.loaded = [k \in 1..2 |->
        IF <<"index", "meta">>[k] \in changed /\ @[k] = "now" THEN "old" ELSE @[k]]]

-----------------------------------------------------------------------------
(* The index in memory *)

\* _find_faiss_ids_by_custom_id
Fids(x, i) == {f \in DOMAIN x.meta : x.meta[f].row[1] = i}

Record(i, n) == [row |-> <<i, n>>, vec |-> <<i, n>>]

\* _rebuild_index_locked: positions are given anew
Rebuilt(x, dropped, added) ==
    LET kept == SetToSortSeq(DOMAIN x.meta \ dropped, <)
        rows == [k \in 1..Len(kept) |-> x.meta[kept[k]]] \o SetToSeq(added)
    IN [x EXCEPT !.meta = rows, !.index = [k \in 1..Len(rows) |-> rows[k].vec]]

\* the deletes of _flush_pending_locked: queued ones, and logged ones whose very
\* row is back
Deleted(x) ==
    LET hit == {f \in DOMAIN x.meta : LET r == x.meta[f].row IN
                   r[1] \in x.pdel \/ r[2] \in x.udel[r[1]]}
        y == IF hit = {} THEN x ELSE [Rebuilt(x, hit, {}) EXCEPT !.dirty = TRUE]
    IN [y EXCEPT !.udel = [i \in Ids |-> @[i] \cup {x.meta[f].row[2] : f \in hit \cap Fids(x, i)}],
                 !.pdel = {}]

\* an upsert of this process that the index does not show
Open(x, i) ==
    x.uups[i] # 0 /\ x.pend[i] = 0 /\ {x.meta[f].row[2] : f \in Fids(x, i)} # {x.uups[i]}

\* mutant: a newer row of another process is not looked for
ReplayedOver(x) ==
    LET lost == {i \in Ids : Open(x, i)}
        y == Rebuilt(x, UNION {Fids(x, i) : i \in lost}, {Record(i, x.uups[i]) : i \in lost})
    IN IF lost = {} THEN x ELSE [y EXCEPT !.dirty = TRUE]

\* the redo of upserts that a reload took away, unless a newer row took their place
Replayed(x) ==
    LET open == {i \in Ids : Open(x, i)}
        superseded == {i \in open : \E f \in Fids(x, i) : x.meta[f].row[2] > x.uups[i]}
        lost == open \ superseded
        y == Rebuilt(x, UNION {Fids(x, i) : i \in lost}, {Record(i, x.uups[i]) : i \in lost})
        z == IF lost = {} THEN x ELSE [y EXCEPT !.dirty = TRUE]
    IN [z EXCEPT !.uups = [i \in Ids |-> IF i \in superseded THEN 0 ELSE @[i]]]

\* queued upserts, once embedded: appended after the last vector, or with a
\* rebuild when an older row goes
Materialized(x) ==
    LET new == {i \in Ids : x.pend[i] # 0}
        old == UNION {Fids(x, i) : i \in new}
        rows == SetToSeq({Record(i, x.pend[i]) : i \in new})
        n == Len(x.index)
        y == IF old # {} THEN Rebuilt(x, old, Range(rows))
             ELSE [x EXCEPT !.index = @ \o [k \in 1..Len(rows) |-> rows[k].vec],
                            !.meta = [f \in DOMAIN @ \cup ((n + 1)..(n + Len(rows))) |->
                                        IF f > n THEN rows[f - n] ELSE @[f]]]
    IN IF new = {} THEN x
       ELSE [y EXCEPT !.uups = [i \in Ids |-> IF i \in new THEN x.pend[i] ELSE @[i]],
                      !.dirty = TRUE, !.pend = Empty]

-----------------------------------------------------------------------------
(* Commit *)

\* the row that a .meta.json has for i
Saved(m, i) == LET at == {f \in DOMAIN m : m[f][1] = i}
               IN IF at = {} THEN 0 ELSE m[CHOOSE f \in at : TRUE][2]

Touch(p, m) == touched' = [q \in Procs |-> IF q = p THEN touched[q]
    ELSE touched[q] \cup {i \in Ids : Saved(m, i) # Saved(files.meta, i)}]

\* the committed hook
Committed(x) == [x EXCEPT !.flag = FALSE, !.dirty = FALSE,
                          !.udel = [i \in Ids |-> {}], !.uups = Empty]

\* the processes other than p after a change of files, and those told of it
Others(p, x, changed, told) == s' = [q \in Procs |->
    IF q = p THEN x ELSE [Outdate(s[q], changed) EXCEPT !.flag = @ \/ q \in told]]

Published(x) == [index |-> x.index, meta |-> [f \in DOMAIN x.meta |-> x.meta[f].row],
                 has |-> {"index", "meta"}, older |-> TRUE]

Half(x) == [files EXCEPT !.index = x.index, !.has = @ \cup {"index"}, !.older = FALSE]

\* mutant: what was logged is forgotten even when the rename of the rows failed
SaveForgetting(p, x) ==
    \/ /\ "torn" \in Faults
       /\ files' = Half(x) /\ UNCHANGED touched
       /\ Others(p, [Committed(x) EXCEPT !.loaded = <<"now", Sample[2]>>], {"index"}, {})
    \/ /\ files' = Published(x) /\ Touch(p, files'.meta)
       /\ Others(p, [Committed(x) EXCEPT !.loaded = <<"now", "now">>], {"index", "meta"}, {})

\* _save_faiss_index: it fails before anything or between the renames, and the
\* pair is adopted; it lands, in a tick of the clock or not, and the others are
\* told; it lands and not all are told, and the logs stay; the process dies
\* between the renames, or after them
Save(p, x) ==
    \/ /\ "save" \in Faults
       /\ s' = [s EXCEPT ![p] = [x EXCEPT !.loaded = Sample]] /\ UNCHANGED <<files, touched>>
    \/ /\ "torn" \in Faults
       /\ files' = Half(x) /\ UNCHANGED touched
       /\ \/ Others(p, [x EXCEPT !.loaded = <<"now", Sample[2]>>], {"index"}, {})
          \/ "crash" \in Faults /\ Others(p, Down, {"index"}, {})
    \/ \E strict \in {TRUE} \cup (IF "tick" \in Faults THEN {FALSE} ELSE {}), told \in Told :
         /\ files' = [Published(x) EXCEPT !.older = strict] /\ Touch(p, files'.meta)
         /\ LET y == [x EXCEPT !.loaded = <<"now", "now">>] IN
            \/ told = Procs /\ Others(p, Committed(y), {"index", "meta"}, told)
            \/ /\ told # Procs
               /\ Others(p, [y EXCEPT !.flag = @ \/ p \in told], {"index", "meta"}, told)
            \/ "crash" \in Faults /\ Others(p, Down, {"index", "meta"}, {})

IndexDone(p) ==
    /\ s[p].up
    /\ LET y == Replayed(Deleted(Reload(s[p]))) IN
         \/ /\ "embed" \in Faults /\ y.pend # Empty
            /\ s' = [s EXCEPT ![p] = y] /\ UNCHANGED <<files, touched>>
         \/ Save(p, Materialized(y))
    /\ UNCHANGED <<seq, want, loose>>

Idle(x) ==
    /\ x.pend = Empty /\ x.pdel = {} /\ x.udel = [i \in Ids |-> {}] /\ x.uups = Empty
    /\ ~x.dirty

\* finalize: nothing to do, or nothing left to do after the flush
Finalize(p) ==
    /\ s[p].up /\ ~Idle(s[p])
    /\ LET x == Reload(s[p])
           y == Replayed(Deleted(IF x = s[p] THEN x ELSE [x EXCEPT !.dirty = FALSE]))
           z == Materialized(y)
       IN \/ /\ "embed" \in Faults /\ y.pend # Empty
             /\ s' = [s EXCEPT ![p] = y] /\ UNCHANGED <<files, touched>>
          \/ z.dirty /\ Save(p, z)
          \/ ~z.dirty /\ s' = [s EXCEPT ![p] = z] /\ UNCHANGED <<files, touched>>
    /\ UNCHANGED <<seq, want, loose>>

\* drop: both files go, or the first one only and nothing else happens; the empty
\* index may fail to be allocated, and then a reload is left pending
Drop(p) ==
    /\ "drop" \in Faults /\ s[p].up
    /\ \/ /\ files' = NoFiles /\ Touch(p, <<>>)
          /\ \E reset \in {TRUE} \cup (IF "reset" \in Faults THEN {FALSE} ELSE {}), told \in Told :
               Others(p, [Down EXCEPT !.up = TRUE, !.flag = ~reset,
                             !.index = IF reset THEN <<>> ELSE s[p].index,
                             !.loaded = IF reset THEN <<"missing", "missing">> ELSE @],
                      {"index", "meta"}, told)
          /\ want' = [want EXCEPT ![p] = Empty] /\ loose' = [loose EXCEPT ![p] = {}]
       \/ /\ "remove" \in Faults /\ files.has = {"index", "meta"}
          /\ files' = [files EXCEPT !.index = <<>>, !.has = {"meta"}]
          /\ Others(p, Outdate(s[p], {"index"}), {"index"}, {})
          /\ UNCHANGED <<want, loose, touched>>
    /\ UNCHANGED seq

-----------------------------------------------------------------------------
(* Buffered writes *)

Ask(p, set, v) ==
    /\ want' = [want EXCEPT ![p] = [i \in Ids |-> IF i \in set THEN v ELSE @[i]]]
    /\ touched' = [touched EXCEPT ![p] = @ \ set] /\ loose' = [loose EXCEPT ![p] = @ \ set]
    /\ UNCHANGED files

Upsert(p, i) ==
    /\ s[p].up /\ seq < MaxSeq
    /\ seq' = seq + 1
    /\ s' = [s EXCEPT ![p].pend[i] = seq + 1, ![p].pdel = @ \ {i}]
    /\ Ask(p, {i}, seq + 1)

\* delete, and delete_entity
Delete(p, i) ==
    /\ s[p].up
    /\ s' = [s EXCEPT ![p].pend[i] = 0, ![p].uups[i] = 0, ![p].pdel = @ \cup {i}]
    /\ Ask(p, {i}, 0) /\ UNCHANGED seq

\* delete_entity_relation: rows are found by what they say, so at once
DeleteEntityRelation(p) ==
    /\ s[p].up /\ Incident # {}
    /\ LET x == Reload(s[p])
           hit == UNION {Fids(x, i) : i \in Incident}
           gone == {x.meta[f].row[1] : f \in hit}
           y == IF hit = {} THEN x ELSE [Rebuilt(x, hit, {}) EXCEPT !.dirty = TRUE]
       IN s' = [s EXCEPT ![p] = [y EXCEPT
             !.pdel = @ \ gone,
             !.udel = [i \in Ids |-> @[i] \cup {x.meta[f].row[2] : f \in hit \cap Fids(x, i)}],
             !.pend = [i \in Ids |-> IF i \in Incident THEN 0 ELSE @[i]],
             !.uups = [i \in Ids |-> IF i \in Incident THEN 0 ELSE @[i]]]]
    /\ Ask(p, Incident, 0) /\ UNCHANGED seq

\* drop_pending_index_ops: the queues, not the logs
DropPending(p) ==
    /\ s[p].up /\ (s[p].pend # Empty \/ s[p].pdel # {})
    /\ s' = [s EXCEPT ![p].pend = Empty, ![p].pdel = {}]
    /\ loose' = [loose EXCEPT ![p] = @ \cup s[p].pdel \cup {i \in Ids : s[p].pend[i] # 0}]
    /\ UNCHANGED <<files, seq, want, touched>>

-----------------------------------------------------------------------------
(* Reads *)

\* _get_index, before query
Refresh(p) ==
    /\ s[p].up /\ Reload(s[p]) # s[p]
    /\ s' = [s EXCEPT ![p] = Reload(s[p])]
    /\ UNCHANGED <<files, seq, want, touched, loose>>

\* _resolve_resident_rows: the newest row of i that is not logged as deleted
Resident(x, i, logged) ==
    LET ns == {x.meta[f].row[2] : f \in Fids(x, i)} \ logged
    IN IF ns = {} THEN 0 ELSE CHOOSE n \in ns : \A m \in ns : m <= n

\* get_by_id, get_by_ids, get_vectors_by_ids: the two sections under the lock, the
\* buffers and then the index, are taken as one
View(x, i) ==
    LET y == Reload(x) IN
    IF x.pend[i] # 0 THEN x.pend[i]
    ELSE IF i \in x.pdel THEN 0
    ELSE IF x.uups[i] # 0
         THEN IF Resident(y, i, {}) > x.uups[i] THEN Resident(y, i, {}) ELSE x.uups[i]
    ELSE Resident(y, i, x.udel[i])

-----------------------------------------------------------------------------
(* Start and end of a process *)

\* __post_init__ and initialize
Initialize(p) ==
    /\ ~s[p].up
    /\ s' = [s EXCEPT ![p] = [Load(Down) EXCEPT !.up = TRUE, !.loaded = Sample]]
    /\ want' = [want EXCEPT ![p] = [i \in Ids |-> Resident(s'[p], i, {})]]
    /\ touched' = [touched EXCEPT ![p] = {}] /\ loose' = [loose EXCEPT ![p] = {}]
    /\ UNCHANGED <<files, seq>>

Crash(p) ==
    /\ "crash" \in Faults /\ s[p].up
    /\ s' = [s EXCEPT ![p] = Down]
    /\ UNCHANGED <<files, seq, want, touched, loose>>

Init ==
    /\ files = NoFiles /\ seq = 0
    /\ s = [p \in Procs |-> [Down EXCEPT !.up = TRUE, !.loaded = <<"missing", "missing">>]]
    /\ want = [p \in Procs |-> Empty] /\ touched = [p \in Procs |-> {}] /\ loose = touched

Write(p) ==
    \/ \E i \in Ids : Upsert(p, i) \/ Delete(p, i)
    \/ DeleteEntityRelation(p) \/ DropPending(p)
    \/ IndexDone(p) \/ Finalize(p) \/ Drop(p)

Next ==
    \/ \E p \in Writers : Write(p)
    \/ \E p \in Procs : Refresh(p) \/ Initialize(p) \/ Crash(p)

Spec == Init /\ [][Next]_vars

-----------------------------------------------------------------------------
(* Properties *)

\* what a position of the index finds is what the row at that position was embedded to
Fits(x) ==
    \A f \in DOMAIN x.meta :
        /\ x.meta[f].vec = x.meta[f].row
        /\ f <= Len(x.index) /\ x.index[f] = x.meta[f].vec

FilesFit ==
    \A f \in DOMAIN files.meta \cap (1..Len(files.index)) : files.index[f] = files.meta[f]

Sound == (PublicationComplete => FilesFit) /\ \A p \in Procs : Fits(s[p])

\* a process that was notified, or that starts, loads the pair that is there
Exposed(p) == ~FilesFit /\ (s[p].flag \/ ~s[p].up)

\* No row gets bound to the vector of another, in memory or in a complete pair,
\* whichever rename of a save failed or whenever its process died: only a process
\* that was notified of an earlier commit, or that starts, takes a torn pair for a
\* commit.
RowsKeepTheirVectorsStep ==
    Sound =>
        /\ \A p \in Procs : Fits(s[p])' \/ Exposed(p)
        /\ (PublicationComplete => FilesFit)' \/ \E p \in Procs : Exposed(p)

\* A process reads back what it last wrote or deleted, through failed embeddings and
\* saves that fail before or between the two renames, until another process commits
\* a change of that id or the batch is given up.
ReadYourWrites ==
    \A p \in Procs : s[p].up => \A i \in Ids \ (touched[p] \cup loose[p]) :
        View(s[p], i) = want[p][i]

\* A process with nothing queued, logged or dirty has what it asked for in the file:
\* finalize may return early, also after a save that failed between the renames.
NothingForgotten ==
    \A p \in Procs : s[p].up /\ Idle(s[p]) =>
        \A i \in Ids \ (touched[p] \cup loose[p]) : Saved(files.meta, i) = want[p][i]

\* A commit replaces a row of the file by an older one only where the older write is
\* still queued: neither a stale snapshot nor a redo log goes over a peer's commit.
NewerKeptStep ==
    \A i \in Ids :
          0 < Saved(files'.meta, i) /\ Saved(files'.meta, i) < Saved(files.meta, i)
          => \E p \in Procs : s[p].pend[i] = Saved(files'.meta, i)
=============================================================================
