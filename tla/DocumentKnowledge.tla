------------------------- MODULE DocumentKnowledge -------------------------
(***************************************************************************)
(* What a document contributes to the knowledge graph, from its first chunk *)
(* to its deletion: _process_single_document and merge_nodes_and_edges add   *)
(* it, _purge_kg_contributions takes it away again for a retry or for        *)
(* adelete_by_doc_id.  A purge is journaled in the row of the document and    *)
(* must find a proof of what the document wrote before it deletes anything.  *)
(*                                                                         *)
(* The coroutine of a document interleaves with the others at every await.  *)
(* mem is what the storages answer, disk what they have flushed; a crash     *)
(* leaves the flushed part.  doc_status is flushed with every write.         *)
(* Relations are objects with two ends.  What a chunk yields is the same on  *)
(* every attempt (cached extractions, unchanged options); the cap on source  *)
(* ids, the options that skip extraction and the custom-chunk journal are    *)
(* left out.                                                               *)
(***************************************************************************)
EXTENDS Naturals, FiniteSets, Functions

CONSTANTS Docs, Entities, Relations,
          Ends,       \* the two entities of a relation
          Yield,      \* of a document: what each of its chunks yields
          Ready,      \* documents that are processed in the beginning
          Deletable,  \* documents that may be deleted
          Immediate,  \* stores whose writes are durable at once
          Parallel,   \* max_parallel_insert
          Reprocess,  \* a failed document is asked for again
          MaxFaults,  \* failures, cancellations and crashes
          None

VARIABLES row,    \* doc_status
          mem,    \* the contents of the stores
          disk,   \* what of them is durable
          task,   \* the coroutine of a document
          faults

vars == <<row, mem, disk, task, faults>>

Objects == Entities \cup Relations
ChunksOf(d) == DOMAIN Yield[d]
Chunks == UNION {ChunksOf(d) : d \in Docs}
\* the chunks of d that yield x, and all that d yields
Evidence(d, x) == {c \in ChunksOf(d) : x \in Yield[d][c]}
Yielded(d) == UNION Range(Yield[d])
EndsOf(x) == IF x \in Relations THEN Ends[x] ELSE {}

Unfinished == {"pending", "parsing", "processing"}
\* the journal of a purge, and doc_status rows
Journals == [phase : {"prepared", "derived_committed", "anchors_pending", "completed"},
             op : SUBSET Chunks]
Rows == [status : Unfinished \cup {"processed", "failed"}, chunks : SUBSET Chunks,
         wrote : {"pre_graph", "started"}, journal : Journals \cup {None}]

KnowledgeAssumption ==
    /\ Entities \cap Relations = {} /\ IsFiniteSet(Docs)
    /\ \A r \in Relations : Ends[r] \in SUBSET Entities /\ Cardinality(Ends[r]) = 2
    /\ \A d \in Docs : \A c \in ChunksOf(d) : Yield[d][c] \subseteq Objects
    /\ \A d, o \in Docs : d # o => ChunksOf(d) \cap ChunksOf(o) = {}
    /\ Ready \subseteq Docs /\ Deletable \subseteq Docs /\ Parallel \in Nat \ {0} /\ MaxFaults \in Nat
    /\ None \notin Rows \cup Journals
    /\ \A set \in (SUBSET Objects) \cup (SUBSET Chunks) : set # None

\* text: text_chunks and chunks_vdb; names, pairs: the anchors, full_entities and
\* full_relations; track: entity_chunks and relation_chunks; graph: the source ids
\* of what is there; vdb: entities_vdb and relationships_vdb
Stores == {"text", "names", "pairs", "track", "graph", "vdb"}
Anchors == {"names", "pairs"}

\* collect_kg_merge_candidates
NamesOf(d) ==
    (Yielded(d) \cap Entities) \cup UNION {Ends[r] : r \in Yielded(d) \cap Relations}
PairsOf(d) == Yielded(d) \cap Relations
Anchored(s, d) == {x \in Objects : \E a \in Anchors : s[a][d] # None /\ x \in s[a][d]}

Phases == <<"prepared", "derived_committed", "anchors_pending", "completed">>
\* a phase counts as soon as the one before it is written
ReachedEarly(journal, phase) ==
    /\ journal # None
    /\ \E i, j \in DOMAIN Phases : i + 1 >= j /\ Phases[i] = journal.phase /\ Phases[j] = phase
\* phase_at_least
Reached(journal, phase) ==
    /\ journal # None
    /\ \E i, j \in DOMAIN Phases : i >= j /\ Phases[i] = journal.phase /\ Phases[j] = phase

Idle == [at |-> "idle"]
\* a coroutine that has loaded the row of d
Started(d, for, at) ==
    [at |-> at, for |-> for, wrote |-> row[d].wrote, journal |-> row[d].journal,
     chunks |-> row[d].chunks, doomed |-> {}, rest |-> <<>>, todo |-> {}, held |-> <<>>]
Working(d) == task[d].at # "idle"
Deleting(d) == Working(d) /\ task[d].for = "delete"

-----------------------------------------------------------------------------
\* The documents that are ready have been merged without a failure.
Sources(x) ==
    UNION ({Evidence(d, x) : d \in Ready}
           \cup {Evidence(d, r) : d \in Ready, r \in {r \in Relations : x \in Ends[r]}})
Filled ==
    [text |-> UNION {ChunksOf(d) : d \in Ready},
     names |-> [d \in Docs |-> IF d \in Ready THEN NamesOf(d) ELSE None],
     pairs |-> [d \in Docs |-> IF d \in Ready THEN PairsOf(d) ELSE None],
     track |-> [x \in Objects |-> IF Sources(x) = {} THEN None ELSE Sources(x)],
     graph |-> [x \in Objects |-> IF Sources(x) = {} THEN None ELSE Sources(x)],
     vdb |-> {x \in Objects : Sources(x) # {}}]

\* _initial_doc_status
Enqueued == [status |-> "pending", chunks |-> {}, wrote |-> "pre_graph", journal |-> None]
Merged(d) ==
    [status |-> "processed", chunks |-> ChunksOf(d), wrote |-> "started", journal |-> None]

Init ==
    /\ row = [d \in Docs |-> IF d \in Ready THEN Merged(d) ELSE Enqueued]
    /\ mem = Filled /\ disk = Filled
    /\ task = [d \in Docs |-> Idle]
    /\ faults = 0

-----------------------------------------------------------------------------
At(d, at) == task[d].at = at
Goto(d, at) == task' = [task EXCEPT ![d].at = at]
Write(s) == mem' = s
\* index_done_callback of some stores
Flushed(some) == [s \in Stores |-> IF s \in some THEN mem[s] ELSE disk[s]]
Flush(d, some, from, to) ==
    /\ At(d, from) /\ Goto(d, to)
    /\ disk' = Flushed(some)
    /\ UNCHANGED <<row, mem, faults>>

\* _upsert_doc_status_transition: the metadata is that of the row as it was loaded
Transition(d, status, chunks) ==
    row' = [row EXCEPT ![d] = [status |-> status, chunks |-> chunks,
                               wrote |-> task[d].wrote, journal |-> task[d].journal]]

\* A run takes up a document that waits, was interrupted or is asked for again.  The
\* writes of PARSING and ANALYZING name no chunks, so the row forgets them; the run
\* has them in memory.
Begin(d) ==
    /\ row[d] # None /\ ~Working(d)
    /\ row[d].status \in Unfinished \cup (IF Reprocess THEN {"failed"} ELSE {})
    /\ ~\E o \in Docs : Deleting(o)
    /\ Cardinality({o \in Docs : Working(o)}) < Parallel
    /\ row' = [row EXCEPT ![d].status = "parsing", ![d].chunks = {}]
    /\ task' = [task EXCEPT ![d] = Started(d, "process", "parse")]
    /\ UNCHANGED <<mem, disk, faults>>

\* _parse_worker, _analyze_worker; a document that has chunks is purged first
Parse(d) ==
    /\ At(d, "parse")
    /\ Goto(d, IF task[d].chunks = {} THEN "chunk" ELSE "resolve")
    /\ UNCHANGED <<row, mem, disk, faults>>

\* adelete_by_doc_id: alone, busy
BeginDelete(d) ==
    /\ d \in Deletable /\ row[d] # None /\ \A o \in Docs : ~Working(o)
    /\ task' = [task EXCEPT ![d] = Started(d, "delete", "resolve")]
    /\ UNCHANGED <<row, mem, disk, faults>>

-----------------------------------------------------------------------------
\* _resolve_purge_recovery_proof
Conflict(d) ==
    /\ row[d].journal # None
    /\ row[d].journal.op # task[d].chunks
    /\ row[d].journal.phase # "completed"
Journal(d) ==
    IF row[d].journal # None /\ row[d].journal.op = task[d].chunks
    THEN row[d].journal ELSE None
\* the journal is not consulted
ProofByAnchors(d) ==
    CASE \A a \in Anchors : mem[a][d] # None ->
            IF task[d].chunks = {} /\ Anchored(mem, d) # {} THEN "none" ELSE "anchors"
      [] row[d].wrote = "pre_graph" -> "pre_graph"
      [] task[d].chunks = {} /\ Anchored(mem, d) = {} -> "empty_scope"
      [] OTHER -> "none"
Proof(d) ==
    CASE Reached(Journal(d), "derived_committed") -> "journal"
      [] \A a \in Anchors : mem[a][d] # None ->
            IF task[d].chunks = {} /\ Anchored(mem, d) # {} THEN "none" ELSE "anchors"
      [] row[d].wrote = "pre_graph" -> "pre_graph"
      [] task[d].chunks = {} /\ Anchored(mem, d) = {} -> "empty_scope"
      [] OTHER -> "none"
Refused(d) == At(d, "resolve") /\ (Conflict(d) \/ Proof(d) = "none")

\* _write_kg_purge_phase
WritePhase(d, phase) ==
    row' = [row EXCEPT ![d].journal = [phase |-> phase, op |-> task[d].chunks]]

AfterPurge(d) == IF task[d].for = "process" THEN "retire" ELSE "forget"

\* the purge begins, or goes on where its journal says
Resolve(d) ==
    /\ At(d, "resolve") /\ ~Refused(d)
    /\ LET journal == Journal(d)
           to == CASE Reached(journal, "completed") -> AfterPurge(d)
                   [] Reached(journal, "anchors_pending") -> "drop_names"
                   [] Reached(journal, "derived_committed") -> "drop_chunks"
                   [] Proof(d) = "anchors" -> "analyze"
                   [] OTHER -> "flush_cut"
       IN /\ Goto(d, to)
          /\ IF journal = None THEN WritePhase(d, "prepared") ELSE row' = row
    /\ UNCHANGED <<mem, disk, faults>>

\* the sources of x that the purge goes by: tracked ones first
Known(x) ==
    IF mem.track[x] \in {None, {}} THEN mem.graph[x] ELSE mem.track[x]

\* _purge_derived_kg_contributions reads what there is of the anchored objects
Analyze(d) ==
    /\ At(d, "analyze")
    /\ LET affected == {x \in Anchored(mem, d) : mem.graph[x] # None}
           left(x) == Known(x) \ task[d].chunks
           rest == {x \in affected : left(x) # {} /\
                       (left(x) # Known(x) \/ mem.graph[x] \cap task[d].chunks # {})}
       IN task' = [task EXCEPT ![d].at = "prune",
                               ![d].doomed = {x \in affected : left(x) = {}},
                               ![d].rest = [x \in rest |-> left(x)]]
    /\ UNCHANGED <<row, mem, disk, faults>>

Removed(s, field, gone) == [s EXCEPT ![field] = [x \in Objects |-> IF x \in gone THEN None ELSE @[x]]]

\* the tracking of the survivors
Prune(d) ==
    /\ At(d, "prune") /\ Goto(d, "cut_edges")
    /\ Write([mem EXCEPT !.track = [x \in Objects |->
           IF x \in DOMAIN task[d].rest THEN task[d].rest[x] ELSE @[x]]])
    /\ UNCHANGED <<row, disk, faults>>

CutEdges(d) ==
    /\ At(d, "cut_edges") /\ Goto(d, "untrack_edges")
    /\ LET gone == task[d].doomed \cap Relations
       IN Write([Removed(mem, "graph", gone) EXCEPT !.vdb = @ \ gone])
    /\ UNCHANGED <<row, disk, faults>>

UntrackEdges(d) ==
    /\ At(d, "untrack_edges") /\ Goto(d, "cut_incident")
    /\ Write(Removed(mem, "track", task[d].doomed \cap Relations))
    /\ UNCHANGED <<row, disk, faults>>

\* the edges at nodes that go, whoever they come from
Incident(d) ==
    {r \in Relations : mem.graph[r] # None /\ Ends[r] \cap task[d].doomed # {}}
CutIncident(d) ==
    /\ At(d, "cut_incident") /\ Goto(d, "cut_nodes")
    /\ Write([Removed(mem, "track", Incident(d)) EXCEPT !.vdb = @ \ Incident(d)])
    /\ UNCHANGED <<row, disk, faults>>

CutNodes(d) ==
    /\ At(d, "cut_nodes") /\ Goto(d, "untrack_nodes")
    /\ Write(Removed(mem, "graph", (task[d].doomed \cap Entities) \cup Incident(d)))
    /\ UNCHANGED <<row, disk, faults>>

UntrackNodes(d) ==
    /\ At(d, "untrack_nodes") /\ Goto(d, "flush_cut")
    /\ LET gone == task[d].doomed \cap Entities
       IN Write([Removed(mem, "track", gone) EXCEPT !.vdb = @ \ gone])
    /\ UNCHANGED <<row, disk, faults>>

\* _insert_done before the rebuild
FlushCut(d) ==
    Flush(d, Stores, "flush_cut", IF task[d].rest = <<>> THEN "derived" ELSE "rebuild")

\* rebuild_knowledge_from_chunks, best effort: what is not in the cache or fails
\* keeps its description and its source ids
Rebuild(d) ==
    /\ At(d, "rebuild") /\ Goto(d, "flush_rebuilt")
    /\ \E rebuilt \in SUBSET {x \in DOMAIN task[d].rest : mem.graph[x] # None} :
           Write([mem EXCEPT
               !.track = [x \in Objects |-> IF x \in rebuilt THEN task[d].rest[x] ELSE @[x]],
               !.graph = [x \in Objects |-> IF x \in rebuilt THEN task[d].rest[x] ELSE @[x]],
               !.vdb = @ \cup rebuilt])
    /\ UNCHANGED <<row, disk, faults>>

FlushRebuilt(d) == Flush(d, Stores, "flush_rebuilt", "derived")

Derived(d) ==
    /\ At(d, "derived") /\ Goto(d, "drop_chunks")
    /\ WritePhase(d, "derived_committed")
    /\ UNCHANGED <<mem, disk, faults>>

DropChunks(d) ==
    /\ At(d, "drop_chunks") /\ Goto(d, "flush_chunks")
    /\ Write([mem EXCEPT !.text = @ \ task[d].chunks])
    /\ UNCHANGED <<row, disk, faults>>

FlushChunks(d) == Flush(d, {"text"}, "flush_chunks", "pending")

Pending(d) ==
    /\ At(d, "pending") /\ Goto(d, "drop_names")
    /\ WritePhase(d, "anchors_pending")
    /\ UNCHANGED <<mem, disk, faults>>

DropNames(d) ==
    /\ At(d, "drop_names") /\ Goto(d, "drop_pairs")
    /\ Write([mem EXCEPT !.names[d] = None])
    /\ UNCHANGED <<row, disk, faults>>

DropPairs(d) ==
    /\ At(d, "drop_pairs") /\ Goto(d, "flush_dropped")
    /\ Write([mem EXCEPT !.pairs[d] = None])
    /\ UNCHANGED <<row, disk, faults>>

FlushDropped(d) == Flush(d, Anchors, "flush_dropped", "complete")

Complete(d) ==
    /\ At(d, "complete") /\ Goto(d, AfterPurge(d))
    /\ WritePhase(d, "completed")
    /\ UNCHANGED <<mem, disk, faults>>

\* _clear_kg_purge_journal, with the chunk list: the metadata that the run has in
\* memory keeps the journal
Retire(d) ==
    /\ At(d, "retire")
    /\ row' = [row EXCEPT ![d].journal = None, ![d].chunks = {}]
    /\ task' = [task EXCEPT ![d].at = "chunk", ![d].chunks = {},
                            ![d].doomed = {}, ![d].rest = <<>>]
    /\ UNCHANGED <<mem, disk, faults>>

\* doc_status.delete, then full_docs.delete
Forget(d) ==
    /\ At(d, "forget") /\ Goto(d, "finish")
    /\ row' = [row EXCEPT ![d] = None]
    /\ UNCHANGED <<mem, disk, faults>>

\* _insert_done, then the slot is released
Finish(d) ==
    /\ At(d, "finish")
    /\ disk' = Flushed(Stores)
    /\ task' = [task EXCEPT ![d] = Idle]
    /\ UNCHANGED <<row, mem, faults>>

-----------------------------------------------------------------------------
\* the chunks are known: the row names them while their rows are stored
Chunk(d) ==
    /\ At(d, "chunk")
    /\ task' = [task EXCEPT ![d].at = "stage", ![d].chunks = ChunksOf(d), ![d].todo = {"row", "text"}]
    /\ UNCHANGED <<row, mem, disk, faults>>

\* one of the tasks that are gathered is done
Staged(d, part) ==
    /\ At(d, "stage") /\ part \in task[d].todo
    /\ task' = [task EXCEPT ![d].todo = @ \ {part}]

NameChunks(d) ==
    /\ Staged(d, "row")
    /\ Transition(d, "processing", task[d].chunks)
    /\ UNCHANGED <<mem, disk, faults>>

StoreChunks(d) ==
    /\ Staged(d, "text")
    /\ Write([mem EXCEPT !.text = @ \cup task[d].chunks])
    /\ UNCHANGED <<row, disk, faults>>

\* the model is asked, and Phase 0 of merge_nodes_and_edges begins
AnchorNames(d) ==
    /\ At(d, "stage") /\ task[d].todo = {} /\ Goto(d, "anchor")
    /\ Write([mem EXCEPT !.names[d] = NamesOf(d)])
    /\ UNCHANGED <<row, disk, faults>>

AnchorPairs(d) ==
    /\ At(d, "anchor") /\ Goto(d, "flush_anchors")
    /\ Write([mem EXCEPT !.pairs[d] = PairsOf(d)])
    /\ UNCHANGED <<row, disk, faults>>

FlushAnchors(d) == Flush(d, Anchors, "flush_anchors", "mark")

\* _mark_graph_mutation_started
Mark(d) ==
    /\ At(d, "mark")
    /\ row' = [row EXCEPT ![d].wrote = "started"]
    /\ task' = [task EXCEPT ![d].at = "merge", ![d].wrote = "started", ![d].todo = Yielded(d)]
    /\ UNCHANGED <<mem, disk, faults>>

\* get_storage_keyed_lock: an entity by its name, a relation by those of its ends
Keys(x) == IF x \in Relations THEN Ends[x] ELSE {x}
\* an object is merged without the lock
NotLocked(key) == FALSE
Locked(key) == \E o \in Docs : Working(o) /\ \E y \in DOMAIN task[o].held : key \in Keys(y)

\* the chunks of x that are tracked, or else those the graph names
Merging(x) ==
    IF mem.track[x] # None THEN mem.track[x]
    ELSE IF mem.graph[x] # None THEN mem.graph[x] ELSE {}

\* _merge_nodes_then_upsert and _merge_edges_then_upsert: entities before relations,
\* the tracking of an object before the object; the writes of an object, of its vector
\* and, for a relation, of its ends are one step: the anchors name all of them by then
Track(d, x) ==
    /\ At(d, "merge") /\ x \in task[d].todo /\ x \notin DOMAIN task[d].held
    /\ x \in Relations => task[d].todo \subseteq Relations
    /\ \A key \in Keys(x) : ~Locked(key)
    /\ LET full == Merging(x) \cup Evidence(d, x)
       IN /\ Write([mem EXCEPT !.track[x] = full])
          /\ task' = [task EXCEPT ![d].held = [y \in DOMAIN @ \cup {x} |-> IF y = x THEN full ELSE @[y]]]
    /\ UNCHANGED <<row, disk, faults>>

Upsert(d, x) ==
    /\ At(d, "merge") /\ x \in DOMAIN task[d].held
    /\ LET full == task[d].held[x]
           end(e) == IF mem.graph[e] = None THEN full ELSE Merging(e) \cup full
       IN Write([mem EXCEPT
              !.track = [y \in Objects |-> IF y \in EndsOf(x) THEN end(y) ELSE @[y]],
              !.graph = [y \in Objects |-> IF y = x THEN full
                                           ELSE IF y \in EndsOf(x) THEN end(y) ELSE @[y]],
              !.vdb = @ \cup {x} \cup EndsOf(x)])
    /\ task' = [task EXCEPT ![d].todo = @ \ {x}, ![d].held = Restrict(@, DOMAIN @ \ {x})]
    /\ UNCHANGED <<row, disk, faults>>

\* _insert_done after the merge
FlushMerged(d) == At(d, "merge") /\ task[d].todo = {} /\ Flush(d, Stores, "merge", "commit")

Commit(d) ==
    /\ At(d, "commit")
    /\ row' = [row EXCEPT ![d] = Merged(d)]
    /\ task' = [task EXCEPT ![d] = Idle]
    /\ UNCHANGED <<mem, disk, faults>>

-----------------------------------------------------------------------------
\* the stores a coroutine is about to flush
Flushing(d) ==
    CASE task[d].at \in {"flush_cut", "flush_rebuilt", "finish"} -> Stores
      [] task[d].at = "flush_chunks" -> {"text"}
      [] task[d].at \in {"flush_dropped", "flush_anchors"} -> Anchors
      [] At(d, "merge") /\ task[d].todo = {} -> Stores
      [] OTHER -> {}

\* the error epilogues: those of the workers in front and _finalize_doc_failure, which
\* commit the chunk rows, and that of adelete_by_doc_id, which keeps the row and flushes
GiveUp(d, done) ==
    /\ task' = [task EXCEPT ![d] = Idle]
    /\ IF task[d].for = "process"
       THEN /\ Transition(d, "failed", IF At(d, "parse") THEN {} ELSE task[d].chunks)
            /\ disk' = Flushed(done \cup {"text"})
       ELSE /\ row' = row
            /\ disk' = Flushed(IF task[d].chunks = {} THEN done ELSE Stores)
    /\ UNCHANGED mem

Refuse(d) == Refused(d) /\ GiveUp(d, {}) /\ UNCHANGED faults

\* whatever is awaited raises, or a cancellation is seen; of the stores that are
\* flushed together some may be done
Fail(d) ==
    /\ Working(d) /\ faults < MaxFaults
    /\ faults' = faults + 1
    /\ \E done \in SUBSET Flushing(d) : GiveUp(d, done)

\* the process dies, in the middle of flushes too, and is started again
Crash ==
    /\ faults < MaxFaults /\ \E d \in Docs : Working(d)
    /\ faults' = faults + 1
    /\ task' = [d \in Docs |-> Idle]
    /\ \E torn \in SUBSET UNION {Flushing(d) : d \in {d \in Docs : Working(d)}} :
           /\ disk' = Flushed(torn \cup Immediate)
           /\ mem' = disk'
    /\ row' = row

Purge(d) ==
    \/ Resolve(d) \/ Refuse(d) \/ Analyze(d) \/ Prune(d)
    \/ CutEdges(d) \/ UntrackEdges(d) \/ CutIncident(d) \/ CutNodes(d) \/ UntrackNodes(d)
    \/ FlushCut(d) \/ Rebuild(d) \/ FlushRebuilt(d) \/ Derived(d)
    \/ DropChunks(d) \/ FlushChunks(d) \/ Pending(d)
    \/ DropNames(d) \/ DropPairs(d) \/ FlushDropped(d) \/ Complete(d)
    \/ Retire(d) \/ Forget(d) \/ Finish(d)

Process(d) ==
    \/ Parse(d) \/ Chunk(d) \/ NameChunks(d) \/ StoreChunks(d) \/ AnchorNames(d) \/ AnchorPairs(d) \/ FlushAnchors(d) \/ Mark(d)
    \/ \E x \in Objects : Track(d, x) \/ Upsert(d, x)
    \/ FlushMerged(d) \/ Commit(d)

Next ==
    \/ \E d \in Docs : Begin(d) \/ BeginDelete(d) \/ Purge(d) \/ Process(d) \/ Fail(d)
    \/ Crash

Spec == Init /\ [][Next]_vars

-----------------------------------------------------------------------------
TypeOK ==
    /\ \A d \in Docs : row[d] # None =>
           row[d] \in Rows /\ row[d].chunks \in {{}, ChunksOf(d)}
    /\ \A s \in {mem, disk} :
           /\ s.text \in SUBSET Chunks /\ s.vdb \in SUBSET Objects
           /\ \A d \in Docs : s.names[d] \in {None, NamesOf(d)} /\ s.pairs[d] \in {None, PairsOf(d)}
           /\ \A x \in Objects : s.track[x] # None => s.track[x] \subseteq Chunks
    /\ faults \in 0 .. MaxFaults

\* docs/design/PurgeRecoveryContract.md: a purge never leaves objects behind after
\* the anchors that name them, in memory or on disk, whatever failed in between.
NoObjectStranded ==
    \A s \in {mem, disk} : \A x \in Objects :
        s.graph[x] # None => \E d \in Docs : row[d] # None /\ x \in Anchored(s, d)

\* A document that was deleted leaves no chunk, no anchor and no tracked source.
DeletedIsGone ==
    \A d \in Docs : row[d] = None =>
        /\ mem.text \cap ChunksOf(d) = {}
        /\ mem.names[d] = None /\ mem.pairs[d] = None
        /\ \A x \in Objects : mem.graph[x] # None /\ mem.track[x] # None =>
               mem.track[x] \cap ChunksOf(d) = {}

\* What a processed document contributed stays, searchable and attributed to its
\* chunks, in memory and on disk, whatever is done to the other documents.
ContributionsKept ==
    \A d \in Docs :
        row[d] # None /\ row[d].status = "processed" /\ row[d].journal = None =>
            \A s \in {mem, disk} :
                /\ ChunksOf(d) \subseteq s.text
                /\ \A x \in Yielded(d) :
                       /\ s.graph[x] # None /\ x \in s.vdb
                       /\ s.track[x] # None /\ Evidence(d, x) \subseteq s.track[x]

\* A purge is not refused: what failed can be tried again, and what is processed can be
\* deleted (docs/design/PurgeRecoveryContract.md on the journal).
NeverRefused == \A d \in Docs : ~Refused(d)
=============================================================================
