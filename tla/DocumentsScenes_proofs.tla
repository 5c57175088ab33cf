------------------------ MODULE DocumentsScenes_proofs ------------------------
(***************************************************************************)
(* The property of MCDocuments about what other documents contributed, for  *)
(* whatever its documents, chunks and objects stand for: the theorem of     *)
(* SharedKnowledge_proofs, applied to the six scenes.                     *)
(***************************************************************************)
EXTENDS MCDocuments, TLAPS

\* The module of the proofs is also about the keyed locks and the gate, which have no
\* part here.
CONSTANTS Procs, Contexts, Keys, Pids, Multiprocess, MayMissSample, LeaseIds, Limit, Ttl,
          Grace, StaleTtl, MaxTime
VARIABLES ctx, table, locked, holders, proc, now, alive, leases, waiters, held, renewed,
          favored

\* the proofs, about the same instances
DeletesProof == INSTANCE SharedKnowledge_proofs WITH
    Docs <- {d1, d2}, Entities <- {e1, e2}, Relations <- {r1}, Ends <- Between,
    Yield <- Touching, Ready <- {d1, d2}, Deletable <- {d1, d2}, Immediate <- Servers,
    Parallel <- 1, Reprocess <- FALSE, MaxFaults <- 3

SharedProof == INSTANCE SharedKnowledge_proofs WITH
    Docs <- {d1, d2}, Entities <- {e1, e2}, Relations <- {r1}, Ends <- Between,
    Yield <- Sharing, Ready <- {d1, d2}, Deletable <- {d1, d2}, Immediate <- {"graph"},
    Parallel <- 1, Reprocess <- FALSE, MaxFaults <- 3

FilesProof == INSTANCE SharedKnowledge_proofs WITH
    Docs <- {d1, d2}, Entities <- {e1, e2}, Relations <- {r1}, Ends <- Between,
    Yield <- Touching, Ready <- {d1, d2}, Deletable <- {d1, d2}, Immediate <- {},
    Parallel <- 1, Reprocess <- FALSE, MaxFaults <- 2

RetriesProof == INSTANCE SharedKnowledge_proofs WITH
    Docs <- {d1, d2}, Entities <- {e1, e2}, Relations <- {r1}, Ends <- Between,
    Yield <- Touching, Ready <- {d2}, Deletable <- {d1}, Immediate <- {},
    Parallel <- 1, Reprocess <- TRUE, MaxFaults <- 1

AgainProof == INSTANCE SharedKnowledge_proofs WITH
    Docs <- {d1, d2}, Entities <- {e1, e2}, Relations <- {r1}, Ends <- Between,
    Yield <- Touching, Ready <- {d2}, Deletable <- {d1}, Immediate <- {"graph"},
    Parallel <- 1, Reprocess <- TRUE, MaxFaults <- 2

TogetherProof == INSTANCE SharedKnowledge_proofs WITH
    Docs <- {d1, d2}, Entities <- {e1, e2}, Relations <- {r1}, Ends <- Between,
    Yield <- Sharing, Ready <- {}, Deletable <- {d1, d2}, Immediate <- {},
    Parallel <- 2, Reprocess <- FALSE, MaxFaults <- 0

-----------------------------------------------------------------------------
(* Two documents that are ready and are deleted *)

\* The assumptions of the proofs are those of the scene, and where it starts they start.
LEMMA DeletesInit ==
    /\ DeletesProof!Knowledge!KnowledgeAssumption /\ DeletesProof!PurgesAlone
    /\ Deletes!Init => DeletesProof!KnowledgeIInv
<1>1. DeletesProof!Knowledge!KnowledgeAssumption
  BY DocumentsAssumptions
  DEF  Deletes!KnowledgeAssumption, DeletesProof!Knowledge!KnowledgeAssumption,
     Deletes!IsFiniteSet,
       DeletesProof!Knowledge!IsFiniteSet, Deletes!Cardinality,
          DeletesProof!Knowledge!Cardinality,
       Deletes!ChunksOf, DeletesProof!Knowledge!ChunksOf, Deletes!Objects,
          DeletesProof!Knowledge!Objects,
       Deletes!Rows, DeletesProof!Knowledge!Rows, Deletes!Journals,
          DeletesProof!Knowledge!Journals,
       Deletes!Chunks, DeletesProof!Knowledge!Chunks, Deletes!Unfinished,
          DeletesProof!Knowledge!Unfinished
<1>2. DeletesProof!PurgesAlone
  BY DEF DeletesProof!PurgesAlone
<1>3. \A x : Deletes!Sources(x) = DeletesProof!Knowledge!Sources(x)
  BY DEF Deletes!Sources, DeletesProof!Knowledge!Sources, Deletes!Evidence,
     DeletesProof!Knowledge!Evidence,
       Deletes!ChunksOf, DeletesProof!Knowledge!ChunksOf
<1>4. Deletes!Init => DeletesProof!Knowledge!Init
  BY <1>3 DEF Deletes!Init, DeletesProof!Knowledge!Init, Deletes!Merged,
     DeletesProof!Knowledge!Merged,
       Deletes!Enqueued, DeletesProof!Knowledge!Enqueued, Deletes!Filled,
          DeletesProof!Knowledge!Filled,
       Deletes!Idle, DeletesProof!Knowledge!Idle, Deletes!ChunksOf,
          DeletesProof!Knowledge!ChunksOf,
       Deletes!NamesOf, DeletesProof!Knowledge!NamesOf, Deletes!PairsOf,
          DeletesProof!Knowledge!PairsOf,
       Deletes!Objects, DeletesProof!Knowledge!Objects, Deletes!Yielded,
          DeletesProof!Knowledge!Yielded,
       Deletes!Evidence, DeletesProof!Knowledge!Evidence, Deletes!Range,
          DeletesProof!Knowledge!Range
<1> QED
  BY <1>1, <1>2, <1>4, DeletesProof!InitIInv

\* Its steps are theirs.
LEMMA DeletesStep == Deletes!Next => DeletesProof!Knowledge!Next
BY DEF Deletes!Next, DeletesProof!Knowledge!Next, Deletes!Begin, DeletesProof!Knowledge!Begin,
       Deletes!BeginDelete, DeletesProof!Knowledge!BeginDelete, Deletes!Purge,
          DeletesProof!Knowledge!Purge,
       Deletes!Process, DeletesProof!Knowledge!Process, Deletes!Fail, DeletesProof!Knowledge!Fail,
       Deletes!Crash, DeletesProof!Knowledge!Crash, Deletes!Working,
          DeletesProof!Knowledge!Working,
       Deletes!Unfinished, DeletesProof!Knowledge!Unfinished, Deletes!Deleting,
          DeletesProof!Knowledge!Deleting,
       Deletes!Cardinality, DeletesProof!Knowledge!Cardinality, Deletes!Started,
          DeletesProof!Knowledge!Started,
       Deletes!Resolve, DeletesProof!Knowledge!Resolve, Deletes!Refuse,
          DeletesProof!Knowledge!Refuse,
       Deletes!Analyze, DeletesProof!Knowledge!Analyze, Deletes!Prune,
          DeletesProof!Knowledge!Prune,
       Deletes!CutEdges, DeletesProof!Knowledge!CutEdges, Deletes!UntrackEdges,
       DeletesProof!Knowledge!UntrackEdges, Deletes!CutIncident,
          DeletesProof!Knowledge!CutIncident,
       Deletes!CutNodes, DeletesProof!Knowledge!CutNodes, Deletes!UntrackNodes,
       DeletesProof!Knowledge!UntrackNodes, Deletes!FlushCut, DeletesProof!Knowledge!FlushCut,
          Deletes!Rebuild,
       DeletesProof!Knowledge!Rebuild, Deletes!FlushRebuilt, DeletesProof!Knowledge!FlushRebuilt,
       Deletes!Derived, DeletesProof!Knowledge!Derived, Deletes!DropChunks,
          DeletesProof!Knowledge!DropChunks,
       Deletes!FlushChunks, DeletesProof!Knowledge!FlushChunks, Deletes!Pending,
          DeletesProof!Knowledge!Pending,
       Deletes!DropNames, DeletesProof!Knowledge!DropNames, Deletes!DropPairs,
          DeletesProof!Knowledge!DropPairs,
       Deletes!FlushDropped, DeletesProof!Knowledge!FlushDropped, Deletes!Complete,
       DeletesProof!Knowledge!Complete, Deletes!Retire, DeletesProof!Knowledge!Retire,
          Deletes!Forget,
       DeletesProof!Knowledge!Forget, Deletes!Finish, DeletesProof!Knowledge!Finish,
          Deletes!Parse,
       DeletesProof!Knowledge!Parse, Deletes!Chunk, DeletesProof!Knowledge!Chunk,
          Deletes!NameChunks,
       DeletesProof!Knowledge!NameChunks, Deletes!StoreChunks, DeletesProof!Knowledge!StoreChunks,
       Deletes!AnchorNames, DeletesProof!Knowledge!AnchorNames, Deletes!AnchorPairs,
       DeletesProof!Knowledge!AnchorPairs, Deletes!FlushAnchors,
          DeletesProof!Knowledge!FlushAnchors,
       Deletes!Mark, DeletesProof!Knowledge!Mark, Deletes!Objects, DeletesProof!Knowledge!Objects,
       Deletes!Track, DeletesProof!Knowledge!Track, Deletes!Upsert, DeletesProof!Knowledge!Upsert,
       Deletes!FlushMerged, DeletesProof!Knowledge!FlushMerged, Deletes!Commit,
          DeletesProof!Knowledge!Commit,
       Deletes!Flushing, DeletesProof!Knowledge!Flushing, Deletes!GiveUp,
          DeletesProof!Knowledge!GiveUp,
       Deletes!Idle, DeletesProof!Knowledge!Idle, Deletes!Flushed,
          DeletesProof!Knowledge!Flushed, Deletes!At,
       DeletesProof!Knowledge!At, Deletes!Refused, DeletesProof!Knowledge!Refused,
          Deletes!Journal,
       DeletesProof!Knowledge!Journal, Deletes!Reached, DeletesProof!Knowledge!Reached,
          Deletes!AfterPurge,
       DeletesProof!Knowledge!AfterPurge, Deletes!Proof, DeletesProof!Knowledge!Proof,
          Deletes!Goto,
       DeletesProof!Knowledge!Goto, Deletes!WritePhase, DeletesProof!Knowledge!WritePhase,
          Deletes!Anchored,
       DeletesProof!Knowledge!Anchored, Deletes!Known, DeletesProof!Knowledge!Known,
          Deletes!Write,
       DeletesProof!Knowledge!Write, Deletes!Removed, DeletesProof!Knowledge!Removed,
          Deletes!Incident,
       DeletesProof!Knowledge!Incident, Deletes!Flush, DeletesProof!Knowledge!Flush,
          Deletes!Stores,
       DeletesProof!Knowledge!Stores, Deletes!Anchors, DeletesProof!Knowledge!Anchors,
          Deletes!ChunksOf,
       DeletesProof!Knowledge!ChunksOf, Deletes!Staged, DeletesProof!Knowledge!Staged,
          Deletes!Transition,
       DeletesProof!Knowledge!Transition, Deletes!NamesOf, DeletesProof!Knowledge!NamesOf,
          Deletes!PairsOf,
       DeletesProof!Knowledge!PairsOf, Deletes!Yielded, DeletesProof!Knowledge!Yielded,
          Deletes!Keys,
       DeletesProof!Knowledge!Keys, Deletes!Locked, DeletesProof!Knowledge!Locked,
          Deletes!Merging,
       DeletesProof!Knowledge!Merging, Deletes!Evidence, DeletesProof!Knowledge!Evidence,
          Deletes!EndsOf,
       DeletesProof!Knowledge!EndsOf, Deletes!Restrict, DeletesProof!Knowledge!Restrict,
          Deletes!Merged,
       DeletesProof!Knowledge!Merged, Deletes!Conflict, DeletesProof!Knowledge!Conflict,
          Deletes!Phases,
       DeletesProof!Knowledge!Phases, Deletes!Range, DeletesProof!Knowledge!Range

LEMMA DeletesNext ==
    ASSUME DeletesProof!KnowledgeIInv, Deletes!Next \/ UNCHANGED <<row, mem, disk, task, faults>>
    PROVE  DeletesProof!KnowledgeIInv'
<1>1. DeletesProof!Knowledge!Next \/ UNCHANGED DeletesProof!Knowledge!vars
  BY DeletesStep DEF DeletesProof!Knowledge!vars
<1> QED
  BY <1>1, DeletesInit, DeletesProof!NextIInv

\* What they keep is what the scene promises.
LEMMA DeletesKeeps == DeletesProof!KnowledgeIInv => Deletes!ContributionsKept
<1>1. DeletesProof!Knowledge!ContributionsKept => Deletes!ContributionsKept
  BY DEF Deletes!ContributionsKept, DeletesProof!Knowledge!ContributionsKept, Deletes!ChunksOf,
       DeletesProof!Knowledge!ChunksOf, Deletes!Yielded, DeletesProof!Knowledge!Yielded,
          Deletes!Evidence,
       DeletesProof!Knowledge!Evidence, Deletes!Range, DeletesProof!Knowledge!Range
<1> QED
  BY <1>1, DeletesInit, DeletesProof!IInvMeans

-----------------------------------------------------------------------------
(* The same with a relation in common *)

\* The assumptions of the proofs are those of the scene, and where it starts they start.
LEMMA SharedInit ==
    /\ SharedProof!Knowledge!KnowledgeAssumption /\ SharedProof!PurgesAlone
    /\ Shared!Init => SharedProof!KnowledgeIInv
<1>1. SharedProof!Knowledge!KnowledgeAssumption
  BY DocumentsAssumptions
  DEF  Shared!KnowledgeAssumption, SharedProof!Knowledge!KnowledgeAssumption, Shared!IsFiniteSet,
       SharedProof!Knowledge!IsFiniteSet, Shared!Cardinality, SharedProof!Knowledge!Cardinality,
       Shared!ChunksOf, SharedProof!Knowledge!ChunksOf, Shared!Objects,
          SharedProof!Knowledge!Objects,
       Shared!Rows, SharedProof!Knowledge!Rows, Shared!Journals, SharedProof!Knowledge!Journals,
          Shared!Chunks,
       SharedProof!Knowledge!Chunks, Shared!Unfinished, SharedProof!Knowledge!Unfinished
<1>2. SharedProof!PurgesAlone
  BY DEF SharedProof!PurgesAlone
<1>3. \A x : Shared!Sources(x) = SharedProof!Knowledge!Sources(x)
  BY DEF Shared!Sources, SharedProof!Knowledge!Sources, Shared!Evidence,
     SharedProof!Knowledge!Evidence,
       Shared!ChunksOf, SharedProof!Knowledge!ChunksOf
<1>4. Shared!Init => SharedProof!Knowledge!Init
  BY <1>3 DEF Shared!Init, SharedProof!Knowledge!Init, Shared!Merged,
     SharedProof!Knowledge!Merged, Shared!Enqueued,
       SharedProof!Knowledge!Enqueued, Shared!Filled, SharedProof!Knowledge!Filled, Shared!Idle,
       SharedProof!Knowledge!Idle, Shared!ChunksOf, SharedProof!Knowledge!ChunksOf,
          Shared!NamesOf,
       SharedProof!Knowledge!NamesOf, Shared!PairsOf, SharedProof!Knowledge!PairsOf,
          Shared!Objects,
       SharedProof!Knowledge!Objects, Shared!Yielded, SharedProof!Knowledge!Yielded,
          Shared!Evidence,
       SharedProof!Knowledge!Evidence, Shared!Range, SharedProof!Knowledge!Range
<1> QED
  BY <1>1, <1>2, <1>4, SharedProof!InitIInv

\* Its steps are theirs.
LEMMA SharedStep == Shared!Next => SharedProof!Knowledge!Next
BY DEF Shared!Next, SharedProof!Knowledge!Next, Shared!Begin, SharedProof!Knowledge!Begin,
   Shared!BeginDelete,
       SharedProof!Knowledge!BeginDelete, Shared!Purge, SharedProof!Knowledge!Purge,
          Shared!Process,
       SharedProof!Knowledge!Process, Shared!Fail, SharedProof!Knowledge!Fail, Shared!Crash,
          SharedProof!Knowledge!Crash,
       Shared!Working, SharedProof!Knowledge!Working, Shared!Unfinished,
          SharedProof!Knowledge!Unfinished,
       Shared!Deleting, SharedProof!Knowledge!Deleting, Shared!Cardinality,
          SharedProof!Knowledge!Cardinality,
       Shared!Started, SharedProof!Knowledge!Started, Shared!Resolve,
          SharedProof!Knowledge!Resolve,
       Shared!Refuse, SharedProof!Knowledge!Refuse, Shared!Analyze,
          SharedProof!Knowledge!Analyze, Shared!Prune,
       SharedProof!Knowledge!Prune, Shared!CutEdges, SharedProof!Knowledge!CutEdges,
          Shared!UntrackEdges,
       SharedProof!Knowledge!UntrackEdges, Shared!CutIncident, SharedProof!Knowledge!CutIncident,
       Shared!CutNodes, SharedProof!Knowledge!CutNodes, Shared!UntrackNodes,
          SharedProof!Knowledge!UntrackNodes,
       Shared!FlushCut, SharedProof!Knowledge!FlushCut, Shared!Rebuild,
          SharedProof!Knowledge!Rebuild,
       Shared!FlushRebuilt, SharedProof!Knowledge!FlushRebuilt, Shared!Derived,
          SharedProof!Knowledge!Derived,
       Shared!DropChunks, SharedProof!Knowledge!DropChunks, Shared!FlushChunks,
       SharedProof!Knowledge!FlushChunks, Shared!Pending, SharedProof!Knowledge!Pending,
          Shared!DropNames,
       SharedProof!Knowledge!DropNames, Shared!DropPairs, SharedProof!Knowledge!DropPairs,
          Shared!FlushDropped,
       SharedProof!Knowledge!FlushDropped, Shared!Complete, SharedProof!Knowledge!Complete,
          Shared!Retire,
       SharedProof!Knowledge!Retire, Shared!Forget, SharedProof!Knowledge!Forget, Shared!Finish,
       SharedProof!Knowledge!Finish, Shared!Parse, SharedProof!Knowledge!Parse, Shared!Chunk,
          SharedProof!Knowledge!Chunk,
       Shared!NameChunks, SharedProof!Knowledge!NameChunks, Shared!StoreChunks,
       SharedProof!Knowledge!StoreChunks, Shared!AnchorNames, SharedProof!Knowledge!AnchorNames,
       Shared!AnchorPairs, SharedProof!Knowledge!AnchorPairs, Shared!FlushAnchors,
       SharedProof!Knowledge!FlushAnchors, Shared!Mark, SharedProof!Knowledge!Mark,
          Shared!Objects,
       SharedProof!Knowledge!Objects, Shared!Track, SharedProof!Knowledge!Track, Shared!Upsert,
       SharedProof!Knowledge!Upsert, Shared!FlushMerged, SharedProof!Knowledge!FlushMerged,
          Shared!Commit,
       SharedProof!Knowledge!Commit, Shared!Flushing, SharedProof!Knowledge!Flushing,
          Shared!GiveUp,
       SharedProof!Knowledge!GiveUp, Shared!Idle, SharedProof!Knowledge!Idle, Shared!Flushed,
       SharedProof!Knowledge!Flushed, Shared!At, SharedProof!Knowledge!At, Shared!Refused,
          SharedProof!Knowledge!Refused,
       Shared!Journal, SharedProof!Knowledge!Journal, Shared!Reached,
          SharedProof!Knowledge!Reached,
       Shared!AfterPurge, SharedProof!Knowledge!AfterPurge, Shared!Proof,
          SharedProof!Knowledge!Proof,
       Shared!Goto, SharedProof!Knowledge!Goto, Shared!WritePhase,
          SharedProof!Knowledge!WritePhase,
       Shared!Anchored, SharedProof!Knowledge!Anchored, Shared!Known,
          SharedProof!Knowledge!Known, Shared!Write,
       SharedProof!Knowledge!Write, Shared!Removed, SharedProof!Knowledge!Removed,
          Shared!Incident,
       SharedProof!Knowledge!Incident, Shared!Flush, SharedProof!Knowledge!Flush, Shared!Stores,
       SharedProof!Knowledge!Stores, Shared!Anchors, SharedProof!Knowledge!Anchors,
          Shared!ChunksOf,
       SharedProof!Knowledge!ChunksOf, Shared!Staged, SharedProof!Knowledge!Staged,
          Shared!Transition,
       SharedProof!Knowledge!Transition, Shared!NamesOf, SharedProof!Knowledge!NamesOf,
          Shared!PairsOf,
       SharedProof!Knowledge!PairsOf, Shared!Yielded, SharedProof!Knowledge!Yielded, Shared!Keys,
       SharedProof!Knowledge!Keys, Shared!Locked, SharedProof!Knowledge!Locked, Shared!Merging,
       SharedProof!Knowledge!Merging, Shared!Evidence, SharedProof!Knowledge!Evidence,
          Shared!EndsOf,
       SharedProof!Knowledge!EndsOf, Shared!Restrict, SharedProof!Knowledge!Restrict,
          Shared!Merged,
       SharedProof!Knowledge!Merged, Shared!Conflict, SharedProof!Knowledge!Conflict,
          Shared!Phases,
       SharedProof!Knowledge!Phases, Shared!Range, SharedProof!Knowledge!Range

LEMMA SharedNext ==
    ASSUME SharedProof!KnowledgeIInv, Shared!Next \/ UNCHANGED <<row, mem, disk, task, faults>>
    PROVE  SharedProof!KnowledgeIInv'
<1>1. SharedProof!Knowledge!Next \/ UNCHANGED SharedProof!Knowledge!vars
  BY SharedStep DEF SharedProof!Knowledge!vars
<1> QED
  BY <1>1, SharedInit, SharedProof!NextIInv

\* What they keep is what the scene promises.
LEMMA SharedKeeps == SharedProof!KnowledgeIInv => Shared!ContributionsKept
<1>1. SharedProof!Knowledge!ContributionsKept => Shared!ContributionsKept
  BY DEF Shared!ContributionsKept, SharedProof!Knowledge!ContributionsKept, Shared!ChunksOf,
       SharedProof!Knowledge!ChunksOf, Shared!Yielded, SharedProof!Knowledge!Yielded,
          Shared!Evidence,
       SharedProof!Knowledge!Evidence, Shared!Range, SharedProof!Knowledge!Range
<1> QED
  BY <1>1, SharedInit, SharedProof!IInvMeans

-----------------------------------------------------------------------------
(* The same with every store in files *)

\* The assumptions of the proofs are those of the scene, and where it starts they start.
LEMMA FilesInit ==
    /\ FilesProof!Knowledge!KnowledgeAssumption /\ FilesProof!PurgesAlone
    /\ Files!Init => FilesProof!KnowledgeIInv
<1>1. FilesProof!Knowledge!KnowledgeAssumption
  BY DocumentsAssumptions
  DEF  Files!KnowledgeAssumption, FilesProof!Knowledge!KnowledgeAssumption, Files!IsFiniteSet,
       FilesProof!Knowledge!IsFiniteSet, Files!Cardinality, FilesProof!Knowledge!Cardinality,
          Files!ChunksOf,
       FilesProof!Knowledge!ChunksOf, Files!Objects, FilesProof!Knowledge!Objects, Files!Rows,
          FilesProof!Knowledge!Rows,
       Files!Journals, FilesProof!Knowledge!Journals, Files!Chunks, FilesProof!Knowledge!Chunks,
       Files!Unfinished, FilesProof!Knowledge!Unfinished
<1>2. FilesProof!PurgesAlone
  BY DEF FilesProof!PurgesAlone
<1>3. \A x : Files!Sources(x) = FilesProof!Knowledge!Sources(x)
  BY DEF Files!Sources, FilesProof!Knowledge!Sources, Files!Evidence,
     FilesProof!Knowledge!Evidence,
       Files!ChunksOf, FilesProof!Knowledge!ChunksOf
<1>4. Files!Init => FilesProof!Knowledge!Init
  BY <1>3 DEF Files!Init, FilesProof!Knowledge!Init, Files!Merged, FilesProof!Knowledge!Merged,
     Files!Enqueued,
       FilesProof!Knowledge!Enqueued, Files!Filled, FilesProof!Knowledge!Filled, Files!Idle,
          FilesProof!Knowledge!Idle,
       Files!ChunksOf, FilesProof!Knowledge!ChunksOf, Files!NamesOf, FilesProof!Knowledge!NamesOf,
       Files!PairsOf, FilesProof!Knowledge!PairsOf, Files!Objects, FilesProof!Knowledge!Objects,
          Files!Yielded,
       FilesProof!Knowledge!Yielded, Files!Evidence, FilesProof!Knowledge!Evidence, Files!Range,
       FilesProof!Knowledge!Range
<1> QED
  BY <1>1, <1>2, <1>4, FilesProof!InitIInv

\* Its steps are theirs.
LEMMA FilesStep == Files!Next => FilesProof!Knowledge!Next
BY DEF Files!Next, FilesProof!Knowledge!Next, Files!Begin, FilesProof!Knowledge!Begin,
   Files!BeginDelete,
       FilesProof!Knowledge!BeginDelete, Files!Purge, FilesProof!Knowledge!Purge, Files!Process,
       FilesProof!Knowledge!Process, Files!Fail, FilesProof!Knowledge!Fail, Files!Crash,
          FilesProof!Knowledge!Crash,
       Files!Working, FilesProof!Knowledge!Working, Files!Unfinished,
          FilesProof!Knowledge!Unfinished,
       Files!Deleting, FilesProof!Knowledge!Deleting, Files!Cardinality,
          FilesProof!Knowledge!Cardinality,
       Files!Started, FilesProof!Knowledge!Started, Files!Resolve, FilesProof!Knowledge!Resolve,
          Files!Refuse,
       FilesProof!Knowledge!Refuse, Files!Analyze, FilesProof!Knowledge!Analyze, Files!Prune,
          FilesProof!Knowledge!Prune,
       Files!CutEdges, FilesProof!Knowledge!CutEdges, Files!UntrackEdges,
          FilesProof!Knowledge!UntrackEdges,
       Files!CutIncident, FilesProof!Knowledge!CutIncident, Files!CutNodes,
          FilesProof!Knowledge!CutNodes,
       Files!UntrackNodes, FilesProof!Knowledge!UntrackNodes, Files!FlushCut,
          FilesProof!Knowledge!FlushCut,
       Files!Rebuild, FilesProof!Knowledge!Rebuild, Files!FlushRebuilt,
          FilesProof!Knowledge!FlushRebuilt,
       Files!Derived, FilesProof!Knowledge!Derived, Files!DropChunks,
          FilesProof!Knowledge!DropChunks,
       Files!FlushChunks, FilesProof!Knowledge!FlushChunks, Files!Pending,
          FilesProof!Knowledge!Pending,
       Files!DropNames, FilesProof!Knowledge!DropNames, Files!DropPairs,
          FilesProof!Knowledge!DropPairs,
       Files!FlushDropped, FilesProof!Knowledge!FlushDropped, Files!Complete,
          FilesProof!Knowledge!Complete,
       Files!Retire, FilesProof!Knowledge!Retire, Files!Forget, FilesProof!Knowledge!Forget,
          Files!Finish,
       FilesProof!Knowledge!Finish, Files!Parse, FilesProof!Knowledge!Parse, Files!Chunk,
          FilesProof!Knowledge!Chunk,
       Files!NameChunks, FilesProof!Knowledge!NameChunks, Files!StoreChunks,
          FilesProof!Knowledge!StoreChunks,
       Files!AnchorNames, FilesProof!Knowledge!AnchorNames, Files!AnchorPairs,
          FilesProof!Knowledge!AnchorPairs,
       Files!FlushAnchors, FilesProof!Knowledge!FlushAnchors, Files!Mark,
          FilesProof!Knowledge!Mark,
       Files!Objects, FilesProof!Knowledge!Objects, Files!Track, FilesProof!Knowledge!Track,
          Files!Upsert,
       FilesProof!Knowledge!Upsert, Files!FlushMerged, FilesProof!Knowledge!FlushMerged,
          Files!Commit,
       FilesProof!Knowledge!Commit, Files!Flushing, FilesProof!Knowledge!Flushing, Files!GiveUp,
       FilesProof!Knowledge!GiveUp, Files!Idle, FilesProof!Knowledge!Idle, Files!Flushed,
          FilesProof!Knowledge!Flushed,
       Files!At, FilesProof!Knowledge!At, Files!Refused, FilesProof!Knowledge!Refused,
          Files!Journal,
       FilesProof!Knowledge!Journal, Files!Reached, FilesProof!Knowledge!Reached,
          Files!AfterPurge,
       FilesProof!Knowledge!AfterPurge, Files!Proof, FilesProof!Knowledge!Proof, Files!Goto,
          FilesProof!Knowledge!Goto,
       Files!WritePhase, FilesProof!Knowledge!WritePhase, Files!Anchored,
          FilesProof!Knowledge!Anchored,
       Files!Known, FilesProof!Knowledge!Known, Files!Write, FilesProof!Knowledge!Write,
          Files!Removed,
       FilesProof!Knowledge!Removed, Files!Incident, FilesProof!Knowledge!Incident, Files!Flush,
       FilesProof!Knowledge!Flush, Files!Stores, FilesProof!Knowledge!Stores, Files!Anchors,
          FilesProof!Knowledge!Anchors,
       Files!ChunksOf, FilesProof!Knowledge!ChunksOf, Files!Staged, FilesProof!Knowledge!Staged,
       Files!Transition, FilesProof!Knowledge!Transition, Files!NamesOf,
          FilesProof!Knowledge!NamesOf,
       Files!PairsOf, FilesProof!Knowledge!PairsOf, Files!Yielded, FilesProof!Knowledge!Yielded,
          Files!Keys,
       FilesProof!Knowledge!Keys, Files!Locked, FilesProof!Knowledge!Locked, Files!Merging,
          FilesProof!Knowledge!Merging,
       Files!Evidence, FilesProof!Knowledge!Evidence, Files!EndsOf, FilesProof!Knowledge!EndsOf,
          Files!Restrict,
       FilesProof!Knowledge!Restrict, Files!Merged, FilesProof!Knowledge!Merged, Files!Conflict,
       FilesProof!Knowledge!Conflict, Files!Phases, FilesProof!Knowledge!Phases, Files!Range,
          FilesProof!Knowledge!Range

LEMMA FilesNext ==
    ASSUME FilesProof!KnowledgeIInv, Files!Next \/ UNCHANGED <<row, mem, disk, task, faults>>
    PROVE  FilesProof!KnowledgeIInv'
<1>1. FilesProof!Knowledge!Next \/ UNCHANGED FilesProof!Knowledge!vars
  BY FilesStep DEF FilesProof!Knowledge!vars
<1> QED
  BY <1>1, FilesInit, FilesProof!NextIInv

\* What they keep is what the scene promises.
LEMMA FilesKeeps == FilesProof!KnowledgeIInv => Files!ContributionsKept
<1>1. FilesProof!Knowledge!ContributionsKept => Files!ContributionsKept
  BY DEF Files!ContributionsKept, FilesProof!Knowledge!ContributionsKept, Files!ChunksOf,
       FilesProof!Knowledge!ChunksOf, Files!Yielded, FilesProof!Knowledge!Yielded, Files!Evidence,
       FilesProof!Knowledge!Evidence, Files!Range, FilesProof!Knowledge!Range
<1> QED
  BY <1>1, FilesInit, FilesProof!IInvMeans

-----------------------------------------------------------------------------
(* A document that is retried and deleted beside one that is ready *)

\* The assumptions of the proofs are those of the scene, and where it starts they start.
LEMMA RetriesInit ==
    /\ RetriesProof!Knowledge!KnowledgeAssumption /\ RetriesProof!PurgesAlone
    /\ Retries!Init => RetriesProof!KnowledgeIInv
<1>1. RetriesProof!Knowledge!KnowledgeAssumption
  BY DocumentsAssumptions
  DEF  Retries!KnowledgeAssumption, RetriesProof!Knowledge!KnowledgeAssumption,
     Retries!IsFiniteSet,
       RetriesProof!Knowledge!IsFiniteSet, Retries!Cardinality,
          RetriesProof!Knowledge!Cardinality,
       Retries!ChunksOf, RetriesProof!Knowledge!ChunksOf, Retries!Objects,
          RetriesProof!Knowledge!Objects,
       Retries!Rows, RetriesProof!Knowledge!Rows, Retries!Journals,
          RetriesProof!Knowledge!Journals,
       Retries!Chunks, RetriesProof!Knowledge!Chunks, Retries!Unfinished,
          RetriesProof!Knowledge!Unfinished
<1>2. RetriesProof!PurgesAlone
  BY DEF RetriesProof!PurgesAlone
<1>3. \A x : Retries!Sources(x) = RetriesProof!Knowledge!Sources(x)
  BY DEF Retries!Sources, RetriesProof!Knowledge!Sources, Retries!Evidence,
     RetriesProof!Knowledge!Evidence,
       Retries!ChunksOf, RetriesProof!Knowledge!ChunksOf
<1>4. Retries!Init => RetriesProof!Knowledge!Init
  BY <1>3 DEF Retries!Init, RetriesProof!Knowledge!Init, Retries!Merged,
     RetriesProof!Knowledge!Merged,
       Retries!Enqueued, RetriesProof!Knowledge!Enqueued, Retries!Filled,
          RetriesProof!Knowledge!Filled,
       Retries!Idle, RetriesProof!Knowledge!Idle, Retries!ChunksOf,
          RetriesProof!Knowledge!ChunksOf,
       Retries!NamesOf, RetriesProof!Knowledge!NamesOf, Retries!PairsOf,
          RetriesProof!Knowledge!PairsOf,
       Retries!Objects, RetriesProof!Knowledge!Objects, Retries!Yielded,
          RetriesProof!Knowledge!Yielded,
       Retries!Evidence, RetriesProof!Knowledge!Evidence, Retries!Range,
          RetriesProof!Knowledge!Range
<1> QED
  BY <1>1, <1>2, <1>4, RetriesProof!InitIInv

\* Its steps are theirs.
LEMMA RetriesStep == Retries!Next => RetriesProof!Knowledge!Next
BY DEF Retries!Next, RetriesProof!Knowledge!Next, Retries!Begin, RetriesProof!Knowledge!Begin,
       Retries!BeginDelete, RetriesProof!Knowledge!BeginDelete, Retries!Purge,
          RetriesProof!Knowledge!Purge,
       Retries!Process, RetriesProof!Knowledge!Process, Retries!Fail, RetriesProof!Knowledge!Fail,
       Retries!Crash, RetriesProof!Knowledge!Crash, Retries!Working,
          RetriesProof!Knowledge!Working,
       Retries!Unfinished, RetriesProof!Knowledge!Unfinished, Retries!Deleting,
          RetriesProof!Knowledge!Deleting,
       Retries!Cardinality, RetriesProof!Knowledge!Cardinality, Retries!Started,
          RetriesProof!Knowledge!Started,
       Retries!Resolve, RetriesProof!Knowledge!Resolve, Retries!Refuse,
          RetriesProof!Knowledge!Refuse,
       Retries!Analyze, RetriesProof!Knowledge!Analyze, Retries!Prune,
          RetriesProof!Knowledge!Prune,
       Retries!CutEdges, RetriesProof!Knowledge!CutEdges, Retries!UntrackEdges,
       RetriesProof!Knowledge!UntrackEdges, Retries!CutIncident,
          RetriesProof!Knowledge!CutIncident,
       Retries!CutNodes, RetriesProof!Knowledge!CutNodes, Retries!UntrackNodes,
       RetriesProof!Knowledge!UntrackNodes, Retries!FlushCut, RetriesProof!Knowledge!FlushCut,
          Retries!Rebuild,
       RetriesProof!Knowledge!Rebuild, Retries!FlushRebuilt, RetriesProof!Knowledge!FlushRebuilt,
       Retries!Derived, RetriesProof!Knowledge!Derived, Retries!DropChunks,
          RetriesProof!Knowledge!DropChunks,
       Retries!FlushChunks, RetriesProof!Knowledge!FlushChunks, Retries!Pending,
          RetriesProof!Knowledge!Pending,
       Retries!DropNames, RetriesProof!Knowledge!DropNames, Retries!DropPairs,
          RetriesProof!Knowledge!DropPairs,
       Retries!FlushDropped, RetriesProof!Knowledge!FlushDropped, Retries!Complete,
       RetriesProof!Knowledge!Complete, Retries!Retire, RetriesProof!Knowledge!Retire,
          Retries!Forget,
       RetriesProof!Knowledge!Forget, Retries!Finish, RetriesProof!Knowledge!Finish,
          Retries!Parse,
       RetriesProof!Knowledge!Parse, Retries!Chunk, RetriesProof!Knowledge!Chunk,
          Retries!NameChunks,
       RetriesProof!Knowledge!NameChunks, Retries!StoreChunks, RetriesProof!Knowledge!StoreChunks,
       Retries!AnchorNames, RetriesProof!Knowledge!AnchorNames, Retries!AnchorPairs,
       RetriesProof!Knowledge!AnchorPairs, Retries!FlushAnchors,
          RetriesProof!Knowledge!FlushAnchors,
       Retries!Mark, RetriesProof!Knowledge!Mark, Retries!Objects, RetriesProof!Knowledge!Objects,
       Retries!Track, RetriesProof!Knowledge!Track, Retries!Upsert, RetriesProof!Knowledge!Upsert,
       Retries!FlushMerged, RetriesProof!Knowledge!FlushMerged, Retries!Commit,
          RetriesProof!Knowledge!Commit,
       Retries!Flushing, RetriesProof!Knowledge!Flushing, Retries!GiveUp,
          RetriesProof!Knowledge!GiveUp,
       Retries!Idle, RetriesProof!Knowledge!Idle, Retries!Flushed,
          RetriesProof!Knowledge!Flushed, Retries!At,
       RetriesProof!Knowledge!At, Retries!Refused, RetriesProof!Knowledge!Refused,
          Retries!Journal,
       RetriesProof!Knowledge!Journal, Retries!Reached, RetriesProof!Knowledge!Reached,
          Retries!AfterPurge,
       RetriesProof!Knowledge!AfterPurge, Retries!Proof, RetriesProof!Knowledge!Proof,
          Retries!Goto,
       RetriesProof!Knowledge!Goto, Retries!WritePhase, RetriesProof!Knowledge!WritePhase,
          Retries!Anchored,
       RetriesProof!Knowledge!Anchored, Retries!Known, RetriesProof!Knowledge!Known,
          Retries!Write,
       RetriesProof!Knowledge!Write, Retries!Removed, RetriesProof!Knowledge!Removed,
          Retries!Incident,
       RetriesProof!Knowledge!Incident, Retries!Flush, RetriesProof!Knowledge!Flush,
          Retries!Stores,
       RetriesProof!Knowledge!Stores, Retries!Anchors, RetriesProof!Knowledge!Anchors,
          Retries!ChunksOf,
       RetriesProof!Knowledge!ChunksOf, Retries!Staged, RetriesProof!Knowledge!Staged,
          Retries!Transition,
       RetriesProof!Knowledge!Transition, Retries!NamesOf, RetriesProof!Knowledge!NamesOf,
          Retries!PairsOf,
       RetriesProof!Knowledge!PairsOf, Retries!Yielded, RetriesProof!Knowledge!Yielded,
          Retries!Keys,
       RetriesProof!Knowledge!Keys, Retries!Locked, RetriesProof!Knowledge!Locked,
          Retries!Merging,
       RetriesProof!Knowledge!Merging, Retries!Evidence, RetriesProof!Knowledge!Evidence,
          Retries!EndsOf,
       RetriesProof!Knowledge!EndsOf, Retries!Restrict, RetriesProof!Knowledge!Restrict,
          Retries!Merged,
       RetriesProof!Knowledge!Merged, Retries!Conflict, RetriesProof!Knowledge!Conflict,
          Retries!Phases,
       RetriesProof!Knowledge!Phases, Retries!Range, RetriesProof!Knowledge!Range

LEMMA RetriesNext ==
    ASSUME RetriesProof!KnowledgeIInv, Retries!Next \/ UNCHANGED <<row, mem, disk, task, faults>>
    PROVE  RetriesProof!KnowledgeIInv'
<1>1. RetriesProof!Knowledge!Next \/ UNCHANGED RetriesProof!Knowledge!vars
  BY RetriesStep DEF RetriesProof!Knowledge!vars
<1> QED
  BY <1>1, RetriesInit, RetriesProof!NextIInv

\* What they keep is what the scene promises.
LEMMA RetriesKeeps == RetriesProof!KnowledgeIInv => Retries!ContributionsKept
<1>1. RetriesProof!Knowledge!ContributionsKept => Retries!ContributionsKept
  BY DEF Retries!ContributionsKept, RetriesProof!Knowledge!ContributionsKept, Retries!ChunksOf,
       RetriesProof!Knowledge!ChunksOf, Retries!Yielded, RetriesProof!Knowledge!Yielded,
          Retries!Evidence,
       RetriesProof!Knowledge!Evidence, Retries!Range, RetriesProof!Knowledge!Range
<1> QED
  BY <1>1, RetriesInit, RetriesProof!IInvMeans

-----------------------------------------------------------------------------
(* The same when the retry fails too *)

\* The assumptions of the proofs are those of the scene, and where it starts they start.
LEMMA AgainInit ==
    /\ AgainProof!Knowledge!KnowledgeAssumption /\ AgainProof!PurgesAlone
    /\ Again!Init => AgainProof!KnowledgeIInv
<1>1. AgainProof!Knowledge!KnowledgeAssumption
  BY DocumentsAssumptions
  DEF  Again!KnowledgeAssumption, AgainProof!Knowledge!KnowledgeAssumption, Again!IsFiniteSet,
       AgainProof!Knowledge!IsFiniteSet, Again!Cardinality, AgainProof!Knowledge!Cardinality,
          Again!ChunksOf,
       AgainProof!Knowledge!ChunksOf, Again!Objects, AgainProof!Knowledge!Objects, Again!Rows,
          AgainProof!Knowledge!Rows,
       Again!Journals, AgainProof!Knowledge!Journals, Again!Chunks, AgainProof!Knowledge!Chunks,
       Again!Unfinished, AgainProof!Knowledge!Unfinished
<1>2. AgainProof!PurgesAlone
  BY DEF AgainProof!PurgesAlone
<1>3. \A x : Again!Sources(x) = AgainProof!Knowledge!Sources(x)
  BY DEF Again!Sources, AgainProof!Knowledge!Sources, Again!Evidence,
     AgainProof!Knowledge!Evidence,
       Again!ChunksOf, AgainProof!Knowledge!ChunksOf
<1>4. Again!Init => AgainProof!Knowledge!Init
  BY <1>3 DEF Again!Init, AgainProof!Knowledge!Init, Again!Merged, AgainProof!Knowledge!Merged,
     Again!Enqueued,
       AgainProof!Knowledge!Enqueued, Again!Filled, AgainProof!Knowledge!Filled, Again!Idle,
          AgainProof!Knowledge!Idle,
       Again!ChunksOf, AgainProof!Knowledge!ChunksOf, Again!NamesOf, AgainProof!Knowledge!NamesOf,
       Again!PairsOf, AgainProof!Knowledge!PairsOf, Again!Objects, AgainProof!Knowledge!Objects,
          Again!Yielded,
       AgainProof!Knowledge!Yielded, Again!Evidence, AgainProof!Knowledge!Evidence, Again!Range,
       AgainProof!Knowledge!Range
<1> QED
  BY <1>1, <1>2, <1>4, AgainProof!InitIInv

\* Its steps are theirs.
LEMMA AgainStep == Again!Next => AgainProof!Knowledge!Next
BY DEF Again!Next, AgainProof!Knowledge!Next, Again!Begin, AgainProof!Knowledge!Begin,
   Again!BeginDelete,
       AgainProof!Knowledge!BeginDelete, Again!Purge, AgainProof!Knowledge!Purge, Again!Process,
       AgainProof!Knowledge!Process, Again!Fail, AgainProof!Knowledge!Fail, Again!Crash,
          AgainProof!Knowledge!Crash,
       Again!Working, AgainProof!Knowledge!Working, Again!Unfinished,
          AgainProof!Knowledge!Unfinished,
       Again!Deleting, AgainProof!Knowledge!Deleting, Again!Cardinality,
          AgainProof!Knowledge!Cardinality,
       Again!Started, AgainProof!Knowledge!Started, Again!Resolve, AgainProof!Knowledge!Resolve,
          Again!Refuse,
       AgainProof!Knowledge!Refuse, Again!Analyze, AgainProof!Knowledge!Analyze, Again!Prune,
          AgainProof!Knowledge!Prune,
       Again!CutEdges, AgainProof!Knowledge!CutEdges, Again!UntrackEdges,
          AgainProof!Knowledge!UntrackEdges,
       Again!CutIncident, AgainProof!Knowledge!CutIncident, Again!CutNodes,
          AgainProof!Knowledge!CutNodes,
       Again!UntrackNodes, AgainProof!Knowledge!UntrackNodes, Again!FlushCut,
          AgainProof!Knowledge!FlushCut,
       Again!Rebuild, AgainProof!Knowledge!Rebuild, Again!FlushRebuilt,
          AgainProof!Knowledge!FlushRebuilt,
       Again!Derived, AgainProof!Knowledge!Derived, Again!DropChunks,
          AgainProof!Knowledge!DropChunks,
       Again!FlushChunks, AgainProof!Knowledge!FlushChunks, Again!Pending,
          AgainProof!Knowledge!Pending,
       Again!DropNames, AgainProof!Knowledge!DropNames, Again!DropPairs,
          AgainProof!Knowledge!DropPairs,
       Again!FlushDropped, AgainProof!Knowledge!FlushDropped, Again!Complete,
          AgainProof!Knowledge!Complete,
       Again!Retire, AgainProof!Knowledge!Retire, Again!Forget, AgainProof!Knowledge!Forget,
          Again!Finish,
       AgainProof!Knowledge!Finish, Again!Parse, AgainProof!Knowledge!Parse, Again!Chunk,
          AgainProof!Knowledge!Chunk,
       Again!NameChunks, AgainProof!Knowledge!NameChunks, Again!StoreChunks,
          AgainProof!Knowledge!StoreChunks,
       Again!AnchorNames, AgainProof!Knowledge!AnchorNames, Again!AnchorPairs,
          AgainProof!Knowledge!AnchorPairs,
       Again!FlushAnchors, AgainProof!Knowledge!FlushAnchors, Again!Mark,
          AgainProof!Knowledge!Mark,
       Again!Objects, AgainProof!Knowledge!Objects, Again!Track, AgainProof!Knowledge!Track,
          Again!Upsert,
       AgainProof!Knowledge!Upsert, Again!FlushMerged, AgainProof!Knowledge!FlushMerged,
          Again!Commit,
       AgainProof!Knowledge!Commit, Again!Flushing, AgainProof!Knowledge!Flushing, Again!GiveUp,
       AgainProof!Knowledge!GiveUp, Again!Idle, AgainProof!Knowledge!Idle, Again!Flushed,
          AgainProof!Knowledge!Flushed,
       Again!At, AgainProof!Knowledge!At, Again!Refused, AgainProof!Knowledge!Refused,
          Again!Journal,
       AgainProof!Knowledge!Journal, Again!Reached, AgainProof!Knowledge!Reached,
          Again!AfterPurge,
       AgainProof!Knowledge!AfterPurge, Again!Proof, AgainProof!Knowledge!Proof, Again!Goto,
          AgainProof!Knowledge!Goto,
       Again!WritePhase, AgainProof!Knowledge!WritePhase, Again!Anchored,
          AgainProof!Knowledge!Anchored,
       Again!Known, AgainProof!Knowledge!Known, Again!Write, AgainProof!Knowledge!Write,
          Again!Removed,
       AgainProof!Knowledge!Removed, Again!Incident, AgainProof!Knowledge!Incident, Again!Flush,
       AgainProof!Knowledge!Flush, Again!Stores, AgainProof!Knowledge!Stores, Again!Anchors,
          AgainProof!Knowledge!Anchors,
       Again!ChunksOf, AgainProof!Knowledge!ChunksOf, Again!Staged, AgainProof!Knowledge!Staged,
       Again!Transition, AgainProof!Knowledge!Transition, Again!NamesOf,
          AgainProof!Knowledge!NamesOf,
       Again!PairsOf, AgainProof!Knowledge!PairsOf, Again!Yielded, AgainProof!Knowledge!Yielded,
          Again!Keys,
       AgainProof!Knowledge!Keys, Again!Locked, AgainProof!Knowledge!Locked, Again!Merging,
          AgainProof!Knowledge!Merging,
       Again!Evidence, AgainProof!Knowledge!Evidence, Again!EndsOf, AgainProof!Knowledge!EndsOf,
          Again!Restrict,
       AgainProof!Knowledge!Restrict, Again!Merged, AgainProof!Knowledge!Merged, Again!Conflict,
       AgainProof!Knowledge!Conflict, Again!Phases, AgainProof!Knowledge!Phases, Again!Range,
          AgainProof!Knowledge!Range

LEMMA AgainNext ==
    ASSUME AgainProof!KnowledgeIInv, Again!Next \/ UNCHANGED <<row, mem, disk, task, faults>>
    PROVE  AgainProof!KnowledgeIInv'
<1>1. AgainProof!Knowledge!Next \/ UNCHANGED AgainProof!Knowledge!vars
  BY AgainStep DEF AgainProof!Knowledge!vars
<1> QED
  BY <1>1, AgainInit, AgainProof!NextIInv

\* What they keep is what the scene promises.
LEMMA AgainKeeps == AgainProof!KnowledgeIInv => Again!ContributionsKept
<1>1. AgainProof!Knowledge!ContributionsKept => Again!ContributionsKept
  BY DEF Again!ContributionsKept, AgainProof!Knowledge!ContributionsKept, Again!ChunksOf,
       AgainProof!Knowledge!ChunksOf, Again!Yielded, AgainProof!Knowledge!Yielded, Again!Evidence,
       AgainProof!Knowledge!Evidence, Again!Range, AgainProof!Knowledge!Range
<1> QED
  BY <1>1, AgainInit, AgainProof!IInvMeans

-----------------------------------------------------------------------------
(* Two documents that are merged side by side *)

\* The assumptions of the proofs are those of the scene, and where it starts they start.
LEMMA TogetherInit ==
    /\ TogetherProof!Knowledge!KnowledgeAssumption /\ TogetherProof!PurgesAlone
    /\ Together!Init => TogetherProof!KnowledgeIInv
<1>1. TogetherProof!Knowledge!KnowledgeAssumption
  BY DocumentsAssumptions
  DEF  Together!KnowledgeAssumption, TogetherProof!Knowledge!KnowledgeAssumption,
       Together!IsFiniteSet, TogetherProof!Knowledge!IsFiniteSet, Together!Cardinality,
       TogetherProof!Knowledge!Cardinality, Together!ChunksOf, TogetherProof!Knowledge!ChunksOf,
       Together!Objects, TogetherProof!Knowledge!Objects, Together!Rows,
          TogetherProof!Knowledge!Rows,
       Together!Journals, TogetherProof!Knowledge!Journals, Together!Chunks,
          TogetherProof!Knowledge!Chunks,
       Together!Unfinished, TogetherProof!Knowledge!Unfinished
<1>2. TogetherProof!PurgesAlone
  BY DEF TogetherProof!PurgesAlone
<1>3. \A x : Together!Sources(x) = TogetherProof!Knowledge!Sources(x)
  BY DEF Together!Sources, TogetherProof!Knowledge!Sources, Together!Evidence,
     TogetherProof!Knowledge!Evidence,
       Together!ChunksOf, TogetherProof!Knowledge!ChunksOf
<1>4. Together!Init => TogetherProof!Knowledge!Init
  BY <1>3 DEF Together!Init, TogetherProof!Knowledge!Init, Together!Merged,
     TogetherProof!Knowledge!Merged,
       Together!Enqueued, TogetherProof!Knowledge!Enqueued, Together!Filled,
          TogetherProof!Knowledge!Filled,
       Together!Idle, TogetherProof!Knowledge!Idle, Together!ChunksOf,
          TogetherProof!Knowledge!ChunksOf,
       Together!NamesOf, TogetherProof!Knowledge!NamesOf, Together!PairsOf,
          TogetherProof!Knowledge!PairsOf,
       Together!Objects, TogetherProof!Knowledge!Objects, Together!Yielded,
          TogetherProof!Knowledge!Yielded,
       Together!Evidence, TogetherProof!Knowledge!Evidence, Together!Range,
          TogetherProof!Knowledge!Range
<1> QED
  BY <1>1, <1>2, <1>4, TogetherProof!InitIInv

\* Its steps are theirs.
LEMMA TogetherStep == Together!Next => TogetherProof!Knowledge!Next
BY DEF Together!Next, TogetherProof!Knowledge!Next, Together!Begin, TogetherProof!Knowledge!Begin,
       Together!BeginDelete, TogetherProof!Knowledge!BeginDelete, Together!Purge,
          TogetherProof!Knowledge!Purge,
       Together!Process, TogetherProof!Knowledge!Process, Together!Fail,
          TogetherProof!Knowledge!Fail,
       Together!Crash, TogetherProof!Knowledge!Crash, Together!Working,
          TogetherProof!Knowledge!Working,
       Together!Unfinished, TogetherProof!Knowledge!Unfinished, Together!Deleting,
       TogetherProof!Knowledge!Deleting, Together!Cardinality,
          TogetherProof!Knowledge!Cardinality,
       Together!Started, TogetherProof!Knowledge!Started, Together!Resolve,
          TogetherProof!Knowledge!Resolve,
       Together!Refuse, TogetherProof!Knowledge!Refuse, Together!Analyze,
          TogetherProof!Knowledge!Analyze,
       Together!Prune, TogetherProof!Knowledge!Prune, Together!CutEdges,
          TogetherProof!Knowledge!CutEdges,
       Together!UntrackEdges, TogetherProof!Knowledge!UntrackEdges, Together!CutIncident,
       TogetherProof!Knowledge!CutIncident, Together!CutNodes, TogetherProof!Knowledge!CutNodes,
       Together!UntrackNodes, TogetherProof!Knowledge!UntrackNodes, Together!FlushCut,
       TogetherProof!Knowledge!FlushCut, Together!Rebuild, TogetherProof!Knowledge!Rebuild,
       Together!FlushRebuilt, TogetherProof!Knowledge!FlushRebuilt, Together!Derived,
       TogetherProof!Knowledge!Derived, Together!DropChunks, TogetherProof!Knowledge!DropChunks,
       Together!FlushChunks, TogetherProof!Knowledge!FlushChunks, Together!Pending,
       TogetherProof!Knowledge!Pending, Together!DropNames, TogetherProof!Knowledge!DropNames,
       Together!DropPairs, TogetherProof!Knowledge!DropPairs, Together!FlushDropped,
       TogetherProof!Knowledge!FlushDropped, Together!Complete, TogetherProof!Knowledge!Complete,
       Together!Retire, TogetherProof!Knowledge!Retire, Together!Forget,
          TogetherProof!Knowledge!Forget,
       Together!Finish, TogetherProof!Knowledge!Finish, Together!Parse,
          TogetherProof!Knowledge!Parse,
       Together!Chunk, TogetherProof!Knowledge!Chunk, Together!NameChunks,
          TogetherProof!Knowledge!NameChunks,
       Together!StoreChunks, TogetherProof!Knowledge!StoreChunks, Together!AnchorNames,
       TogetherProof!Knowledge!AnchorNames, Together!AnchorPairs,
          TogetherProof!Knowledge!AnchorPairs,
       Together!FlushAnchors, TogetherProof!Knowledge!FlushAnchors, Together!Mark,
          TogetherProof!Knowledge!Mark,
       Together!Objects, TogetherProof!Knowledge!Objects, Together!Track,
          TogetherProof!Knowledge!Track,
       Together!Upsert, TogetherProof!Knowledge!Upsert, Together!FlushMerged,
       TogetherProof!Knowledge!FlushMerged, Together!Commit, TogetherProof!Knowledge!Commit,
          Together!Flushing,
       TogetherProof!Knowledge!Flushing, Together!GiveUp, TogetherProof!Knowledge!GiveUp,
          Together!Idle,
       TogetherProof!Knowledge!Idle, Together!Flushed, TogetherProof!Knowledge!Flushed,
          Together!At,
       TogetherProof!Knowledge!At, Together!Refused, TogetherProof!Knowledge!Refused,
          Together!Journal,
       TogetherProof!Knowledge!Journal, Together!Reached, TogetherProof!Knowledge!Reached,
          Together!AfterPurge,
       TogetherProof!Knowledge!AfterPurge, Together!Proof, TogetherProof!Knowledge!Proof,
          Together!Goto,
       TogetherProof!Knowledge!Goto, Together!WritePhase, TogetherProof!Knowledge!WritePhase,
          Together!Anchored,
       TogetherProof!Knowledge!Anchored, Together!Known, TogetherProof!Knowledge!Known,
          Together!Write,
       TogetherProof!Knowledge!Write, Together!Removed, TogetherProof!Knowledge!Removed,
          Together!Incident,
       TogetherProof!Knowledge!Incident, Together!Flush, TogetherProof!Knowledge!Flush,
          Together!Stores,
       TogetherProof!Knowledge!Stores, Together!Anchors, TogetherProof!Knowledge!Anchors,
          Together!ChunksOf,
       TogetherProof!Knowledge!ChunksOf, Together!Staged, TogetherProof!Knowledge!Staged,
          Together!Transition,
       TogetherProof!Knowledge!Transition, Together!NamesOf, TogetherProof!Knowledge!NamesOf,
          Together!PairsOf,
       TogetherProof!Knowledge!PairsOf, Together!Yielded, TogetherProof!Knowledge!Yielded,
          Together!Keys,
       TogetherProof!Knowledge!Keys, Together!Locked, TogetherProof!Knowledge!Locked,
          Together!Merging,
       TogetherProof!Knowledge!Merging, Together!Evidence, TogetherProof!Knowledge!Evidence,
          Together!EndsOf,
       TogetherProof!Knowledge!EndsOf, Together!Restrict, TogetherProof!Knowledge!Restrict,
          Together!Merged,
       TogetherProof!Knowledge!Merged, Together!Conflict, TogetherProof!Knowledge!Conflict,
          Together!Phases,
       TogetherProof!Knowledge!Phases, Together!Range, TogetherProof!Knowledge!Range

LEMMA TogetherNext ==
    ASSUME TogetherProof!KnowledgeIInv, Together!Next \/ UNCHANGED <<row, mem, disk, task,
           faults>>
    PROVE  TogetherProof!KnowledgeIInv'
<1>1. TogetherProof!Knowledge!Next \/ UNCHANGED TogetherProof!Knowledge!vars
  BY TogetherStep DEF TogetherProof!Knowledge!vars
<1> QED
  BY <1>1, TogetherInit, TogetherProof!NextIInv

\* What they keep is what the scene promises.
LEMMA TogetherKeeps == TogetherProof!KnowledgeIInv => Together!ContributionsKept
<1>1. TogetherProof!Knowledge!ContributionsKept => Together!ContributionsKept
  BY DEF Together!ContributionsKept, TogetherProof!Knowledge!ContributionsKept, Together!ChunksOf,
       TogetherProof!Knowledge!ChunksOf, Together!Yielded, TogetherProof!Knowledge!Yielded,
          Together!Evidence,
       TogetherProof!Knowledge!Evidence, Together!Range, TogetherProof!Knowledge!Range
<1> QED
  BY <1>1, TogetherInit, TogetherProof!IInvMeans

-----------------------------------------------------------------------------
(* All scenes together *)

\* The invariant of the scene that is played.
SceneInv ==
    /\ scene = "deletes" => DeletesProof!KnowledgeIInv
    /\ scene = "shared" => SharedProof!KnowledgeIInv
    /\ scene = "files" => FilesProof!KnowledgeIInv
    /\ scene = "retries" => RetriesProof!KnowledgeIInv
    /\ scene = "again" => AgainProof!KnowledgeIInv
    /\ scene = "together" => TogetherProof!KnowledgeIInv

\* It holds in the beginning and after every step.
LEMMA SceneInvHolds == Spec => []SceneInv
<1>1. Init => SceneInv
  BY DeletesInit, SharedInit, FilesInit, RetriesInit, AgainInit, TogetherInit
     DEF Init, SceneInv
<1>2. SceneInv /\ [Next]_vars => SceneInv'
  <2> SUFFICES ASSUME SceneInv, [Next]_vars
               PROVE  SceneInv'
    OBVIOUS
  <2>1. scene' = scene
    BY DEF Next, vars
  <2>2. ASSUME scene = "deletes" PROVE DeletesProof!KnowledgeIInv'
    <3>1. Deletes!Next \/ UNCHANGED <<row, mem, disk, task, faults>>
      BY <2>2 DEF Next, vars
    <3> QED
      BY <2>2, <3>1, DeletesNext DEF SceneInv
  <2>3. ASSUME scene = "shared" PROVE SharedProof!KnowledgeIInv'
    <3>1. Shared!Next \/ UNCHANGED <<row, mem, disk, task, faults>>
      BY <2>3 DEF Next, vars
    <3> QED
      BY <2>3, <3>1, SharedNext DEF SceneInv
  <2>4. ASSUME scene = "files" PROVE FilesProof!KnowledgeIInv'
    <3>1. Files!Next \/ UNCHANGED <<row, mem, disk, task, faults>>
      BY <2>4 DEF Next, vars
    <3> QED
      BY <2>4, <3>1, FilesNext DEF SceneInv
  <2>5. ASSUME scene = "retries" PROVE RetriesProof!KnowledgeIInv'
    <3>1. Retries!Next \/ UNCHANGED <<row, mem, disk, task, faults>>
      BY <2>5 DEF Next, vars
    <3> QED
      BY <2>5, <3>1, RetriesNext DEF SceneInv
  <2>6. ASSUME scene = "again" PROVE AgainProof!KnowledgeIInv'
    <3>1. Again!Next \/ UNCHANGED <<row, mem, disk, task, faults>>
      BY <2>6 DEF Next, vars
    <3> QED
      BY <2>6, <3>1, AgainNext DEF SceneInv
  <2>7. ASSUME scene = "together" PROVE TogetherProof!KnowledgeIInv'
    <3>1. Together!Next \/ UNCHANGED <<row, mem, disk, task, faults>>
      BY <2>7 DEF Next, vars
    <3> QED
      BY <2>7, <3>1, TogetherNext DEF SceneInv
  <2> QED
    BY <2>1, <2>2, <2>3, <2>4, <2>5, <2>6, <2>7 DEF SceneInv
<1> QED
  BY <1>1, <1>2, PTL DEF Spec

\* Whatever is done to other documents, by deletions and retries that fail, are cancelled
\* or die in any place: what a processed document contributed stays, attributed to its
\* chunks (_purge_kg_contributions, merge_nodes_and_edges).
THEOREM OthersKeep == Spec => []OthersKeepTheirs
<1>1. SceneInv => OthersKeepTheirs
  BY DeletesKeeps, SharedKeeps, FilesKeeps, RetriesKeeps, AgainKeeps, TogetherKeeps
     DEF SceneInv, OthersKeepTheirs
<1> QED
  BY <1>1, SceneInvHolds, PTL
===============================================================================
