---------------------------- MODULE MCDocuments ----------------------------
(***************************************************************************)
(* Small instances of DocumentKnowledge.  A run explores several scenes:     *)
(* one is chosen in the initial state and stays.                            *)
(***************************************************************************)
EXTENDS Naturals, TLC

CONSTANTS Scenes,
          d1, d2,           \* documents
          c1, c2, c3,       \* chunks
          e1, e2, r1,       \* entities and a relation between them
          None

VARIABLES scene, row, mem, disk, task, faults

Between == r1 :> {e1, e2}
\* the first document names one entity and, in another chunk, the relation, which the
\* second names too; or both name one entity
Sharing == d1 :> (c1 :> {e1} @@ c2 :> {r1}) @@ d2 :> (c3 :> {r1})
Touching == d1 :> (c1 :> {e1, r1}) @@ d2 :> (c3 :> {e1})
\* every store is a database; the vector storages buffer
Servers == {"text", "names", "pairs", "track", "graph"}

\* two documents that are ready and are deleted
Deletes == INSTANCE DocumentKnowledge WITH
    Docs <- {d1, d2}, Entities <- {e1, e2}, Relations <- {r1}, Ends <- Between,
    Yield <- Touching, Ready <- {d1, d2}, Deletable <- {d1, d2}, Immediate <- Servers,
    Parallel <- 1, Reprocess <- FALSE, MaxFaults <- 3

\* the same with a relation in common; the graph in a database, the rest in files
Shared == INSTANCE DocumentKnowledge WITH
    Docs <- {d1, d2}, Entities <- {e1, e2}, Relations <- {r1}, Ends <- Between,
    Yield <- Sharing, Ready <- {d1, d2}, Deletable <- {d1, d2},
    Immediate <- {"graph"}, Parallel <- 1, Reprocess <- FALSE, MaxFaults <- 3

\* the same with every store in files
Files == INSTANCE DocumentKnowledge WITH
    Docs <- {d1, d2}, Entities <- {e1, e2}, Relations <- {r1}, Ends <- Between,
    Yield <- Touching, Ready <- {d1, d2}, Deletable <- {d1, d2}, Immediate <- {},
    Parallel <- 1, Reprocess <- FALSE, MaxFaults <- 2

\* a document that is processed, again when that fails, and deleted, beside one that is
\* ready
Retries == INSTANCE DocumentKnowledge WITH
    Docs <- {d1, d2}, Entities <- {e1, e2}, Relations <- {r1}, Ends <- Between,
    Yield <- Touching, Ready <- {d2}, Deletable <- {d1}, Immediate <- {}, Parallel <- 1,
    Reprocess <- TRUE, MaxFaults <- 1

\* the same when the retry fails too; the graph in a database
Again == INSTANCE DocumentKnowledge WITH
    Docs <- {d1, d2}, Entities <- {e1, e2}, Relations <- {r1}, Ends <- Between,
    Yield <- Touching, Ready <- {d2}, Deletable <- {d1}, Immediate <- {"graph"},
    Parallel <- 1, Reprocess <- TRUE, MaxFaults <- 2

\* two documents that are merged side by side
Together == INSTANCE DocumentKnowledge WITH
    Docs <- {d1, d2}, Entities <- {e1, e2}, Relations <- {r1}, Ends <- Between,
    Yield <- Sharing, Ready <- {}, Deletable <- {d1, d2}, Immediate <- {}, Parallel <- 2,
    Reprocess <- FALSE, MaxFaults <- 0

ASSUME DocumentsAssumptions ==
    /\ Deletes!KnowledgeAssumption /\ Shared!KnowledgeAssumption /\ Files!KnowledgeAssumption
    /\ Retries!KnowledgeAssumption /\ Again!KnowledgeAssumption
    /\ Together!KnowledgeAssumption

vars == <<scene, row, mem, disk, task, faults>>

Init ==
    /\ scene \in Scenes
    /\ \/ scene = "deletes" /\ Deletes!Init
       \/ scene = "shared" /\ Shared!Init
       \/ scene = "files" /\ Files!Init
       \/ scene = "retries" /\ Retries!Init
       \/ scene = "again" /\ Again!Init
       \/ scene = "together" /\ Together!Init

Next ==
    /\ scene' = scene
    /\ \/ scene = "deletes" /\ Deletes!Next
       \/ scene = "shared" /\ Shared!Next
       \/ scene = "files" /\ Files!Next
       \/ scene = "retries" /\ Retries!Next
       \/ scene = "again" /\ Again!Next
       \/ scene = "together" /\ Together!Next

Spec == Init /\ [][Next]_vars

-----------------------------------------------------------------------------
(* Properties: those of the component, in the scenes they are about *)

\* No purge that is interrupted, fails, goes on or is done again leaves an object in
\* the graph that no anchor names (_purge_kg_contributions), where the graph is a
\* database or nothing fails.  With every store in files a torn flush may leave one.
ObjectsStayAnchored ==
    /\ scene = "deletes" => Deletes!TypeOK /\ Deletes!NoObjectStranded
    /\ scene = "shared" => Shared!TypeOK /\ Shared!NoObjectStranded
    /\ scene = "retries" => Retries!TypeOK
    /\ scene = "again" => Again!TypeOK /\ Again!NoObjectStranded
    /\ scene = "together" => Together!TypeOK /\ Together!NoObjectStranded

\* A deletion that failed can be tried again, and so can a document whose processing
\* failed once: their purges are not refused for want of a proof.  After
\* adelete_by_doc_id no chunk, no anchor and no tracked source of the document is left,
\* but where a flush of files was torn.  When the retry of a document fails too (scene
\* "again"), neither holds.
DeletesWork ==
    /\ scene = "deletes" => Deletes!DeletedIsGone /\ Deletes!NeverRefused
    /\ scene = "shared" => Shared!DeletedIsGone /\ Shared!NeverRefused
    /\ scene = "files" => Files!NeverRefused
    /\ scene = "retries" => Retries!DeletedIsGone /\ Retries!NeverRefused
    /\ scene = "together" => Together!DeletedIsGone /\ Together!NeverRefused

\* Whatever is done to other documents: what a processed document contributed stays in
\* the graph and the vector storages, attributed to its chunks.
OthersKeepTheirs ==
    /\ scene = "deletes" => Deletes!ContributionsKept
    /\ scene = "shared" => Shared!ContributionsKept
    /\ scene = "files" => Files!ContributionsKept
    /\ scene = "retries" => Retries!ContributionsKept
    /\ scene = "again" => Again!ContributionsKept
    /\ scene = "together" => Together!ContributionsKept

\* "Delete a document and all its related data, including chunks, graph elements."
DeletesItsChunks == scene = "again" => Again!DeletedIsGone
=============================================================================
