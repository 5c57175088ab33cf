------------------------ MODULE MCPipelineScheduler -------------------------
(***************************************************************************)
(* Small instances of PipelineScheduler for TLC.  A run explores several    *)
(* scenes, which differ in the failures, the documents and the paging: one  *)
(* is chosen in the initial state and stays.  A scene takes the component   *)
(* with its proofs, so that SchedulerScenes_proofs can apply them to it.    *)
(***************************************************************************)
EXTENDS PipelineScheduler_proofs

CONSTANT Scenes

VARIABLE scene

\* nothing fails and nothing is left over in the scenes that are not instances with
\* failures or rows of their own, and no scene has a document None
ASSUME ScenesAssumption ==
    Faults = {} /\ Orphans = {} /\ Journaled = {} /\ None \notin 1 .. 4

\* The scheduler as it stands.  With this instance TLC knows PipelineScheduler as
\* an instantiated module, and evaluates its definitions anew in every scene.
Plain == INSTANCE PipelineScheduler

\* without paging
Unpaged == INSTANCE PipelineScheduler_proofs WITH
    PageSize <- 0, Kinds <- {"insert", "retry"}

\* status pages, rows, publishes and contents that cannot be read or written
Faulty == INSTANCE PipelineScheduler_proofs WITH
    NDocs <- 2, OldFailed <- {}, Stubs <- {}, Orphans <- {}, Journaled <- {},
    Kinds <- {"insert", "admin"},
    Faults <- {"page", "status", "publish", "read"}

\* a retry over one-row pages, with a row whose content is gone
Retry == INSTANCE PipelineScheduler_proofs WITH
    NDocs <- 3, OldFailed <- {1}, Stubs <- {}, Orphans <- {2}, Journaled <- {},
    PageSize <- 1, Kinds <- {"insert", "retry"},
    Faults <- {"batch", "page", "validate"}

\* a drain that stalls, with a stub and an unfinished custom-chunk journal
Fence == INSTANCE PipelineScheduler_proofs WITH
    NDocs <- 4, OldFailed <- {1}, Stubs <- {2}, Orphans <- {}, Journaled <- {3},
    PageSize <- 1,
    Kinds <- {"insert", "retry", "process"},
    Faults <- {"stall", "write", "internal", "cancel"}

SceneInit ==
    /\ scene \in Scenes
    /\ CASE scene = "faulty" -> Faulty!Init
         [] scene = "unpaged" -> Unpaged!Init
         [] scene = "retry" -> Retry!Init
         [] scene = "fence" -> Fence!Init
         [] OTHER -> Init

SceneNext ==
    /\ scene' = scene
    /\ \/ scene = "paged" /\ Next
       \/ scene = "unpaged" /\ Unpaged!Next
       \/ scene = "faulty" /\ Faulty!Next
       \/ scene = "retry" /\ Retry!Next
       \/ scene = "fence" /\ Fence!Next

SceneSpec == SceneInit /\ [][SceneNext]_<<vars, scene>>

\* No document is left waiting without a wake-up: nothing is left at all where
\* nothing fails, with status pages and without; and where pages, rows, publishes
\* and contents fail, the mailbox keeps a signal for what was left.
NothingStranded ==
    /\ scene \in {"paged", "unpaged"} => NoStrandedWork
    /\ scene = "faulty" => SignalSurvives

\* ResetFindsIdle with the one-row pages, the journaled row, the stub and the
\* stalled drain of the scene "fence", and where nothing fails.
ResetsFindIdle ==
    /\ scene = "fence" => Fence!ResetFindsIdle
    /\ scene = "retry" => Retry!ResetFindsIdle
    /\ scene = "unpaged" => Unpaged!ResetFindsIdle
    /\ scene = "paged" => ResetFindsIdle

\* The types, with the capacities of the mailbox, and EpochBounded at its largest:
\* three documents, pages of two.
BoundsHold ==
    /\ CASE scene = "faulty" -> Faulty!TypeOK
         [] scene = "unpaged" -> Unpaged!TypeOK
         [] scene = "retry" -> Retry!TypeOK
         [] scene = "fence" -> Fence!TypeOK
         [] OTHER -> TypeOK
    /\ scene = "paged" => EpochBounded

\* A manual retry is acknowledged only after the whole reset, without paging and
\* over pages whose reset is interrupted.
AcksMeanReset ==
    [][ /\ scene = "unpaged" => Unpaged!AckMeansResetStep
        /\ scene = "retry" => Retry!AckMeansResetStep ]_<<vars, scene>>

\* The row of an accepted document is not deleted while storage fails, and a
\* processed document is not processed again by a run that others feed.
DocsAreKept ==
    [][ /\ scene = "faulty" => Faulty!AcceptedIsKeptStep
        /\ scene = "paged" => ProcessedStaysStep ]_<<vars, scene>>

Symmetry == Permutations(Jobs)
=============================================================================
