--------------------------- MODULE MCSchedulerLive ----------------------------
(***************************************************************************)
(* Small instances of PipelineScheduler with the fairness of the event      *)
(* loop: documents settle and manual retries are served.  Nothing fails.    *)
(*                                                                         *)
(* The jobs of PipelineScheduler run once.  Here inserts do not end: the    *)
(* writer inserts again when it is done, and a document that is processed   *)
(* and that nobody refers to any more stands for the next new document.     *)
(***************************************************************************)
EXTENDS PipelineScheduler

CONSTANTS Scenes,
          retry, driver, writer   \* the jobs: who asks for a retry, who triggers
                                  \* a run or writes as an admin, who inserts

VARIABLE scene

\* one document at a time, and an admin write that holds the pipeline
Admin == INSTANCE PipelineScheduler WITH NDocs <- 1, OldFailed <- {}, PageSize <- 1

\* a row with an unfinished custom-chunk journal, which no run may take
Journal == INSTANCE PipelineScheduler WITH
    NDocs <- 2, OldFailed <- {}, Journaled <- {1}, PageSize <- 1

ASSUME LiveAssumption == Jobs = {retry, driver, writer} /\ Faults = {} /\ Journaled = {}

Role(j) ==
    CASE j = retry -> {"retry"}
      [] j = driver -> IF scene = "admin" THEN {"admin"} ELSE {"process"}
      [] j = writer -> {"insert"}

SceneInit ==
    /\ scene \in Scenes
    /\ CASE scene = "stream" -> Init
         [] scene = "admin" -> Admin!Init
         [] scene = "journal" -> Journal!Init

-----------------------------------------------------------------------------
(* Inserts that do not end *)

\* another insert comes
ArrivesAgain ==
    /\ At(writer, "done")
    /\ job' = [job EXCEPT ![writer].pos = "idle", ![writer].doc = None]
    /\ UNCHANGED <<ps, mb, row, content, run>>

\* the documents that a job, a run or the mailbox still refers to
InUse ==
    {job[j].doc : j \in Jobs} \cup ToSet(mb.documents) \cup
    UNION {run[j].docs \cup run[j].inflight \cup run[j].pending \cup ToSet(run[j].feed) \cup
           ToSet(run[j].drained) \cup ToSet(run[j].deferred) : j \in Jobs}

\* a processed document leaves its number to the next one
NextDocument ==
    /\ \E d \in DOMAIN row \ InUse :
          /\ row[d] = "PROCESSED"
          /\ row' = [row EXCEPT ![d] = None]
          /\ content' = content \ {d}
    /\ UNCHANGED <<ps, mb, job, run>>

-----------------------------------------------------------------------------
\* a job arrives in its role
Arrives(j) ==
    /\ \/ scene = "stream" /\ Request(j)
       \/ scene = "admin" /\ Admin!Request(j)
       \/ scene = "journal" /\ Journal!Request(j)
    /\ job'[j].kind \in Role(j)

Started(j) ==
    /\ \/ scene = "stream" /\ (CallerStep(j) \/ RunStep(j))
       \/ scene = "admin" /\ (Admin!CallerStep(j) \/ Admin!RunStep(j))
       \/ scene = "journal" /\ (Journal!CallerStep(j) \/ Journal!RunStep(j))
    /\ scene' = scene

SceneNext ==
    \/ \E j \in Jobs : Started(j)
    \/ scene' = scene /\ (\E j \in Jobs : Arrives(j))
    \/ scene' = scene /\ (ArrivesAgain \/ NextDocument)
    \/ scene = "journal" /\ scene' = scene /\ Journal!ForceReset

\* a started coroutine is scheduled again and again until it ends
LiveSpec ==
    /\ SceneInit /\ [][SceneNext]_<<vars, scene>>
    /\ \A j \in Jobs : WF_<<vars, scene>>(Started(j))

-----------------------------------------------------------------------------
Waits(d) == scene # "journal" /\ d \in DOMAIN row /\ row[d] \in AutoResume

\* Where nothing fails every document that was accepted is processed or marked FAILED
\* in the end, however many inserts follow.
EveryDocSettles ==
    \A d \in Docs : Waits(d) ~> d \in DOMAIN row /\ row[d] \in {"PROCESSED", "FAILED"}

=============================================================================
