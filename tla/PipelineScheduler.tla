-------------------------- MODULE PipelineScheduler --------------------------
(***************************************************************************)
(* How work reaches the processing run: inserts write a document row and    *)
(* publish it, manual retry requests queue up, whoever finds the pipeline   *)
(* busy leaves a wake-up in the mailbox, and the one run that owns the busy *)
(* slot sweeps the rows page by page, feeds late documents into the batch,  *)
(* serves manual retries, and releases the slot only when nothing is left   *)
(* (lightrag/pipeline.py over the status of PipelineStatus and the mailbox  *)
(* of IngressMailbox).                                                      *)
(*                                                                         *)
(* A step is a critical section, one storage call, or one mailbox call.     *)
(* Nobody dies here and nobody scans: PipelineReservation covers both.      *)
(***************************************************************************)
EXTENDS PipelineStatus, IngressMailbox, FiniteSets

CONSTANTS
    NDocs,       \* document ids 1..NDocs, in the order of the keyset sweep
    OldFailed,   \* documents FAILED from earlier, whose content exists
    Stubs,       \* FAILED records without content (duplicate uploads)
    Orphans,     \* interrupted records whose content is gone
    Journaled,   \* interrupted records with an unfinished custom-chunk journal
    PageSize,    \* pipeline_scheduling_page_size, 0 disables paging
    DrainLimit,  \* _FEEDER_DRAIN_LIMIT
    StallRounds, \* _MANUAL_DRAIN_STALL_ROUNDS
    Kinds,       \* the job kinds a model runs
    Faults       \* the failures a model injects

JobKind == {"process", "insert", "retry", "admin", "custom_chunks"}

FaultKind == {"page", "validate", "batch", "status", "publish", "read", "write",
              "internal", "stall", "cancel"}

Docs == 1 .. NDocs

\* "ACTIVE" stands for PARSING, ANALYZING and PROCESSING
RowStatus == {"PENDING", "ACTIVE", "PROCESSED", "FAILED"}

ASSUME SchedulerAssumption ==
    /\ NDocs \in Nat /\ PageSize \in Nat
    /\ {DrainLimit, StallRounds} \subseteq Nat \ {0}
    /\ OldFailed \cup Stubs \cup Orphans \cup Journaled \subseteq Docs
    /\ Kinds \subseteq JobKind /\ Faults \subseteq FaultKind
    /\ Workers # {} /\ None \notin RowStatus /\ None \notin Docs

VARIABLES
    ps,       \* the workspace's pipeline_status
    mb,       \* its ingress mailbox
    row,      \* doc_status: the status of each document, None if there is no row
    content,  \* full_docs: the documents whose content is stored
    job,      \* per job: kind, position, document, where a run returns to
    run       \* per job: the local variables of its processing run

vars == <<ps, mb, row, content, job, run>>

\* _AUTO_RESUME_DOC_STATUSES
AutoResume == {"PENDING", "ACTIVE"}

CURSOR_START == 0
CURSOR_END == NDocs + 1

Step == {"first", "continue_auto", "continue_manual", "continue_drain_wait",
         "begin_exclusive_reset", "continue_document", "continue_sweep_page",
         "released", "cancelled"}

\* The locals of apipeline_process_enqueue_documents, of its batch context and
\* its feeder, and of _ManualDrainProgress
NoRun ==
    [step |-> "first", docs |-> {}, cursor |-> CURSOR_END, uncommitted |-> FALSE,
     drained |-> <<>>, request |-> None, blocked |-> FALSE,
     inflight |-> {}, active |-> {}, feeding |-> FALSE, feed |-> <<>>,
     pending |-> {}, deferred |-> <<>>, blocking |-> {}, repeats |-> 0]

\* positions of a run that holds the busy slot
RunPos == {"absorb", "begin", "page", "loop", "validate", "batch", "decide",
           "drain", "wait", "confirm", "enter", "reset", "ack", "end"}

Pos == RunPos \cup
       {"idle", "content", "status", "leave", "failed_leave", "driven_leave",
        "publish", "body", "admin_out", "handoff", "terminal", "drive",
        "raise", "released", "done"}

TypeOK ==
    /\ ps \in Status
    /\ mb.documents \in Seq(Docs) /\ Len(mb.documents) <= DocumentCapacity
    /\ mb.manual_retries \in Seq(Jobs) /\ Len(mb.manual_retries) <= ManualCapacity
    /\ mb.auto_rescan_pending \in BOOLEAN
    /\ Len(mb.terminal_ids) <= TerminalCapacity
    /\ row \in [Docs -> RowStatus \cup {None}]
    /\ content \subseteq Docs
    /\ job \in [Jobs -> [kind : JobKind, pos : Pos, doc : Docs \cup {None},
                         next : {"done", "terminal"}]]
    /\ \A j \in Jobs :
          /\ run[j].step \in Step
          /\ run[j].docs \subseteq Docs /\ run[j].active \subseteq run[j].inflight
          /\ run[j].cursor \in CURSOR_START .. CURSOR_END
          /\ run[j].request \in Jobs \cup {None}

Init ==
    /\ ps = InitialStatus
    /\ mb = EmptyMailbox
    /\ row = [d \in Docs |-> IF d \in OldFailed \cup Stubs THEN "FAILED"
                             ELSE IF d \in Orphans \cup Journaled THEN "ACTIVE"
                             ELSE None]
    /\ content = OldFailed \cup Journaled
    /\ job = [j \in Jobs |-> [kind |-> "process", pos |-> "idle", doc |-> None,
                              next |-> "done"]]
    /\ run = [j \in Jobs |-> NoRun]

-----------------------------------------------------------------------------
(* Helpers *)

At(j, pos) == job[j].pos = pos

Move(j, pos) == job' = [job EXCEPT ![j].pos = pos]

Return(j) == Move(j, job[j].next)

MayStart(j, kind) == kind \in Kinds /\ At(j, "idle")

Start(j, kind, pos) == job' = [job EXCEPT ![j].kind = kind, ![j].pos = pos]

\* every process of this model is alive: only reservations of dead workers
\* would be reclaimed
Me(j, kind) == OwnerRecord(j, CHOOSE w \in Workers : TRUE, kind)

IfOwner(j, updated) == ps' = IF OwnsBusy(ps, j) THEN updated ELSE ps

\* get_docs_by_statuses_page: the next rows of a keyset sweep, and where it
\* goes on; without paging one read returns everything
PageRows(statuses, position) ==
    LET rows == {d \in Docs : d > position /\ row[d] \in statuses}
    IN  IF PageSize = 0 THEN rows
        ELSE {d \in rows : Cardinality({e \in rows : e <= d}) <= PageSize}

NextPosition(page) ==
    IF PageSize = 0 \/ Cardinality(page) < PageSize THEN CURSOR_END ELSE Max(page)

-----------------------------------------------------------------------------
(* Inserts: apipeline_enqueue_documents, then the caller drives the queue *)

\* _reserve_ingress_slot; a document id enters once (the dedup check)
ReserveInsert(j) ==
    /\ MayStart(j, "insert")
    /\ ~Fenced(ps) /\ ~IngressFenced(ps)
    /\ \E d \in Docs :
          /\ row[d] = None /\ \A k \in Jobs : job[k].doc # d
          /\ job' = [job EXCEPT ![j].kind = "insert", ![j].pos = "content",
                                ![j].doc = d]
    /\ ps' = Register(ps, j, Me(j, "processing").worker, "enqueue")
    /\ UNCHANGED <<mb, row, content, run>>

\* mutant: the row becomes visible before the content
WriteRowFirst(j) ==
    /\ At(j, "content")
    /\ row' = [row EXCEPT ![job[j].doc] = "PENDING"]
    /\ Move(j, "status")
    /\ UNCHANGED <<ps, mb, content, run>>

\* full_docs.upsert
WriteContent(j) ==
    /\ At(j, "content")
    /\ content' = content \cup {job[j].doc}
    /\ Move(j, "status")
    /\ UNCHANGED <<ps, mb, row, run>>

\* doc_status.upsert
WriteStatus(j) ==
    /\ At(j, "status")
    /\ row' = [row EXCEPT ![job[j].doc] = "PENDING"]
    /\ Move(j, "leave")
    /\ UNCHANGED <<ps, mb, content, run>>

\* the upsert raised and its outcome is unknown: arm a rescan, and drive it
\* when no run is there to see it
WriteStatusFails(j) ==
    /\ "status" \in Faults /\ At(j, "status")
    /\ row' \in {row, [row EXCEPT ![job[j].doc] = "PENDING"]}
    /\ mb' = RequestAutoRescan(mb)
    /\ Move(j, IF ps.busy THEN "failed_leave" ELSE "driven_leave")
    /\ UNCHANGED <<ps, content, run>>

\* the reservation ends before the document is published
LeaveInsert(j) ==
    /\ job[j].pos \in {"leave", "failed_leave", "driven_leave"}
    /\ ps' = Unregister(ps, j)
    /\ Move(j, CASE At(j, "leave") -> "publish"
                 [] At(j, "failed_leave") -> "done"
                 [] At(j, "driven_leave") -> "drive")
    /\ UNCHANGED <<mb, row, content, run>>

\* put_documents under the status lock; a failed publish arms a rescan
Publish(j) ==
    /\ At(j, "publish")
    /\ \/ mb' = PutDocuments(mb, <<job[j].doc>>)
       \/ "publish" \in Faults /\ mb' = RequestAutoRescan(mb)
    /\ Move(j, "drive")
    /\ UNCHANGED <<ps, row, content, run>>

-----------------------------------------------------------------------------
(* Other triggers *)

\* commit_manual_retry_request; a job is also its request id
CommitRetry(j) ==
    /\ MayStart(j, "retry")
    /\ ~Fenced(ps) /\ ~ps.destructive_busy
    /\ ManualRetryResult(mb, j) = "accepted"
    /\ mb' = RequestManualRetry(mb, j)
    /\ Start(j, "retry", "drive")
    /\ UNCHANGED <<ps, row, content, run>>

StartProcess(j) ==
    /\ MayStart(j, "process")
    /\ Start(j, "process", "drive")
    /\ UNCHANGED <<ps, mb, row, content, run>>

\* _admin_write_gate and ainsert_custom_chunks both take an idle pipeline
TakePipeline(j) ==
    /\ \/ /\ MayStart(j, "admin")
          /\ ps' = GiveBusy(ps, Me(j, "admin"))
          /\ Start(j, "admin", "body")
       \/ /\ MayStart(j, "custom_chunks")
          /\ ps' = Uncancel(GiveBusy(ps, Me(j, "custom_chunks")))
          /\ Start(j, "custom_chunks", "body")
    /\ ~Fenced(ps) /\ ~ps.busy
    /\ UNCHANGED <<mb, row, content, run>>

ReleaseAdmin(j) ==
    /\ At(j, "body") /\ job[j].kind = "admin"
    /\ IfOwner(j, FreeBusy(ps))
    /\ Move(j, "admin_out")
    /\ UNCHANGED <<mb, row, content, run>>

\* _drive_pipeline_if_deferred, outside the lock
DriveIfDeferred(j) ==
    /\ At(j, "admin_out")
    /\ Move(j, IF mb.auto_rescan_pending THEN "drive" ELSE "done")
    /\ UNCHANGED <<ps, mb, row, content, run>>

\* _exit_action: keep the slot for a run when the mailbox holds work
ExitCustomChunks(j) ==
    /\ At(j, "body") /\ job[j].kind = "custom_chunks"
    /\ IF OwnsBusy(ps, j) /\ HasWork(mb)
       THEN /\ ps' = Uncancel(ps)
            /\ job' = [job EXCEPT ![j].pos = "handoff", ![j].next = "terminal"]
       ELSE IfOwner(j, Uncancel(FreeBusy(ps))) /\ Move(j, "terminal")
    /\ UNCHANGED <<mb, row, content, run>>

TerminalRelease(j) ==
    /\ At(j, "terminal")
    /\ IfOwner(j, Uncancel(FreeBusy(ps)))
    /\ Move(j, "done")
    /\ UNCHANGED <<mb, row, content, run>>

-----------------------------------------------------------------------------
(* The run: apipeline_process_enqueue_documents *)

\* mutant: a refused run just goes away
AcquireWithoutSignal(j) ==
    LET verdict == ProcessingVerdict(ps, At(j, "handoff"), FALSE)
    IN  /\ At(j, "drive") \/ At(j, "handoff")
        /\ ps' = ProcessingOutcome(ps, verdict, j, Me(j, "processing").worker, FALSE)
        /\ IF verdict = "acquired" THEN Move(j, "absorb") ELSE Return(j)
        /\ UNCHANGED <<mb, row, content, run>>

\* acquire_processing_reservation: a refused run leaves a wake-up
AcquireProcessing(j) ==
    LET verdict == ProcessingVerdict(ps, At(j, "handoff"), FALSE)
    IN  /\ At(j, "drive") \/ At(j, "handoff")
        /\ ps' = ProcessingOutcome(ps, verdict, j, Me(j, "processing").worker, FALSE)
        /\ mb' = IF verdict = "busy" THEN RequestAutoRescan(mb) ELSE mb
        /\ IF verdict = "acquired" THEN Move(j, "absorb") ELSE Return(j)
        /\ UNCHANGED <<row, content, run>>

\* a waiting manual request freezes ingress first; otherwise this run is the
\* rescan the dirty flag asks for
Absorb(j) ==
    /\ At(j, "absorb")
    /\ IF HasManualRetry(mb)
       THEN /\ run' = [run EXCEPT ![j].request = NextManualRetry(mb)]
            /\ UNCHANGED mb
            /\ Move(j, "begin")
       ELSE /\ mb' = ConsumeAutoRescan(mb)
            /\ run' = [run EXCEPT ![j].uncommitted = mb.auto_rescan_pending]
            /\ Move(j, "page")
    /\ UNCHANGED <<ps, row, content>>

\* mutant: the request is acknowledged when it is taken up
BeginAcknowledging(j) ==
    /\ At(j, "begin")
    /\ IfOwner(j, FreezeForManual(ps, j))
    /\ mb' = AckManualRetry(mb, run[j].request)
    /\ Move(j, "page")
    /\ UNCHANGED <<row, content, run>>

\* _begin_manual_drain
BeginManualDrain(j) ==
    /\ At(j, "begin")
    /\ IfOwner(j, FreezeForManual(ps, j))
    /\ Move(j, "page")
    /\ UNCHANGED <<mb, row, content, run>>

\* _next_scheduling_page, from the start or onwards in the current sweep; a
\* wake-up that was consumed for these documents is owned until they are
\* validated
FetchPage(j) ==
    LET step == run[j].step
        page == PageRows(AutoResume, IF step = "continue_sweep_page"
                                     THEN run[j].cursor ELSE CURSOR_START)
        docs == page \ Journaled
    IN  /\ At(j, "page")
        /\ run' = [run EXCEPT
              ![j].docs = docs, ![j].cursor = NextPosition(page), ![j].drained = <<>>,
              ![j].uncommitted = /\ docs # {}
                                 /\ \/ step = "first" /\ @
                                    \/ step \in {"continue_auto", "continue_document"}]
        /\ Move(j, IF step = "first" /\ docs = {} THEN "decide" ELSE "loop")
        /\ UNCHANGED <<ps, mb, row, content>>

\* the read failed: give back the signal this fetch was for
FetchFails(j) ==
    /\ "page" \in Faults /\ At(j, "page")
    /\ mb' = CASE run[j].step \in {"continue_sweep_page", "continue_auto"} ->
                      RequestAutoRescan(mb)
               [] run[j].step = "continue_document" /\ run[j].drained # <<>> ->
                      RequestAutoRescan(PutDocuments(mb, run[j].drained))
               [] OTHER -> mb
    /\ Move(j, "raise")
    /\ UNCHANGED <<ps, row, content, run>>

LoopTop(j) ==
    /\ At(j, "loop")
    /\ IF ps.cancellation_requested
       THEN ps' = Uncancel(ps) /\ Move(j, "raise")
       ELSE UNCHANGED ps /\ Move(j, IF run[j].docs = {} THEN "decide" ELSE "validate")
    /\ UNCHANGED <<mb, row, content, run>>

\* _validate_and_fix_document_consistency: rows without content are deleted,
\* interrupted ones start over; then the batch owns the documents, and what is decided
\* after it is decided in the loop
Validate(j) ==
    LET valid == run[j].docs \cap content
    IN  /\ At(j, "validate")
        /\ row' = [d \in Docs |-> IF d \notin run[j].docs THEN row[d]
                                  ELSE IF d \in valid THEN "PENDING" ELSE None]
        /\ run' = [run EXCEPT ![j].docs = valid, ![j].uncommitted = FALSE,
                              ![j].inflight = valid, ![j].active = valid,
                              ![j].feeding = valid # {}, ![j].step = "continue_sweep_page"]
        /\ Move(j, IF valid = {} THEN "decide" ELSE "batch")
        /\ UNCHANGED <<ps, mb, content>>

ValidateFails(j) ==
    /\ "validate" \in Faults /\ At(j, "validate")
    /\ Move(j, "raise")
    /\ UNCHANGED <<ps, mb, row, content, run>>

-----------------------------------------------------------------------------
(* The batch: _run_pipeline_batch with its workers and its feeder *)

\* a worker takes a document through its stages ...
StageDoc(j, d) ==
    /\ At(j, "batch") /\ d \in run[j].active /\ row[d] # "ACTIVE"
    /\ ~ps.cancellation_requested
    /\ row' = [row EXCEPT ![d] = "ACTIVE"]
    /\ UNCHANGED <<ps, mb, content, job, run>>

\* ... until it is processed, fails or is cancelled
FinishDoc(j, d) ==
    /\ At(j, "batch") /\ d \in run[j].active
    /\ \E status \in {"PROCESSED", "FAILED"} : row' = [row EXCEPT ![d] = status]
    /\ run' = [run EXCEPT ![j].active = @ \ {d}]
    /\ UNCHANGED <<ps, mb, content, job>>

\* the final status could not be written: the row stays as it was
FinishUnrecorded(j, d) ==
    /\ "write" \in Faults /\ At(j, "batch") /\ d \in run[j].active
    /\ run' = [run EXCEPT ![j].active = @ \ {d}]
    /\ UNCHANGED <<ps, mb, row, content, job>>

\* an index flush failed: the document fails and the whole run is halted
FinishHalting(j, d) ==
    /\ "internal" \in Faults /\ At(j, "batch") /\ d \in run[j].active
    /\ row' = [row EXCEPT ![d] = "FAILED"]
    /\ run' = [run EXCEPT ![j].active = @ \ {d}]
    /\ ps' = [ps EXCEPT !.cancellation_requested = TRUE]
    /\ UNCHANGED <<mb, content, job>>

\* mutant: off by one
EpochOverfull(j) == PageSize > 0 /\ Cardinality(run[j].inflight) > PageSize

\* _feeder_epoch_full
EpochFull(j) == PageSize > 0 /\ Cardinality(run[j].inflight) >= PageSize

\* _feeder_should_yield without the cancellation event, which lags the flag
FeederMustYield(checkAuto) ==
    \/ HasManualRetry(mb)
    \/ checkAuto /\ PageSize = 0 /\ mb.auto_rescan_pending

\* _feeder_next_batch, and the read of the rows it will route by
FeederDrain(j) ==
    /\ At(j, "batch") /\ run[j].feeding /\ run[j].feed = <<>>
    /\ mb.documents # <<>>
    /\ ~FeederMustYield(TRUE) /\ ~EpochFull(j)
    /\ run' = [run EXCEPT ![j].feed = Drained(mb, DrainLimit),
                          ![j].pending = {d \in Docs : row[d] = "PENDING"}]
    /\ mb' = DrainDocuments(mb, DrainLimit)
    /\ UNCHANGED <<ps, row, content, job>>

\* mutant: documents already in the batch are not recognised
RouteWithoutDedup(j) ==
    LET d == Head(run[j].feed)
        admit == d \in run[j].pending \ Journaled
    IN  /\ At(j, "batch") /\ run[j].feed # <<>>
        /\ ~FeederMustYield(FALSE) /\ ~EpochFull(j)
        /\ run' = [run EXCEPT ![j].feed = Tail(@),
              ![j].inflight = IF admit THEN @ \cup {d} ELSE @,
              ![j].active = IF admit THEN @ \cup {d} ELSE @]
        /\ UNCHANGED <<ps, mb, row, content, job>>

\* _route_one: drop what is already in the batch or not PENDING, admit the rest
FeederRoute(j) ==
    LET d == Head(run[j].feed)
        admit == d \notin run[j].inflight /\ d \in run[j].pending \ Journaled
    IN  /\ At(j, "batch") /\ run[j].feed # <<>>
        /\ ~FeederMustYield(FALSE) /\ ~EpochFull(j)
        /\ admit => d \in content
        /\ run' = [run EXCEPT ![j].feed = Tail(@),
              ![j].inflight = IF admit THEN @ \cup {d} ELSE @,
              ![j].active = IF admit THEN @ \cup {d} ELSE @]
        /\ UNCHANGED <<ps, mb, row, content, job>>

\* its content could not be read: skip it and arm a rescan
FeederSkip(j) ==
    LET d == Head(run[j].feed)
    IN  /\ At(j, "batch") /\ run[j].feed # <<>>
        /\ ~FeederMustYield(FALSE) /\ ~EpochFull(j)
        /\ d \notin run[j].inflight /\ d \in run[j].pending \ Journaled
        /\ "read" \in Faults \/ d \notin content
        /\ run' = [run EXCEPT ![j].feed = Tail(@), ![j].deferred = Append(@, d)]
        /\ mb' = RequestAutoRescan(mb)
        /\ UNCHANGED <<ps, row, content, job>>

\* on any exit the feeder publishes again what it drained and did not route
Republish(j) == mb' = PutDocuments(mb, run[j].deferred \o run[j].feed)

FeederYield(j) ==
    /\ At(j, "batch") /\ run[j].feeding
    /\ FeederMustYield(run[j].feed = <<>>) \/ EpochFull(j) \/ ps.cancellation_requested
    /\ Republish(j)
    /\ run' = [run EXCEPT ![j].feeding = FALSE, ![j].feed = <<>>,
                          ![j].deferred = <<>>, ![j].pending = {}]
    /\ UNCHANGED <<ps, row, content, job>>

\* every queue is joined and the feeder cancelled; or an error escapes and the
\* workers are cancelled where they are
LeaveBatch(j, pos) ==
    /\ At(j, "batch")
    /\ Republish(j)
    /\ run' = [run EXCEPT ![j].feeding = FALSE, ![j].feed = <<>>,
                          ![j].deferred = <<>>, ![j].pending = {},
                          ![j].inflight = {}, ![j].active = {}]
    /\ Move(j, pos)
    /\ UNCHANGED <<ps, row, content>>

BatchEnds(j) == run[j].active = {} /\ LeaveBatch(j, "decide")

BatchFails(j) == "batch" \in Faults /\ LeaveBatch(j, "raise")

-----------------------------------------------------------------------------
(* The quiescence decision and what it continues with *)

Draining == ps.manual_phase = "DRAIN_TO_IDLE"

\* mutant: the drain does not wait for enqueues in flight
NextStepWithoutWait(j) ==
    IF ps.cancellation_requested THEN "cancelled"
    ELSE IF ~Draining /\ HasManualRetry(mb) THEN "continue_manual"
    ELSE IF run[j].cursor # CURSOR_END THEN "continue_sweep_page"
    ELSE IF mb.auto_rescan_pending THEN "continue_auto"
    ELSE IF mb.documents # <<>> THEN "continue_document"
    ELSE IF Draining THEN "begin_exclusive_reset"
    ELSE "released"

\* mutant: a sweep ends with its first page
NextStepOnePage(j) ==
    IF ps.cancellation_requested THEN "cancelled"
    ELSE IF ~Draining /\ HasManualRetry(mb) THEN "continue_manual"
    ELSE IF mb.auto_rescan_pending THEN "continue_auto"
    ELSE IF mb.documents # <<>> THEN "continue_document"
    ELSE IF Draining /\ PendingEnqueues(ps) THEN "continue_drain_wait"
    ELSE IF Draining THEN "begin_exclusive_reset"
    ELSE "released"


\* _decide_pipeline_next_step, in its order of priority
NextStep(j) ==
    IF ps.cancellation_requested THEN "cancelled"
    ELSE IF ~Draining /\ HasManualRetry(mb) THEN "continue_manual"
    ELSE IF run[j].cursor # CURSOR_END THEN "continue_sweep_page"
    ELSE IF mb.auto_rescan_pending THEN "continue_auto"
    ELSE IF mb.documents # <<>> THEN "continue_document"
    ELSE IF Draining /\ PendingEnqueues(ps) THEN "continue_drain_wait"
    ELSE IF Draining THEN "begin_exclusive_reset"
    ELSE "released"

Decide(j) ==
    LET step == NextStep(j)
    IN  /\ At(j, "decide")
        /\ step \notin {"released", "cancelled"}
        /\ mb' = IF step = "continue_auto" THEN ConsumeAutoRescan(mb) ELSE mb
        /\ run' = [run EXCEPT
              ![j].step = step, ![j].docs = {},
              ![j].cursor = IF step = "begin_exclusive_reset" THEN CURSOR_START ELSE @,
              ![j].blocked = FALSE,
              ![j].request = IF step = "continue_manual" THEN NextManualRetry(mb) ELSE @]
        /\ Move(j, CASE step = "continue_manual" -> "begin"
                     [] step = "continue_document" -> "drain"
                     [] step = "continue_drain_wait" -> "wait"
                     [] step = "begin_exclusive_reset" -> "confirm"
                     [] OTHER -> "page")
        /\ UNCHANGED <<ps, row, content>>

\* RELEASED: the slot goes in the same critical section.  A first sweep that
\* found nothing returns without the finalizer.
DecideReleased(j) ==
    /\ At(j, "decide") /\ NextStep(j) = "released"
    /\ ps' = FreeBusy(ps)
    /\ IF run[j].step = "first" THEN Return(j) ELSE Move(j, "released")
    /\ run' = [run EXCEPT ![j] = NoRun]
    /\ UNCHANGED <<mb, row, content>>

DecideCancelled(j) ==
    /\ At(j, "decide") /\ NextStep(j) = "cancelled"
    /\ Move(j, IF run[j].step = "first" THEN "raise" ELSE "loop")
    /\ UNCHANGED <<ps, mb, row, content, run>>

\* CONTINUE_DOCUMENT empties the channel before the sweep reads the rows
DrainChannel(j) ==
    /\ At(j, "drain")
    /\ run' = [run EXCEPT ![j].drained = Drained(mb, DrainLimit)]
    /\ mb' = DrainDocuments(mb, DrainLimit)
    /\ Move(j, "page")
    /\ UNCHANGED <<ps, row, content>>

\* CONTINUE_DRAIN_WAIT: sleep and look again, or give up on writers that never
\* finish
DrainWait(j) ==
    /\ At(j, "wait")
    /\ Move(j, "loop")
    /\ UNCHANGED <<ps, mb, row, content, run>>

FenceStalledEnqueue(j) ==
    /\ "stall" \in Faults /\ At(j, "wait") /\ PendingEnqueues(ps)
    /\ ps' = RaiseFence(ps, "manual_drain_enqueue_stalled")
    /\ Move(j, "raise")
    /\ UNCHANGED <<mb, row, content, run>>

-----------------------------------------------------------------------------
(* BEGIN_EXCLUSIVE_RESET *)

\* _ManualDrainProgress.observe: how often these documents blocked the drain
Repeats(j, docs) == IF docs = run[j].blocking THEN run[j].repeats + 1 ELSE 1

\* _confirm_auto_drained, one page at a time: documents found go to the batch,
\* unless they keep coming back
ConfirmDrained(j) ==
    LET page == PageRows(AutoResume, run[j].cursor)
        docs == page \ Journaled
        blocked == run[j].blocked \/ page \cap Journaled # {}
        repeats == Repeats(j, docs)
    IN  /\ At(j, "confirm")
        /\ IF docs # {}
           THEN /\ run' = [run EXCEPT ![j].docs = docs, ![j].cursor = NextPosition(page),
                                      ![j].blocking = docs, ![j].repeats = repeats]
                /\ IF docs = run[j].blocking /\ repeats >= StallRounds
                   THEN ps' = RaiseFence(ps, "manual_drain_stalled") /\ Move(j, "raise")
                   ELSE UNCHANGED ps /\ Move(j, "loop")
           ELSE /\ run' = [run EXCEPT ![j].blocked = blocked,
                                      ![j].cursor = NextPosition(page)]
                /\ IF NextPosition(page) # CURSOR_END THEN UNCHANGED <<ps, job>>
                   ELSE IF blocked
                        THEN ps' = RaiseFence(ps, "manual_drain_blocked") /\ Move(j, "raise")
                        ELSE UNCHANGED ps /\ Move(j, "enter")
        /\ UNCHANGED <<mb, row, content>>

\* _run_exclusive_failed_reset
EnterReset(j) ==
    /\ At(j, "enter") /\ OwnsBusy(ps, j)
    /\ ps' = EnterExclusiveReset(ps)
    /\ run' = [run EXCEPT ![j].cursor = CURSOR_START]
    /\ Move(j, "reset")
    /\ UNCHANGED <<mb, row, content>>

ResetPage(j) ==
    LET page == PageRows({"FAILED"}, run[j].cursor)
    IN  /\ At(j, "reset") /\ OwnsBusy(ps, j)
        /\ row' = [d \in Docs |-> IF d \in (page \cap content) \ Journaled
                                  THEN "PENDING" ELSE row[d]]
        /\ run' = [run EXCEPT ![j].cursor = NextPosition(page)]
        /\ IF NextPosition(page) = CURSOR_END THEN Move(j, "ack") ELSE UNCHANGED job
        /\ UNCHANGED <<ps, mb, content>>

ResetFails(j) ==
    /\ "page" \in Faults
    /\ At(j, "confirm") \/ At(j, "reset")
    /\ Move(j, "raise")
    /\ UNCHANGED <<ps, mb, row, content, run>>

Acknowledge(j) ==
    /\ At(j, "ack")
    /\ mb' = AckManualRetry(mb, run[j].request)
    /\ Move(j, "end")
    /\ UNCHANGED <<ps, row, content, run>>

\* _end_manual_drain, then a fresh sweep picks up what was reset
EndManualDrain(j) ==
    /\ At(j, "end")
    /\ IfOwner(j, ManualIdle(ps))
    /\ run' = [run EXCEPT ![j].request = None]
    /\ Move(j, "page")
    /\ UNCHANGED <<mb, row, content>>

-----------------------------------------------------------------------------
(* _finalize *)

\* mutant: a consumed wake-up is not given back
FinalizeWithoutRearm(j) ==
    /\ \/ At(j, "raise") /\ IfOwner(j, Uncancel(ManualIdle(FreeBusy(ps))))
       \/ At(j, "released") /\ ps' = IF ps.busy_owner = None THEN Uncancel(ps) ELSE ps
    /\ run' = [run EXCEPT ![j] = NoRun]
    /\ Return(j)
    /\ UNCHANGED <<mb, row, content>>

Finalize(j) ==
    /\ \/ /\ At(j, "raise")
          /\ mb' = IF run[j].uncommitted THEN RequestAutoRescan(mb) ELSE mb
          /\ IfOwner(j, Uncancel(ManualIdle(FreeBusy(ps))))
       \/ /\ At(j, "released")
          /\ UNCHANGED mb
          /\ ps' = IF ps.busy_owner = None THEN Uncancel(ps) ELSE ps
    /\ run' = [run EXCEPT ![j] = NoRun]
    /\ Return(j)
    /\ UNCHANGED <<row, content>>

-----------------------------------------------------------------------------
(* Operators *)

CancelPipeline ==
    /\ "cancel" \in Faults /\ ps.busy
    /\ ps' = [ps EXCEPT !.cancellation_requested = TRUE]
    /\ UNCHANGED <<mb, row, content, job, run>>

\* force_reset_recovery, which cancels the queued requests too
ForceReset ==
    /\ Fenced(ps)
    /\ ps' = ForceResetStatus(ps)
    /\ mb' = CancelManualRetries(mb)
    /\ UNCHANGED <<row, content, job, run>>

-----------------------------------------------------------------------------

\* a request arrives
Request(j) ==
    ReserveInsert(j) \/ CommitRetry(j) \/ StartProcess(j) \/ TakePipeline(j)

\* a started job goes on
CallerStep(j) ==
    \/ WriteContent(j) \/ WriteStatus(j) \/ WriteStatusFails(j)
    \/ LeaveInsert(j) \/ Publish(j)
    \/ ReleaseAdmin(j) \/ DriveIfDeferred(j)
    \/ ExitCustomChunks(j) \/ TerminalRelease(j)

BatchStep(j) ==
    \/ \E d \in Docs : \/ StageDoc(j, d) \/ FinishDoc(j, d)
                       \/ FinishUnrecorded(j, d) \/ FinishHalting(j, d)
    \/ FeederDrain(j) \/ FeederRoute(j) \/ FeederSkip(j) \/ FeederYield(j)
    \/ BatchEnds(j) \/ BatchFails(j)

RunStep(j) ==
    \/ AcquireProcessing(j) \/ Absorb(j) \/ BeginManualDrain(j)
    \/ FetchPage(j) \/ FetchFails(j) \/ LoopTop(j)
    \/ Validate(j) \/ ValidateFails(j) \/ BatchStep(j)
    \/ Decide(j) \/ DecideReleased(j) \/ DecideCancelled(j)
    \/ DrainChannel(j) \/ DrainWait(j) \/ FenceStalledEnqueue(j)
    \/ ConfirmDrained(j) \/ EnterReset(j) \/ ResetPage(j) \/ ResetFails(j)
    \/ Acknowledge(j) \/ EndManualDrain(j) \/ Finalize(j)

Next ==
    \/ \E j \in Jobs : Request(j) \/ CallerStep(j) \/ RunStep(j)
    \/ CancelPipeline
    \/ ForceReset

Spec == Init /\ [][Next]_vars

-----------------------------------------------------------------------------
(* Properties *)

\* documents a run could process now
Owed == {d \in content \ Journaled : row[d] \in AutoResume}

Quiescent == \A j \in Jobs : job[j].pos \in {"idle", "done"}

\* When every job has ended without a failure, no document is left waiting and
\* no wake-up is left in the mailbox: whatever the order of inserts, retries,
\* admin writes and handoffs, the last holder of the pipeline saw everything.
NoStrandedWork ==
    Quiescent /\ ~Fenced(ps) => Owed = {} /\ ~HasWork(mb)

\* When storage reads, status writes, content reads or publishes fail, the run
\* may stop early, but a document that is left waiting always has a wake-up in
\* the mailbox that makes the next holder pick it up.
SignalSurvives == Quiescent /\ Owed # {} => HasWork(mb)

\* The exclusive FAILED reset starts with no document waiting or in progress,
\* although inserts publish after they gave up their reservation, and runs
\* with no insert writing.
ResetFindsIdle ==
    \A j \in Jobs :
        /\ At(j, "enter") \/ (At(j, "reset") /\ run[j].cursor = CURSOR_START) =>
              \A d \in Docs : row[d] \notin AutoResume
        /\ job[j].pos \in {"reset", "ack"} =>
              \A k \in Jobs : job[k].pos \notin {"content", "status"}

\* A manual retry is acknowledged only when every FAILED document that can be
\* retried is back to PENDING, page by page and whatever else was running.
AckMeansResetStep ==
    \A j \in Jobs :
        IsQueued(mb, j) /\ ~IsQueued(mb', j) /\ ~Fenced(ps) =>
            \A d \in content \ Journaled : row[d] # "FAILED"

\* The consistency check never deletes the row of a document whose insert was
\* accepted, in whichever order the insert's two writes become visible.
AcceptedIsKeptStep == \A d \in Docs \ Orphans : row[d] # None => row'[d] # None

\* A processed document is not processed again by the same or a later run: not
\* when it is in a page and in the feeder's drain at once, and not from a
\* status the feeder read before the document was finished.
ProcessedStaysStep == \A d \in Docs : row[d] = "PROCESSED" => row'[d] = "PROCESSED"

\* With paging, a batch never takes in more than a page of documents, fed ones
\* included, so a steady upload stream cannot keep one batch open for ever.
EpochBounded ==
    PageSize > 0 => \A j \in Jobs : Cardinality(run[j].inflight) <= PageSize
=============================================================================
