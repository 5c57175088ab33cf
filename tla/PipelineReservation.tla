------------------------ MODULE PipelineReservation -------------------------
(***************************************************************************)
(* Who may touch a workspace: the jobs of all server workers compete for    *)
(* the busy slot, the scanning slot and the enqueue reservations of one     *)
(* pipeline_status, while workers die, an operator cancels, and an operator *)
(* force-resets a fenced workspace.                                         *)
(*                                                                         *)
(* A step is one critical section under the pipeline_status lock.  What     *)
(* happens between two of them (the document work) only shows as the        *)
(* position the job is at.  Whether the ingress mailbox holds work is a     *)
(* free choice here (PipelineScheduler has the mailbox), and so is whether  *)
(* the document work fails.                                                 *)
(***************************************************************************)
EXTENDS PipelineStatus, FiniteSets

CONSTANT Kinds    \* the job kinds a model runs, a subset of JobKind

VARIABLES
    ps,            \* the workspace's pipeline_status
    job,           \* per job: kind, worker, position, and where a run returns to
    alive,         \* workers that have not died
    force_dropped, \* history: jobs whose reservation a force reset dropped
    cancel_aimed   \* history: jobs that held busy when a cancel arrived

vars == <<ps, job, alive, force_dropped, cancel_aimed>>
history == <<force_dropped, cancel_aimed>>

JobKind == {"process", "custom_chunks", "sdk_delete", "batch_delete", "clear",
            "admin", "scan", "upload", "insert", "repair"}

ASSUME KindsAssumption == Kinds \subseteq JobKind

\* Positions.  In the first group the job's code relies on holding busy.
BusyPos == {"claimed", "body", "stopped", "handoff",
            "run", "reset_begin", "resetting",
            "scan_acq", "scan_drain", "scan_ready", "scan_reset"}
\* In the second the job relies on holding the scanning slot.
ScanPos == {"scan_claimed", "scan_excl", "scan_acq", "scan_drain",
            "scan_ready", "scan_reset", "scan_classify"}
OtherPos == {"idle", "drive", "raise", "released", "terminal", "joined",
             "scan_end", "scan_done", "reserved", "prepared", "write", "done"}
Pos == BusyPos \cup ScanPos \cup OtherPos

Job == [kind : JobKind, worker : Workers, pos : Pos,
        next : {"done", "terminal", "scan_end"}]

TypeOK ==
    /\ ps \in Status
    /\ job \in [Jobs -> Job]
    /\ alive \subseteq Workers
    /\ force_dropped \subseteq Jobs
    /\ cancel_aimed \subseteq Jobs

Init ==
    /\ ps = InitialStatus
    /\ job \in [Jobs -> [kind : {"process"}, worker : Workers, pos : {"idle"},
                         next : {"done"}]]
    /\ alive = Workers
    /\ force_dropped = {}
    /\ cancel_aimed = {}

-----------------------------------------------------------------------------
(* Helpers *)

Live(j) == job[j].worker \in alive

At(j, pos) == job[j].pos = pos /\ Live(j)

Move(j, pos) == job' = [job EXCEPT ![j].pos = pos]

\* leave a processing run (or the attempt to start one)
Return(j) == Move(j, job[j].next)

\* call apipeline_process_enqueue_documents, then continue at next
Drive(j, next) == job' = [job EXCEPT ![j].pos = "drive", ![j].next = next]

\* the snapshot every acquiring primitive decides on
Snapshot == Reconcile(ps, alive)

\* an idle job that a request for this kind may start
MayStart(j, kind) == kind \in Kinds /\ At(j, "idle")

Start(j, kind, pos) ==
    job' = [job EXCEPT ![j].kind = kind, ![j].pos = pos, ![j].next = "done"]

\* acquire_reservation / acquire_enqueue_reservation /
\* check_pipeline_status_mutation: refuse, keeping what was reclaimed, or
\* grant and commit.
Refuse == ps' = Snapshot /\ UNCHANGED <<job, alive, history>>

Acquire(j, kind, refused, granted, pos) ==
    /\ MayStart(j, kind)
    /\ \/ refused /\ Refuse
       \/ /\ ~refused
          /\ ps' = granted
          /\ Start(j, kind, pos)
          /\ UNCHANGED <<alive, history>>

\* an owner-checked update (with_reservation_lock, release_owned_reservation)
IfOwner(j, updated) == ps' = IF OwnsBusy(ps, j) THEN updated ELSE ps

Me(j, kind) == OwnerRecord(j, job[j].worker, kind)

-----------------------------------------------------------------------------
(* Admin writes to the graph: _admin_write_gate *)

\* mutant: the fence is not looked at
AcquireAdminThroughFence(j) ==
    Acquire(j, "admin", Snapshot.busy \/ Snapshot.scanning,
            GiveBusy(Snapshot, Me(j, "admin")), "body")

AcquireAdmin(j) ==
    Acquire(j, "admin",
            Fenced(Snapshot) \/ Snapshot.busy \/ Snapshot.scanning,
            GiveBusy(Snapshot, Me(j, "admin")), "body")

\* then the deferred queue is driven if the mailbox asks for it
ReleaseAdmin(j) ==
    /\ At(j, "body") /\ job[j].kind = "admin"
    /\ IfOwner(j, FreeBusy(ps))
    /\ Drive(j, "done") \/ Move(j, "done")
    /\ UNCHANGED <<alive, history>>

-----------------------------------------------------------------------------
(* ainsert_custom_chunks and a direct adelete_by_doc_id *)

AcquireCustomChunks(j) ==
    Acquire(j, "custom_chunks",
            Fenced(Snapshot) \/ Snapshot.busy \/ Snapshot.scanning,
            [Uncancel(GiveBusy(Snapshot, Me(j, "custom_chunks")))
                EXCEPT !.job_name = "other"], "body")

\* a conflict with a job named like a batch deletion joins it
AcquireSdkDelete(j) ==
    /\ MayStart(j, "sdk_delete")
    /\ \/ Fenced(Snapshot) /\ Refuse
       \/ /\ ~Fenced(Snapshot) /\ Snapshot.busy
          /\ Snapshot.job_name # "deleting"
          /\ Refuse
       \/ /\ ~Fenced(Snapshot) /\ ~Snapshot.busy
          /\ ps' = [Uncancel(GiveBusy(Snapshot, Me(j, "delete")))
                       EXCEPT !.job_name = "other"]
          /\ Start(j, "sdk_delete", "body")
          /\ UNCHANGED <<alive, history>>

JoinBatchDelete(j) ==
    /\ MayStart(j, "sdk_delete")
    /\ ~Fenced(Snapshot) /\ Snapshot.busy /\ Snapshot.job_name = "deleting"
    /\ ps' = Snapshot
    /\ Start(j, "sdk_delete", "joined")
    /\ UNCHANGED <<alive, history>>

LeaveJoined(j) ==
    /\ At(j, "joined")
    /\ Move(j, "done")
    /\ UNCHANGED <<ps, alive, history>>

\* _exit_action / _release_action: hand the slot to a processing run when the
\* mailbox holds work, else free it
ExitHandoff(j) ==
    /\ At(j, "body") /\ job[j].kind \in {"custom_chunks", "sdk_delete"}
    /\ OwnsBusy(ps, j)
    /\ ps' = Uncancel(ps)
    /\ job' = [job EXCEPT ![j].pos = "handoff", ![j].next = "terminal"]
    /\ UNCHANGED <<alive, history>>

ExitRelease(j) ==
    /\ At(j, "body") /\ job[j].kind \in {"custom_chunks", "sdk_delete"}
    /\ IfOwner(j, Uncancel(FreeBusy(ps)))
    /\ Move(j, "terminal")
    /\ UNCHANGED <<alive, history>>

\* _terminal_release, the backstop of both
TerminalRelease(j) ==
    /\ At(j, "terminal")
    /\ IfOwner(j, Uncancel(FreeBusy(ps)))
    /\ Move(j, "done")
    /\ UNCHANGED <<alive, history>>

-----------------------------------------------------------------------------
(* Destructive jobs: background_delete_documents and clear_documents *)

\* mutant: enqueues in flight are not waited for
AcquireDestructiveOverEnqueues(j, kind, ownerKind) ==
    Acquire(j, kind, Fenced(Snapshot) \/ Snapshot.busy \/ Snapshot.scanning,
            [GiveBusy(Snapshot, Me(j, ownerKind)) EXCEPT !.destructive_busy = TRUE],
            "claimed")

\* _acquire_destructive_busy
AcquireDestructive(j, kind, ownerKind) ==
    Acquire(j, kind,
            Fenced(Snapshot) \/ Snapshot.busy \/ Snapshot.scanning
                \/ PendingEnqueues(Snapshot),
            [GiveBusy(Snapshot, Me(j, ownerKind)) EXCEPT !.destructive_busy = TRUE],
            "claimed")

AcquireBatchDelete(j) == AcquireDestructive(j, "batch_delete", "delete")

AcquireClear(j) == AcquireDestructive(j, "clear", "clear")

\* the job names itself in a later critical section than the one that acquired
NameDestructive(j) ==
    /\ At(j, "claimed")
    /\ ps' = [ps EXCEPT !.job_name =
                 IF job[j].kind = "batch_delete" THEN "deleting" ELSE "other"]
    /\ Move(j, "body")
    /\ UNCHANGED <<alive, history>>

\* the endpoint gives up before its job starts: _release_destructive_busy
AbandonDestructive(j) ==
    /\ At(j, "claimed")
    /\ IfOwner(j, FreeDestructive(ps))
    /\ Move(j, "done")
    /\ UNCHANGED <<alive, history>>

\* the check before each document of a batch deletion
StopBatchDelete(j) ==
    /\ At(j, "body") /\ job[j].kind = "batch_delete"
    /\ ps.cancellation_requested
    /\ Move(j, "stopped")
    /\ UNCHANGED <<ps, alive, history>>

\* _delete_release; then the queue is driven if the mailbox holds work
ReleaseBatchDelete(j) ==
    /\ \/ At(j, "stopped")
       \/ At(j, "body") /\ job[j].kind = "batch_delete"
    /\ IfOwner(j, Uncancel(FreeDestructive(ps)))
    /\ \/ OwnsBusy(ps, j) /\ Drive(j, "done")
       \/ Move(j, "done")
    /\ UNCHANGED <<alive, history>>

\* _clear_release: leaves cancellation_requested as it is
ReleaseClear(j) ==
    /\ At(j, "body") /\ job[j].kind = "clear"
    /\ IfOwner(j, FreeDestructive(ps))
    /\ Move(j, "done")
    /\ UNCHANGED <<alive, history>>

-----------------------------------------------------------------------------
(* Scans: the endpoint's reservation and run_scanning_process *)

\* mutant: enqueues in flight are not waited for
AcquireScanOverEnqueues(j) ==
    Acquire(j, "scan",
            Fenced(Snapshot) \/ Snapshot.busy \/ Snapshot.scanning
                \/ Snapshot.manual_freeze_requested,
            [Snapshot EXCEPT !.scanning = TRUE, !.scanning_exclusive = TRUE,
                             !.scanning_owner = Me(j, "scan")],
            "scan_claimed")

AcquireScan(j) ==
    Acquire(j, "scan",
            Fenced(Snapshot) \/ Snapshot.busy \/ Snapshot.scanning
                \/ PendingEnqueues(Snapshot) \/ Snapshot.manual_freeze_requested,
            [Snapshot EXCEPT !.scanning = TRUE, !.scanning_exclusive = TRUE,
                             !.scanning_owner = Me(j, "scan")],
            "scan_claimed")

\* no scan job or no manual request could be recorded: give the slot back
AbandonScan(j) ==
    /\ At(j, "scan_claimed")
    /\ ps' = IF OwnsScanning(ps, j) THEN FreeScanning(ps) ELSE ps
    /\ Move(j, "done")
    /\ UNCHANGED <<alive, history>>

\* _scan_commit published the scan's manual request; the background task starts
CommitScan(j) ==
    /\ At(j, "scan_claimed")
    /\ Move(j, "scan_excl")
    /\ UNCHANGED <<ps, alive, history>>

\* apipeline_reset_failed_for_scan takes busy under the scan's own fence; a
\* refusal aborts the scan before discovery
AcquireScanReset(j) ==
    LET owns == OwnsScanning(Snapshot, j)
        verdict == ProcessingVerdict(Snapshot, FALSE, owns)
    IN  /\ At(j, "scan_excl")
        /\ ps' = ProcessingOutcome(Snapshot, verdict, j, job[j].worker, owns)
        /\ Move(j, IF verdict = "acquired" THEN "scan_acq" ELSE "scan_end")
        /\ UNCHANGED <<alive, history>>

BeginScanDrain(j) ==
    /\ At(j, "scan_acq")
    /\ IfOwner(j, FreezeForManual(ps, j))
    /\ Move(j, IF OwnsBusy(ps, j) THEN "scan_drain" ELSE "scan_end")
    /\ UNCHANGED <<alive, history>>

\* _confirm_scan_drain_idle: poll pending_enqueues, reaping dead ones
ConfirmScanDrain(j) ==
    /\ At(j, "scan_drain")
    /\ IF PendingEnqueues(ps)
       THEN ps' = Snapshot /\ UNCHANGED job
       ELSE UNCHANGED ps /\ Move(j, "scan_ready")
    /\ UNCHANGED <<alive, history>>

EnterScanReset(j) ==
    /\ At(j, "scan_ready") /\ OwnsBusy(ps, j)
    /\ ps' = EnterExclusiveReset(ps)
    /\ Move(j, "scan_reset")
    /\ UNCHANGED <<alive, history>>

\* the reset's finally: after success the scan goes on to classify, after any
\* failure (poll attempts exhausted, storage error, slot lost) it aborts
LeaveScanReset(j) ==
    /\ \E pos \in {"scan_acq", "scan_drain", "scan_ready", "scan_reset"} : At(j, pos)
    /\ IfOwner(j, ManualIdle(FreeBusy(ps)))
    /\ \/ At(j, "scan_reset") /\ Move(j, "scan_classify")
       \/ Move(j, "scan_end")
    /\ UNCHANGED <<alive, history>>

\* transition_scanning_reservation, then the scan drives the queue
FinishClassification(j) ==
    /\ At(j, "scan_classify")
    /\ ps' = IF OwnsScanning(ps, j)
             THEN [ps EXCEPT !.scanning_exclusive = FALSE] ELSE ps
    /\ Drive(j, "scan_end")
    /\ UNCHANGED <<alive, history>>

ScanFails(j) ==
    /\ At(j, "scan_excl") \/ At(j, "scan_classify")
    /\ Move(j, "scan_end")
    /\ UNCHANGED <<ps, alive, history>>

\* the scan's finally; then it drives the queue for a run it turned away, or
\* for its own request when it never got that far
ReleaseScan(j) ==
    /\ At(j, "scan_end")
    /\ ps' = IF OwnsScanning(ps, j) THEN FreeScanning(ps) ELSE ps
    /\ Move(j, "scan_done")
    /\ UNCHANGED <<alive, history>>

AfterScan(j) ==
    /\ At(j, "scan_done")
    /\ \/ Drive(j, "done")
       \/ ~ps.scan_deferred_processing /\ Move(j, "done")
    /\ UNCHANGED <<ps, alive, history>>

-----------------------------------------------------------------------------
(* Writers of new documents: uploads, SDK inserts, source-conflict repairs *)

\* _reserve_enqueue_slot, before the body is parsed or a file is written
ReserveUpload(j) ==
    Acquire(j, "upload", Fenced(Snapshot) \/ IngressFenced(Snapshot),
            Register(Snapshot, j, job[j].worker, "enqueue"), "reserved")

\* the last-line guard of apipeline_enqueue_documents, exempt while reserved
GuardUpload(j) ==
    LET refused == \/ Fenced(Snapshot) /\ ~StallFenceExempts(Snapshot, j)
                   \/ ~Registered(Snapshot, j) /\ IngressFenced(Snapshot)
    IN  /\ At(j, "reserved")
        /\ ps' = IF refused THEN Unregister(Snapshot, j) ELSE Snapshot
        /\ Move(j, IF refused THEN "done" ELSE "write")
        /\ UNCHANGED <<alive, history>>

\* ainsert: the guard takes no reservation, _reserve_ingress_slot mints one
GuardInsert(j) ==
    Acquire(j, "insert", Fenced(Snapshot) \/ IngressFenced(Snapshot),
            Snapshot, "prepared")

MintInsert(j) ==
    LET refused == Fenced(Snapshot) \/ IngressFenced(Snapshot)
    IN  /\ At(j, "prepared")
        /\ ps' = IF refused THEN Snapshot
                 ELSE Register(Snapshot, j, job[j].worker, "enqueue")
        /\ Move(j, IF refused THEN "done" ELSE "write")
        /\ UNCHANGED <<alive, history>>

ReserveRepair(j) ==
    Acquire(j, "repair", Fenced(Snapshot) \/ IngressFenced(Snapshot),
            Register(Snapshot, j, job[j].worker, "source_repair"), "write")

\* the slot is handed back before the queue is driven
ReleaseEnqueue(j) ==
    /\ At(j, "write")
    /\ ps' = Unregister(ps, j)
    /\ \/ job[j].kind # "repair" /\ Drive(j, "done")
       \/ Move(j, "done")
    /\ UNCHANGED <<alive, history>>

-----------------------------------------------------------------------------
(* Processing runs: apipeline_process_enqueue_documents *)

StartProcess(j) ==
    /\ MayStart(j, "process")
    /\ Start(j, "process", "drive")
    /\ UNCHANGED <<ps, alive, history>>

AcquireProcessing(j) ==
    LET verdict == ProcessingVerdict(Snapshot, job[j].pos = "handoff", FALSE)
    IN  /\ At(j, "drive") \/ At(j, "handoff")
        /\ ps' = ProcessingOutcome(Snapshot, verdict, j, job[j].worker, FALSE)
        /\ IF verdict = "acquired" THEN Move(j, "run") ELSE Return(j)
        /\ UNCHANGED <<alive, history>>

\* _run_pipeline_batch names the job after the first file of the batch, which
\* may be called anything
NameRun(j) ==
    /\ At(j, "run")
    /\ \E name \in JobName : ps' = [ps EXCEPT !.job_name = name]
    /\ UNCHANGED <<job, alive, history>>

\* a manual request is queued: freeze new ingress and drain
BeginManualDrain(j) ==
    /\ At(j, "run") /\ ~ps.cancellation_requested
    /\ ps.manual_phase # "DRAIN_TO_IDLE"
    /\ IfOwner(j, FreezeForManual(ps, j))
    /\ UNCHANGED <<job, alive, history>>

\* CONTINUE_DRAIN_WAIT: enqueues reserved before the freeze are still writing
DrainWait(j) ==
    /\ At(j, "run") /\ ~ps.cancellation_requested
    /\ ps.manual_phase = "DRAIN_TO_IDLE" /\ PendingEnqueues(ps)
    /\ ps' = Snapshot
    /\ UNCHANGED <<job, alive, history>>

\* _fence_stalled_enqueue_drain: the same reservations blocked the drain too
\* long; the run raises
FenceStalledEnqueue(j) ==
    /\ At(j, "run")
    /\ ps.manual_phase = "DRAIN_TO_IDLE" /\ PendingEnqueues(ps)
    /\ ps' = RaiseFence(ps, "manual_drain_enqueue_stalled")
    /\ Move(j, "raise")
    /\ UNCHANGED <<alive, history>>

\* mutant: enqueues reserved before the freeze are not waited for
DecideResetEarly(j) ==
    /\ At(j, "run") /\ ~ps.cancellation_requested
    /\ ps.manual_phase = "DRAIN_TO_IDLE"
    /\ Move(j, "reset_begin")
    /\ UNCHANGED <<ps, alive, history>>

\* BEGIN_EXCLUSIVE_RESET: nothing queued, nobody writing
DecideReset(j) ==
    /\ At(j, "run") /\ ~ps.cancellation_requested
    /\ ps.manual_phase = "DRAIN_TO_IDLE" /\ ~PendingEnqueues(ps)
    /\ Move(j, "reset_begin")
    /\ UNCHANGED <<ps, alive, history>>

\* the final AUTO sweep found documents: drain on, or fence when they are
\* blocked or make no progress
DrainMore(j) ==
    /\ At(j, "reset_begin")
    /\ \/ UNCHANGED ps /\ Move(j, "run")
       \/ /\ \E kind \in {"manual_drain_stalled", "manual_drain_blocked"} :
                 ps' = RaiseFence(ps, kind)
          /\ Move(j, "raise")
    /\ UNCHANGED <<alive, history>>

EnterReset(j) ==
    /\ At(j, "reset_begin") /\ OwnsBusy(ps, j)
    /\ ps' = EnterExclusiveReset(ps)
    /\ Move(j, "resetting")
    /\ UNCHANGED <<alive, history>>

\* every FAILED page is reset and the request acknowledged: _end_manual_drain
EndManualDrain(j) ==
    /\ At(j, "resetting")
    /\ IfOwner(j, ManualIdle(ps))
    /\ Move(j, "run")
    /\ UNCHANGED <<alive, history>>

\* an error anywhere in a run that holds busy
RunRaises(j) ==
    /\ \E pos \in {"handoff", "run", "reset_begin", "resetting"} : At(j, pos)
    /\ Move(j, "raise")
    /\ UNCHANGED <<ps, alive, history>>

\* the check at the top of the loop
RunCancelled(j) ==
    /\ At(j, "run") /\ ps.cancellation_requested
    /\ ps' = Uncancel(ps)
    /\ Move(j, "raise")
    /\ UNCHANGED <<alive, history>>

\* _decide_pipeline_next_step found nothing left: RELEASED, with no owner check.
\* A first sweep that was empty leaves without the finalizer.
DecideReleased(j) ==
    /\ At(j, "run") /\ ~ps.cancellation_requested
    /\ ps.manual_phase # "DRAIN_TO_IDLE"
    /\ ps' = FreeBusy(ps)
    /\ Move(j, "released") \/ Return(j)
    /\ UNCHANGED <<alive, history>>

\* mutant: the slot is freed whoever owns it
FinalizeUnchecked(j) ==
    /\ \/ At(j, "raise") /\ ps' = Uncancel(ManualIdle(FreeBusy(ps)))
       \/ At(j, "released") /\ ps' = Uncancel(FreeBusy(ps))
    /\ Return(j)
    /\ UNCHANGED <<alive, history>>

\* _finalize
Finalize(j) ==
    /\ \/ /\ At(j, "raise")
          /\ IfOwner(j, Uncancel(ManualIdle(FreeBusy(ps))))
       \/ /\ At(j, "released")
          /\ ps' = IF ps.busy_owner = None \/ OwnsBusy(ps, j)
                   THEN Uncancel(ps) ELSE ps
    /\ Return(j)
    /\ UNCHANGED <<alive, history>>

-----------------------------------------------------------------------------
(* Operators and the world *)

\* cancel_pipeline, and BIMNEMO's pause_indexing: whoever holds busy
CancelPipeline ==
    /\ ps.busy
    /\ ps' = [ps EXCEPT !.cancellation_requested = TRUE]
    /\ cancel_aimed' = cancel_aimed \cup {j \in Jobs : OwnsBusy(ps, j)}
    /\ UNCHANGED <<job, alive, force_dropped>>

\* force_reset_recovery
ForceReset ==
    /\ Fenced(ps)
    /\ ps' = ForceResetStatus(ps)
    /\ force_dropped' = force_dropped \cup
          {j \in Jobs : \/ OwnsScanning(ps, j)
                        \/ Registered(ps, j) /\ ~Registered(ps', j)}
    /\ UNCHANGED <<job, alive, cancel_aimed>>

\* a worker process is killed: its jobs stop where they are
WorkerDies(w) ==
    /\ w \in alive
    /\ alive' = alive \ {w}
    /\ UNCHANGED <<ps, job, history>>

-----------------------------------------------------------------------------

AdminStep(j) == AcquireAdmin(j) \/ ReleaseAdmin(j)

PatchStep(j) ==
    \/ AcquireCustomChunks(j) \/ AcquireSdkDelete(j)
    \/ JoinBatchDelete(j) \/ LeaveJoined(j)
    \/ ExitHandoff(j) \/ ExitRelease(j) \/ TerminalRelease(j)

DestructiveStep(j) ==
    \/ AcquireBatchDelete(j) \/ AcquireClear(j) \/ NameDestructive(j)
    \/ AbandonDestructive(j) \/ StopBatchDelete(j)
    \/ ReleaseBatchDelete(j) \/ ReleaseClear(j)

ScanStep(j) ==
    \/ AcquireScan(j) \/ AbandonScan(j) \/ CommitScan(j)
    \/ AcquireScanReset(j) \/ BeginScanDrain(j) \/ ConfirmScanDrain(j)
    \/ EnterScanReset(j) \/ LeaveScanReset(j)
    \/ FinishClassification(j) \/ ScanFails(j) \/ ReleaseScan(j) \/ AfterScan(j)

EnqueueStep(j) ==
    \/ ReserveUpload(j) \/ GuardUpload(j) \/ GuardInsert(j) \/ MintInsert(j)
    \/ ReserveRepair(j) \/ ReleaseEnqueue(j)

ProcessStep(j) ==
    \/ StartProcess(j) \/ AcquireProcessing(j) \/ NameRun(j)
    \/ BeginManualDrain(j) \/ DrainWait(j) \/ FenceStalledEnqueue(j)
    \/ DecideReset(j) \/ DrainMore(j) \/ EnterReset(j) \/ EndManualDrain(j)
    \/ RunRaises(j) \/ RunCancelled(j) \/ DecideReleased(j) \/ Finalize(j)

JobStep(j) ==
    \/ AdminStep(j) \/ PatchStep(j) \/ DestructiveStep(j)
    \/ ScanStep(j) \/ EnqueueStep(j) \/ ProcessStep(j)

Next ==
    \/ \E j \in Jobs : JobStep(j)
    \/ CancelPipeline
    \/ ForceReset
    \/ \E w \in Workers : WorkerDies(w)

Spec == Init /\ [][Next]_vars

-----------------------------------------------------------------------------
(* Properties *)

\* A live job whose code relies on the busy slot really owns it: no reclaim of
\* a dead worker's slot, stale release, handoff or force reset ever takes the
\* slot away in the middle of a write.  Two such jobs therefore never run
\* together.
HolderOwnsSlot ==
    \A j \in Jobs : Live(j) /\ job[j].pos \in BusyPos => ps.busy /\ OwnsBusy(ps, j)

\* Every flag that blocks other jobs has an owner record of the kind that sets
\* it, so a flag whose holder died can be reclaimed and none blocks the
\* workspace for ever.
NoOrphanFlag ==
    /\ ps.busy <=> ps.busy_owner # None
    /\ ps.destructive_busy =>
          ps.busy_owner # None /\ ps.busy_owner.kind \in {"delete", "clear"}
    /\ ps.scanning <=> ps.scanning_owner # None
    /\ ps.scanning_exclusive => ps.scanning

\* The ingress freeze of a manual retry never outlives the run that raised it:
\* it is in force only while that run owns the busy slot, whatever kills,
\* cancels, fences or resets the run.
FreezeBelongsToHolder ==
    ps.manual_freeze_requested \/ ps.manual_phase # "IDLE" =>
        /\ ps.busy_owner # None
        /\ ps.busy_owner.kind = "processing"
        /\ ps.manual_owner = ps.busy_owner.token

Writing(j) == Live(j) /\ job[j].pos = "write" /\ j \notin force_dropped

Scanning(j) == Live(j) /\ job[j].pos \in ScanPos /\ j \notin force_dropped

Destroying(j) ==
    /\ Live(j) /\ job[j].kind \in {"batch_delete", "clear"}
    /\ job[j].pos \in {"claimed", "body", "stopped"}

\* While a clear or a batch deletion tears storage down, no enqueue is writing,
\* no scan is classifying and no other job holds the pipeline, so a document
\* accepted by the server is never written into a storage being dropped.
DestructiveAlone ==
    \A j, k \in Jobs :
        Destroying(j) /\ j # k =>
            /\ ~Writing(k)
            /\ ~Scanning(k)
            /\ ~(Live(k) /\ job[k].pos \in BusyPos)

\* The exclusive FAILED reset of a manual retry runs with no enqueue or
\* source-conflict repair writing, although neither side waits for the other
\* after its own check.
ResetExclusive ==
    \A j, k \in Jobs :
        Live(j) /\ job[j].pos \in {"resetting", "scan_reset"} => ~Writing(k)

\* During a scan's classification no enqueue writes, and no processing run of
\* another job reads the rows the scan rewrites.  The runs handed over by a
\* direct deletion are excepted: they skip the scan fence, and a scan may start
\* between the handover and the run.
ClassificationExclusive ==
    \A j, k \in Jobs :
        Scanning(j) /\ j # k =>
            /\ ~Writing(k)
            /\ Live(k) /\ job[k].pos \in {"run", "reset_begin", "resetting"}
                  => job[k].kind = "sdk_delete"

\* Whoever needs the storage for itself has it: a clear or batch deletion, the
\* reset of a manual retry, the classification of a scan.
ExclusiveWork == DestructiveAlone /\ ResetExclusive /\ ClassificationExclusive

\* A live job loses the busy slot by its own step or by an operator's force
\* reset, never by another job's release, finalizer or reclaim.
OnlyHolderFrees ==
    [][\A j \in Jobs :
          OwnsBusy(ps, j) /\ Live(j) /\ ~OwnsBusy(ps', j) =>
              job'[j] # job[j] \/ (Fenced(ps) /\ ~Fenced(ps'))]_vars

DeadWriterFences ==
    /\ ps.busy_owner # None /\ ps.busy_owner.kind \notin Rerunnable
    /\ ps.busy_owner.worker \notin alive
    /\ ps'.busy_owner # ps.busy_owner
    => Fenced(ps') \/ Fenced(ps)

FenceAdmitsNobody ==
    Fenced(ps) =>
        /\ ps'.busy_owner \in {ps.busy_owner, None}
        /\ ps'.scanning_owner \in {ps.scanning_owner, None}
        /\ \A j \in Jobs : Registered(ps', j) => Registered(ps, j)

\* A slot whose holder died in the middle of a non-rerunnable write (custom
\* chunks, delete, clear) is never handed on silently: it is given up only
\* with the recovery fence raised, or by the force reset that answers a fence.
\* And while the workspace is fenced nobody acquires anything: the busy slot,
\* the scanning slot and the enqueue reservations only get freed.
RecoveryFence == [][DeadWriterFences /\ FenceAdmitsNobody]_vars

-----------------------------------------------------------------------------
(* A statement of the repository that the code does not keep *)

\* lightrag.py:6773, docstring of adelete_by_doc_id: it "can only run when
\* pipeline is idle OR during batch deletion";
\* tests/pipeline/test_document_file_path_normalization.py:716: a job that
\* takes the slot overwrites a stale "Deleting N Documents" name, or a
\* concurrent adelete_by_doc_id "would proceed and race".
JoinsOnlyBatchDelete ==
    [][\A j \in Jobs :
          job[j].pos = "idle" /\ job'[j].pos = "joined" =>
              \E k \in Jobs : OwnsBusy(ps', k) /\ job[k].kind = "batch_delete"]_vars
=============================================================================
