--------------------------- MODULE PipelineStatus ---------------------------
(***************************************************************************)
(* The shared `pipeline_status` dictionary of one workspace and the pure    *)
(* part of the reservation primitives that read and write it               *)
(* (lightrag/kg/shared_storage.py).                                        *)
(*                                                                         *)
(* Every primitive runs as one critical section under the workspace's       *)
(* pipeline_status lock: it takes a snapshot, reclaims what dead workers    *)
(* hold, decides, and commits.  A primitive is therefore an operator from   *)
(* a status record to a status record; the specifications that extend this  *)
(* module apply one of them per step.                                      *)
(*                                                                         *)
(* Data left out: timestamps, messages, batch counters, the operation       *)
(* record, the weights of enqueue reservations.  pending_enqueues is        *)
(* always written together with pending_enqueue_tokens and is its size.     *)
(***************************************************************************)
EXTENDS Integers

CONSTANTS
    Jobs,             \* the job instances; a job is also its owner token
    Workers,          \* server processes, by process identity (pid and start id)
    None,             \* Python's None
    RecoveryEnabled   \* _reservation_recovery_enabled(): multi-worker on Linux

-----------------------------------------------------------------------------
(* Values *)

\* kind field of an owner record
OwnerKind == {"processing", "scan", "admin", "custom_chunks", "delete", "clear"}

\* _RERUNNABLE_RESERVATION_KINDS: what a dead worker may leave half done
Rerunnable == {"processing", "scan", "admin"}

\* kind field of an enqueue reservation
ReservationKind == {"enqueue", "source_repair"}

ManualPhase == {"IDLE", "DRAIN_TO_IDLE", "EXCLUSIVE_RESET"}

FenceKind == (OwnerKind \ Rerunnable) \cup
             {"manual_drain_blocked", "manual_drain_stalled",
              "manual_drain_enqueue_stalled"}

\* make_owner_record
OwnerRecord(token, worker, kind) ==
    [token |-> token, worker |-> worker, kind |-> kind]

Owners == [token : Jobs, worker : Workers, kind : OwnerKind]

EnqueueMeta == [worker : Workers, kind : ReservationKind]

\* None is none of the values it stands in for
ASSUME StatusAssumption ==
    /\ RecoveryEnabled \in BOOLEAN
    /\ None \notin Jobs \cup Owners \cup EnqueueMeta \cup FenceKind

\* job_name matters for one decision only: whether it names a batch deletion
JobName == {"deleting", "other"}

Status ==
    [busy : BOOLEAN, destructive_busy : BOOLEAN, busy_owner : Owners \cup {None},
     scanning : BOOLEAN, scanning_exclusive : BOOLEAN,
     scanning_owner : Owners \cup {None}, scan_deferred_processing : BOOLEAN,
     pending_enqueue_tokens : [Jobs -> EnqueueMeta \cup {None}],
     manual_freeze_requested : BOOLEAN, manual_resetting : BOOLEAN,
     manual_phase : ManualPhase, manual_owner : Jobs \cup {None},
     recovery_required : FenceKind \cup {None},
     cancellation_requested : BOOLEAN, job_name : JobName]

\* initialize_pipeline_status
InitialStatus ==
    [busy |-> FALSE, destructive_busy |-> FALSE, busy_owner |-> None,
     scanning |-> FALSE, scanning_exclusive |-> FALSE, scanning_owner |-> None,
     scan_deferred_processing |-> FALSE,
     pending_enqueue_tokens |-> [t \in Jobs |-> None],
     manual_freeze_requested |-> FALSE, manual_resetting |-> FALSE,
     manual_phase |-> "IDLE", manual_owner |-> None,
     recovery_required |-> None, cancellation_requested |-> FALSE,
     job_name |-> "other"]

-----------------------------------------------------------------------------
(* Readers *)

Registered(s, t) == s.pending_enqueue_tokens[t] # None

\* pending_enqueues > 0
PendingEnqueues(s) == \E t \in Jobs : Registered(s, t)

\* _reservation_owner_token(status["busy_owner"]) == token
OwnsBusy(s, t) == s.busy_owner # None /\ s.busy_owner.token = t

OwnsScanning(s, t) == s.scanning_owner # None /\ s.scanning_owner.token = t

Fenced(s) == s.recovery_required # None

\* _INGRESS_FENCES, _REPAIR_INGRESS_FENCES and the guard of a core enqueue
IngressFenced(s) ==
    s.scanning_exclusive \/ s.destructive_busy \/ s.manual_freeze_requested

\* _stall_fence_exempts_reserved_token
StallFenceExempts(s, t) ==
    s.recovery_required = "manual_drain_enqueue_stalled" /\ Registered(s, t)

-----------------------------------------------------------------------------
(* Reclaiming what dead workers hold: reconcile_dead_pipeline_reservations *)

\* the manual retry state a run drops together with its busy slot
ManualIdle(s) ==
    [s EXCEPT !.manual_freeze_requested = FALSE, !.manual_resetting = FALSE,
              !.manual_phase = "IDLE", !.manual_owner = None]

\* mutants of FenceForDead: any dead holder fences, or none does
FenceEveryDead(s, owner) == owner.kind

FenceNoDead(s, owner) == s.recovery_required

FenceForDead(s, owner) ==
    IF owner.kind \in Rerunnable THEN s.recovery_required ELSE owner.kind

\* mutant: the dead run's freeze stays behind
ReclaimBusyKeepingFreeze(s, alive) ==
    IF s.busy_owner # None /\ s.busy /\ s.busy_owner.worker \notin alive
    THEN [s EXCEPT !.busy = FALSE, !.destructive_busy = FALSE, !.busy_owner = None,
                   !.recovery_required = FenceForDead(s, s.busy_owner)]
    ELSE s

ReclaimBusy(s, alive) ==
    IF s.busy_owner # None /\ (s.busy \/ s.destructive_busy)
         /\ s.busy_owner.worker \notin alive
    THEN ManualIdle([s EXCEPT !.busy = FALSE, !.destructive_busy = FALSE,
                              !.busy_owner = None,
                              !.recovery_required = FenceForDead(s, s.busy_owner)])
    ELSE s

ReclaimScanning(s, alive) ==
    IF s.scanning_owner # None /\ (s.scanning \/ s.scanning_exclusive)
         /\ s.scanning_owner.worker \notin alive
    THEN [s EXCEPT !.scanning = FALSE, !.scanning_exclusive = FALSE,
                   !.scanning_owner = None,
                   !.recovery_required = FenceForDead(s, s.scanning_owner)]
    ELSE s

ReapTokens(s, alive) ==
    [s EXCEPT !.pending_enqueue_tokens =
        [t \in Jobs |-> IF @[t] # None /\ @[t].worker \notin alive
                        THEN None ELSE @[t]]]

Reconcile(s, alive) ==
    IF RecoveryEnabled
    THEN ReapTokens(ReclaimScanning(ReclaimBusy(s, alive), alive), alive)
    ELSE s

-----------------------------------------------------------------------------
(* Writers *)

\* status.update({"busy": False, "busy_owner": None})
FreeBusy(s) == [s EXCEPT !.busy = FALSE, !.busy_owner = None]

\* mutant: the flag a destructive job added is forgotten
FreeBusyOnly(s) == FreeBusy(s)

\* _release_destructive_action, _clear_release
FreeDestructive(s) == [FreeBusy(s) EXCEPT !.destructive_busy = FALSE]

\* _release_scanning_action
FreeScanning(s) ==
    [s EXCEPT !.scanning = FALSE, !.scanning_exclusive = FALSE,
              !.scanning_owner = None]

GiveBusy(s, owner) == [s EXCEPT !.busy = TRUE, !.busy_owner = owner]

Uncancel(s) == [s EXCEPT !.cancellation_requested = FALSE]

Register(s, t, worker, kind) ==
    [s EXCEPT !.pending_enqueue_tokens[t] = [worker |-> worker, kind |-> kind]]

\* with_token_set_reservation_lock / release_token_set_reservation: idempotent
Unregister(s, t) == [s EXCEPT !.pending_enqueue_tokens[t] = None]

\* fence_workspace_for_recovery: the first fence wins
RaiseFence(s, kind) ==
    [s EXCEPT !.recovery_required = IF @ = None THEN kind ELSE @]

\* _begin_manual_drain's update
FreezeForManual(s, t) ==
    [s EXCEPT !.manual_freeze_requested = TRUE, !.manual_resetting = FALSE,
              !.manual_phase = "DRAIN_TO_IDLE", !.manual_owner = t]

\* _run_exclusive_failed_reset's _enter
EnterExclusiveReset(s) ==
    [s EXCEPT !.manual_resetting = TRUE, !.manual_phase = "EXCLUSIVE_RESET"]

\* force_reset_recovery's update: every reservation flag, and the enqueue
\* reservations when they are what stalled the drain
ForceResetStatus(s) ==
    LET dropsTokens == s.recovery_required = "manual_drain_enqueue_stalled"
    IN  ManualIdle(FreeScanning(FreeDestructive(
          [s EXCEPT !.recovery_required = None,
                    !.pending_enqueue_tokens =
             [t \in Jobs |-> IF dropsTokens /\ @[t] # None /\ @[t].kind = "enqueue"
                             THEN None ELSE @[t]]])))

-----------------------------------------------------------------------------
(* acquire_processing_reservation *)

\* mutant: the busy flag is not looked at
VerdictIgnoringBusy(s, alreadyHeld, ownsScanFence) ==
    IF Fenced(s) THEN "recovery_required"
    ELSE IF ~alreadyHeld /\ ~ownsScanFence /\ s.scanning_exclusive THEN "scanning"
    ELSE "acquired"

\* The outcome for a caller; ownsScanFence is the scan that runs its own
\* FAILED reset inside its own classification phase.
ProcessingVerdict(s, alreadyHeld, ownsScanFence) ==
    IF Fenced(s) THEN "recovery_required"
    ELSE IF ~alreadyHeld /\ ~ownsScanFence /\ s.scanning_exclusive THEN "scanning"
    ELSE IF ~alreadyHeld /\ s.busy THEN "busy"
    ELSE "acquired"

\* What the call leaves behind for each outcome
ProcessingOutcome(s, verdict, token, worker, ownsScanFence) ==
    CASE verdict = "scanning" -> [s EXCEPT !.scan_deferred_processing = TRUE]
      [] verdict = "acquired" ->
            [GiveBusy(s, OwnerRecord(token, worker, "processing"))
                EXCEPT !.cancellation_requested = FALSE, !.job_name = "other",
                       !.scan_deferred_processing = @ /\ ownsScanFence]
      [] OTHER -> s
=============================================================================
