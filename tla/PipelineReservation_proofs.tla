--------------------- MODULE PipelineReservation_proofs ---------------------
(***************************************************************************)
(* Proofs about PipelineReservation for every set of jobs and workers, with *)
(* and without dead-worker recovery: ownership of the slots and flags, then *)
(* exclusive work on the storage (clear, batch deletion, FAILED reset, scan *)
(* classification), and what a step may never do to a holder or to a fenced *)
(* workspace.                                                               *)
(***************************************************************************)
EXTENDS PipelineReservation, TLAPS

-----------------------------------------------------------------------------
(* Types *)

\* A dead holder leaves the fence as it was or raises one of a kind that cannot
\* be run again.
LEMMA FenceForDeadType ==
    ASSUME NEW s \in Status, NEW o \in Owners
    PROVE  FenceForDead(s, o) \in FenceKind \cup {None}
BY DEF Status, FenceForDead, FenceKind, Owners, OwnerKind, Rerunnable

\* Dropping the manual retry state returns a status.
LEMMA ManualIdleType ==
    ASSUME NEW s \in Status
    PROVE  ManualIdle(s) \in Status
BY DEF ManualIdle, Status, ManualPhase

\* Reclaiming the busy slot of a dead worker returns a status (_dead_reservation_updates).
LEMMA ReclaimBusyType ==
    ASSUME NEW s \in Status, NEW a
    PROVE  ReclaimBusy(s, a) \in Status
<1>1. CASE s.busy_owner # None
  <2> DEFINE f == FenceForDead(s, s.busy_owner)
             t == [s EXCEPT !.busy = FALSE, !.destructive_busy = FALSE,
                            !.busy_owner = None, !.recovery_required = f]
  <2>1. f \in FenceKind \cup {None}
    BY <1>1, FenceForDeadType DEF Status
  <2>2. t \in Status
    BY <2>1 DEF Status
  <2> QED
    BY <2>2, ManualIdleType DEF ReclaimBusy
<1>2. CASE s.busy_owner = None
  BY <1>2 DEF ReclaimBusy
<1> QED
  BY <1>1, <1>2

\* Reclaiming the scanning slot of a dead worker returns a status.
LEMMA ReclaimScanningType ==
    ASSUME NEW s \in Status, NEW a
    PROVE  ReclaimScanning(s, a) \in Status
<1>1. CASE s.scanning_owner # None
  <2>1. FenceForDead(s, s.scanning_owner) \in FenceKind \cup {None}
    BY <1>1, FenceForDeadType DEF Status
  <2>2. [s EXCEPT !.scanning = FALSE, !.scanning_exclusive = FALSE,
                  !.scanning_owner = None,
                  !.recovery_required = FenceForDead(s, s.scanning_owner)] \in Status
    BY <2>1 DEF Status
  <2> QED
    BY <2>2 DEF ReclaimScanning
<1>2. CASE s.scanning_owner = None
  BY <1>2 DEF ReclaimScanning
<1> QED
  BY <1>1, <1>2

\* reconcile_dead_pipeline_reservations returns a status.
LEMMA ReconcileType ==
    ASSUME NEW s \in Status, NEW a
    PROVE  Reconcile(s, a) \in Status
<1>1. ASSUME NEW t \in Status PROVE ReapTokens(t, a) \in Status
  BY Zenon DEF ReapTokens, Status
<1> QED
  BY <1>1, ReclaimBusyType, ReclaimScanningType DEF Reconcile

\* Releases, the reset of the cancellation flag and the entry of the exclusive
\* reset return a status.
LEMMA FreeType ==
    ASSUME NEW s \in Status
    PROVE  /\ FreeBusy(s) \in Status
           /\ FreeDestructive(s) \in Status
           /\ FreeScanning(s) \in Status
           /\ Uncancel(s) \in Status
           /\ EnterExclusiveReset(s) \in Status
<1>1. FreeBusy(s) \in Status
  BY DEF FreeBusy, Status
<1>2. FreeDestructive(s) \in Status
  BY <1>1 DEF FreeDestructive, Status
<1>3. FreeScanning(s) \in Status
  BY DEF FreeScanning, Status
<1>4. Uncancel(s) \in Status
  BY DEF Uncancel, Status
<1>5. EnterExclusiveReset(s) \in Status
  BY DEF EnterExclusiveReset, Status, ManualPhase
<1> QED
  BY <1>1, <1>2, <1>3, <1>4, <1>5

\* Acquires, enqueue reservations, fences and the ingress freeze return a status.
LEMMA GiveType ==
    ASSUME NEW s \in Status, NEW t \in Jobs, NEW w \in Workers
    PROVE  /\ \A kind \in OwnerKind : /\ OwnerRecord(t, w, kind) \in Owners
                                      /\ GiveBusy(s, OwnerRecord(t, w, kind)) \in Status
           /\ \A kind \in ReservationKind : Register(s, t, w, kind) \in Status
           /\ Unregister(s, t) \in Status
           /\ \A kind \in FenceKind : RaiseFence(s, kind) \in Status
           /\ FreezeForManual(s, t) \in Status
<1>1. \A kind \in OwnerKind : OwnerRecord(t, w, kind) \in Owners
  BY DEF OwnerRecord, Owners
<1>2. \A o \in Owners : GiveBusy(s, o) \in Status
  BY DEF GiveBusy, Status
<1>3. \A kind \in ReservationKind : Register(s, t, w, kind) \in Status
  BY DEF Register, Status, EnqueueMeta
<1>4. Unregister(s, t) \in Status
  BY DEF Unregister, Status
<1>5. \A kind \in FenceKind : RaiseFence(s, kind) \in Status
  BY DEF RaiseFence, Status
<1>6. FreezeForManual(s, t) \in Status
  BY DEF FreezeForManual, Status, ManualPhase
<1> QED
  BY <1>1, <1>2, <1>3, <1>4, <1>5, <1>6

\* force_reset_recovery returns a status.
LEMMA ForceResetType ==
    ASSUME NEW s \in Status
    PROVE  ForceResetStatus(s) \in Status
<1> DEFINE drops == s.recovery_required = "manual_drain_enqueue_stalled"
           t == [s EXCEPT !.recovery_required = None,
                          !.pending_enqueue_tokens =
                     [u \in Jobs |-> IF drops /\ @[u] # None /\ @[u].kind = "enqueue"
                                     THEN None ELSE @[u]]]
<1>1. t \in Status
  BY Zenon DEF Status
<1> HIDE DEF t
<1>2. ManualIdle(FreeScanning(FreeDestructive(t))) \in Status
  BY <1>1, FreeType, ManualIdleType
<1> QED
  BY <1>2 DEF ForceResetStatus, t

\* acquire_processing_reservation returns a status whatever its verdict.
LEMMA ProcessingType ==
    ASSUME NEW s \in Status, NEW v, NEW t \in Jobs, NEW w \in Workers,
           NEW b \in BOOLEAN
    PROVE  ProcessingOutcome(s, v, t, w, b) \in Status
<1>1. [s EXCEPT !.scan_deferred_processing = TRUE] \in Status
  BY DEF Status
<1> DEFINE g == GiveBusy(s, OwnerRecord(t, w, "processing"))
<1>2. g \in Status
  BY GiveType DEF OwnerKind
<1> HIDE DEF g
<1>3. (g.scan_deferred_processing /\ b) \in BOOLEAN
  OBVIOUS
<1>4. \A d \in BOOLEAN :
          [g EXCEPT !.cancellation_requested = FALSE, !.job_name = "other",
                    !.scan_deferred_processing = d] \in Status
  BY <1>2 DEF Status, JobName
<1>5. [g EXCEPT !.cancellation_requested = FALSE, !.job_name = "other",
                !.scan_deferred_processing = @ /\ b] \in Status
  BY Zenon, <1>3, <1>4
<1> QED
  BY <1>1, <1>5 DEF ProcessingOutcome, g

\* Moving a job keeps the type of the table of jobs.
LEMMA JobType ==
    ASSUME job \in [Jobs -> Job], NEW j \in Jobs, NEW p \in Pos
    PROVE  /\ job[j].worker \in Workers
           /\ job[j].next \in Pos
           /\ Move(j, p) => job' \in [Jobs -> Job]
           /\ \A n \in {"done", "terminal", "scan_end"} :
                 /\ job' = [job EXCEPT ![j].pos = p, ![j].next = n]
                       => job' \in [Jobs -> Job]
                 /\ Drive(j, n) => job' \in [Jobs -> Job]
           /\ \A k \in JobKind : Start(j, k, p) => job' \in [Jobs -> Job]
<1>1. job[j] \in Job
  OBVIOUS
<1>2. job[j].worker \in Workers /\ job[j].next \in Pos
  BY <1>1 DEF Job, Pos, OtherPos
<1>3. Move(j, p) => job' \in [Jobs -> Job]
  BY <1>1 DEF Move, Job
<1>4. \A n \in {"done", "terminal", "scan_end"}, q \in Pos :
          job' = [job EXCEPT ![j].pos = q, ![j].next = n] => job' \in [Jobs -> Job]
  <2> SUFFICES ASSUME NEW n \in {"done", "terminal", "scan_end"}, NEW q \in Pos,
                      job' = [job EXCEPT ![j].pos = q, ![j].next = n]
               PROVE  job' \in [Jobs -> Job]
    BY Zenon
  <2>1. [job EXCEPT ![j].pos = q] \in [Jobs -> Job]
    BY <1>1 DEF Job
  <2> DEFINE f == [job EXCEPT ![j].pos = q]
  <2> HIDE DEF f
  <2>2. [f EXCEPT ![j].next = n] \in [Jobs -> Job]
    BY <2>1 DEF Job, f
  <2> QED
    BY <2>2 DEF f
<1>5. "drive" \in Pos
  BY DEF Pos, OtherPos
<1>6. \A n \in {"done", "terminal", "scan_end"} : Drive(j, n) => job' \in [Jobs -> Job]
  BY Zenon, <1>4, <1>5 DEF Drive
<1>7. \A k \in JobKind : Start(j, k, p) => job' \in [Jobs -> Job]
  <2> SUFFICES ASSUME NEW k \in JobKind, Start(j, k, p)
               PROVE  job' \in [Jobs -> Job]
    OBVIOUS
  <2> DEFINE f == [job EXCEPT ![j].kind = k]
             g == [f EXCEPT ![j].pos = p]
  <2>1. f \in [Jobs -> Job]
    BY <1>1 DEF Job
  <2> HIDE DEF f
  <2>2. g \in [Jobs -> Job]
    BY <2>1 DEF Job
  <2> HIDE DEF g
  <2>3. [g EXCEPT ![j].next = "done"] \in [Jobs -> Job]
    BY <2>2 DEF Job
  <2> QED
    BY <2>3 DEF f, g, Start
<1> QED
  BY <1>2, <1>3, <1>4, <1>6, <1>7

\* The snapshot an acquiring primitive decides on is a status.
LEMMA SnapshotType ==
    ASSUME TypeOK
    PROVE  Snapshot \in Status
BY ReconcileType DEF Snapshot, TypeOK

\* acquire_reservation keeps the types when what it grants is a status.
LEMMA AcquireType ==
    ASSUME TypeOK, NEW j \in Jobs, NEW kind \in JobKind, NEW refused,
           NEW granted \in Status, NEW p \in Pos, Acquire(j, kind, refused, granted, p)
    PROVE  TypeOK'
<1>1. ps' \in Status
  BY SnapshotType DEF Acquire, Refuse
<1>2. job' \in [Jobs -> Job]
  BY JobType DEF Acquire, Refuse, TypeOK
<1> QED
  BY <1>1, <1>2 DEF Acquire, Refuse, history, TypeOK

\* _acquire_destructive_busy keeps the types.
LEMMA DestructiveType ==
    ASSUME TypeOK, NEW j \in Jobs, NEW kind \in JobKind, NEW ok \in OwnerKind,
           AcquireDestructive(j, kind, ok)
    PROVE  TypeOK'
<1> DEFINE g == GiveBusy(Snapshot, Me(j, ok))
<1>1. g \in Status
  BY SnapshotType, GiveType, JobType DEF Me, TypeOK, Pos, OtherPos
<1> HIDE DEF g
<1>2. [g EXCEPT !.destructive_busy = TRUE] \in Status
  BY <1>1 DEF Status
<1>3. "claimed" \in Pos
  BY DEF Pos, BusyPos
<1> QED
  BY <1>2, <1>3, AcquireType DEF AcquireDestructive, g

\* Admin writes keep the types.
LEMMA AdminStepType ==
    ASSUME TypeOK, NEW j \in Jobs, AdminStep(j)
    PROVE  TypeOK'
<1> USE DEF OwnerKind, JobKind, Pos, BusyPos, ScanPos, OtherPos
<1>1. CASE AcquireAdmin(j)
  <2>1. GiveBusy(Snapshot, Me(j, "admin")) \in Status
    BY Zenon, SnapshotType, GiveType, JobType DEF Me, TypeOK
  <2> QED
    BY <1>1, <2>1, AcquireType DEF AcquireAdmin
<1>2. CASE ReleaseAdmin(j)
  <2>1. ps' \in Status
    BY Zenon, <1>2, FreeType, JobType DEF ReleaseAdmin, IfOwner, TypeOK
  <2>2. job' \in [Jobs -> Job]
    BY Zenon, <1>2, JobType DEF ReleaseAdmin, TypeOK
  <2> QED
    BY <1>2, <2>1, <2>2 DEF ReleaseAdmin, history, TypeOK
<1> QED
  BY <1>1, <1>2 DEF AdminStep

\* Custom chunks and direct deletions keep the types.
LEMMA PatchStepType ==
    ASSUME TypeOK, NEW j \in Jobs, PatchStep(j)
    PROVE  TypeOK'
<1> USE DEF OwnerKind, JobKind, Pos, BusyPos, ScanPos, OtherPos
<1>1. CASE AcquireCustomChunks(j)
  <2> DEFINE g == Uncancel(GiveBusy(Snapshot, Me(j, "custom_chunks")))
  <2>1. g \in Status
    BY Zenon, SnapshotType, GiveType, FreeType, JobType DEF Me, TypeOK
  <2> HIDE DEF g
  <2>2. [g EXCEPT !.job_name = "other"] \in Status
    BY <2>1 DEF Status, JobName
  <2> QED
    BY <1>1, <2>2, AcquireType DEF AcquireCustomChunks, g
<1>2. CASE AcquireSdkDelete(j)
  <2> DEFINE g == Uncancel(GiveBusy(Snapshot, Me(j, "delete")))
  <2>1. g \in Status
    BY Zenon, SnapshotType, GiveType, FreeType, JobType DEF Me, TypeOK
  <2> HIDE DEF g
  <2>2. [g EXCEPT !.job_name = "other"] \in Status
    BY <2>1 DEF Status, JobName
  <2>3. ps' \in Status
    BY <1>2, <2>2, SnapshotType DEF AcquireSdkDelete, Refuse, g
  <2>4. job' \in [Jobs -> Job]
    BY Zenon, <1>2, JobType DEF AcquireSdkDelete, Refuse, TypeOK
  <2> QED
    BY <1>2, <2>3, <2>4 DEF AcquireSdkDelete, Refuse, history, TypeOK
<1>3. CASE JoinBatchDelete(j)
  <2>1. ps' \in Status
    BY Zenon, <1>3, SnapshotType, JobType DEF JoinBatchDelete, IfOwner, TypeOK
  <2>2. job' \in [Jobs -> Job]
    BY Zenon, <1>3, JobType DEF JoinBatchDelete, TypeOK
  <2> QED
    BY <1>3, <2>1, <2>2 DEF JoinBatchDelete, history, TypeOK
<1>4. CASE LeaveJoined(j)
  BY Zenon, <1>4, JobType DEF LeaveJoined, history, TypeOK
<1>5. CASE ExitHandoff(j)
  <2>1. ps' \in Status
    BY Zenon, <1>5, FreeType, JobType DEF ExitHandoff, IfOwner, TypeOK
  <2>2. job' \in [Jobs -> Job]
    BY Zenon, <1>5, JobType DEF ExitHandoff, TypeOK
  <2> QED
    BY <1>5, <2>1, <2>2 DEF ExitHandoff, history, TypeOK
<1>6. CASE ExitRelease(j)
  <2>1. ps' \in Status
    BY Zenon, <1>6, FreeType, JobType DEF ExitRelease, IfOwner, TypeOK
  <2>2. job' \in [Jobs -> Job]
    BY Zenon, <1>6, JobType DEF ExitRelease, TypeOK
  <2> QED
    BY <1>6, <2>1, <2>2 DEF ExitRelease, history, TypeOK
<1>7. CASE TerminalRelease(j)
  <2>1. ps' \in Status
    BY Zenon, <1>7, FreeType, JobType DEF TerminalRelease, IfOwner, TypeOK
  <2>2. job' \in [Jobs -> Job]
    BY Zenon, <1>7, JobType DEF TerminalRelease, TypeOK
  <2> QED
    BY <1>7, <2>1, <2>2 DEF TerminalRelease, history, TypeOK
<1> QED
  BY <1>1, <1>2, <1>3, <1>4, <1>5, <1>6, <1>7 DEF PatchStep

\* Batch deletions and clears keep the types.
LEMMA DestructiveStepType ==
    ASSUME TypeOK, NEW j \in Jobs, DestructiveStep(j)
    PROVE  TypeOK'
<1> USE DEF OwnerKind, JobKind, Pos, BusyPos, ScanPos, OtherPos
<1>1. CASE AcquireBatchDelete(j)
  BY <1>1, DestructiveType DEF AcquireBatchDelete
<1>2. CASE AcquireClear(j)
  BY <1>2, DestructiveType DEF AcquireClear
<1>3. CASE NameDestructive(j)
  <2>1. \A name \in JobName : [ps EXCEPT !.job_name = name] \in Status
    BY DEF Status, TypeOK
  <2>2. ps' \in Status
    BY <1>3, <2>1 DEF NameDestructive, JobName
  <2>3. job' \in [Jobs -> Job]
    BY Zenon, <1>3, JobType DEF NameDestructive, TypeOK
  <2> QED
    BY <1>3, <2>2, <2>3 DEF NameDestructive, history, TypeOK
<1>4. CASE AbandonDestructive(j)
  <2>1. ps' \in Status
    BY Zenon, <1>4, FreeType, JobType DEF AbandonDestructive, IfOwner, TypeOK
  <2>2. job' \in [Jobs -> Job]
    BY Zenon, <1>4, JobType DEF AbandonDestructive, TypeOK
  <2> QED
    BY <1>4, <2>1, <2>2 DEF AbandonDestructive, history, TypeOK
<1>5. CASE StopBatchDelete(j)
  BY Zenon, <1>5, JobType DEF StopBatchDelete, history, TypeOK
<1>6. CASE ReleaseBatchDelete(j)
  <2>1. ps' \in Status
    BY Zenon, <1>6, FreeType, JobType DEF ReleaseBatchDelete, IfOwner, TypeOK
  <2>2. job' \in [Jobs -> Job]
    BY Zenon, <1>6, JobType DEF ReleaseBatchDelete, TypeOK
  <2> QED
    BY <1>6, <2>1, <2>2 DEF ReleaseBatchDelete, history, TypeOK
<1>7. CASE ReleaseClear(j)
  <2>1. ps' \in Status
    BY Zenon, <1>7, FreeType, JobType DEF ReleaseClear, IfOwner, TypeOK
  <2>2. job' \in [Jobs -> Job]
    BY Zenon, <1>7, JobType DEF ReleaseClear, TypeOK
  <2> QED
    BY <1>7, <2>1, <2>2 DEF ReleaseClear, history, TypeOK
<1> QED
  BY <1>1, <1>2, <1>3, <1>4, <1>5, <1>6, <1>7 DEF DestructiveStep

\* Scans keep the types.
LEMMA ScanStepType ==
    ASSUME TypeOK, NEW j \in Jobs, ScanStep(j)
    PROVE  TypeOK'
<1> USE DEF OwnerKind, JobKind, Pos, BusyPos, ScanPos, OtherPos
<1>1. CASE AcquireScan(j)
  <2>1. Me(j, "scan") \in Owners
    BY Zenon, SnapshotType, GiveType, JobType DEF Me, TypeOK
  <2>2. [Snapshot EXCEPT !.scanning = TRUE, !.scanning_exclusive = TRUE,
                         !.scanning_owner = Me(j, "scan")] \in Status
    BY Zenon, <2>1, SnapshotType DEF Status
  <2> QED
    BY <1>1, <2>2, AcquireType DEF AcquireScan
<1>2. CASE AbandonScan(j)
  <2>1. ps' \in Status
    BY Zenon, <1>2, FreeType, JobType DEF AbandonScan, IfOwner, TypeOK
  <2>2. job' \in [Jobs -> Job]
    BY Zenon, <1>2, JobType DEF AbandonScan, TypeOK
  <2> QED
    BY <1>2, <2>1, <2>2 DEF AbandonScan, history, TypeOK
<1>3. CASE CommitScan(j)
  BY Zenon, <1>3, JobType DEF CommitScan, history, TypeOK
<1>4. CASE AcquireScanReset(j)
  <2>1. ps' \in Status
    BY Zenon, <1>4, SnapshotType, ProcessingType, JobType DEF AcquireScanReset,
       OwnsScanning, TypeOK
  <2>2. job' \in [Jobs -> Job]
    BY Zenon, <1>4, JobType DEF AcquireScanReset, TypeOK
  <2> QED
    BY <1>4, <2>1, <2>2 DEF AcquireScanReset, history, TypeOK
<1>5. CASE BeginScanDrain(j)
  <2>1. ps' \in Status
    BY Zenon, <1>5, GiveType, JobType DEF BeginScanDrain, IfOwner, TypeOK
  <2>2. job' \in [Jobs -> Job]
    BY Zenon, <1>5, JobType DEF BeginScanDrain, TypeOK
  <2> QED
    BY <1>5, <2>1, <2>2 DEF BeginScanDrain, history, TypeOK
<1>6. CASE ConfirmScanDrain(j)
  <2>1. ps' \in Status
    BY Zenon, <1>6, SnapshotType, JobType DEF ConfirmScanDrain, IfOwner, TypeOK
  <2>2. job' \in [Jobs -> Job]
    BY Zenon, <1>6, JobType DEF ConfirmScanDrain, TypeOK
  <2> QED
    BY <1>6, <2>1, <2>2 DEF ConfirmScanDrain, history, TypeOK
<1>7. CASE EnterScanReset(j)
  <2>1. ps' \in Status
    BY Zenon, <1>7, FreeType, JobType DEF EnterScanReset, IfOwner, TypeOK
  <2>2. job' \in [Jobs -> Job]
    BY Zenon, <1>7, JobType DEF EnterScanReset, TypeOK
  <2> QED
    BY <1>7, <2>1, <2>2 DEF EnterScanReset, history, TypeOK
<1>8. CASE LeaveScanReset(j)
  <2>1. ps' \in Status
    BY Zenon, <1>8, FreeType, ManualIdleType, JobType DEF LeaveScanReset, IfOwner, TypeOK
  <2>2. job' \in [Jobs -> Job]
    BY Zenon, <1>8, JobType DEF LeaveScanReset, TypeOK
  <2> QED
    BY <1>8, <2>1, <2>2 DEF LeaveScanReset, history, TypeOK
<1>9. CASE FinishClassification(j)
  <2>1. [ps EXCEPT !.scanning_exclusive = FALSE] \in Status
    BY Zenon DEF Status, TypeOK
  <2>2. ps' \in Status
    BY <1>9, <2>1 DEF FinishClassification, TypeOK
  <2>3. job' \in [Jobs -> Job]
    BY Zenon, <1>9, JobType DEF FinishClassification, TypeOK
  <2> QED
    BY <1>9, <2>2, <2>3 DEF FinishClassification, history, TypeOK
<1>10. CASE ScanFails(j)
  BY Zenon, <1>10, JobType DEF ScanFails, history, TypeOK
<1>11. CASE ReleaseScan(j)
  <2>1. ps' \in Status
    BY Zenon, <1>11, FreeType, JobType DEF ReleaseScan, IfOwner, TypeOK
  <2>2. job' \in [Jobs -> Job]
    BY Zenon, <1>11, JobType DEF ReleaseScan, TypeOK
  <2> QED
    BY <1>11, <2>1, <2>2 DEF ReleaseScan, history, TypeOK
<1>12. CASE AfterScan(j)
  BY Zenon, <1>12, JobType DEF AfterScan, history, TypeOK
<1> QED
  BY <1>1, <1>2, <1>3, <1>4, <1>5, <1>6, <1>7, <1>8, <1>9, <1>10, <1>11, <1>12 DEF ScanStep

\* Uploads, inserts and repairs keep the types.
LEMMA EnqueueStepType ==
    ASSUME TypeOK, NEW j \in Jobs, EnqueueStep(j)
    PROVE  TypeOK'
<1> USE DEF OwnerKind, JobKind, Pos, BusyPos, ScanPos, OtherPos
<1>1. CASE ReserveUpload(j)
  <2>1. Register(Snapshot, j, job[j].worker, "enqueue") \in Status
    BY Zenon, SnapshotType, GiveType, JobType DEF ReservationKind, TypeOK
  <2> QED
    BY <1>1, <2>1, AcquireType DEF ReserveUpload
<1>2. CASE GuardUpload(j)
  <2>1. ps' \in Status
    BY Zenon, <1>2, SnapshotType, GiveType, JobType DEF GuardUpload, IfOwner, TypeOK
  <2>2. job' \in [Jobs -> Job]
    BY Zenon, <1>2, JobType DEF GuardUpload, TypeOK
  <2> QED
    BY <1>2, <2>1, <2>2 DEF GuardUpload, history, TypeOK
<1>3. CASE GuardInsert(j)
  BY <1>3, SnapshotType, AcquireType DEF GuardInsert
<1>4. CASE MintInsert(j)
  <2>1. ps' \in Status
    BY Zenon, <1>4, SnapshotType, GiveType, JobType DEF MintInsert, ReservationKind,
       IfOwner, TypeOK
  <2>2. job' \in [Jobs -> Job]
    BY Zenon, <1>4, JobType DEF MintInsert, TypeOK
  <2> QED
    BY <1>4, <2>1, <2>2 DEF MintInsert, history, TypeOK
<1>5. CASE ReserveRepair(j)
  <2>1. Register(Snapshot, j, job[j].worker, "source_repair") \in Status
    BY Zenon, SnapshotType, GiveType, JobType DEF ReservationKind, TypeOK
  <2> QED
    BY <1>5, <2>1, AcquireType DEF ReserveRepair
<1>6. CASE ReleaseEnqueue(j)
  <2>1. ps' \in Status
    BY Zenon, <1>6, GiveType, JobType DEF ReleaseEnqueue, IfOwner, TypeOK
  <2>2. job' \in [Jobs -> Job]
    BY Zenon, <1>6, JobType DEF ReleaseEnqueue, TypeOK
  <2> QED
    BY <1>6, <2>1, <2>2 DEF ReleaseEnqueue, history, TypeOK
<1> QED
  BY <1>1, <1>2, <1>3, <1>4, <1>5, <1>6 DEF EnqueueStep

\* Processing runs keep the types.
LEMMA ProcessStepType ==
    ASSUME TypeOK, NEW j \in Jobs, ProcessStep(j)
    PROVE  TypeOK'
<1> USE DEF OwnerKind, JobKind, Pos, BusyPos, ScanPos, OtherPos
<1>1. CASE StartProcess(j)
  BY Zenon, <1>1, JobType DEF StartProcess, history, TypeOK
<1>2. CASE AcquireProcessing(j)
  <2>1. ps' \in Status
    BY Zenon, <1>2, SnapshotType, ProcessingType, JobType DEF AcquireProcessing, TypeOK
  <2>2. job' \in [Jobs -> Job]
    BY Zenon, <1>2, JobType DEF AcquireProcessing, Return, TypeOK
  <2> QED
    BY <1>2, <2>1, <2>2 DEF AcquireProcessing, history, TypeOK
<1>3. CASE NameRun(j)
  <2>1. \A name \in JobName : [ps EXCEPT !.job_name = name] \in Status
    BY DEF Status, TypeOK
  <2> QED
    BY <1>3, <2>1 DEF NameRun, history, TypeOK
<1>4. CASE BeginManualDrain(j)
  <2>1. ps' \in Status
    BY Zenon, <1>4, GiveType, JobType DEF BeginManualDrain, IfOwner, TypeOK
  <2>2. job' \in [Jobs -> Job]
    BY Zenon, <1>4, JobType DEF BeginManualDrain, TypeOK
  <2> QED
    BY <1>4, <2>1, <2>2 DEF BeginManualDrain, history, TypeOK
<1>5. CASE DrainWait(j)
  <2>1. ps' \in Status
    BY Zenon, <1>5, SnapshotType, JobType DEF DrainWait, IfOwner, TypeOK
  <2>2. job' \in [Jobs -> Job]
    BY Zenon, <1>5, JobType DEF DrainWait, TypeOK
  <2> QED
    BY <1>5, <2>1, <2>2 DEF DrainWait, history, TypeOK
<1>6. CASE FenceStalledEnqueue(j)
  <2>1. ps' \in Status
    BY Zenon, <1>6, GiveType, JobType DEF FenceStalledEnqueue, FenceKind, IfOwner, TypeOK
  <2>2. job' \in [Jobs -> Job]
    BY Zenon, <1>6, JobType DEF FenceStalledEnqueue, TypeOK
  <2> QED
    BY <1>6, <2>1, <2>2 DEF FenceStalledEnqueue, history, TypeOK
<1>7. CASE DecideReset(j)
  BY Zenon, <1>7, JobType DEF DecideReset, history, TypeOK
<1>8. CASE DrainMore(j)
  <2>1. ps' \in Status
    BY Zenon, <1>8, GiveType, JobType DEF DrainMore, FenceKind, IfOwner, TypeOK
  <2>2. job' \in [Jobs -> Job]
    BY Zenon, <1>8, JobType DEF DrainMore, TypeOK
  <2> QED
    BY <1>8, <2>1, <2>2 DEF DrainMore, history, TypeOK
<1>9. CASE EnterReset(j)
  <2>1. ps' \in Status
    BY Zenon, <1>9, FreeType, JobType DEF EnterReset, IfOwner, TypeOK
  <2>2. job' \in [Jobs -> Job]
    BY Zenon, <1>9, JobType DEF EnterReset, TypeOK
  <2> QED
    BY <1>9, <2>1, <2>2 DEF EnterReset, history, TypeOK
<1>10. CASE EndManualDrain(j)
  <2>1. ps' \in Status
    BY Zenon, <1>10, ManualIdleType, JobType DEF EndManualDrain, IfOwner, TypeOK
  <2>2. job' \in [Jobs -> Job]
    BY Zenon, <1>10, JobType DEF EndManualDrain, TypeOK
  <2> QED
    BY <1>10, <2>1, <2>2 DEF EndManualDrain, history, TypeOK
<1>11. CASE RunRaises(j)
  BY Zenon, <1>11, JobType DEF RunRaises, history, TypeOK
<1>12. CASE RunCancelled(j)
  <2>1. ps' \in Status
    BY Zenon, <1>12, FreeType, JobType DEF RunCancelled, IfOwner, TypeOK
  <2>2. job' \in [Jobs -> Job]
    BY Zenon, <1>12, JobType DEF RunCancelled, TypeOK
  <2> QED
    BY <1>12, <2>1, <2>2 DEF RunCancelled, history, TypeOK
<1>13. CASE DecideReleased(j)
  <2>1. ps' \in Status
    BY Zenon, <1>13, FreeType, JobType DEF DecideReleased, IfOwner, TypeOK
  <2>2. job' \in [Jobs -> Job]
    BY Zenon, <1>13, JobType DEF DecideReleased, TypeOK, Return
  <2> QED
    BY <1>13, <2>1, <2>2 DEF DecideReleased, history, TypeOK
<1>14. CASE Finalize(j)
  <2>1. ps' \in Status
    BY Zenon, <1>14, FreeType, ManualIdleType, JobType DEF Finalize, IfOwner, TypeOK
  <2>2. job' \in [Jobs -> Job]
    BY Zenon, <1>14, JobType DEF Finalize, TypeOK, Return
  <2> QED
    BY <1>14, <2>1, <2>2 DEF Finalize, history, TypeOK
<1> QED
  BY <1>1, <1>2, <1>3, <1>4, <1>5, <1>6, <1>7, <1>8, <1>9, <1>10, <1>11, <1>12, <1>13,
     <1>14 DEF ProcessStep

\* Every step of a job, of an operator and of the world keeps the types.
LEMMA NextType ==
    ASSUME TypeOK, [Next]_vars
    PROVE  TypeOK'
<1>1. ASSUME NEW j \in Jobs, JobStep(j) PROVE TypeOK'
  BY <1>1, AdminStepType, PatchStepType, DestructiveStepType, ScanStepType,
     EnqueueStepType, ProcessStepType DEF JobStep
<1>2. CASE CancelPipeline
  <2>1. [ps EXCEPT !.cancellation_requested = TRUE] \in Status
    BY DEF TypeOK, Status
  <2> QED
    BY <1>2, <2>1 DEF CancelPipeline, TypeOK
<1>3. CASE ForceReset
  BY <1>3, ForceResetType DEF ForceReset, TypeOK
<1>4. ASSUME NEW w \in Workers, WorkerDies(w) PROVE TypeOK'
  BY <1>4 DEF WorkerDies, TypeOK, history
<1>5. CASE UNCHANGED vars
  BY <1>5 DEF vars, TypeOK
<1> QED
  BY <1>1, <1>2, <1>3, <1>4, <1>5 DEF Next

\* initialize_pipeline_status is well typed.
LEMMA InitType ==
    Init => TypeOK
<1> SUFFICES ASSUME Init PROVE TypeOK
  OBVIOUS
<1>1. InitialStatus \in Status
  BY DEF InitialStatus, Status, ManualPhase, JobName
<1>2. job \in [Jobs -> Job]
  BY DEF Init, Job, JobKind, Pos, OtherPos
<1> QED
  BY <1>1, <1>2 DEF Init, TypeOK

\* TypeOK holds in every reachable state: the status, the jobs and the history
\* stay well typed whatever is acquired, released, reclaimed or force-reset; the
\* recovery fence only ever names a kind of holder that cannot be run again.
THEOREM TypeCorrect ==
    Spec => []TypeOK
<1> QED
  BY InitType, NextType, PTL DEF Spec
-----------------------------------------------------------------------------
(* The inductive invariant.  Its parts are about a status s and the jobs, so *)
(* that they can be shown for the snapshot first and for the step after it.  *)

\* positions in which a run may have frozen ingress, and those in which it has
ManualPos == {"run", "reset_begin", "resetting", "scan_drain", "scan_ready",
              "scan_reset", "raise"}
ResettingPos == {"reset_begin", "resetting", "scan_drain", "scan_ready", "scan_reset"}

\* where the owner of the slot is
OwnerPos(s) == job[s.busy_owner.token].pos

\* the scanning flags have an owner, which is a scan
ScanOwned(s) ==
    /\ s.scanning <=> s.scanning_owner # None
    /\ s.scanning_exclusive => s.scanning
    /\ s.scanning_owner # None => s.scanning_owner.kind = "scan"

\* the owner record names a job that holds or is about to release the slot; a
\* processing run re-tags a slot that was handed to it
OwnerInPlace(s) ==
    s.busy_owner # None =>
        /\ s.busy_owner.worker = job[s.busy_owner.token].worker
        /\ OwnerPos(s) \in BusyPos \cup {"raise"}
        /\ OwnerPos(s) \in BusyPos \ {"claimed", "body", "stopped", "handoff"} =>
              s.busy_owner.kind = "processing"

\* the destructive flag belongs to a batch deletion or a clear that still runs
DestructiveOwned(s) ==
    s.destructive_busy =>
        /\ s.busy_owner # None
        /\ s.busy_owner.kind \in {"delete", "clear"}
        /\ OwnerPos(s) \in {"claimed", "body", "stopped"}
        /\ job[s.busy_owner.token].kind \in {"batch_delete", "clear"}

\* freeze and phase move together, and with the owner's position: needed because
\* RELEASED frees the slot without dropping the freeze
ManualOwned(s) ==
    /\ s.manual_freeze_requested <=> s.manual_phase # "IDLE"
    /\ s.manual_phase # "IDLE" =>
          /\ s.busy_owner # None
          /\ s.busy_owner.kind = "processing"
          /\ s.manual_owner = s.busy_owner.token
          /\ OwnerPos(s) \in ManualPos
    /\ s.manual_phase = "EXCLUSIVE_RESET" =>
          OwnerPos(s) \in {"resetting", "scan_reset", "raise"}
    /\ s.busy_owner # None /\ OwnerPos(s) \in ResettingPos => s.manual_phase # "IDLE"

\* HolderOwnsSlot for any status, to be used on snapshots too
HoldersOwn(s) ==
    \A j \in Jobs : Live(j) /\ job[j].pos \in BusyPos => OwnsBusy(s, j)

\* a fence is raised over a dead holder or by the holder on its way out: needed
\* because a force reset frees the slot whoever owns it
FenceStopsHolders(s) ==
    Fenced(s) => \A j \in Jobs : Live(j) => job[j].pos \notin BusyPos

StatusInv(s) ==
    /\ s.busy <=> s.busy_owner # None
    /\ ScanOwned(s)
    /\ OwnerInPlace(s)
    /\ DestructiveOwned(s)
    /\ ManualOwned(s)
    /\ HoldersOwn(s)
    /\ FenceStopsHolders(s)

IInv == TypeOK /\ StatusInv(ps)

\* StatusInv reads these fields only.
LEMMA StatusInvFrame ==
    ASSUME NEW s, NEW t, StatusInv(s),
           t.busy = s.busy, t.busy_owner = s.busy_owner,
           t.destructive_busy = s.destructive_busy,
           t.scanning = s.scanning, t.scanning_exclusive = s.scanning_exclusive,
           t.scanning_owner = s.scanning_owner,
           t.manual_freeze_requested = s.manual_freeze_requested,
           t.manual_phase = s.manual_phase, t.manual_owner = s.manual_owner,
           t.recovery_required = s.recovery_required
    PROVE  StatusInv(t)
BY DEF StatusInv, ScanOwned, OwnerInPlace, OwnerPos, DestructiveOwned, ManualOwned,
       HoldersOwn, OwnsBusy, FenceStopsHolders, Fenced

\* A live job at a position that relies on the slot keeps its slot from being reclaimed.
LEMMA ReclaimBusyInv ==
    ASSUME TypeOK, NEW s \in Status, StatusInv(s)
    PROVE  StatusInv(ReclaimBusy(s, alive))
<1>1. CASE s.busy_owner # None /\ (s.busy \/ s.destructive_busy)
             /\ s.busy_owner.worker \notin alive
  <2> DEFINE t == ReclaimBusy(s, alive)
  <2>1. /\ t.busy = FALSE /\ t.busy_owner = None /\ t.destructive_busy = FALSE
        /\ t.scanning = s.scanning /\ t.scanning_exclusive = s.scanning_exclusive
        /\ t.scanning_owner = s.scanning_owner
        /\ t.manual_freeze_requested = FALSE /\ t.manual_phase = "IDLE"
    BY <1>1 DEF ReclaimBusy, ManualIdle, Status
  <2>2. ASSUME NEW j \in Jobs, Live(j), job[j].pos \in BusyPos PROVE FALSE
    BY <1>1, <2>2 DEF StatusInv, HoldersOwn, OwnsBusy, OwnerInPlace, Live
  <2> HIDE DEF t
  <2>3. StatusInv(t)
    BY <2>1, <2>2 DEF StatusInv, ScanOwned, OwnerInPlace, DestructiveOwned,
        ManualOwned, HoldersOwn, FenceStopsHolders
  <2> QED
    BY <2>3 DEF t
<1>2. CASE ~(s.busy_owner # None /\ (s.busy \/ s.destructive_busy)
             /\ s.busy_owner.worker \notin alive)
  BY <1>2 DEF ReclaimBusy
<1> QED
  BY <1>1, <1>2

\* Reclaiming the scanning slot raises no fence, a scan can be run again.
LEMMA ReclaimScanningInv ==
    ASSUME TypeOK, NEW s \in Status, StatusInv(s)
    PROVE  StatusInv(ReclaimScanning(s, alive))
<1>1. CASE s.scanning_owner # None /\ (s.scanning \/ s.scanning_exclusive)
             /\ s.scanning_owner.worker \notin alive
  <2> DEFINE t == ReclaimScanning(s, alive)
  <2>0. FenceForDead(s, s.scanning_owner) = s.recovery_required
    BY <1>1 DEF FenceForDead, Rerunnable, StatusInv, ScanOwned
  <2>1. /\ t.busy = s.busy /\ t.busy_owner = s.busy_owner
        /\ t.destructive_busy = s.destructive_busy
        /\ t.scanning = FALSE /\ t.scanning_exclusive = FALSE /\ t.scanning_owner = None
        /\ t.manual_freeze_requested = s.manual_freeze_requested
        /\ t.manual_phase = s.manual_phase /\ t.manual_owner = s.manual_owner
        /\ t.recovery_required = s.recovery_required
    BY <1>1, <2>0 DEF ReclaimScanning, Status
  <2> HIDE DEF t
  <2>2. StatusInv(t)
    BY <2>1 DEF StatusInv, ScanOwned, OwnerInPlace, OwnerPos, DestructiveOwned,
        ManualOwned, HoldersOwn, OwnsBusy, FenceStopsHolders, Fenced
  <2> QED
    BY <2>2 DEF t
<1>2. CASE ~(s.scanning_owner # None /\ (s.scanning \/ s.scanning_exclusive)
             /\ s.scanning_owner.worker \notin alive)
  BY <1>2 DEF ReclaimScanning
<1> QED
  BY <1>1, <1>2

\* Whatever an acquiring primitive reclaims first, the snapshot it decides on is
\* as good as the status it found.
LEMMA SnapshotInv ==
    ASSUME IInv
    PROVE  Snapshot \in Status /\ StatusInv(Snapshot)
<1>1. ASSUME NEW s \in Status, StatusInv(s)
      PROVE  StatusInv(ReapTokens(s, alive))
  <2> DEFINE t == ReapTokens(s, alive)
  <2>1. /\ t.busy = s.busy /\ t.busy_owner = s.busy_owner
        /\ t.destructive_busy = s.destructive_busy
        /\ t.scanning = s.scanning /\ t.scanning_exclusive = s.scanning_exclusive
        /\ t.scanning_owner = s.scanning_owner
        /\ t.manual_freeze_requested = s.manual_freeze_requested
        /\ t.manual_phase = s.manual_phase /\ t.manual_owner = s.manual_owner
        /\ t.recovery_required = s.recovery_required
    BY DEF ReapTokens, Status
  <2> QED
    BY <1>1, <2>1, StatusInvFrame
<1> DEFINE r == ReclaimBusy(ps, alive)
           q == ReclaimScanning(r, alive)
<1>2. r \in Status /\ StatusInv(r)
  BY ReclaimBusyType, ReclaimBusyInv DEF IInv, TypeOK
<1> HIDE DEF r
<1>3. q \in Status /\ StatusInv(q)
  BY <1>2, ReclaimScanningType, ReclaimScanningInv DEF IInv
<1> HIDE DEF q
<1>4. StatusInv(ReapTokens(q, alive))
  BY <1>1, <1>3
<1> QED
  BY <1>4, SnapshotType DEF Snapshot, Reconcile, r, q, IInv

-----------------------------------------------------------------------------
(* Four shapes of a step.  The step changes one job, j. *)

\* j goes to position p, nobody else moves
Moves(j, p) ==
    /\ \A k \in Jobs \ {j} : job'[k] = job[k]
    /\ job'[j].worker = job[j].worker
    /\ job'[j].pos = p
    /\ alive' = alive

KeepsHolder(s) ==
    /\ ps'.busy = s.busy /\ ps'.busy_owner = s.busy_owner
    /\ ps'.destructive_busy = s.destructive_busy

KeepsManual(s) ==
    /\ ps'.manual_freeze_requested = s.manual_freeze_requested
    /\ ps'.manual_phase = s.manual_phase /\ ps'.manual_owner = s.manual_owner

KeepsScan(s) ==
    /\ ps'.scanning = s.scanning /\ ps'.scanning_exclusive = s.scanning_exclusive
    /\ ps'.scanning_owner = s.scanning_owner

KeepsFence(s) == ps'.recovery_required = s.recovery_required

\* the slot, the destructive flag and the freeze are gone
Frees ==
    /\ ~ps'.busy /\ ps'.busy_owner = None /\ ~ps'.destructive_busy
    /\ ~ps'.manual_freeze_requested /\ ps'.manual_phase = "IDLE"

\* What the step forms of PipelineReservation say about the job.
LEMMA MovesFacts ==
    ASSUME TypeOK, NEW j \in Jobs, NEW p \in Pos, alive' = alive
    PROVE  /\ Move(j, p) => Moves(j, p) /\ job'[j].kind = job[j].kind
           /\ \A n \in {"done", "terminal", "scan_end"} :
                 /\ Drive(j, n) => Moves(j, "drive")
                 /\ job' = [job EXCEPT ![j].pos = p, ![j].next = n]
                       => Moves(j, p) /\ job'[j].kind = job[j].kind
           /\ \A kind \in JobKind : Start(j, kind, p) => Moves(j, p) /\ job'[j].kind = kind
<1>1. job[j] \in Job
  BY DEF TypeOK
<1>2. Move(j, p) => Moves(j, p) /\ job'[j].kind = job[j].kind
  BY <1>1 DEF Move, Moves, TypeOK, Job
<1>3. ASSUME NEW n \in {"done", "terminal", "scan_end"}, NEW q \in Pos,
             job' = [job EXCEPT ![j].pos = q, ![j].next = n]
      PROVE  Moves(j, q) /\ job'[j].kind = job[j].kind
  BY <1>1, <1>3 DEF Moves, TypeOK, Job
<1>4. "drive" \in Pos
  BY DEF Pos, OtherPos
<1>5. \A n \in {"done", "terminal", "scan_end"} : Drive(j, n) => Moves(j, "drive")
  BY <1>3, <1>4 DEF Drive
<1>6. ASSUME NEW kind \in JobKind, Start(j, kind, p)
      PROVE  Moves(j, p) /\ job'[j].kind = kind
  BY <1>1, <1>6 DEF Start, Moves, TypeOK, Job
<1> QED
  BY <1>2, <1>3, <1>5, <1>6

\* A job that does not own the slot and does not enter a position that needs it.
LEMMA BystanderInv ==
    ASSUME TypeOK, NEW s \in Status, StatusInv(s), NEW j \in Jobs, NEW p, p \notin BusyPos,
           ~OwnsBusy(s, j), Moves(j, p), KeepsHolder(s), KeepsManual(s), KeepsFence(s),
           ScanOwned(ps)'
    PROVE  StatusInv(ps)'
<1> USE DEF Moves, KeepsHolder, KeepsManual, KeepsFence, StatusInv, OwnsBusy
<1>0. \/ ps'.busy_owner = None
      \/ /\ s.busy_owner = ps'.busy_owner
         /\ s.busy_owner \in Owners /\ s.busy_owner.token \in Jobs \ {j}
         /\ job'[s.busy_owner.token] = job[s.busy_owner.token]
  BY DEF Status, Owners
<1>1. OwnerInPlace(ps)'
  BY <1>0 DEF OwnerInPlace, OwnerPos
<1>2. DestructiveOwned(ps)'
  BY <1>0 DEF DestructiveOwned, OwnerPos
<1>3. ManualOwned(ps)'
  BY <1>0 DEF ManualOwned, OwnerPos
<1>4. HoldersOwn(ps)'
  BY DEF HoldersOwn, Live
<1>5. FenceStopsHolders(ps)'
  BY DEF FenceStopsHolders, Live, Fenced
<1> QED
  BY <1>1, <1>2, <1>3, <1>4, <1>5

\* The owner gives the slot up and leaves the positions that need it.
LEMMA ReleaseInv ==
    ASSUME IInv, NEW j \in Jobs, NEW p, p \notin BusyPos,
           OwnsBusy(ps, j), Moves(j, p), Frees, KeepsFence(ps), ScanOwned(ps)'
    PROVE  StatusInv(ps)'
<1> USE DEF IInv, Moves, Frees, KeepsFence, StatusInv, OwnsBusy
<1>1. OwnerInPlace(ps)' /\ DestructiveOwned(ps)' /\ ManualOwned(ps)'
  BY DEF OwnerInPlace, DestructiveOwned, ManualOwned
<1>2. HoldersOwn(ps)'
  BY DEF HoldersOwn, Live
<1>3. FenceStopsHolders(ps)'
  BY DEF FenceStopsHolders, Live, Fenced
<1> QED
  BY <1>1, <1>2, <1>3

\* A free slot of an unfenced workspace is given to j.
LEMMA GrantInv ==
    ASSUME TypeOK, NEW s \in Status, StatusInv(s), ~s.busy, ~Fenced(s), NEW j \in Jobs,
           NEW p \in {"body", "claimed", "run", "scan_acq"}, NEW ok \in OwnerKind,
           Moves(j, p), ps'.busy, ps'.busy_owner = OwnerRecord(j, job[j].worker, ok),
           p \in {"run", "scan_acq"} => ok = "processing",
           ps'.destructive_busy =>
               /\ ok \in {"delete", "clear"} /\ p = "claimed"
               /\ job'[j].kind \in {"batch_delete", "clear"},
           KeepsManual(s), KeepsFence(s), ScanOwned(ps)'
    PROVE  StatusInv(ps)'
<1> USE DEF Moves, KeepsManual, KeepsFence, StatusInv, OwnsBusy, BusyPos
<1>0. /\ ps'.busy_owner # None /\ ps'.busy_owner.token = j
      /\ ps'.busy_owner.worker = job'[j].worker /\ ps'.busy_owner.kind = ok
  BY StatusAssumption DEF OwnerRecord, Owners, TypeOK, Job
<1>1. s.busy_owner = None
  OBVIOUS
<1>2. OwnerInPlace(ps)'
  BY <1>0 DEF OwnerInPlace, OwnerPos
<1>3. DestructiveOwned(ps)'
  BY <1>0 DEF DestructiveOwned, OwnerPos
<1>4. ManualOwned(ps)'
  BY <1>0, <1>1 DEF ManualOwned, OwnerPos, ResettingPos
<1>5. HoldersOwn(ps)'
  BY <1>0, <1>1 DEF HoldersOwn, Live
<1>6. FenceStopsHolders(ps)'
  BY DEF FenceStopsHolders, Fenced
<1> QED
  BY <1>0, <1>2, <1>3, <1>4, <1>5, <1>6

\* The owner goes on to its next position, or to the error path.
LEMMA OwnerStepInv ==
    ASSUME IInv, NEW j \in Jobs, At(j, job[j].pos), job[j].pos \in BusyPos,
           NEW p \in BusyPos \cup {"raise"}, Moves(j, p),
           ps'.busy, ps'.busy_owner # None, ps'.busy_owner.token = j,
           OwnerInPlace(ps)', DestructiveOwned(ps)', ManualOwned(ps)', ScanOwned(ps)',
           KeepsFence(ps) \/ ps'.recovery_required = None \/ p = "raise"
    PROVE  StatusInv(ps)'
<1> USE DEF IInv, Moves, StatusInv, OwnsBusy, At
<1>1. ASSUME NEW k \in Jobs, Live(k)', job'[k].pos \in BusyPos PROVE k = j
  BY <1>1 DEF HoldersOwn, Live
<1>2. HoldersOwn(ps)'
  BY <1>1 DEF HoldersOwn
<1>3. "raise" \notin BusyPos
  BY DEF BusyPos
<1>4. FenceStopsHolders(ps)'
  BY <1>1, <1>3 DEF FenceStopsHolders, Fenced, KeepsFence
<1> QED
  BY <1>2, <1>4

\* No job moves and no field that matters changes.
LEMMA StutterInv ==
    ASSUME NEW s, StatusInv(s), UNCHANGED <<job, alive>>,
           KeepsHolder(s), KeepsManual(s), KeepsScan(s), KeepsFence(s)
    PROVE  StatusInv(ps)'
BY DEF StatusInv, ScanOwned, OwnerInPlace, OwnerPos, DestructiveOwned, ManualOwned,
       HoldersOwn, OwnsBusy, FenceStopsHolders, Fenced, Live,
       KeepsHolder, KeepsManual, KeepsScan, KeepsFence

\* A refusal keeps what was reclaimed.
LEMMA RefuseInv ==
    ASSUME IInv, Refuse
    PROVE  StatusInv(ps)'
BY SnapshotInv, StutterInv DEF Refuse, KeepsHolder, KeepsManual, KeepsScan, KeepsFence

\* An owner-checked release: a stale caller changes nothing.
LEMMA LeaveInv ==
    ASSUME IInv, NEW j \in Jobs, NEW p, p \notin BusyPos, Moves(j, p),
           OwnsBusy(ps, j) => Frees,
           ~OwnsBusy(ps, j) => KeepsHolder(ps) /\ KeepsManual(ps),
           KeepsFence(ps), ScanOwned(ps)'
    PROVE  StatusInv(ps)'
<1>1. CASE OwnsBusy(ps, j)
  BY <1>1, ReleaseInv
<1>2. CASE ~OwnsBusy(ps, j)
  BY <1>2, BystanderInv DEF IInv, TypeOK
<1> QED
  BY <1>1, <1>2

\* Only a job at a holding position or on the error path can own the slot.
LEMMA IdleOwnsNothing ==
    ASSUME NEW s, StatusInv(s), NEW j \in Jobs, job[j].pos \notin BusyPos \cup {"raise"}
    PROVE  ~OwnsBusy(s, j)
BY DEF StatusInv, OwnerInPlace, OwnerPos, OwnsBusy

\* An admin write, custom chunks, a deletion or a clear takes the slot.
LEMMA TakeInv ==
    ASSUME IInv, NEW j \in Jobs, NEW kind \in JobKind, NEW ok \in OwnerKind,
           NEW p \in {"body", "claimed"}, ~Fenced(Snapshot), ~Snapshot.busy,
           Start(j, kind, p), alive' = alive,
           ps'.busy, ps'.busy_owner = Me(j, ok),
           \/ ps'.destructive_busy = Snapshot.destructive_busy
           \/ ok \in {"delete", "clear"} /\ p = "claimed" /\ kind \in {"batch_delete", "clear"},
           KeepsManual(Snapshot), KeepsFence(Snapshot), KeepsScan(Snapshot)
    PROVE  StatusInv(ps)'
<1>1. Moves(j, p) /\ job'[j].kind = kind
  BY MovesFacts DEF Pos, BusyPos, IInv
<1>2. ScanOwned(ps)' /\ ~Snapshot.destructive_busy
  BY SnapshotInv DEF StatusInv, DestructiveOwned, ScanOwned, KeepsScan
<1> QED
  BY <1>1, <1>2, SnapshotInv, GrantInv DEF IInv, Me

\* A step of a job that neither holds nor takes the slot.
LEMMA AsideInv ==
    ASSUME TypeOK, NEW s \in Status, StatusInv(s), NEW j \in Jobs,
           job[j].pos \notin BusyPos \cup {"raise"}, NEW p, p \notin BusyPos,
           Moves(j, p), KeepsHolder(s), KeepsManual(s), KeepsFence(s), ScanOwned(ps)'
    PROVE  StatusInv(ps)'
BY IdleOwnsNothing, BystanderInv

\* Admin writes.
LEMMA AdminStepInv ==
    ASSUME IInv, NEW j \in Jobs, AdminStep(j)
    PROVE  StatusInv(ps)'
<1>1. CASE AcquireAdmin(j)
  <2> DEFINE refused == Fenced(Snapshot) \/ Snapshot.busy \/ Snapshot.scanning
  <2>1. CASE refused
    BY <1>1, <2>1, RefuseInv DEF AcquireAdmin, Acquire
  <2>2. CASE ~refused
    <3>1. /\ ps' = GiveBusy(Snapshot, Me(j, "admin"))
          /\ Start(j, "admin", "body") /\ alive' = alive
      BY <1>1, <2>2 DEF AcquireAdmin, Acquire
    <3>2. /\ ps'.busy /\ ps'.busy_owner = Me(j, "admin")
          /\ ps'.destructive_busy = Snapshot.destructive_busy
          /\ KeepsManual(Snapshot) /\ KeepsFence(Snapshot) /\ KeepsScan(Snapshot)
      BY <3>1, SnapshotInv DEF GiveBusy, Status, KeepsManual, KeepsFence, KeepsScan
    <3> QED
      BY <2>2, <3>1, <3>2, TakeInv DEF OwnerKind, JobKind
  <2> QED
    BY <2>1, <2>2
<1>2. CASE ReleaseAdmin(j)
  <2>1. Moves(j, "drive") \/ Moves(j, "done")
    BY Zenon, <1>2, MovesFacts DEF ReleaseAdmin, Pos, BusyPos, ScanPos, OtherPos, IInv
  <2>2. /\ OwnsBusy(ps, j) => ~ps'.busy /\ ps'.busy_owner = None
        /\ ~OwnsBusy(ps, j) => KeepsHolder(ps) /\ KeepsManual(ps)
        /\ ps'.destructive_busy = ps.destructive_busy /\ KeepsManual(ps)
        /\ KeepsFence(ps) /\ KeepsScan(ps)
    BY <1>2 DEF ReleaseAdmin, IfOwner, FreeBusy, IInv, TypeOK, Status,
                KeepsHolder, KeepsManual, KeepsFence, KeepsScan
  <2>3. OwnsBusy(ps, j) => Frees
    BY <1>2, <2>2 DEF ReleaseAdmin, At, IInv, StatusInv, DestructiveOwned, ManualOwned,
                OwnerPos, ManualPos,
                OwnsBusy, Frees, KeepsManual
  <2>4. ScanOwned(ps)'
    BY <2>2 DEF IInv, StatusInv, ScanOwned, KeepsScan
  <2> QED
    BY <2>1, <2>2, <2>3, <2>4, LeaveInv DEF BusyPos
<1> QED
  BY <1>1, <1>2 DEF AdminStep

\* Custom chunks and direct deletions.
LEMMA PatchStepInv ==
    ASSUME IInv, NEW j \in Jobs, PatchStep(j)
    PROVE  StatusInv(ps)'
<1>1. CASE AcquireCustomChunks(j)
  <2> DEFINE refused == Fenced(Snapshot) \/ Snapshot.busy \/ Snapshot.scanning
  <2>1. CASE refused
    BY <1>1, <2>1, RefuseInv DEF AcquireCustomChunks, Acquire
  <2>2. CASE ~refused
    <3>1. /\ ps' = [Uncancel(GiveBusy(Snapshot, Me(j, "custom_chunks")))
                    EXCEPT !.job_name = "other"]
          /\ Start(j, "custom_chunks", "body") /\ alive' = alive
      BY <1>1, <2>2 DEF AcquireCustomChunks, Acquire
    <3>2. /\ ps'.busy /\ ps'.busy_owner = Me(j, "custom_chunks")
          /\ ps'.destructive_busy = Snapshot.destructive_busy
          /\ KeepsManual(Snapshot) /\ KeepsFence(Snapshot) /\ KeepsScan(Snapshot)
      BY <3>1, SnapshotInv DEF GiveBusy, Uncancel, Status, KeepsManual, KeepsFence, KeepsScan
    <3> QED
      BY <2>2, <3>1, <3>2, TakeInv DEF OwnerKind, JobKind
  <2> QED
    BY <2>1, <2>2
<1>2. CASE AcquireSdkDelete(j)
  <2>1. CASE Refuse
    BY <2>1, RefuseInv
  <2>2. CASE ~Refuse
    <3>1. /\ ps' = [Uncancel(GiveBusy(Snapshot, Me(j, "delete"))) EXCEPT !.job_name = "other"]
          /\ ~Fenced(Snapshot) /\ ~Snapshot.busy
          /\ Start(j, "sdk_delete", "body") /\ alive' = alive
      BY <1>2, <2>2 DEF AcquireSdkDelete
    <3>2. /\ ps'.busy /\ ps'.busy_owner = Me(j, "delete")
          /\ ps'.destructive_busy = Snapshot.destructive_busy
          /\ KeepsManual(Snapshot) /\ KeepsFence(Snapshot) /\ KeepsScan(Snapshot)
      BY <3>1, SnapshotInv DEF GiveBusy, Uncancel, Status, KeepsManual, KeepsFence, KeepsScan
    <3> QED
      BY <3>1, <3>2, TakeInv DEF OwnerKind, JobKind
  <2> QED
    BY <2>1, <2>2
<1>3. CASE JoinBatchDelete(j)
  <2>1. Moves(j, "joined")
    BY Zenon, <1>3, MovesFacts DEF JoinBatchDelete, MayStart, Pos, BusyPos, ScanPos,
       OtherPos, JobKind, IInv
  <2>2. /\ KeepsHolder(Snapshot) /\ KeepsManual(Snapshot)
        /\ KeepsFence(Snapshot) /\ KeepsScan(Snapshot)
    BY Zenon, <1>3, SnapshotInv, FreeType DEF JoinBatchDelete, IInv, TypeOK, Status,
       KeepsHolder, KeepsManual, KeepsFence, KeepsScan
  <2>3. ScanOwned(ps)'
    BY <2>2, SnapshotInv DEF IInv, StatusInv, ScanOwned, KeepsScan
  <2>4. job[j].pos \notin BusyPos \cup {"raise"}
    BY <1>3 DEF JoinBatchDelete, MayStart, At, BusyPos
  <2> QED
    BY <2>1, <2>2, <2>3, <2>4, SnapshotInv, AsideInv DEF BusyPos, IInv, TypeOK
<1>4. CASE LeaveJoined(j)
  <2>1. Moves(j, "done")
    BY Zenon, <1>4, MovesFacts DEF LeaveJoined, Pos, BusyPos, ScanPos, OtherPos, JobKind, IInv
  <2>2. KeepsHolder(ps) /\ KeepsManual(ps) /\ KeepsFence(ps) /\ KeepsScan(ps)
    BY <1>4, FreeType DEF LeaveJoined, IInv, TypeOK, Status, KeepsHolder, KeepsManual,
       KeepsFence, KeepsScan
  <2>3. ScanOwned(ps)'
    BY <2>2 DEF IInv, StatusInv, ScanOwned, KeepsScan
  <2>4. job[j].pos \notin BusyPos \cup {"raise"}
    BY <1>4 DEF LeaveJoined, At, BusyPos
  <2> QED
    BY <2>1, <2>2, <2>3, <2>4, AsideInv DEF BusyPos, IInv, TypeOK
<1>5. CASE ExitHandoff(j)
  <2>1. job[j].pos \in BusyPos /\ At(j, job[j].pos) /\ ps.busy /\ OwnsBusy(ps, j)
    BY <1>5 DEF ExitHandoff, At, BusyPos, IInv, StatusInv, HoldersOwn, OwnsBusy
  <2>2. Moves(j, "handoff") /\ job'[j].kind = job[j].kind
    BY Zenon, <1>5, <2>1, MovesFacts DEF ExitHandoff, Pos, BusyPos, ScanPos, OtherPos, IInv
  <2>3. KeepsHolder(ps) /\ KeepsManual(ps) /\ KeepsScan(ps) /\ KeepsFence(ps)
    BY <1>5, <2>1 DEF ExitHandoff, Uncancel, IInv, TypeOK, Status, KeepsHolder,
       KeepsManual, KeepsFence, KeepsScan
  <2>4. /\ ps'.busy /\ ps'.busy_owner # None /\ ps'.busy_owner.token = j
        /\ OwnerInPlace(ps)' /\ DestructiveOwned(ps)'
    BY ZenonT(40), <1>5, <2>1, <2>2, <2>3 DEF ExitHandoff, At, Moves, KeepsHolder, OwnsBusy,
       IInv, StatusInv, OwnerInPlace, OwnerPos, DestructiveOwned, BusyPos
  <2>5. ManualOwned(ps)'
    BY <1>5, <2>1, <2>2, <2>3, <2>4 DEF ExitHandoff, At, Moves, KeepsHolder, KeepsManual,
       OwnsBusy,
        IInv, StatusInv, OwnerInPlace, OwnerPos, ManualOwned, ManualPos, ResettingPos, BusyPos
  <2>6. ScanOwned(ps)'
    BY <2>3 DEF IInv, StatusInv, ScanOwned, KeepsScan
  <2> QED
    BY <2>1, <2>2, <2>3, <2>4, <2>5, <2>6, OwnerStepInv DEF BusyPos
<1>6. CASE ExitRelease(j)
  <2>1. Moves(j, "terminal")
    BY Zenon, <1>6, MovesFacts DEF ExitRelease, Pos, BusyPos, ScanPos, OtherPos, IInv
  <2>2. /\ OwnsBusy(ps, j) => ~ps'.busy /\ ps'.busy_owner = None
        /\ ~OwnsBusy(ps, j) => KeepsHolder(ps) /\ KeepsManual(ps)
        /\ ps'.destructive_busy = ps.destructive_busy /\ KeepsManual(ps)
        /\ KeepsFence(ps) /\ KeepsScan(ps)
    BY Zenon, <1>6 DEF ExitRelease, IfOwner, FreeBusy, Uncancel, IInv, TypeOK, Status,
                KeepsHolder, KeepsManual, KeepsFence, KeepsScan
  <2>3. OwnsBusy(ps, j) => Frees
    BY <1>6, <2>2 DEF ExitRelease, At, IInv, StatusInv, DestructiveOwned, ManualOwned,
                OwnerPos, ManualPos,
                OwnsBusy, Frees, KeepsManual
  <2>4. ScanOwned(ps)'
    BY <2>2 DEF IInv, StatusInv, ScanOwned, KeepsScan
  <2> QED
    BY <2>1, <2>2, <2>3, <2>4, LeaveInv DEF BusyPos
<1>7. CASE TerminalRelease(j)
  <2>1. Moves(j, "done")
    BY Zenon, <1>7, MovesFacts DEF TerminalRelease, Pos, BusyPos, ScanPos, OtherPos, IInv
  <2>2. /\ OwnsBusy(ps, j) => ~ps'.busy /\ ps'.busy_owner = None
        /\ ~OwnsBusy(ps, j) => KeepsHolder(ps) /\ KeepsManual(ps)
        /\ ps'.destructive_busy = ps.destructive_busy /\ KeepsManual(ps)
        /\ KeepsFence(ps) /\ KeepsScan(ps)
    BY <1>7 DEF TerminalRelease, IfOwner, FreeBusy, Uncancel, IInv, TypeOK, Status,
                KeepsHolder, KeepsManual, KeepsFence, KeepsScan
  <2>3. OwnsBusy(ps, j) => Frees
    BY <1>7, <2>2 DEF TerminalRelease, At, IInv, StatusInv, OwnerInPlace, OwnerPos, BusyPos,
                OwnsBusy, Frees, KeepsManual
  <2>4. ScanOwned(ps)'
    BY <2>2 DEF IInv, StatusInv, ScanOwned, KeepsScan
  <2> QED
    BY <2>1, <2>2, <2>3, <2>4, LeaveInv DEF BusyPos
<1> QED
  BY <1>1, <1>2, <1>3, <1>4, <1>5, <1>6, <1>7 DEF PatchStep

\* Batch deletions and clears.
LEMMA DestructiveStepInv ==
    ASSUME IInv, NEW j \in Jobs, DestructiveStep(j)
    PROVE  StatusInv(ps)'
<1>1. CASE AcquireBatchDelete(j)
  <2> DEFINE refused == Fenced(Snapshot) \/ Snapshot.busy \/ Snapshot.scanning
                   \/ PendingEnqueues(Snapshot)
  <2>1. CASE refused
    BY <1>1, <2>1, RefuseInv DEF AcquireBatchDelete, Acquire, AcquireDestructive
  <2>2. CASE ~refused
    <3>1. /\ ps' = [GiveBusy(Snapshot, Me(j, "delete")) EXCEPT !.destructive_busy = TRUE]
          /\ Start(j, "batch_delete", "claimed") /\ alive' = alive
      BY <1>1, <2>2 DEF AcquireBatchDelete, Acquire, AcquireDestructive
    <3>2. /\ ps'.busy /\ ps'.busy_owner = Me(j, "delete")
          /\ ps'.destructive_busy
          /\ KeepsManual(Snapshot) /\ KeepsFence(Snapshot) /\ KeepsScan(Snapshot)
      BY <3>1, SnapshotInv DEF GiveBusy, Status, KeepsManual, KeepsFence, KeepsScan
    <3> QED
      BY <2>2, <3>1, <3>2, TakeInv DEF OwnerKind, JobKind
  <2> QED
    BY <2>1, <2>2
<1>2. CASE AcquireClear(j)
  <2> DEFINE refused == Fenced(Snapshot) \/ Snapshot.busy \/ Snapshot.scanning
                   \/ PendingEnqueues(Snapshot)
  <2>1. CASE refused
    BY <1>2, <2>1, RefuseInv DEF AcquireClear, Acquire, AcquireDestructive
  <2>2. CASE ~refused
    <3>1. /\ ps' = [GiveBusy(Snapshot, Me(j, "clear")) EXCEPT !.destructive_busy = TRUE]
          /\ Start(j, "clear", "claimed") /\ alive' = alive
      BY <1>2, <2>2 DEF AcquireClear, Acquire, AcquireDestructive
    <3>2. /\ ps'.busy /\ ps'.busy_owner = Me(j, "clear")
          /\ ps'.destructive_busy
          /\ KeepsManual(Snapshot) /\ KeepsFence(Snapshot) /\ KeepsScan(Snapshot)
      BY <3>1, SnapshotInv DEF GiveBusy, Status, KeepsManual, KeepsFence, KeepsScan
    <3> QED
      BY <2>2, <3>1, <3>2, TakeInv DEF OwnerKind, JobKind
  <2> QED
    BY <2>1, <2>2
<1>3. CASE NameDestructive(j)
  <2>1. job[j].pos \in BusyPos /\ At(j, job[j].pos) /\ ps.busy /\ OwnsBusy(ps, j)
    BY <1>3 DEF NameDestructive, At, BusyPos, IInv, StatusInv, HoldersOwn, OwnsBusy
  <2>2. Moves(j, "body") /\ job'[j].kind = job[j].kind
    BY Zenon, <1>3, <2>1, MovesFacts DEF NameDestructive, Pos, BusyPos, ScanPos, OtherPos, IInv
  <2>3. KeepsHolder(ps) /\ KeepsManual(ps) /\ KeepsScan(ps) /\ KeepsFence(ps)
    BY <1>3, <2>1 DEF NameDestructive, IInv, TypeOK, Status, KeepsHolder, KeepsManual,
       KeepsFence, KeepsScan
  <2>4. /\ ps'.busy /\ ps'.busy_owner # None /\ ps'.busy_owner.token = j
        /\ OwnerInPlace(ps)' /\ DestructiveOwned(ps)'
    BY <1>3, <2>1, <2>2, <2>3 DEF NameDestructive, At, Moves, KeepsHolder, OwnsBusy, IInv,
       StatusInv,
        OwnerInPlace, OwnerPos, DestructiveOwned, BusyPos
  <2>5. ManualOwned(ps)'
    BY <1>3, <2>1, <2>2, <2>3, <2>4 DEF NameDestructive, At, Moves, KeepsHolder,
       KeepsManual, OwnsBusy,
        IInv, StatusInv, OwnerInPlace, OwnerPos, ManualOwned, ManualPos, ResettingPos, BusyPos
  <2>6. ScanOwned(ps)'
    BY <2>3 DEF IInv, StatusInv, ScanOwned, KeepsScan
  <2> QED
    BY <2>1, <2>2, <2>3, <2>4, <2>5, <2>6, OwnerStepInv DEF BusyPos
<1>4. CASE AbandonDestructive(j)
  <2>1. Moves(j, "done")
    BY Zenon, <1>4, MovesFacts DEF AbandonDestructive, Pos, BusyPos, ScanPos, OtherPos, IInv
  <2>2. /\ OwnsBusy(ps, j) => ~ps'.busy /\ ps'.busy_owner = None
        /\ ~OwnsBusy(ps, j) => KeepsHolder(ps) /\ KeepsManual(ps)
        /\ OwnsBusy(ps, j) => ~ps'.destructive_busy
        /\ KeepsManual(ps)
        /\ KeepsFence(ps) /\ KeepsScan(ps)
    BY <1>4 DEF AbandonDestructive, IfOwner, FreeDestructive, FreeBusy, IInv, TypeOK, Status,
                KeepsHolder, KeepsManual, KeepsFence, KeepsScan
  <2>3. OwnsBusy(ps, j) => Frees
    BY <1>4, <2>2 DEF AbandonDestructive, At, IInv, StatusInv, DestructiveOwned, ManualOwned,
                OwnerPos, ManualPos,
                OwnsBusy, Frees, KeepsManual
  <2>4. ScanOwned(ps)'
    BY <2>2 DEF IInv, StatusInv, ScanOwned, KeepsScan
  <2> QED
    BY <2>1, <2>2, <2>3, <2>4, LeaveInv DEF BusyPos
<1>5. CASE StopBatchDelete(j)
  <2>1. job[j].pos \in BusyPos /\ At(j, job[j].pos) /\ ps.busy /\ OwnsBusy(ps, j)
    BY <1>5 DEF StopBatchDelete, At, BusyPos, IInv, StatusInv, HoldersOwn, OwnsBusy
  <2>2. Moves(j, "stopped") /\ job'[j].kind = job[j].kind
    BY Zenon, <1>5, <2>1, MovesFacts DEF StopBatchDelete, Pos, BusyPos, ScanPos, OtherPos, IInv
  <2>3. KeepsHolder(ps) /\ KeepsManual(ps) /\ KeepsScan(ps) /\ KeepsFence(ps)
    BY <1>5, <2>1 DEF StopBatchDelete, IInv, TypeOK, Status, KeepsHolder, KeepsManual,
       KeepsFence, KeepsScan
  <2>4. /\ ps'.busy /\ ps'.busy_owner # None /\ ps'.busy_owner.token = j
        /\ OwnerInPlace(ps)' /\ DestructiveOwned(ps)'
    BY <1>5, <2>1, <2>2, <2>3 DEF StopBatchDelete, At, Moves, KeepsHolder, OwnsBusy, IInv,
       StatusInv,
        OwnerInPlace, OwnerPos, DestructiveOwned, BusyPos
  <2>5. ManualOwned(ps)'
    BY <1>5, <2>1, <2>2, <2>3, <2>4 DEF StopBatchDelete, At, Moves, KeepsHolder,
       KeepsManual, OwnsBusy,
        IInv, StatusInv, OwnerInPlace, OwnerPos, ManualOwned, ManualPos, ResettingPos, BusyPos
  <2>6. ScanOwned(ps)'
    BY <2>3 DEF IInv, StatusInv, ScanOwned, KeepsScan
  <2> QED
    BY <2>1, <2>2, <2>3, <2>4, <2>5, <2>6, OwnerStepInv DEF BusyPos
<1>6. CASE ReleaseBatchDelete(j)
  <2>1. Moves(j, "drive") \/ Moves(j, "done")
    BY Zenon, <1>6, MovesFacts DEF ReleaseBatchDelete, Pos, BusyPos, ScanPos, OtherPos, IInv
  <2>2. /\ OwnsBusy(ps, j) => ~ps'.busy /\ ps'.busy_owner = None
        /\ ~OwnsBusy(ps, j) => KeepsHolder(ps) /\ KeepsManual(ps)
        /\ OwnsBusy(ps, j) => ~ps'.destructive_busy
        /\ KeepsManual(ps)
        /\ KeepsFence(ps) /\ KeepsScan(ps)
    BY Zenon, <1>6 DEF ReleaseBatchDelete, IfOwner, FreeDestructive, FreeBusy, Uncancel,
       IInv, TypeOK, Status,
                KeepsHolder, KeepsManual, KeepsFence, KeepsScan
  <2>3. OwnsBusy(ps, j) => Frees
    BY <1>6, <2>2 DEF ReleaseBatchDelete, At, IInv, StatusInv, DestructiveOwned, ManualOwned,
                OwnerPos, ManualPos,
                OwnsBusy, Frees, KeepsManual
  <2>4. ScanOwned(ps)'
    BY <2>2 DEF IInv, StatusInv, ScanOwned, KeepsScan
  <2> QED
    BY <2>1, <2>2, <2>3, <2>4, LeaveInv DEF BusyPos
<1>7. CASE ReleaseClear(j)
  <2>1. Moves(j, "done")
    BY Zenon, <1>7, MovesFacts DEF ReleaseClear, Pos, BusyPos, ScanPos, OtherPos, IInv
  <2>2. /\ OwnsBusy(ps, j) => ~ps'.busy /\ ps'.busy_owner = None
        /\ ~OwnsBusy(ps, j) => KeepsHolder(ps) /\ KeepsManual(ps)
        /\ OwnsBusy(ps, j) => ~ps'.destructive_busy
        /\ KeepsManual(ps)
        /\ KeepsFence(ps) /\ KeepsScan(ps)
    BY <1>7 DEF ReleaseClear, IfOwner, FreeDestructive, FreeBusy, IInv, TypeOK, Status,
                KeepsHolder, KeepsManual, KeepsFence, KeepsScan
  <2>3. OwnsBusy(ps, j) => Frees
    BY <1>7, <2>2 DEF ReleaseClear, At, IInv, StatusInv, DestructiveOwned, ManualOwned,
                OwnerPos, ManualPos,
                OwnsBusy, Frees, KeepsManual
  <2>4. ScanOwned(ps)'
    BY <2>2 DEF IInv, StatusInv, ScanOwned, KeepsScan
  <2> QED
    BY <2>1, <2>2, <2>3, <2>4, LeaveInv DEF BusyPos
<1> QED
  BY <1>1, <1>2, <1>3, <1>4, <1>5, <1>6, <1>7 DEF DestructiveStep

\* acquire_processing_reservation grants an empty slot.
LEMMA GrantProcessingInv ==
    ASSUME IInv, NEW j \in Jobs, NEW b, NEW p \in {"run", "scan_acq"},
           ~Fenced(Snapshot), ~Snapshot.busy, Moves(j, p),
           ps' = ProcessingOutcome(Snapshot, "acquired", j, job[j].worker, b)
    PROVE  StatusInv(ps)'
<1>1. /\ ps'.busy /\ ps'.busy_owner = OwnerRecord(j, job[j].worker, "processing")
      /\ ps'.destructive_busy = Snapshot.destructive_busy
      /\ KeepsManual(Snapshot) /\ KeepsFence(Snapshot) /\ KeepsScan(Snapshot)
  BY SnapshotInv DEF ProcessingOutcome, GiveBusy, Status, KeepsManual, KeepsFence, KeepsScan
<1>2. ScanOwned(ps)' /\ ~ps'.destructive_busy
  BY <1>1, SnapshotInv DEF StatusInv, DestructiveOwned, ScanOwned, KeepsScan
<1> QED
  BY <1>1, <1>2, SnapshotInv, GrantInv DEF OwnerKind, IInv

\* acquire_processing_reservation turns a run away.
LEMMA TurnedAwayInv ==
    ASSUME IInv, NEW j \in Jobs, NEW b, NEW v, NEW p, p \notin BusyPos, v # "acquired",
           job[j].pos \notin BusyPos \cup {"raise"}, Moves(j, p),
           ps' = ProcessingOutcome(Snapshot, v, j, job[j].worker, b)
    PROVE  StatusInv(ps)'
<1>1. KeepsHolder(Snapshot) /\ KeepsManual(Snapshot) /\ KeepsFence(Snapshot) /\ KeepsScan(Snapshot)
  BY SnapshotInv DEF ProcessingOutcome, Status, KeepsHolder, KeepsManual, KeepsFence, KeepsScan
<1>2. ScanOwned(ps)'
  BY <1>1, SnapshotInv DEF StatusInv, ScanOwned, KeepsScan
<1> QED
  BY <1>1, <1>2, SnapshotInv, AsideInv DEF IInv

\* Scans.
LEMMA ScanStepInv ==
    ASSUME IInv, NEW j \in Jobs, ScanStep(j)
    PROVE  StatusInv(ps)'
<1>1. CASE AcquireScan(j)
  <2> DEFINE refused == Fenced(Snapshot) \/ Snapshot.busy \/ Snapshot.scanning
                   \/ PendingEnqueues(Snapshot) \/ Snapshot.manual_freeze_requested
  <2>1. CASE refused
    BY <1>1, <2>1, RefuseInv DEF AcquireScan, Acquire
  <2>2. CASE ~refused
    <3>1. /\ ps' = [Snapshot EXCEPT !.scanning = TRUE, !.scanning_exclusive = TRUE,
                                     !.scanning_owner = Me(j, "scan")]
          /\ Start(j, "scan", "scan_claimed") /\ alive' = alive
      BY <1>1, <2>2 DEF AcquireScan, Acquire
    <3>2. Moves(j, "scan_claimed")
      BY Zenon, <3>1, MovesFacts DEF JobKind, Pos, ScanPos, OtherPos, IInv
    <3>3. KeepsHolder(Snapshot) /\ KeepsManual(Snapshot) /\ KeepsFence(Snapshot)
      BY <3>1, SnapshotInv DEF Status, KeepsHolder, KeepsManual, KeepsFence, KeepsScan
    <3>4. ScanOwned(ps)'
      BY <3>1, SnapshotInv, StatusAssumption DEF ScanOwned, Me, OwnerRecord, Owners, OwnerKind,
          IInv, TypeOK, Job, Status
    <3>5. job[j].pos \notin BusyPos \cup {"raise"} /\ "scan_claimed" \notin BusyPos
      BY <1>1 DEF AcquireScan, Acquire, MayStart, At, BusyPos
    <3> QED
      BY <3>2, <3>3, <3>4, <3>5, SnapshotInv, AsideInv DEF IInv
  <2> QED
    BY <2>1, <2>2
<1>2. CASE AbandonScan(j)
  <2>1. Moves(j, "done")
    BY Zenon, <1>2, MovesFacts DEF AbandonScan, Pos, BusyPos, ScanPos, OtherPos, JobKind, IInv
  <2>2. KeepsHolder(ps) /\ KeepsManual(ps) /\ KeepsFence(ps)
    BY Zenon, <1>2, FreeType DEF AbandonScan, FreeScanning, IInv, TypeOK, Status,
       KeepsHolder, KeepsManual, KeepsFence, KeepsScan
  <2>3. ScanOwned(ps)'
    BY <1>2 DEF AbandonScan, FreeScanning, OwnsScanning, IInv, TypeOK, Status, StatusInv,
       ScanOwned
  <2>4. job[j].pos \notin BusyPos \cup {"raise"}
    BY <1>2 DEF AbandonScan, At, BusyPos
  <2> QED
    BY <2>1, <2>2, <2>3, <2>4, AsideInv DEF BusyPos, IInv, TypeOK
<1>3. CASE CommitScan(j)
  <2>1. Moves(j, "scan_excl")
    BY Zenon, <1>3, MovesFacts DEF CommitScan, Pos, BusyPos, ScanPos, OtherPos, JobKind, IInv
  <2>2. KeepsHolder(ps) /\ KeepsManual(ps) /\ KeepsFence(ps) /\ KeepsScan(ps)
    BY <1>3, FreeType DEF CommitScan, IInv, TypeOK, Status, KeepsHolder, KeepsManual,
       KeepsFence, KeepsScan
  <2>3. ScanOwned(ps)'
    BY <2>2 DEF IInv, StatusInv, ScanOwned, KeepsScan
  <2>4. job[j].pos \notin BusyPos \cup {"raise"}
    BY <1>3 DEF CommitScan, At, BusyPos
  <2> QED
    BY <2>1, <2>2, <2>3, <2>4, AsideInv DEF BusyPos, IInv, TypeOK
<1>4. CASE AcquireScanReset(j)
  <2> DEFINE owns == OwnsScanning(Snapshot, j)
             verdict == ProcessingVerdict(Snapshot, FALSE, owns)
  <2>1. job[j].pos \notin BusyPos \cup {"raise"} /\ alive' = alive
    BY <1>4 DEF AcquireScanReset, At, BusyPos
  <2>2. CASE verdict = "acquired"
    <3>1. ~Fenced(Snapshot) /\ ~Snapshot.busy
      BY <2>2 DEF ProcessingVerdict
    <3>2. Moves(j, "scan_acq")
      BY <1>4, <2>1, <2>2, MovesFacts DEF AcquireScanReset, Pos, BusyPos, IInv
    <3>3. ps' = ProcessingOutcome(Snapshot, "acquired", j, job[j].worker, owns)
      BY <1>4, <2>2 DEF AcquireScanReset
    <3> QED
      BY <3>1, <3>2, <3>3, GrantProcessingInv
  <2>3. CASE verdict # "acquired"
    <3>1. Moves(j, "scan_end")
      BY <1>4, <2>1, <2>3, MovesFacts DEF AcquireScanReset, Pos, OtherPos, IInv
    <3>2. ps' = ProcessingOutcome(Snapshot, verdict, j, job[j].worker, owns)
      BY <1>4 DEF AcquireScanReset
    <3> QED
      BY <2>1, <2>3, <3>1, <3>2, TurnedAwayInv DEF BusyPos
  <2> QED
    BY <2>2, <2>3
<1>5. CASE BeginScanDrain(j)
  <2>1. job[j].pos \in BusyPos /\ At(j, job[j].pos) /\ ps.busy /\ OwnsBusy(ps, j)
    BY <1>5 DEF BeginScanDrain, At, BusyPos, IInv, StatusInv, HoldersOwn, OwnsBusy
  <2>2. Moves(j, "scan_drain") /\ job'[j].kind = job[j].kind
    BY Zenon, <1>5, <2>1, MovesFacts DEF BeginScanDrain, Pos, BusyPos, ScanPos, OtherPos, IInv
  <2>3. KeepsHolder(ps) /\ ps'.manual_freeze_requested /\ ps'.manual_phase = "DRAIN_TO_IDLE"
        /\ ps'.manual_owner = j /\ KeepsScan(ps) /\ KeepsFence(ps)
    BY <1>5, <2>1 DEF BeginScanDrain, IfOwner, FreezeForManual, IInv, TypeOK, Status,
       KeepsHolder, KeepsManual, KeepsFence, KeepsScan
  <2>4. /\ ps'.busy /\ ps'.busy_owner # None /\ ps'.busy_owner.token = j
        /\ OwnerInPlace(ps)' /\ DestructiveOwned(ps)'
    BY <1>5, <2>1, <2>2, <2>3 DEF BeginScanDrain, At, Moves, KeepsHolder, OwnsBusy, IInv,
       StatusInv,
        OwnerInPlace, OwnerPos, DestructiveOwned, BusyPos
  <2>5. ManualOwned(ps)'
    BY <1>5, <2>1, <2>2, <2>3, <2>4 DEF BeginScanDrain, At, Moves, KeepsHolder,
       KeepsManual, OwnsBusy,
        IInv, StatusInv, OwnerInPlace, OwnerPos, ManualOwned, ManualPos, ResettingPos, BusyPos
  <2>6. ScanOwned(ps)'
    BY <2>3 DEF IInv, StatusInv, ScanOwned, KeepsScan
  <2> QED
    BY <2>1, <2>2, <2>3, <2>4, <2>5, <2>6, OwnerStepInv DEF BusyPos
<1>6. CASE ConfirmScanDrain(j)
  <2>1. CASE PendingEnqueues(ps)
    BY <1>6, <2>1, SnapshotInv, StutterInv DEF ConfirmScanDrain, KeepsHolder, KeepsManual,
        KeepsScan, KeepsFence
  <2>2. CASE ~PendingEnqueues(ps)
    <3>1. Moves(j, "scan_ready")
      BY <1>6, <2>2, MovesFacts DEF ConfirmScanDrain, Pos, BusyPos, IInv
    <3>2. job[j].pos = "scan_drain" /\ At(j, job[j].pos) /\ ps.busy /\ OwnsBusy(ps, j)
      BY <1>6 DEF ConfirmScanDrain, At, BusyPos, IInv, StatusInv, HoldersOwn, OwnsBusy
    <3>3. ps' = ps
      BY <1>6, <2>2 DEF ConfirmScanDrain
    <3>4. OwnerInPlace(ps)' /\ DestructiveOwned(ps)' /\ ManualOwned(ps)' /\ ScanOwned(ps)'
      BY <3>1, <3>2, <3>3 DEF Moves, OwnsBusy, IInv, StatusInv, OwnerInPlace, OwnerPos,
          DestructiveOwned, ManualOwned, ManualPos, ResettingPos, BusyPos, ScanOwned
    <3> QED
      BY <3>1, <3>2, <3>3, <3>4, OwnerStepInv DEF BusyPos, KeepsFence, OwnsBusy
  <2> QED
    BY <2>1, <2>2
<1>7. CASE EnterScanReset(j)
  <2>1. job[j].pos \in BusyPos /\ At(j, job[j].pos) /\ ps.busy /\ OwnsBusy(ps, j)
    BY <1>7 DEF EnterScanReset, At, BusyPos, IInv, StatusInv, HoldersOwn, OwnsBusy
  <2>2. Moves(j, "scan_reset") /\ job'[j].kind = job[j].kind
    BY Zenon, <1>7, <2>1, MovesFacts DEF EnterScanReset, Pos, BusyPos, ScanPos, OtherPos, IInv
  <2>3. KeepsHolder(ps) /\ ps'.manual_freeze_requested = ps.manual_freeze_requested
        /\ ps'.manual_phase = "EXCLUSIVE_RESET" /\ ps'.manual_owner = ps.manual_owner /\ KeepsScan(ps) /\ KeepsFence(ps)
    BY <1>7, <2>1 DEF EnterScanReset, EnterExclusiveReset, IInv, TypeOK, Status,
       KeepsHolder, KeepsManual, KeepsFence, KeepsScan
  <2>4. /\ ps'.busy /\ ps'.busy_owner # None /\ ps'.busy_owner.token = j
        /\ OwnerInPlace(ps)' /\ DestructiveOwned(ps)'
    BY <1>7, <2>1, <2>2, <2>3 DEF EnterScanReset, At, Moves, KeepsHolder, OwnsBusy, IInv,
       StatusInv,
        OwnerInPlace, OwnerPos, DestructiveOwned, BusyPos
  <2>5. ManualOwned(ps)'
    BY <1>7, <2>1, <2>2, <2>3, <2>4 DEF EnterScanReset, At, Moves, KeepsHolder,
       KeepsManual, OwnsBusy,
        IInv, StatusInv, OwnerInPlace, OwnerPos, ManualOwned, ManualPos, ResettingPos, BusyPos
  <2>6. ScanOwned(ps)'
    BY <2>3 DEF IInv, StatusInv, ScanOwned, KeepsScan
  <2> QED
    BY <2>1, <2>2, <2>3, <2>4, <2>5, <2>6, OwnerStepInv DEF BusyPos
<1>8. CASE LeaveScanReset(j)
  <2>1. Moves(j, "scan_classify") \/ Moves(j, "scan_end")
    BY Zenon, <1>8, MovesFacts DEF LeaveScanReset, Pos, BusyPos, ScanPos, OtherPos, IInv
  <2>2. /\ OwnsBusy(ps, j) => ~ps'.busy /\ ps'.busy_owner = None
        /\ ~OwnsBusy(ps, j) => KeepsHolder(ps) /\ KeepsManual(ps)
        /\ OwnsBusy(ps, j) =>
              ~ps'.manual_freeze_requested /\ ps'.manual_phase = "IDLE"
        /\ ps'.destructive_busy = ps.destructive_busy
        /\ KeepsFence(ps) /\ KeepsScan(ps)
    BY Zenon, <1>8 DEF LeaveScanReset, IfOwner, ManualIdle, FreeBusy, IInv, TypeOK, Status,
                KeepsHolder, KeepsManual, KeepsFence, KeepsScan
  <2>3. OwnsBusy(ps, j) => Frees
    BY <1>8, <2>2 DEF LeaveScanReset, At, IInv, StatusInv, DestructiveOwned, ManualOwned,
                OwnerPos, ManualPos,
                OwnsBusy, Frees, KeepsManual
  <2>4. ScanOwned(ps)'
    BY <2>2 DEF IInv, StatusInv, ScanOwned, KeepsScan
  <2> QED
    BY <2>1, <2>2, <2>3, <2>4, LeaveInv DEF BusyPos
<1>9. CASE FinishClassification(j)
  <2>1. Moves(j, "drive")
    BY Zenon, <1>9, MovesFacts DEF FinishClassification, Pos, BusyPos, ScanPos, OtherPos,
       JobKind, IInv
  <2>2. KeepsHolder(ps) /\ KeepsManual(ps) /\ KeepsFence(ps)
    BY <1>9, FreeType DEF FinishClassification, IInv, TypeOK, Status, KeepsHolder,
       KeepsManual, KeepsFence, KeepsScan
  <2>3. ScanOwned(ps)'
    BY <1>9 DEF FinishClassification, OwnsBusy, OwnsScanning, IInv, TypeOK, Status,
       StatusInv, ScanOwned
  <2>4. job[j].pos \notin BusyPos \cup {"raise"}
    BY <1>9 DEF FinishClassification, At, BusyPos
  <2> QED
    BY <2>1, <2>2, <2>3, <2>4, AsideInv DEF BusyPos, IInv, TypeOK
<1>10. CASE ScanFails(j)
  <2>1. Moves(j, "scan_end")
    BY Zenon, <1>10, MovesFacts DEF ScanFails, Pos, BusyPos, ScanPos, OtherPos, JobKind, IInv
  <2>2. KeepsHolder(ps) /\ KeepsManual(ps) /\ KeepsFence(ps) /\ KeepsScan(ps)
    BY <1>10, FreeType DEF ScanFails, IInv, TypeOK, Status, KeepsHolder, KeepsManual,
       KeepsFence, KeepsScan
  <2>3. ScanOwned(ps)'
    BY <2>2 DEF IInv, StatusInv, ScanOwned, KeepsScan
  <2>4. job[j].pos \notin BusyPos \cup {"raise"}
    BY <1>10 DEF ScanFails, At, BusyPos
  <2> QED
    BY <2>1, <2>2, <2>3, <2>4, AsideInv DEF BusyPos, IInv, TypeOK
<1>11. CASE ReleaseScan(j)
  <2>1. Moves(j, "scan_done")
    BY Zenon, <1>11, MovesFacts DEF ReleaseScan, Pos, BusyPos, ScanPos, OtherPos, JobKind, IInv
  <2>2. KeepsHolder(ps) /\ KeepsManual(ps) /\ KeepsFence(ps)
    BY Zenon, <1>11, FreeType DEF ReleaseScan, FreeScanning, IInv, TypeOK, Status,
       KeepsHolder, KeepsManual, KeepsFence, KeepsScan
  <2>3. ScanOwned(ps)'
    BY <1>11 DEF ReleaseScan, FreeScanning, OwnsScanning, IInv, TypeOK, Status, StatusInv,
       ScanOwned
  <2>4. job[j].pos \notin BusyPos \cup {"raise"}
    BY <1>11 DEF ReleaseScan, At, BusyPos
  <2> QED
    BY <2>1, <2>2, <2>3, <2>4, AsideInv DEF BusyPos, IInv, TypeOK
<1>12. CASE AfterScan(j)
  <2>1. Moves(j, "drive") \/ Moves(j, "done")
    BY Zenon, <1>12, MovesFacts DEF AfterScan, Pos, BusyPos, ScanPos, OtherPos, JobKind, IInv
  <2>2. KeepsHolder(ps) /\ KeepsManual(ps) /\ KeepsFence(ps) /\ KeepsScan(ps)
    BY <1>12, FreeType DEF AfterScan, IInv, TypeOK, Status, KeepsHolder, KeepsManual,
       KeepsFence, KeepsScan
  <2>3. ScanOwned(ps)'
    BY <2>2 DEF IInv, StatusInv, ScanOwned, KeepsScan
  <2>4. job[j].pos \notin BusyPos \cup {"raise"}
    BY <1>12 DEF AfterScan, At, BusyPos
  <2> QED
    BY <2>1, <2>2, <2>3, <2>4, AsideInv DEF BusyPos, IInv, TypeOK
<1> QED
  BY <1>1, <1>2, <1>3, <1>4, <1>5, <1>6, <1>7, <1>8, <1>9, <1>10, <1>11, <1>12 DEF ScanStep

\* Uploads, inserts and repairs.
LEMMA EnqueueStepInv ==
    ASSUME IInv, NEW j \in Jobs, EnqueueStep(j)
    PROVE  StatusInv(ps)'
<1>1. CASE ReserveUpload(j)
  <2> DEFINE refused == Fenced(Snapshot) \/ IngressFenced(Snapshot)
  <2>1. CASE refused
    BY <1>1, <2>1, RefuseInv DEF ReserveUpload, Acquire
  <2>2. CASE ~refused
    <3>1. /\ ps' = Register(Snapshot, j, job[j].worker, "enqueue")
          /\ Start(j, "upload", "reserved") /\ alive' = alive
      BY <1>1, <2>2 DEF ReserveUpload, Acquire
    <3>2. Moves(j, "reserved")
      BY Zenon, <3>1, MovesFacts DEF JobKind, Pos, ScanPos, OtherPos, IInv
    <3>3. /\ KeepsHolder(Snapshot) /\ KeepsManual(Snapshot)
          /\ KeepsFence(Snapshot) /\ KeepsScan(Snapshot)
      BY <3>1, SnapshotInv DEF Register, Status, KeepsHolder, KeepsManual, KeepsFence,
         KeepsScan
    <3>4. ScanOwned(ps)'
      BY <3>3, SnapshotInv DEF StatusInv, ScanOwned, KeepsScan
    <3>5. job[j].pos \notin BusyPos \cup {"raise"} /\ "reserved" \notin BusyPos
      BY <1>1 DEF ReserveUpload, Acquire, MayStart, At, BusyPos
    <3> QED
      BY <3>2, <3>3, <3>4, <3>5, SnapshotInv, AsideInv DEF IInv
  <2> QED
    BY <2>1, <2>2
<1>2. CASE GuardUpload(j)
  <2>1. Moves(j, "done") \/ Moves(j, "write")
    BY Zenon, <1>2, MovesFacts DEF GuardUpload, Pos, BusyPos, ScanPos, OtherPos, JobKind, IInv
  <2>2. /\ KeepsHolder(Snapshot) /\ KeepsManual(Snapshot)
        /\ KeepsFence(Snapshot) /\ KeepsScan(Snapshot)
    BY <1>2, SnapshotInv, FreeType DEF GuardUpload, Unregister, IInv, TypeOK, Status,
       KeepsHolder, KeepsManual, KeepsFence, KeepsScan
  <2>3. ScanOwned(ps)'
    BY <2>2, SnapshotInv DEF IInv, StatusInv, ScanOwned, KeepsScan
  <2>4. job[j].pos \notin BusyPos \cup {"raise"}
    BY <1>2 DEF GuardUpload, At, BusyPos
  <2> QED
    BY <2>1, <2>2, <2>3, <2>4, SnapshotInv, AsideInv DEF BusyPos, IInv, TypeOK
<1>3. CASE GuardInsert(j)
  <2> DEFINE refused == Fenced(Snapshot) \/ IngressFenced(Snapshot)
  <2>1. CASE refused
    BY <1>3, <2>1, RefuseInv DEF GuardInsert, Acquire
  <2>2. CASE ~refused
    <3>1. /\ ps' = Snapshot
          /\ Start(j, "insert", "prepared") /\ alive' = alive
      BY <1>3, <2>2 DEF GuardInsert, Acquire
    <3>2. Moves(j, "prepared")
      BY Zenon, <3>1, MovesFacts DEF JobKind, Pos, ScanPos, OtherPos, IInv
    <3>3. /\ KeepsHolder(Snapshot) /\ KeepsManual(Snapshot)
          /\ KeepsFence(Snapshot) /\ KeepsScan(Snapshot)
      BY <3>1, SnapshotInv DEF Status, KeepsHolder, KeepsManual, KeepsFence, KeepsScan
    <3>4. ScanOwned(ps)'
      BY <3>3, SnapshotInv DEF StatusInv, ScanOwned, KeepsScan
    <3>5. job[j].pos \notin BusyPos \cup {"raise"} /\ "prepared" \notin BusyPos
      BY <1>3 DEF GuardInsert, Acquire, MayStart, At, BusyPos
    <3> QED
      BY <3>2, <3>3, <3>4, <3>5, SnapshotInv, AsideInv DEF IInv
  <2> QED
    BY <2>1, <2>2
<1>4. CASE MintInsert(j)
  <2>1. Moves(j, "done") \/ Moves(j, "write")
    BY Zenon, <1>4, MovesFacts DEF MintInsert, Pos, BusyPos, ScanPos, OtherPos, JobKind, IInv
  <2>2. /\ KeepsHolder(Snapshot) /\ KeepsManual(Snapshot)
        /\ KeepsFence(Snapshot) /\ KeepsScan(Snapshot)
    BY <1>4, SnapshotInv, FreeType DEF MintInsert, Register, IInv, TypeOK, Status,
       KeepsHolder, KeepsManual, KeepsFence, KeepsScan
  <2>3. ScanOwned(ps)'
    BY <2>2, SnapshotInv DEF IInv, StatusInv, ScanOwned, KeepsScan
  <2>4. job[j].pos \notin BusyPos \cup {"raise"}
    BY <1>4 DEF MintInsert, At, BusyPos
  <2> QED
    BY <2>1, <2>2, <2>3, <2>4, SnapshotInv, AsideInv DEF BusyPos, IInv, TypeOK
<1>5. CASE ReserveRepair(j)
  <2> DEFINE refused == Fenced(Snapshot) \/ IngressFenced(Snapshot)
  <2>1. CASE refused
    BY <1>5, <2>1, RefuseInv DEF ReserveRepair, Acquire
  <2>2. CASE ~refused
    <3>1. /\ ps' = Register(Snapshot, j, job[j].worker, "source_repair")
          /\ Start(j, "repair", "write") /\ alive' = alive
      BY <1>5, <2>2 DEF ReserveRepair, Acquire
    <3>2. Moves(j, "write")
      BY Zenon, <3>1, MovesFacts DEF JobKind, Pos, ScanPos, OtherPos, IInv
    <3>3. /\ KeepsHolder(Snapshot) /\ KeepsManual(Snapshot)
          /\ KeepsFence(Snapshot) /\ KeepsScan(Snapshot)
      BY <3>1, SnapshotInv DEF Register, Status, KeepsHolder, KeepsManual, KeepsFence,
         KeepsScan
    <3>4. ScanOwned(ps)'
      BY <3>3, SnapshotInv DEF StatusInv, ScanOwned, KeepsScan
    <3>5. job[j].pos \notin BusyPos \cup {"raise"} /\ "write" \notin BusyPos
      BY <1>5 DEF ReserveRepair, Acquire, MayStart, At, BusyPos
    <3> QED
      BY <3>2, <3>3, <3>4, <3>5, SnapshotInv, AsideInv DEF IInv
  <2> QED
    BY <2>1, <2>2
<1>6. CASE ReleaseEnqueue(j)
  <2>1. Moves(j, "drive") \/ Moves(j, "done")
    BY Zenon, <1>6, MovesFacts DEF ReleaseEnqueue, Pos, BusyPos, ScanPos, OtherPos,
       JobKind, IInv
  <2>2. KeepsHolder(ps) /\ KeepsManual(ps) /\ KeepsFence(ps) /\ KeepsScan(ps)
    BY <1>6, FreeType DEF ReleaseEnqueue, Unregister, IInv, TypeOK, Status, KeepsHolder,
       KeepsManual, KeepsFence, KeepsScan
  <2>3. ScanOwned(ps)'
    BY <2>2 DEF IInv, StatusInv, ScanOwned, KeepsScan
  <2>4. job[j].pos \notin BusyPos \cup {"raise"}
    BY <1>6 DEF ReleaseEnqueue, At, BusyPos
  <2> QED
    BY <2>1, <2>2, <2>3, <2>4, AsideInv DEF BusyPos, IInv, TypeOK
<1> QED
  BY <1>1, <1>2, <1>3, <1>4, <1>5, <1>6 DEF EnqueueStep

\* Processing runs.
LEMMA ProcessStepInv ==
    ASSUME IInv, NEW j \in Jobs, ProcessStep(j)
    PROVE  StatusInv(ps)'
<1>1. CASE StartProcess(j)
  <2>1. Moves(j, "drive")
    BY Zenon, <1>1, MovesFacts DEF StartProcess, MayStart, Pos, BusyPos, ScanPos, OtherPos,
       JobKind, IInv
  <2>2. KeepsHolder(ps) /\ KeepsManual(ps) /\ KeepsFence(ps) /\ KeepsScan(ps)
    BY <1>1, FreeType DEF StartProcess, IInv, TypeOK, Status, KeepsHolder, KeepsManual,
       KeepsFence, KeepsScan
  <2>3. ScanOwned(ps)'
    BY <2>2 DEF IInv, StatusInv, ScanOwned, KeepsScan
  <2>4. job[j].pos \notin BusyPos \cup {"raise"}
    BY <1>1 DEF StartProcess, MayStart, At, BusyPos
  <2> QED
    BY <2>1, <2>2, <2>3, <2>4, AsideInv DEF BusyPos, IInv, TypeOK
<1>2. CASE AcquireProcessing(j)
  <2> DEFINE held == job[j].pos = "handoff"
             verdict == ProcessingVerdict(Snapshot, held, FALSE)
  <2>1. /\ ps' = ProcessingOutcome(Snapshot, verdict, j, job[j].worker, FALSE)
        /\ alive' = alive /\ At(j, job[j].pos)
        /\ job[j].pos \in {"drive", "handoff"}
    BY <1>2 DEF AcquireProcessing, At
  <2>2. verdict = "acquired" => Moves(j, "run")
    BY <1>2, MovesFacts DEF AcquireProcessing, Pos, BusyPos, IInv
  <2>3. CASE ~held /\ verdict = "acquired"
    <3>1. ~Fenced(Snapshot) /\ ~Snapshot.busy
      BY <2>3 DEF ProcessingVerdict
    <3> QED
      BY <2>1, <2>2, <2>3, <3>1, GrantProcessingInv
  <2>4. CASE ~held /\ verdict # "acquired"
    <3>1. job[j].next \in Pos /\ job[j].next \notin BusyPos
      BY DEF IInv, TypeOK, Job, Pos, OtherPos, BusyPos
    <3>2. Moves(j, job[j].next)
      BY Zenon, <1>2, <2>1, <2>4, <3>1, MovesFacts DEF AcquireProcessing, Return, IInv
    <3>3. job[j].pos \notin BusyPos \cup {"raise"}
      BY <2>1, <2>4 DEF BusyPos
    <3> QED
      BY <2>1, <2>4, <3>1, <3>2, <3>3, TurnedAwayInv
  <2>5. CASE held
    <3>1. ~Fenced(Snapshot) /\ OwnsBusy(Snapshot, j) /\ Live(j)
      BY <2>1, <2>5, SnapshotInv DEF StatusInv, HoldersOwn, FenceStopsHolders, At, BusyPos
    <3>2. verdict = "acquired"
      BY <2>5, <3>1 DEF ProcessingVerdict
    <3>3. /\ ps'.busy /\ ps'.busy_owner = OwnerRecord(j, job[j].worker, "processing")
          /\ ps'.destructive_busy = Snapshot.destructive_busy
          /\ KeepsManual(Snapshot) /\ KeepsFence(Snapshot) /\ KeepsScan(Snapshot)
      BY <2>1, <3>2, SnapshotInv DEF ProcessingOutcome, GiveBusy, Status, KeepsManual,
          KeepsFence, KeepsScan
    <3>4. /\ ps'.busy_owner # None /\ ps'.busy_owner.token = j
          /\ ps'.busy_owner.worker = job[j].worker /\ ps'.busy_owner.kind = "processing"
      BY <3>3, StatusAssumption DEF OwnerRecord, Owners, OwnerKind, IInv, TypeOK, Job
    <3>5. ~Snapshot.destructive_busy /\ Snapshot.manual_phase = "IDLE"
      BY <2>5, <3>1, SnapshotInv DEF StatusInv, DestructiveOwned, ManualOwned, OwnerPos,
          OwnsBusy, ManualPos
    <3>6. OwnerInPlace(ps)' /\ DestructiveOwned(ps)'
      BY <2>2, <3>2, <3>3, <3>4, <3>5 DEF Moves, OwnerInPlace, OwnerPos, DestructiveOwned,
         BusyPos
    <3>7. ManualOwned(ps)' /\ ScanOwned(ps)'
      BY <2>2, <3>2, <3>3, <3>4, <3>5, SnapshotInv DEF Moves, StatusInv, ManualOwned, OwnerPos,
          ResettingPos, KeepsManual, KeepsScan, ScanOwned
    <3>8. job[j].pos \in BusyPos /\ ps'.recovery_required = None
      BY <2>5, <3>1, <3>3 DEF BusyPos, Fenced, KeepsFence
    <3> QED
      BY Zenon, <2>1, <2>2, <3>2, <3>3, <3>4, <3>6, <3>7, <3>8, OwnerStepInv DEF BusyPos
  <2> QED
    BY <2>3, <2>4, <2>5
<1>3. CASE NameRun(j)
  <2>1. KeepsHolder(ps) /\ KeepsManual(ps) /\ KeepsScan(ps) /\ KeepsFence(ps)
    BY <1>3 DEF NameRun, IInv, TypeOK, Status, KeepsHolder, KeepsManual, KeepsFence, KeepsScan
  <2> QED
    BY <1>3, <2>1, StutterInv DEF NameRun, IInv
<1>4. CASE BeginManualDrain(j)
  <2>1. job[j].pos \in BusyPos /\ At(j, job[j].pos) /\ ps.busy /\ OwnsBusy(ps, j)
    BY <1>4 DEF BeginManualDrain, At, BusyPos, IInv, StatusInv, HoldersOwn, OwnsBusy
  <2>2. Moves(j, "run") /\ job'[j].kind = job[j].kind
    BY <1>4 DEF BeginManualDrain, Moves, At
  <2>3. KeepsHolder(ps) /\ ps'.manual_freeze_requested /\ ps'.manual_phase = "DRAIN_TO_IDLE"
        /\ ps'.manual_owner = j /\ KeepsScan(ps) /\ KeepsFence(ps)
    BY <1>4, <2>1 DEF BeginManualDrain, IfOwner, FreezeForManual, IInv, TypeOK, Status,
       KeepsHolder, KeepsManual, KeepsFence, KeepsScan
  <2>4. /\ ps'.busy /\ ps'.busy_owner # None /\ ps'.busy_owner.token = j
        /\ OwnerInPlace(ps)' /\ DestructiveOwned(ps)'
    BY <1>4, <2>1, <2>2, <2>3 DEF BeginManualDrain, At, Moves, KeepsHolder, OwnsBusy, IInv,
       StatusInv,
        OwnerInPlace, OwnerPos, DestructiveOwned, BusyPos
  <2>5. ManualOwned(ps)'
    BY <1>4, <2>1, <2>2, <2>3, <2>4 DEF BeginManualDrain, At, Moves, KeepsHolder,
       KeepsManual, OwnsBusy,
        IInv, StatusInv, OwnerInPlace, OwnerPos, ManualOwned, ManualPos, ResettingPos, BusyPos
  <2>6. ScanOwned(ps)'
    BY <2>3 DEF IInv, StatusInv, ScanOwned, KeepsScan
  <2> QED
    BY <2>1, <2>2, <2>3, <2>4, <2>5, <2>6, OwnerStepInv DEF BusyPos
<1>5. CASE DrainWait(j)
  <2>1. /\ KeepsHolder(Snapshot) /\ KeepsManual(Snapshot)
        /\ KeepsScan(Snapshot) /\ KeepsFence(Snapshot)
    BY <1>5 DEF DrainWait, IInv, TypeOK, Status, KeepsHolder, KeepsManual, KeepsFence,
       KeepsScan
  <2> QED
    BY <1>5, <2>1, SnapshotInv, StutterInv DEF DrainWait, IInv
<1>6. CASE FenceStalledEnqueue(j)
  <2>1. job[j].pos \in BusyPos /\ At(j, job[j].pos) /\ ps.busy /\ OwnsBusy(ps, j)
    BY <1>6 DEF FenceStalledEnqueue, At, BusyPos, IInv, StatusInv, HoldersOwn, OwnsBusy
  <2>2. Moves(j, "raise") /\ job'[j].kind = job[j].kind
    BY Zenon, <1>6, <2>1, MovesFacts DEF FenceStalledEnqueue, Pos, BusyPos, ScanPos,
       OtherPos, IInv
  <2>3. KeepsHolder(ps) /\ KeepsManual(ps) /\ KeepsScan(ps)
    BY <1>6, <2>1 DEF FenceStalledEnqueue, RaiseFence, IInv, TypeOK, Status, KeepsHolder,
       KeepsManual, KeepsFence, KeepsScan
  <2>4. /\ ps'.busy /\ ps'.busy_owner # None /\ ps'.busy_owner.token = j
        /\ OwnerInPlace(ps)' /\ DestructiveOwned(ps)'
    BY ZenonT(40), <1>6, <2>1, <2>2, <2>3 DEF FenceStalledEnqueue, At, Moves, KeepsHolder,
       OwnsBusy, IInv, StatusInv, OwnerInPlace, OwnerPos, DestructiveOwned, BusyPos
  <2>5. ManualOwned(ps)'
    BY <1>6, <2>1, <2>2, <2>3, <2>4 DEF FenceStalledEnqueue, At, Moves, KeepsHolder,
       KeepsManual, OwnsBusy,
        IInv, StatusInv, OwnerInPlace, OwnerPos, ManualOwned, ManualPos, ResettingPos, BusyPos
  <2>6. ScanOwned(ps)'
    BY <2>3 DEF IInv, StatusInv, ScanOwned, KeepsScan
  <2> QED
    BY <2>1, <2>2, <2>3, <2>4, <2>5, <2>6, OwnerStepInv DEF BusyPos
<1>7. CASE DecideReset(j)
  <2>1. job[j].pos \in BusyPos /\ At(j, job[j].pos) /\ ps.busy /\ OwnsBusy(ps, j)
    BY <1>7 DEF DecideReset, At, BusyPos, IInv, StatusInv, HoldersOwn, OwnsBusy
  <2>2. Moves(j, "reset_begin") /\ job'[j].kind = job[j].kind
    BY Zenon, <1>7, <2>1, MovesFacts DEF DecideReset, Pos, BusyPos, ScanPos, OtherPos, IInv
  <2>3. KeepsHolder(ps) /\ KeepsManual(ps) /\ KeepsScan(ps) /\ KeepsFence(ps)
    BY <1>7, <2>1 DEF DecideReset, IInv, TypeOK, Status, KeepsHolder, KeepsManual,
       KeepsFence, KeepsScan
  <2>4. /\ ps'.busy /\ ps'.busy_owner # None /\ ps'.busy_owner.token = j
        /\ OwnerInPlace(ps)' /\ DestructiveOwned(ps)'
    BY <1>7, <2>1, <2>2, <2>3 DEF DecideReset, At, Moves, KeepsHolder, OwnsBusy, IInv,
       StatusInv,
        OwnerInPlace, OwnerPos, DestructiveOwned, BusyPos
  <2>5. ManualOwned(ps)'
    BY <1>7, <2>1, <2>2, <2>3, <2>4 DEF DecideReset, At, Moves, KeepsHolder, KeepsManual,
       OwnsBusy,
        IInv, StatusInv, OwnerInPlace, OwnerPos, ManualOwned, ManualPos, ResettingPos, BusyPos
  <2>6. ScanOwned(ps)'
    BY <2>3 DEF IInv, StatusInv, ScanOwned, KeepsScan
  <2> QED
    BY <2>1, <2>2, <2>3, <2>4, <2>5, <2>6, OwnerStepInv DEF BusyPos
<1>8. CASE DrainMore(j)
  <2>1. job[j].pos = "reset_begin" /\ At(j, job[j].pos) /\ ps.busy /\ OwnsBusy(ps, j)
    BY <1>8 DEF DrainMore, At, BusyPos, IInv, StatusInv, HoldersOwn, OwnsBusy
  <2>2. \/ Moves(j, "run") /\ KeepsFence(ps)
        \/ Moves(j, "raise")
    BY <1>8, MovesFacts DEF DrainMore, KeepsFence, Pos, BusyPos, OtherPos, IInv
  <2>3. KeepsHolder(ps) /\ KeepsManual(ps) /\ KeepsScan(ps)
    BY <1>8 DEF DrainMore, RaiseFence, IInv, TypeOK, Status, KeepsHolder, KeepsManual,
       KeepsScan
  <2>4. OwnerInPlace(ps)' /\ DestructiveOwned(ps)' /\ ManualOwned(ps)'
    BY <2>1, <2>2, <2>3 DEF Moves, KeepsHolder, KeepsManual, OwnsBusy, IInv, StatusInv,
        OwnerInPlace, OwnerPos, DestructiveOwned, ManualOwned, ManualPos, ResettingPos, BusyPos
  <2>5. ScanOwned(ps)'
    BY <2>3 DEF IInv, StatusInv, ScanOwned, KeepsScan
  <2> QED
    BY <2>1, <2>2, <2>3, <2>4, <2>5, OwnerStepInv DEF BusyPos, KeepsHolder, OwnsBusy
<1>9. CASE EnterReset(j)
  <2>1. job[j].pos \in BusyPos /\ At(j, job[j].pos) /\ ps.busy /\ OwnsBusy(ps, j)
    BY <1>9 DEF EnterReset, At, BusyPos, IInv, StatusInv, HoldersOwn, OwnsBusy
  <2>2. Moves(j, "resetting") /\ job'[j].kind = job[j].kind
    BY Zenon, <1>9, <2>1, MovesFacts DEF EnterReset, Pos, BusyPos, ScanPos, OtherPos, IInv
  <2>3. KeepsHolder(ps) /\ ps'.manual_freeze_requested = ps.manual_freeze_requested
        /\ ps'.manual_phase = "EXCLUSIVE_RESET" /\ ps'.manual_owner = ps.manual_owner /\ KeepsScan(ps) /\ KeepsFence(ps)
    BY <1>9, <2>1 DEF EnterReset, EnterExclusiveReset, IInv, TypeOK, Status, KeepsHolder,
       KeepsManual, KeepsFence, KeepsScan
  <2>4. /\ ps'.busy /\ ps'.busy_owner # None /\ ps'.busy_owner.token = j
        /\ OwnerInPlace(ps)' /\ DestructiveOwned(ps)'
    BY <1>9, <2>1, <2>2, <2>3 DEF EnterReset, At, Moves, KeepsHolder, OwnsBusy, IInv,
       StatusInv,
        OwnerInPlace, OwnerPos, DestructiveOwned, BusyPos
  <2>5. ManualOwned(ps)'
    BY <1>9, <2>1, <2>2, <2>3, <2>4 DEF EnterReset, At, Moves, KeepsHolder, KeepsManual,
       OwnsBusy,
        IInv, StatusInv, OwnerInPlace, OwnerPos, ManualOwned, ManualPos, ResettingPos, BusyPos
  <2>6. ScanOwned(ps)'
    BY <2>3 DEF IInv, StatusInv, ScanOwned, KeepsScan
  <2> QED
    BY <2>1, <2>2, <2>3, <2>4, <2>5, <2>6, OwnerStepInv DEF BusyPos
<1>10. CASE EndManualDrain(j)
  <2>1. job[j].pos \in BusyPos /\ At(j, job[j].pos) /\ ps.busy /\ OwnsBusy(ps, j)
    BY <1>10 DEF EndManualDrain, At, BusyPos, IInv, StatusInv, HoldersOwn, OwnsBusy
  <2>2. Moves(j, "run") /\ job'[j].kind = job[j].kind
    BY Zenon, <1>10, <2>1, MovesFacts DEF EndManualDrain, Pos, BusyPos, ScanPos, OtherPos, IInv
  <2>3. /\ KeepsHolder(ps) /\ ~ps'.manual_freeze_requested /\ ps'.manual_phase = "IDLE"
        /\ KeepsScan(ps) /\ KeepsFence(ps)
    BY <1>10, <2>1 DEF EndManualDrain, IfOwner, ManualIdle, IInv, TypeOK, Status,
       KeepsHolder, KeepsManual, KeepsFence, KeepsScan
  <2>4. /\ ps'.busy /\ ps'.busy_owner # None /\ ps'.busy_owner.token = j
        /\ OwnerInPlace(ps)' /\ DestructiveOwned(ps)'
    BY <1>10, <2>1, <2>2, <2>3 DEF EndManualDrain, At, Moves, KeepsHolder, OwnsBusy, IInv,
       StatusInv,
        OwnerInPlace, OwnerPos, DestructiveOwned, BusyPos
  <2>5. ManualOwned(ps)'
    BY <1>10, <2>1, <2>2, <2>3, <2>4 DEF EndManualDrain, At, Moves, KeepsHolder,
       KeepsManual, OwnsBusy,
        IInv, StatusInv, OwnerInPlace, OwnerPos, ManualOwned, ManualPos, ResettingPos, BusyPos
  <2>6. ScanOwned(ps)'
    BY <2>3 DEF IInv, StatusInv, ScanOwned, KeepsScan
  <2> QED
    BY <2>1, <2>2, <2>3, <2>4, <2>5, <2>6, OwnerStepInv DEF BusyPos
<1>11. CASE RunRaises(j)
  <2>1. job[j].pos \in BusyPos /\ At(j, job[j].pos) /\ ps.busy /\ OwnsBusy(ps, j)
    BY <1>11 DEF RunRaises, At, BusyPos, IInv, StatusInv, HoldersOwn, OwnsBusy
  <2>2. Moves(j, "raise") /\ job'[j].kind = job[j].kind
    BY Zenon, <1>11, <2>1, MovesFacts DEF RunRaises, Pos, BusyPos, ScanPos, OtherPos, IInv
  <2>3. KeepsHolder(ps) /\ KeepsManual(ps) /\ KeepsScan(ps) /\ KeepsFence(ps)
    BY <1>11, <2>1 DEF RunRaises, IInv, TypeOK, Status, KeepsHolder, KeepsManual,
       KeepsFence, KeepsScan
  <2>4. /\ ps'.busy /\ ps'.busy_owner # None /\ ps'.busy_owner.token = j
        /\ OwnerInPlace(ps)' /\ DestructiveOwned(ps)'
    BY <1>11, <2>1, <2>2, <2>3 DEF RunRaises, At, Moves, KeepsHolder, OwnsBusy, IInv,
       StatusInv,
        OwnerInPlace, OwnerPos, DestructiveOwned, BusyPos
  <2>5. ManualOwned(ps)'
    BY <1>11, <2>1, <2>2, <2>3, <2>4 DEF RunRaises, At, Moves, KeepsHolder, KeepsManual,
       OwnsBusy,
        IInv, StatusInv, OwnerInPlace, OwnerPos, ManualOwned, ManualPos, ResettingPos, BusyPos
  <2>6. ScanOwned(ps)'
    BY <2>3 DEF IInv, StatusInv, ScanOwned, KeepsScan
  <2> QED
    BY <2>1, <2>2, <2>3, <2>4, <2>5, <2>6, OwnerStepInv DEF BusyPos
<1>12. CASE RunCancelled(j)
  <2>1. job[j].pos \in BusyPos /\ At(j, job[j].pos) /\ ps.busy /\ OwnsBusy(ps, j)
    BY <1>12 DEF RunCancelled, At, BusyPos, IInv, StatusInv, HoldersOwn, OwnsBusy
  <2>2. Moves(j, "raise") /\ job'[j].kind = job[j].kind
    BY Zenon, <1>12, <2>1, MovesFacts DEF RunCancelled, Pos, BusyPos, ScanPos, OtherPos, IInv
  <2>3. KeepsHolder(ps) /\ KeepsManual(ps) /\ KeepsScan(ps) /\ KeepsFence(ps)
    BY <1>12, <2>1 DEF RunCancelled, Uncancel, IInv, TypeOK, Status, KeepsHolder,
       KeepsManual, KeepsFence, KeepsScan
  <2>4. /\ ps'.busy /\ ps'.busy_owner # None /\ ps'.busy_owner.token = j
        /\ OwnerInPlace(ps)' /\ DestructiveOwned(ps)'
    BY <1>12, <2>1, <2>2, <2>3 DEF RunCancelled, At, Moves, KeepsHolder, OwnsBusy, IInv,
       StatusInv,
        OwnerInPlace, OwnerPos, DestructiveOwned, BusyPos
  <2>5. ManualOwned(ps)'
    BY <1>12, <2>1, <2>2, <2>3, <2>4 DEF RunCancelled, At, Moves, KeepsHolder, KeepsManual,
       OwnsBusy,
        IInv, StatusInv, OwnerInPlace, OwnerPos, ManualOwned, ManualPos, ResettingPos, BusyPos
  <2>6. ScanOwned(ps)'
    BY <2>3 DEF IInv, StatusInv, ScanOwned, KeepsScan
  <2> QED
    BY <2>1, <2>2, <2>3, <2>4, <2>5, <2>6, OwnerStepInv DEF BusyPos
<1>13. CASE DecideReleased(j)
  <2>1. job[j].pos = "run" /\ ps.busy /\ OwnsBusy(ps, j)
    BY <1>13 DEF DecideReleased, At, BusyPos, IInv, StatusInv, HoldersOwn, OwnsBusy
  <2>2. job[j].next \in Pos /\ job[j].next \notin BusyPos
    BY DEF IInv, TypeOK, Job, Pos, OtherPos, BusyPos
  <2>3. Moves(j, "released") \/ Moves(j, job[j].next)
    BY <1>13, <2>2, MovesFacts DEF DecideReleased, Return, Pos, OtherPos, IInv
  <2>4. /\ ~ps'.busy /\ ps'.busy_owner = None /\ ps'.destructive_busy = ps.destructive_busy
        /\ KeepsManual(ps) /\ KeepsFence(ps) /\ KeepsScan(ps)
    BY <1>13 DEF DecideReleased, FreeBusy, IInv, TypeOK, Status, KeepsManual, KeepsFence,
       KeepsScan
  <2>5. Frees
    BY <1>13, <2>1, <2>4 DEF DecideReleased, IInv, TypeOK, Status, ManualPhase, StatusInv,
        DestructiveOwned, ManualOwned, OwnerPos, OwnsBusy, Frees, KeepsManual
  <2>6. ScanOwned(ps)'
    BY <2>4 DEF IInv, StatusInv, ScanOwned, KeepsScan
  <2> QED
    BY <2>1, <2>2, <2>3, <2>4, <2>5, <2>6, ReleaseInv DEF BusyPos
<1>14. CASE Finalize(j)
  <2>1. job[j].next \in Pos /\ job[j].next \notin BusyPos
    BY DEF IInv, TypeOK, Job, Pos, OtherPos, BusyPos
  <2>2. Moves(j, job[j].next)
    BY <1>14, <2>1, MovesFacts DEF Finalize, Return, IInv
  <2>3. KeepsFence(ps) /\ KeepsScan(ps)
    BY <1>14 DEF Finalize, IfOwner, Uncancel, ManualIdle, FreeBusy, IInv, TypeOK, Status,
        KeepsFence, KeepsScan
  <2>4. ScanOwned(ps)'
    BY <2>3 DEF IInv, StatusInv, ScanOwned, KeepsScan
  <2>5. CASE At(j, "raise")
    <3>1. /\ OwnsBusy(ps, j) => /\ ~ps'.busy /\ ps'.busy_owner = None
                                /\ ps'.destructive_busy = ps.destructive_busy
                                /\ ~ps'.manual_freeze_requested /\ ps'.manual_phase = "IDLE"
          /\ ~OwnsBusy(ps, j) => KeepsHolder(ps) /\ KeepsManual(ps)
      BY ZenonT(40), <1>14, <2>5 DEF Finalize, At, IfOwner, Uncancel, ManualIdle, FreeBusy,
         IInv, TypeOK,
          Status, KeepsHolder, KeepsManual
    <3>2. OwnsBusy(ps, j) => Frees
      BY <2>5, <3>1 DEF At, IInv, StatusInv, DestructiveOwned, OwnerPos, OwnsBusy, Frees
    <3> QED
      BY <2>1, <2>2, <2>3, <2>4, <3>1, <3>2, LeaveInv
  <2>6. CASE At(j, "released")
    <3>1. KeepsHolder(ps) /\ KeepsManual(ps)
      BY <1>14, <2>6 DEF Finalize, At, Uncancel, IInv, TypeOK, Status, KeepsHolder, KeepsManual
    <3>2. job[j].pos \notin BusyPos \cup {"raise"}
      BY <2>6 DEF At, BusyPos
    <3> QED
      BY <2>1, <2>2, <2>3, <2>4, <3>1, <3>2, AsideInv DEF IInv, TypeOK
  <2> QED
    BY <1>14, <2>5, <2>6 DEF Finalize
<1> QED
  BY <1>1, <1>2, <1>3, <1>4, <1>5, <1>6, <1>7, <1>8, <1>9, <1>10, <1>11, <1>12, <1>13,
     <1>14 DEF ProcessStep

\* StatusInv is inductive: every step of every job, of an operator and of the
\* world keeps it.
LEMMA NextInv ==
    ASSUME IInv, [Next]_vars
    PROVE  IInv'
<1>1. TypeOK'
  BY NextType DEF IInv
<1>2. ASSUME NEW j \in Jobs, JobStep(j) PROVE StatusInv(ps)'
  BY <1>2, AdminStepInv, PatchStepInv, DestructiveStepInv, ScanStepInv,
     EnqueueStepInv, ProcessStepInv DEF JobStep
<1>3. ASSUME CancelPipeline PROVE StatusInv(ps)'
  <2>1. KeepsHolder(ps) /\ KeepsManual(ps) /\ KeepsScan(ps) /\ KeepsFence(ps)
    BY <1>3 DEF CancelPipeline, IInv, TypeOK, Status, KeepsHolder, KeepsManual, KeepsScan,
       KeepsFence
  <2> QED
    BY <1>3, <2>1, StutterInv DEF CancelPipeline, IInv
<1>4. ASSUME ForceReset PROVE StatusInv(ps)'
  <2>1. /\ ~ps'.busy /\ ps'.busy_owner = None /\ ~ps'.destructive_busy
        /\ ~ps'.scanning /\ ~ps'.scanning_exclusive /\ ps'.scanning_owner = None
        /\ ~ps'.manual_freeze_requested /\ ps'.manual_phase = "IDLE"
        /\ ps'.recovery_required = None
    BY Zenon, <1>4 DEF ForceReset, ForceResetStatus, ManualIdle, FreeScanning, FreeDestructive,
        FreeBusy, IInv, TypeOK, Status
  <2>2. job' = job /\ alive' = alive /\ Fenced(ps)
    BY <1>4 DEF ForceReset
  <2> QED
    BY <2>1, <2>2 DEF IInv, StatusInv, ScanOwned, OwnerInPlace, DestructiveOwned, ManualOwned,
        HoldersOwn, FenceStopsHolders, Fenced, Live
<1>5. ASSUME NEW w \in Workers, WorkerDies(w) PROVE StatusInv(ps)'
  BY <1>5 DEF WorkerDies, IInv, StatusInv, ScanOwned, OwnerInPlace, OwnerPos, DestructiveOwned,
      ManualOwned, HoldersOwn, OwnsBusy, FenceStopsHolders, Fenced, Live
<1>6. ASSUME UNCHANGED vars PROVE StatusInv(ps)'
  BY <1>6, StutterInv DEF vars, IInv, KeepsHolder, KeepsManual, KeepsScan, KeepsFence
<1> QED
  BY <1>1, <1>2, <1>3, <1>4, <1>5, <1>6 DEF IInv, Next

\* initialize_pipeline_status satisfies the invariant.
LEMMA InitInv ==
    Init => IInv
<1> SUFFICES ASSUME Init PROVE IInv
  OBVIOUS
<1>1. /\ ~ps.busy /\ ps.busy_owner = None /\ ~ps.destructive_busy
      /\ ~ps.scanning /\ ~ps.scanning_exclusive /\ ps.scanning_owner = None
      /\ ~ps.manual_freeze_requested /\ ps.manual_phase = "IDLE"
      /\ ps.recovery_required = None
  BY DEF Init, InitialStatus
<1>2. \A j \in Jobs : job[j].pos = "idle"
  BY DEF Init
<1>3. StatusInv(ps)
  BY <1>1, <1>2 DEF StatusInv, ScanOwned, OwnerInPlace, DestructiveOwned, ManualOwned,
      HoldersOwn, FenceStopsHolders, Fenced, BusyPos
<1> QED
  BY <1>3, InitType DEF IInv

\* The invariant implies the properties.
LEMMA InvImplies ==
    IInv => HolderOwnsSlot /\ NoOrphanFlag /\ FreezeBelongsToHolder
<1> SUFFICES ASSUME IInv PROVE HolderOwnsSlot /\ NoOrphanFlag /\ FreezeBelongsToHolder
  OBVIOUS
<1>1. HolderOwnsSlot
  BY DEF IInv, StatusInv, HoldersOwn, HolderOwnsSlot, OwnsBusy
<1>2. NoOrphanFlag
  BY DEF IInv, StatusInv, DestructiveOwned, ScanOwned, NoOrphanFlag
<1>3. FreezeBelongsToHolder
  BY DEF IInv, StatusInv, ManualOwned, FreezeBelongsToHolder
<1> QED
  BY <1>1, <1>2, <1>3

\* IInv holds in every reachable state.
THEOREM InvariantHolds ==
    Spec => []IInv
BY InitInv, NextInv, PTL DEF Spec

\* Mutual exclusion on the busy slot: a live job whose code relies on the slot
\* owns it, so no two such jobs run together, whatever is reclaimed from dead
\* workers, released late, handed off or force-reset.
THEOREM SlotIsExclusive ==
    Spec => []HolderOwnsSlot
BY InvariantHolds, InvImplies, PTL

\* Every flag that blocks others has an owner record of the kind that sets it,
\* so it can be reclaimed when its holder dies.
THEOREM FlagsAreOwned ==
    Spec => []NoOrphanFlag
BY InvariantHolds, InvImplies, PTL

\* The ingress freeze of a manual retry is in force only while the run that
\* raised it owns the busy slot.
THEOREM FreezeIsOwned ==
    Spec => []FreezeBelongsToHolder
BY InvariantHolds, InvImplies, PTL

-----------------------------------------------------------------------------
(* The inductive invariant of exclusive work, on top of IInv.  Like the      *)
(* parts of IInv, its parts are about a status s and the jobs.               *)

WritePos == {"reserved", "write"}
DestroyPos == {"claimed", "body", "stopped"}
Destroyer == {"batch_delete", "clear"}

\* where a run or a scan relies on nobody writing
NoWriterPos == {"reset_begin", "resetting", "scan_ready", "scan_reset"}

\* A writer has its reservation until an operator's force reset drops it, and
\* the reservation names the writer's own worker: needed because reservations
\* of dead workers are reaped.
WritersRegistered(s) ==
    /\ \A k \in Jobs :
          Live(k) /\ job[k].pos \in WritePos /\ k \notin force_dropped
              => Registered(s, k)
    /\ \A k \in Jobs :
          Registered(s, k) => s.pending_enqueue_tokens[k].worker = job[k].worker

\* likewise a scan and the scanning slot
ScansOwn(s) ==
    /\ \A k \in Jobs : Scanning(k) => OwnsScanning(s, k) /\ s.scanning_exclusive
    /\ s.scanning_owner # None =>
          s.scanning_owner.worker = job[s.scanning_owner.token].worker

\* the flags that fence ingress bar enqueues, and one of them the other
FlagsBar(s) ==
    /\ s.scanning_exclusive \/ s.destructive_busy => ~PendingEnqueues(s)
    /\ s.destructive_busy => ~s.scanning
    /\ \A k \in Jobs : Destroying(k) => s.destructive_busy

ResetsBar(s) ==
    \A k \in Jobs : Live(k) /\ job[k].pos \in NoWriterPos => ~PendingEnqueues(s)

\* only a direct deletion takes the pipeline beside a scan that classifies
ScansAlone ==
    \A j, k \in Jobs :
        Scanning(j) /\ j # k /\ Live(k) /\ job[k].pos \in BusyPos
            => job[k].kind = "sdk_delete"

Exclusion(s) ==
    /\ WritersRegistered(s)
    /\ ScansOwn(s)
    /\ FlagsBar(s)
    /\ ResetsBar(s)
    /\ ScansAlone

XInv == IInv /\ Exclusion(ps)

\* It implies the property.
LEMMA ExclusionSuffices ==
    XInv => ExclusiveWork
<1> SUFFICES ASSUME XInv PROVE ExclusiveWork
  OBVIOUS
<1> USE DEF XInv, IInv
<1>1. ASSUME NEW k \in Jobs, Writing(k) PROVE PendingEnqueues(ps)
  BY <1>1 DEF Exclusion, WritersRegistered, WritePos, Writing, PendingEnqueues
<1>2. ASSUME NEW j \in Jobs, NEW k \in Jobs, j # k, Destroying(j)
      PROVE  ~(Live(k) /\ job[k].pos \in BusyPos)
  BY <1>2 DEF StatusInv, HoldersOwn, OwnsBusy, Destroying, BusyPos
<1>3. DestructiveAlone
  <2> SUFFICES ASSUME NEW j \in Jobs, NEW k \in Jobs, Destroying(j), j # k
               PROVE  ~Writing(k) /\ ~Scanning(k)
    BY <1>2 DEF DestructiveAlone
  <2>1. ps.destructive_busy
    BY DEF Exclusion, FlagsBar
  <2>2. ~Writing(k)
    BY <1>1, <2>1 DEF Exclusion, FlagsBar
  <2>3. ~Scanning(k)
    BY <2>1 DEF Exclusion, FlagsBar, ScansOwn, StatusInv, ScanOwned
  <2> QED
    BY <2>2, <2>3
<1>4. ResetExclusive
  BY <1>1 DEF Exclusion, ResetsBar, NoWriterPos, ResetExclusive
<1>5. ClassificationExclusive
  <2> SUFFICES ASSUME NEW j \in Jobs, NEW k \in Jobs, Scanning(j), j # k
               PROVE  /\ ~Writing(k)
                      /\ Live(k) /\ job[k].pos \in {"run", "reset_begin", "resetting"}
                            => job[k].kind = "sdk_delete"
    BY DEF ClassificationExclusive
  <2>1. ~Writing(k)
    BY <1>1 DEF Exclusion, FlagsBar, ScansOwn
  <2>2. {"run", "reset_begin", "resetting"} \subseteq BusyPos
    BY DEF BusyPos
  <2> QED
    BY <2>1, <2>2 DEF Exclusion, ScansAlone
<1> QED
  BY <1>3, <1>4, <1>5 DEF ExclusiveWork

-----------------------------------------------------------------------------
(* Reclaiming *)

\* What reclaiming takes away, it takes from dead workers; a dead holder that
\* cannot be run again leaves a fence, and no fence disappears.
LEMMA SnapshotFacts ==
    ASSUME IInv
    PROVE  /\ \/ /\ Snapshot.busy_owner = ps.busy_owner
                 /\ Snapshot.destructive_busy = ps.destructive_busy
              \/ /\ ps.busy_owner # None /\ ps.busy_owner.worker \notin alive
                 /\ Snapshot.busy_owner = None /\ ~Snapshot.destructive_busy
                 /\ ps.busy_owner.kind \notin Rerunnable => Fenced(Snapshot)
           /\ \/ /\ Snapshot.scanning_owner = ps.scanning_owner
                 /\ Snapshot.scanning = ps.scanning
                 /\ Snapshot.scanning_exclusive = ps.scanning_exclusive
              \/ /\ ps.scanning_owner # None /\ ps.scanning_owner.worker \notin alive
                 /\ Snapshot.scanning_owner = None
                 /\ ~Snapshot.scanning /\ ~Snapshot.scanning_exclusive
           /\ \A t \in Jobs :
                 \/ Snapshot.pending_enqueue_tokens[t] = ps.pending_enqueue_tokens[t]
                 \/ /\ Registered(ps, t) /\ ~Registered(Snapshot, t)
                    /\ ps.pending_enqueue_tokens[t].worker \notin alive
           /\ Fenced(ps) => Fenced(Snapshot)
<1> DEFINE r == ReclaimBusy(ps, alive)
           q == ReclaimScanning(r, alive)
           t == ReapTokens(q, alive)
<1>0. ps \in Status
  BY DEF IInv, TypeOK
<1>1. r \in Status /\ StatusInv(r)
  BY <1>0, ReclaimBusyType, ReclaimBusyInv DEF IInv
<1>2. /\ r.scanning_owner = ps.scanning_owner /\ r.scanning = ps.scanning
      /\ r.scanning_exclusive = ps.scanning_exclusive
      /\ r.pending_enqueue_tokens = ps.pending_enqueue_tokens
      /\ Fenced(ps) => Fenced(r)
      /\ \/ /\ r.busy_owner = ps.busy_owner /\ r.destructive_busy = ps.destructive_busy
         \/ /\ ps.busy_owner # None /\ ps.busy_owner.worker \notin alive
            /\ r.busy_owner = None /\ ~r.destructive_busy
            /\ ps.busy_owner.kind \notin Rerunnable => Fenced(r)
  <2>1. CASE r = ps
    BY <2>1
  <2>2. CASE r # ps
    <3>1. /\ ps.busy_owner # None /\ ps.busy_owner.worker \notin alive
          /\ ps.busy_owner \in Owners
          /\ r = ManualIdle([ps EXCEPT !.busy = FALSE, !.destructive_busy = FALSE,
                              !.busy_owner = None,
                              !.recovery_required = FenceForDead(ps, ps.busy_owner)])
      BY <1>0, <2>2 DEF ReclaimBusy, Status
    <3>2. /\ r.scanning_owner = ps.scanning_owner /\ r.scanning = ps.scanning
          /\ r.scanning_exclusive = ps.scanning_exclusive
          /\ r.pending_enqueue_tokens = ps.pending_enqueue_tokens
          /\ r.recovery_required = FenceForDead(ps, ps.busy_owner)
          /\ r.busy_owner = None /\ ~r.destructive_busy
      BY <1>0, <3>1 DEF ManualIdle, Status
    <3>3. /\ Fenced(ps) => Fenced(r)
          /\ ps.busy_owner.kind \notin Rerunnable => Fenced(r)
      BY <3>1, <3>2, StatusAssumption
         DEF Fenced, FenceForDead, FenceKind, Owners
    <3> QED
      BY <3>1, <3>2, <3>3
  <2> QED
    BY <2>1, <2>2
<1> HIDE DEF r
<1>3. q \in Status
  BY <1>1, ReclaimScanningType
<1>4. /\ q.busy_owner = r.busy_owner /\ q.destructive_busy = r.destructive_busy
      /\ q.recovery_required = r.recovery_required
      /\ q.pending_enqueue_tokens = r.pending_enqueue_tokens
      /\ \/ /\ q.scanning_owner = r.scanning_owner /\ q.scanning = r.scanning
            /\ q.scanning_exclusive = r.scanning_exclusive
         \/ /\ r.scanning_owner # None /\ r.scanning_owner.worker \notin alive
            /\ q.scanning_owner = None /\ ~q.scanning /\ ~q.scanning_exclusive
  BY <1>1 DEF ReclaimScanning, Status, FenceForDead, Rerunnable, StatusInv, ScanOwned
<1> HIDE DEF q
<1>5. /\ t.busy_owner = q.busy_owner /\ t.destructive_busy = q.destructive_busy
      /\ t.recovery_required = q.recovery_required
      /\ t.scanning_owner = q.scanning_owner /\ t.scanning = q.scanning
      /\ t.scanning_exclusive = q.scanning_exclusive
      /\ \A k \in Jobs :
            \/ t.pending_enqueue_tokens[k] = q.pending_enqueue_tokens[k]
            \/ /\ q.pending_enqueue_tokens[k] # None
               /\ q.pending_enqueue_tokens[k].worker \notin alive
               /\ t.pending_enqueue_tokens[k] = None
  BY <1>3 DEF ReapTokens, Status
<1> HIDE DEF t
<1>6. Snapshot = t \/ Snapshot = ps
  BY DEF Snapshot, Reconcile, t, q, r
<1> QED
  BY <1>2, <1>4, <1>5, <1>6 DEF Registered, Fenced

\* Reclaiming disturbs no exclusion: it only takes from the dead.
LEMMA SnapshotExclusion ==
    ASSUME XInv
    PROVE  Exclusion(Snapshot)
<1> USE DEF XInv, Exclusion
<1>1. WritersRegistered(Snapshot)
  BY SnapshotFacts DEF WritersRegistered, Registered, Live
<1>2. ASSUME PendingEnqueues(Snapshot) PROVE PendingEnqueues(ps)
  BY <1>2, SnapshotFacts DEF PendingEnqueues, Registered
<1>3. ScansOwn(Snapshot)
  <2>1. ASSUME NEW k \in Jobs, Scanning(k)
        PROVE  OwnsScanning(Snapshot, k) /\ Snapshot.scanning_exclusive
    BY <2>1, SnapshotFacts DEF ScansOwn, OwnsScanning, Scanning, Live
  <2> QED
    BY <2>1, SnapshotFacts DEF ScansOwn
<1>4. FlagsBar(Snapshot)
  <2>1. ASSUME NEW k \in Jobs, Destroying(k) PROVE Snapshot.destructive_busy
    <3>1. ps.destructive_busy /\ OwnsBusy(ps, k)
      BY <2>1 DEF FlagsBar, Destroying, IInv, StatusInv, HoldersOwn, BusyPos
    <3>2. ps.busy_owner.worker \in alive
      BY <2>1, <3>1 DEF IInv, StatusInv, OwnerInPlace, OwnsBusy, Destroying, Live
    <3> QED
      BY <3>1, <3>2, SnapshotFacts
  <2> QED
    BY <1>2, <2>1, SnapshotFacts DEF FlagsBar
<1>5. ResetsBar(Snapshot)
  BY <1>2 DEF ResetsBar
<1> QED
  BY <1>1, <1>3, <1>4, <1>5

-----------------------------------------------------------------------------
(* Three shapes of a step of a job, from a status s: what it found, or the   *)
(* snapshot.                                                                 *)

\* no reservation and no scanning flag changes; the destructive flag is dropped
\* by its owner only
Calm(s, j) ==
    /\ force_dropped' = force_dropped
    /\ KeepsScan(s)
    /\ ps'.pending_enqueue_tokens = s.pending_enqueue_tokens
    /\ \/ ps'.destructive_busy = s.destructive_busy
       \/ ~ps'.destructive_busy /\ OwnsBusy(s, j)

\* positions that owe nothing to anybody
FreePos == OtherPos \ WritePos

\* A calm step of j that takes on no obligation it did not have.
Onward(s, j, p) ==
    /\ p \in WritePos => job[j].pos \in WritePos
    /\ p \in ScanPos => job[j].pos \in ScanPos
    /\ p \in DestroyPos /\ job'[j].kind \in Destroyer =>
          Destroying(j) /\ ps'.destructive_busy = s.destructive_busy
    /\ p \in NoWriterPos => job[j].pos \in NoWriterPos \/ ~PendingEnqueues(s)
    /\ p \in BusyPos => \/ job[j].pos \in BusyPos /\ job'[j].kind = job[j].kind
                        \/ job'[j].kind = "sdk_delete"
                        \/ ~s.scanning_exclusive \/ OwnsScanning(s, j)

\* A session that ends calmly and barred nobody leaves every part standing.
LEMMA CalmExclusion ==
    ASSUME TypeOK, NEW s \in Status, StatusInv(s), Exclusion(s), NEW j \in Jobs, NEW p,
           Moves(j, p), Calm(s, j), Onward(s, j, p)
    PROVE  Exclusion(ps)'
<1> USE DEF Exclusion, Moves, Calm, KeepsScan
<1>0. PendingEnqueues(s) <=> PendingEnqueues(ps')
  BY DEF PendingEnqueues, Registered
<1>1. \A k \in Jobs : Live(k)' <=> Live(k)
  BY DEF Live
<1>2. WritersRegistered(ps)'
  BY <1>1 DEF WritersRegistered, Registered, Onward
<1>3. \A k \in Jobs : Scanning(k)' => Scanning(k)
  BY <1>1 DEF Scanning, Onward
<1>4. ScansOwn(ps)'
  <2>1. \A k \in Jobs : job'[k].worker = job[k].worker
    OBVIOUS
  <2>2. s.scanning_owner # None => s.scanning_owner.token \in Jobs
    BY DEF Status, Owners
  <2> QED
    BY <1>3, <2>1, <2>2 DEF ScansOwn, OwnsScanning
<1>5. FlagsBar(ps)'
  <2>1. ASSUME NEW k \in Jobs, Destroying(k)' PROVE ps'.destructive_busy
    <3>1. CASE k = j
      BY <1>1, <2>1, <3>1 DEF Destroying, DestroyPos, Destroyer, Onward, FlagsBar
    <3>2. CASE k # j
      <4>1. Destroying(k)
        BY <1>1, <2>1, <3>2 DEF Destroying
      <4>2. ~OwnsBusy(s, j)
        BY <3>2, <4>1 DEF Destroying, StatusInv, HoldersOwn, OwnsBusy, BusyPos
      <4> QED
        BY <4>1, <4>2 DEF FlagsBar
    <3> QED
      BY <3>1, <3>2
  <2> QED
    BY <1>0, <2>1 DEF FlagsBar
<1>6. ResetsBar(ps)'
  BY <1>0, <1>1 DEF ResetsBar, Onward
<1>7. ScansAlone'
  <2> SUFFICES ASSUME NEW i \in Jobs, NEW k \in Jobs, Scanning(i)', i # k, Live(k)',
                      job'[k].pos \in BusyPos
               PROVE  job'[k].kind = "sdk_delete"
    BY DEF ScansAlone
  <2>1. Scanning(i) /\ Live(k)
    BY <1>1, <1>3
  <2>2. CASE k = j
    BY <2>1, <2>2 DEF ScansAlone, Onward, ScansOwn, OwnsScanning
  <2>3. CASE k # j
    BY <2>1, <2>3 DEF ScansAlone
  <2> QED
    BY <2>2, <2>3
<1> QED
  BY <1>2, <1>4, <1>5, <1>6, <1>7

\* The same for a step to a position that owes nothing.
LEMMA AsideExclusion ==
    ASSUME TypeOK, NEW s \in Status, StatusInv(s), Exclusion(s), NEW j \in Jobs,
           NEW p \in FreePos, Moves(j, p), Calm(s, j)
    PROVE  Exclusion(ps)'
<1>1. Onward(s, j, p)
  BY DEF Onward, FreePos, OtherPos, WritePos, ScanPos, DestroyPos, NoWriterPos, BusyPos
<1> QED
  BY <1>1, CalmExclusion

\* No job moves.
LEMMA StillExclusion ==
    ASSUME NEW s \in Status, Exclusion(s), UNCHANGED <<job, alive, force_dropped>>,
           KeepsScan(s), ps'.destructive_busy = s.destructive_busy,
           ps'.pending_enqueue_tokens = s.pending_enqueue_tokens
    PROVE  Exclusion(ps)'
BY DEF Exclusion, KeepsScan, WritersRegistered, Registered, ScansOwn, Scanning, OwnsScanning,
       FlagsBar, PendingEnqueues, Destroying, ResetsBar, ScansAlone, Live

\* A refusal keeps what was reclaimed.
LEMMA RefuseExclusion ==
    ASSUME XInv, Refuse
    PROVE  Exclusion(ps)'
BY SnapshotInv, SnapshotExclusion, StillExclusion DEF Refuse, history, KeepsScan, XInv

\* The enqueue reservations change, for j only; a new one is made only while
\* nothing fences ingress.
LEMMA EnqueueExclusion ==
    ASSUME TypeOK, NEW s \in Status, StatusInv(s), Exclusion(s), NEW j \in Jobs,
           NEW p \in {"reserved", "write", "drive", "done"}, Moves(j, p),
           force_dropped' = force_dropped, KeepsScan(s),
           ps'.destructive_busy = s.destructive_busy,
           \A k \in Jobs \ {j} :
               ps'.pending_enqueue_tokens[k] = s.pending_enqueue_tokens[k],
           \/ ~Registered(ps', j) /\ p \notin WritePos
           \/ /\ ~IngressFenced(s)
              /\ Registered(ps', j)
              /\ ps'.pending_enqueue_tokens[j].worker = job[j].worker
    PROVE  Exclusion(ps)'
<1> USE DEF Exclusion, Moves, KeepsScan
<1>1. \A k \in Jobs : Live(k)' <=> Live(k)
  BY DEF Live
<1>2. \A k \in Jobs : Scanning(k)' => Scanning(k)
  BY <1>1 DEF Scanning, ScanPos
<1>3. \A k \in Jobs : Destroying(k)' => Destroying(k)
  BY <1>1 DEF Destroying
<1>4. WritersRegistered(ps)'
  BY <1>1 DEF WritersRegistered, Registered
<1>5. ScansOwn(ps)'
  <2>1. \A k \in Jobs : job'[k].worker = job[k].worker
    OBVIOUS
  <2>2. s.scanning_owner # None => s.scanning_owner.token \in Jobs
    BY DEF Status, Owners
  <2> QED
    BY <1>2, <2>1, <2>2 DEF ScansOwn, OwnsScanning
<1>6. PendingEnqueues(ps)' => PendingEnqueues(s) \/ ~IngressFenced(s)
  BY DEF PendingEnqueues, Registered
<1>7. FlagsBar(ps)'
  BY <1>3, <1>6 DEF FlagsBar, IngressFenced
<1>8. ASSUME NEW k \in Jobs, Live(k), job[k].pos \in NoWriterPos
      PROVE  IngressFenced(s)
  BY <1>8 DEF StatusInv, HoldersOwn, ManualOwned, OwnsBusy, OwnerPos, ResettingPos,
      NoWriterPos, BusyPos, IngressFenced
<1>9. ResetsBar(ps)'
  <2> SUFFICES ASSUME NEW k \in Jobs, Live(k)', job'[k].pos \in NoWriterPos
               PROVE  ~PendingEnqueues(ps')
    BY DEF ResetsBar
  <2>1. Live(k) /\ job[k].pos \in NoWriterPos
    BY <1>1 DEF NoWriterPos
  <2> QED
    BY <1>6, <1>8, <2>1 DEF ResetsBar
<1>10. ScansAlone'
  <2>1. ASSUME NEW k \in Jobs, job'[k].pos \in BusyPos PROVE job'[k] = job[k]
    BY <2>1 DEF BusyPos
  <2> QED
    BY <1>1, <1>2, <2>1 DEF ScansAlone
<1> QED
  BY <1>4, <1>5, <1>7, <1>9, <1>10

-----------------------------------------------------------------------------
(* The actions *)

\* XInv of what a primitive decides on.
LEMMA SnapshotX ==
    ASSUME XInv
    PROVE  /\ TypeOK /\ ps \in Status /\ StatusInv(ps) /\ Exclusion(ps)
           /\ Snapshot \in Status /\ StatusInv(Snapshot) /\ Exclusion(Snapshot)
BY SnapshotInv, SnapshotExclusion DEF XInv, IInv, TypeOK

\* An admin write, custom chunks or a direct deletion takes the slot.
LEMMA TakeExclusion ==
    ASSUME XInv, NEW j \in Jobs, NEW kind \in JobKind \ Destroyer,
           ~Snapshot.scanning_exclusive \/ kind = "sdk_delete",
           Start(j, kind, "body"), alive' = alive, Calm(Snapshot, j)
    PROVE  Exclusion(ps)'
<1>1. Moves(j, "body") /\ job'[j].kind = kind
  BY SnapshotX, MovesFacts DEF Pos, BusyPos
<1>2. Onward(Snapshot, j, "body")
  BY <1>1 DEF Onward, WritePos, ScanPos, NoWriterPos
<1> QED
  BY <1>1, <1>2, SnapshotX, CalmExclusion

\* Exclusion, step by step: the reservation of the administrator's jobs.
LEMMA AdminStepExclusion ==
    ASSUME XInv, NEW j \in Jobs, AdminStep(j)
    PROVE  Exclusion(ps)'
<1>1. CASE AcquireAdmin(j)
  <2>1. CASE Refuse
    BY <2>1, RefuseExclusion
  <2>2. CASE ~Refuse
    <3>1. /\ ps' = GiveBusy(Snapshot, Me(j, "admin")) /\ ~Snapshot.scanning
          /\ Start(j, "admin", "body") /\ alive' = alive
          /\ force_dropped' = force_dropped
      BY <1>1, <2>2 DEF AcquireAdmin, Acquire, history
    <3>2. Calm(Snapshot, j)
      BY <3>1, SnapshotX DEF GiveBusy, Status, Calm, KeepsScan
    <3> QED
      BY <3>1, <3>2, SnapshotX, TakeExclusion DEF JobKind, Destroyer, StatusInv, ScanOwned
  <2> QED
    BY <2>1, <2>2
<1>2. CASE ReleaseAdmin(j)
  <2>1. Moves(j, "drive") \/ Moves(j, "done")
    BY Zenon, <1>2, MovesFacts, SnapshotX
       DEF ReleaseAdmin, Pos, BusyPos, ScanPos, OtherPos
  <2>2. Calm(ps, j)
    BY <1>2, SnapshotX DEF ReleaseAdmin, IfOwner, FreeBusy, Status, Calm, KeepsScan, history
  <2> QED
    BY <2>1, <2>2, SnapshotX, AsideExclusion DEF FreePos, OtherPos, WritePos
<1> QED
  BY <1>1, <1>2 DEF AdminStep

\* Exclusion: the writers that patch stored documents (_reserve_sdk_writer).
LEMMA PatchStepExclusion ==
    ASSUME XInv, NEW j \in Jobs, PatchStep(j)
    PROVE  Exclusion(ps)'
<1> USE DEF Calm, KeepsScan, history
<1>1. CASE AcquireCustomChunks(j)
  <2>1. CASE Refuse
    BY <2>1, RefuseExclusion
  <2>2. CASE ~Refuse
    <3>1. /\ ps' = [Uncancel(GiveBusy(Snapshot, Me(j, "custom_chunks")))
                       EXCEPT !.job_name = "other"]
          /\ ~Snapshot.scanning
          /\ Start(j, "custom_chunks", "body") /\ alive' = alive
          /\ force_dropped' = force_dropped
      BY <1>1, <2>2 DEF AcquireCustomChunks, Acquire
    <3>2. Calm(Snapshot, j)
      BY <3>1, SnapshotX DEF GiveBusy, Uncancel, Status
    <3> QED
      BY <3>1, <3>2, SnapshotX, TakeExclusion DEF JobKind, Destroyer, StatusInv, ScanOwned
  <2> QED
    BY <2>1, <2>2
<1>2. CASE AcquireSdkDelete(j)
  <2>1. CASE Refuse
    BY <2>1, RefuseExclusion
  <2>2. CASE ~Refuse
    <3>1. /\ ps' = [Uncancel(GiveBusy(Snapshot, Me(j, "delete")))
                       EXCEPT !.job_name = "other"]
          /\ Start(j, "sdk_delete", "body") /\ alive' = alive
          /\ force_dropped' = force_dropped
      BY <1>2, <2>2 DEF AcquireSdkDelete
    <3>2. Calm(Snapshot, j)
      BY <3>1, SnapshotX DEF GiveBusy, Uncancel, Status
    <3> QED
      BY <3>1, <3>2, SnapshotX, TakeExclusion DEF JobKind, Destroyer
  <2> QED
    BY <2>1, <2>2
<1>3. CASE JoinBatchDelete(j)
  <2>1. Moves(j, "joined")
    BY Zenon, <1>3, MovesFacts, SnapshotX
       DEF JoinBatchDelete, MayStart, Pos, OtherPos, JobKind
  <2>2. Calm(Snapshot, j)
    BY <1>3 DEF JoinBatchDelete
  <2> QED
    BY <2>1, <2>2, SnapshotX, AsideExclusion DEF FreePos, OtherPos, WritePos
<1>4. CASE LeaveJoined(j)
  <2>1. Moves(j, "done")
    BY Zenon, <1>4, MovesFacts, SnapshotX DEF LeaveJoined, Pos, OtherPos
  <2>2. Calm(ps, j)
    BY <1>4 DEF LeaveJoined
  <2> QED
    BY <2>1, <2>2, SnapshotX, AsideExclusion DEF FreePos, OtherPos, WritePos
<1>5. CASE ExitHandoff(j)
  <2>1. Moves(j, "handoff") /\ job'[j].kind = job[j].kind
    BY Zenon, <1>5, MovesFacts, SnapshotX DEF ExitHandoff, Pos, BusyPos
  <2>2. Calm(ps, j)
    BY <1>5, SnapshotX DEF ExitHandoff, Uncancel, Status
  <2>3. Onward(ps, j, "handoff")
    BY <1>5, <2>1 DEF ExitHandoff, At, Onward, WritePos, ScanPos, DestroyPos, NoWriterPos,
        BusyPos
  <2> QED
    BY <2>1, <2>2, <2>3, SnapshotX, CalmExclusion
<1>6. CASE ExitRelease(j)
  <2>1. Moves(j, "terminal")
    BY Zenon, <1>6, MovesFacts, SnapshotX DEF ExitRelease, Pos, OtherPos
  <2>2. Calm(ps, j)
    BY <1>6, SnapshotX DEF ExitRelease, IfOwner, FreeBusy, Uncancel, Status
  <2> QED
    BY <2>1, <2>2, SnapshotX, AsideExclusion DEF FreePos, OtherPos, WritePos
<1>7. CASE TerminalRelease(j)
  <2>1. Moves(j, "done")
    BY Zenon, <1>7, MovesFacts, SnapshotX DEF TerminalRelease, Pos, OtherPos
  <2>2. Calm(ps, j)
    BY <1>7, SnapshotX DEF TerminalRelease, IfOwner, FreeBusy, Uncancel, Status
  <2> QED
    BY <2>1, <2>2, SnapshotX, AsideExclusion DEF FreePos, OtherPos, WritePos
<1> QED
  BY <1>1, <1>2, <1>3, <1>4, <1>5, <1>6, <1>7 DEF PatchStep

\* A clear or a batch deletion takes the slot, when nobody is writing or scanning.
LEMMA DestroyExclusion ==
    ASSUME XInv, NEW j \in Jobs, NEW kind \in Destroyer, NEW ok,
           AcquireDestructive(j, kind, ok)
    PROVE  Exclusion(ps)'
<1>1. CASE Refuse
  BY <1>1, RefuseExclusion
<1>2. CASE ~Refuse
  <2>1. /\ ps' = [GiveBusy(Snapshot, Me(j, ok)) EXCEPT !.destructive_busy = TRUE]
        /\ ~Snapshot.busy /\ ~Snapshot.scanning /\ ~PendingEnqueues(Snapshot)
        /\ Start(j, kind, "claimed") /\ alive' = alive /\ force_dropped' = force_dropped
    BY <1>2 DEF AcquireDestructive, Acquire, history
  <2>2. /\ KeepsScan(Snapshot) /\ ps'.destructive_busy
        /\ ps'.pending_enqueue_tokens = Snapshot.pending_enqueue_tokens
    BY <2>1, SnapshotX DEF GiveBusy, Status, KeepsScan
  <2>3. Moves(j, "claimed")
    BY <2>1, SnapshotX, MovesFacts DEF Pos, BusyPos, JobKind, Destroyer
  <2>4. ~PendingEnqueues(ps')
    BY <2>1, <2>2 DEF PendingEnqueues, Registered
  <2>5. \A k \in Jobs : Live(k)' <=> Live(k)
    BY <2>3 DEF Live, Moves
  <2>6. \A k \in Jobs : ~Scanning(k)
    BY <2>1, SnapshotX DEF Exclusion, ScansOwn, StatusInv, ScanOwned
  <2>7. \A k \in Jobs : ~Scanning(k)'
    BY <2>1, <2>3, <2>5, <2>6 DEF Moves, Scanning, ScanPos
  <2>8. WritersRegistered(ps)'
    <3>1. force_dropped' = force_dropped
      BY <2>1
    <3> QED
      BY <2>2, <2>3, <2>5, <3>1, SnapshotX
         DEF Exclusion, WritersRegistered, Registered, WritePos, Moves
  <2>9. ps'.scanning_owner = None /\ ~ps'.scanning
    BY <2>1, <2>2, SnapshotX DEF KeepsScan, StatusInv, ScanOwned
  <2> QED
    BY <2>2, <2>4, <2>7, <2>8, <2>9 DEF Exclusion, ScansOwn, FlagsBar, ResetsBar, ScansAlone
<1> QED
  BY <1>1, <1>2

\* Exclusion: the jobs that destroy data and the forced reset.
LEMMA DestructiveStepExclusion ==
    ASSUME XInv, NEW j \in Jobs, DestructiveStep(j)
    PROVE  Exclusion(ps)'
<1> USE DEF Calm, KeepsScan, history
<1>1. CASE AcquireBatchDelete(j)
  BY <1>1, DestroyExclusion DEF AcquireBatchDelete, Destroyer
<1>2. CASE AcquireClear(j)
  BY <1>2, DestroyExclusion DEF AcquireClear, Destroyer
<1>3. CASE NameDestructive(j)
  <2>1. Moves(j, "body") /\ job'[j].kind = job[j].kind
    BY Zenon, <1>3, MovesFacts, SnapshotX DEF NameDestructive, Pos, BusyPos
  <2>2. Calm(ps, j) /\ ps'.destructive_busy = ps.destructive_busy
    BY <1>3, SnapshotX DEF NameDestructive, Status
  <2>3. Onward(ps, j, "body")
    BY <1>3, <2>1, <2>2 DEF NameDestructive, At, Onward, WritePos, ScanPos, DestroyPos,
        NoWriterPos, BusyPos, Destroying, Destroyer
  <2> QED
    BY <2>1, <2>2, <2>3, SnapshotX, CalmExclusion
<1>4. CASE AbandonDestructive(j)
  <2>1. Moves(j, "done")
    BY Zenon, <1>4, MovesFacts, SnapshotX DEF AbandonDestructive, Pos, OtherPos
  <2>2. Calm(ps, j)
    BY <1>4, SnapshotX DEF AbandonDestructive, IfOwner, FreeDestructive, FreeBusy, Status
  <2> QED
    BY <2>1, <2>2, SnapshotX, AsideExclusion DEF FreePos, OtherPos, WritePos
<1>5. CASE StopBatchDelete(j)
  <2>1. Moves(j, "stopped") /\ job'[j].kind = job[j].kind
    BY Zenon, <1>5, MovesFacts, SnapshotX DEF StopBatchDelete, Pos, BusyPos
  <2>2. Calm(ps, j) /\ ps'.destructive_busy = ps.destructive_busy
    BY <1>5 DEF StopBatchDelete
  <2>3. Onward(ps, j, "stopped")
    BY <1>5, <2>1, <2>2 DEF StopBatchDelete, At, Onward, WritePos, ScanPos, DestroyPos,
        NoWriterPos, BusyPos, Destroying, Destroyer
  <2> QED
    BY <2>1, <2>2, <2>3, SnapshotX, CalmExclusion
<1>6. CASE ReleaseBatchDelete(j)
  <2>1. Moves(j, "drive") \/ Moves(j, "done")
    BY Zenon, <1>6, MovesFacts, SnapshotX DEF ReleaseBatchDelete, Pos, OtherPos
  <2>2. Calm(ps, j)
    BY <1>6, SnapshotX DEF ReleaseBatchDelete, IfOwner, FreeDestructive, FreeBusy, Uncancel,
        Status
  <2> QED
    BY <2>1, <2>2, SnapshotX, AsideExclusion DEF FreePos, OtherPos, WritePos
<1>7. CASE ReleaseClear(j)
  <2>1. Moves(j, "done")
    BY Zenon, <1>7, MovesFacts, SnapshotX DEF ReleaseClear, Pos, OtherPos
  <2>2. Calm(ps, j)
    BY <1>7, SnapshotX DEF ReleaseClear, IfOwner, FreeDestructive, FreeBusy, Status
  <2> QED
    BY <2>1, <2>2, SnapshotX, AsideExclusion DEF FreePos, OtherPos, WritePos
<1> QED
  BY <1>1, <1>2, <1>3, <1>4, <1>5, <1>6, <1>7 DEF DestructiveStep

\* A scan takes the scanning slot, when nobody is writing or holds the pipeline.
LEMMA ScanExclusion ==
    ASSUME XInv, NEW j \in Jobs, AcquireScan(j)
    PROVE  Exclusion(ps)'
<1>1. CASE Refuse
  BY <1>1, RefuseExclusion
<1>2. CASE ~Refuse
  <2>1. /\ ps' = [Snapshot EXCEPT !.scanning = TRUE, !.scanning_exclusive = TRUE,
                                  !.scanning_owner = Me(j, "scan")]
        /\ ~Snapshot.busy /\ ~Snapshot.scanning /\ ~PendingEnqueues(Snapshot)
        /\ Start(j, "scan", "scan_claimed")
        /\ alive' = alive /\ force_dropped' = force_dropped
    BY <1>2 DEF AcquireScan, Acquire, history
  <2>2. Moves(j, "scan_claimed")
    BY <2>1, SnapshotX, MovesFacts DEF Pos, ScanPos, JobKind
  <2>3. /\ ps'.scanning /\ ps'.scanning_exclusive
        /\ ps'.scanning_owner # None /\ ps'.scanning_owner.token = j
        /\ ps'.scanning_owner.worker = job'[j].worker
        /\ ps'.destructive_busy = Snapshot.destructive_busy
        /\ ps'.pending_enqueue_tokens = Snapshot.pending_enqueue_tokens
    <3>1. Me(j, "scan") \in Owners
      BY SnapshotX DEF Me, OwnerRecord, Owners, OwnerKind, TypeOK, Job
    <3>2. Me(j, "scan").token = j /\ Me(j, "scan").worker = job[j].worker
      BY DEF Me, OwnerRecord
    <3> QED
      BY <2>1, <2>2, <3>1, <3>2, SnapshotX, StatusAssumption DEF Status, Moves
  <2>4. ~PendingEnqueues(ps') /\ ~ps'.destructive_busy
    BY <2>1, <2>3, SnapshotX DEF PendingEnqueues, Registered, StatusInv, DestructiveOwned
  <2>5. \A k \in Jobs : Live(k)' <=> Live(k)
    BY <2>2 DEF Live, Moves
  <2>6. \A k \in Jobs : Scanning(k)' => k = j
    BY <2>1, <2>2, <2>5, SnapshotX
       DEF Moves, Scanning, Exclusion, ScansOwn, StatusInv, ScanOwned
  <2>7. \A k \in Jobs : ~(Live(k) /\ job[k].pos \in BusyPos)
    BY <2>1, SnapshotX DEF StatusInv, HoldersOwn, OwnsBusy
  <2>8. \A k \in Jobs : ~(Live(k)' /\ job'[k].pos \in BusyPos)
    BY <2>2, <2>5, <2>7 DEF Moves, BusyPos
  <2>9. WritersRegistered(ps)'
    BY <2>1, <2>2, <2>3, <2>5, SnapshotX
       DEF Exclusion, WritersRegistered, Registered, WritePos, Moves
  <2>10. FlagsBar(ps)'
    <3>1. \A k \in Jobs : ~Destroying(k)'
      BY <2>8 DEF Destroying, BusyPos
    <3> QED
      BY <2>4, <3>1 DEF FlagsBar
  <2>11. ResetsBar(ps)'
    BY <2>4 DEF ResetsBar
  <2>12. ScansOwn(ps)' /\ ScansAlone'
    BY <2>3, <2>6, <2>8 DEF ScansOwn, OwnsScanning, ScansAlone
  <2> QED
    BY <2>9, <2>10, <2>11, <2>12 DEF Exclusion
<1> QED
  BY <1>1, <1>2

\* A scan gives up its classification phase or its slot; a stale one changes nothing.
LEMMA ScanLeavesExclusion ==
    ASSUME XInv, NEW j \in Jobs, NEW p \in FreePos, Moves(j, p),
           force_dropped' = force_dropped,
           ps'.destructive_busy = ps.destructive_busy,
           ps'.pending_enqueue_tokens = ps.pending_enqueue_tokens,
           \/ KeepsScan(ps)
           \/ /\ OwnsScanning(ps, j) /\ ~ps'.scanning_exclusive
              /\ ps'.scanning_owner \in {ps.scanning_owner, None}
              /\ ps'.scanning => ps.scanning
    PROVE  Exclusion(ps)'
<1>1. CASE KeepsScan(ps)
  BY <1>1, SnapshotX, AsideExclusion DEF Calm
<1>2. CASE ~KeepsScan(ps)
  <2> USE DEF Moves
  <2>1. \A k \in Jobs : Live(k)' <=> Live(k)
    BY DEF Live
  <2>2. p \notin ScanPos /\ p \notin BusyPos /\ p \notin WritePos /\ p \notin NoWriterPos
    BY DEF FreePos, OtherPos, WritePos, ScanPos, BusyPos, NoWriterPos
  <2>3. \A k \in Jobs : ~Scanning(k)'
    BY <1>2, <2>1, <2>2, SnapshotX DEF Scanning, Exclusion, ScansOwn, OwnsScanning
  <2>4. WritersRegistered(ps)'
    BY <2>1, <2>2, SnapshotX DEF Exclusion, WritersRegistered, Registered
  <2>5. ScansOwn(ps)'
    <3>1. \A k \in Jobs : job'[k].worker = job[k].worker
      OBVIOUS
    <3>2. ps.scanning_owner # None => ps.scanning_owner.token \in Jobs
      BY SnapshotX DEF Status, Owners
    <3> QED
      BY <1>2, <2>3, <3>1, <3>2, SnapshotX DEF Exclusion, ScansOwn
  <2>6. FlagsBar(ps)'
    <3>1. \A k \in Jobs : Destroying(k)' => Destroying(k)
      BY <2>1, <2>2 DEF Destroying, BusyPos
    <3> QED
      BY <1>2, <3>1, SnapshotX DEF Exclusion, FlagsBar, PendingEnqueues, Registered
  <2>7. ResetsBar(ps)'
    BY <2>1, <2>2, SnapshotX DEF Exclusion, ResetsBar, PendingEnqueues, Registered
  <2> QED
    BY <2>3, <2>4, <2>5, <2>6, <2>7 DEF Exclusion, ScansAlone
<1> QED
  BY <1>1, <1>2

\* Exclusion: the scan, through classification, commit and abandonment.
LEMMA ScanStepExclusion ==
    ASSUME XInv, NEW j \in Jobs, ScanStep(j)
    PROVE  Exclusion(ps)'
<1> USE DEF Calm, KeepsScan, history
<1>1. CASE AcquireScan(j)
  BY <1>1, ScanExclusion
<1>2. CASE AbandonScan(j)
  <2>1. Moves(j, "done")
    BY Zenon, <1>2, MovesFacts, SnapshotX DEF AbandonScan, Pos, OtherPos
  <2>2. /\ ps'.destructive_busy = ps.destructive_busy
        /\ ps'.pending_enqueue_tokens = ps.pending_enqueue_tokens
        /\ force_dropped' = force_dropped
        /\ \/ KeepsScan(ps)
           \/ /\ OwnsScanning(ps, j) /\ ~ps'.scanning_exclusive
              /\ ps'.scanning_owner \in {ps.scanning_owner, None}
              /\ ps'.scanning => ps.scanning
    BY <1>2, SnapshotX DEF AbandonScan, FreeScanning, Status
  <2> QED
    BY <2>1, <2>2, ScanLeavesExclusion DEF FreePos, OtherPos, WritePos
<1>3. CASE CommitScan(j)
  <2>1. Moves(j, "scan_excl") /\ job'[j].kind = job[j].kind
    BY Zenon, <1>3, MovesFacts, SnapshotX DEF CommitScan, Pos, ScanPos
  <2>2. Calm(ps, j)
    BY <1>3 DEF CommitScan
  <2>3. Onward(ps, j, "scan_excl")
    BY <1>3, <2>1 DEF CommitScan, At, Onward, WritePos, ScanPos, DestroyPos, NoWriterPos,
        BusyPos
  <2> QED
    BY <2>1, <2>2, <2>3, SnapshotX, CalmExclusion
<1>4. CASE AcquireScanReset(j)
  <2> DEFINE owns == OwnsScanning(Snapshot, j)
             verdict == ProcessingVerdict(Snapshot, FALSE, owns)
  <2>1. Calm(Snapshot, j)
    BY <1>4, SnapshotX DEF AcquireScanReset, ProcessingOutcome, GiveBusy, Status
  <2>2. CASE verdict = "acquired"
    <3>1. Moves(j, "scan_acq") /\ job'[j].kind = job[j].kind
      BY <1>4, <2>2, MovesFacts, SnapshotX DEF AcquireScanReset, Pos, BusyPos
    <3>2. ~Snapshot.scanning_exclusive \/ owns
      BY <2>2 DEF ProcessingVerdict
    <3>3. Onward(Snapshot, j, "scan_acq")
      BY <1>4, <3>1, <3>2 DEF AcquireScanReset, At, Onward, WritePos, ScanPos, DestroyPos,
          NoWriterPos, BusyPos
    <3> QED
      BY <2>1, <3>1, <3>3, SnapshotX, CalmExclusion
  <2>3. CASE verdict # "acquired"
    <3>1. Moves(j, "scan_end")
      BY <1>4, <2>3, MovesFacts, SnapshotX DEF AcquireScanReset, Pos, OtherPos
    <3> QED
      BY <2>1, <3>1, SnapshotX, AsideExclusion DEF FreePos, OtherPos, WritePos
  <2> QED
    BY <2>2, <2>3
<1>5. CASE BeginScanDrain(j)
  <2>1. \/ Moves(j, "scan_drain") /\ job'[j].kind = job[j].kind
        \/ Moves(j, "scan_end")
    BY <1>5, MovesFacts, SnapshotX DEF BeginScanDrain, Pos, BusyPos, OtherPos
  <2>2. Calm(ps, j)
    BY <1>5, SnapshotX DEF BeginScanDrain, IfOwner, FreezeForManual, Status
  <2>3. CASE Moves(j, "scan_drain") /\ job'[j].kind = job[j].kind
    <3>1. Onward(ps, j, "scan_drain")
      BY <1>5, <2>3 DEF BeginScanDrain, At, Onward, WritePos, ScanPos, DestroyPos,
          NoWriterPos, BusyPos
    <3> QED
      BY <2>2, <2>3, <3>1, SnapshotX, CalmExclusion
  <2>4. CASE Moves(j, "scan_end")
    BY <2>2, <2>4, SnapshotX, AsideExclusion DEF FreePos, OtherPos, WritePos
  <2> QED
    BY <2>1, <2>3, <2>4
<1>6. CASE ConfirmScanDrain(j)
  <2>1. CASE PendingEnqueues(ps)
    BY <1>6, <2>1, SnapshotX, StillExclusion DEF ConfirmScanDrain
  <2>2. CASE ~PendingEnqueues(ps)
    <3>1. Moves(j, "scan_ready") /\ job'[j].kind = job[j].kind
      BY <1>6, <2>2, MovesFacts, SnapshotX DEF ConfirmScanDrain, Pos, BusyPos
    <3>2. Calm(ps, j)
      BY <1>6, <2>2 DEF ConfirmScanDrain
    <3>3. Onward(ps, j, "scan_ready")
      BY <1>6, <2>2, <3>1 DEF ConfirmScanDrain, At, Onward, WritePos, ScanPos, DestroyPos,
          NoWriterPos, BusyPos
    <3> QED
      BY <3>1, <3>2, <3>3, SnapshotX, CalmExclusion
  <2> QED
    BY <2>1, <2>2
<1>7. CASE EnterScanReset(j)
  <2>1. Moves(j, "scan_reset") /\ job'[j].kind = job[j].kind
    BY Zenon, <1>7, MovesFacts, SnapshotX DEF EnterScanReset, Pos, BusyPos
  <2>2. Calm(ps, j)
    BY <1>7, SnapshotX DEF EnterScanReset, EnterExclusiveReset, Status
  <2>3. Onward(ps, j, "scan_reset")
    BY <1>7, <2>1 DEF EnterScanReset, At, Onward, WritePos, ScanPos, DestroyPos,
        NoWriterPos, BusyPos
  <2> QED
    BY <2>1, <2>2, <2>3, SnapshotX, CalmExclusion
<1>8. CASE LeaveScanReset(j)
  <2>1. Calm(ps, j)
    BY <1>8, SnapshotX DEF LeaveScanReset, IfOwner, ManualIdle, FreeBusy, Status
  <2>2. CASE Move(j, "scan_end")
    <3>1. Moves(j, "scan_end")
      BY <1>8, <2>2, MovesFacts, SnapshotX DEF LeaveScanReset, Pos, OtherPos
    <3> QED
      BY <2>1, <3>1, SnapshotX, AsideExclusion DEF FreePos, OtherPos, WritePos
  <2>3. CASE At(j, "scan_reset") /\ Move(j, "scan_classify")
    <3>1. Moves(j, "scan_classify")
      BY <1>8, <2>3, MovesFacts, SnapshotX DEF LeaveScanReset, Pos, ScanPos
    <3>2. Onward(ps, j, "scan_classify")
      BY <2>3 DEF At, Onward, WritePos, ScanPos, DestroyPos, NoWriterPos, BusyPos
    <3> QED
      BY <2>1, <3>1, <3>2, SnapshotX, CalmExclusion
  <2> QED
    BY <1>8, <2>2, <2>3 DEF LeaveScanReset
<1>9. CASE FinishClassification(j)
  <2>1. Moves(j, "drive")
    BY Zenon, <1>9, MovesFacts, SnapshotX DEF FinishClassification, Pos, ScanPos
  <2>2. /\ ps'.destructive_busy = ps.destructive_busy
        /\ ps'.pending_enqueue_tokens = ps.pending_enqueue_tokens
        /\ force_dropped' = force_dropped
        /\ \/ KeepsScan(ps)
           \/ /\ OwnsScanning(ps, j) /\ ~ps'.scanning_exclusive
              /\ ps'.scanning_owner \in {ps.scanning_owner, None}
              /\ ps'.scanning => ps.scanning
    BY <1>9, SnapshotX DEF FinishClassification, Status
  <2> QED
    BY <2>1, <2>2, ScanLeavesExclusion DEF FreePos, OtherPos, WritePos
<1>10. CASE ScanFails(j)
  <2>1. Moves(j, "scan_end")
    BY Zenon, <1>10, MovesFacts, SnapshotX DEF ScanFails, Pos, OtherPos
  <2>2. Calm(ps, j)
    BY <1>10 DEF ScanFails
  <2> QED
    BY <2>1, <2>2, SnapshotX, AsideExclusion DEF FreePos, OtherPos, WritePos
<1>11. CASE ReleaseScan(j)
  <2>1. Moves(j, "scan_done")
    BY Zenon, <1>11, MovesFacts, SnapshotX DEF ReleaseScan, Pos, OtherPos
  <2>2. /\ ps'.destructive_busy = ps.destructive_busy
        /\ ps'.pending_enqueue_tokens = ps.pending_enqueue_tokens
        /\ force_dropped' = force_dropped
        /\ \/ KeepsScan(ps)
           \/ /\ OwnsScanning(ps, j) /\ ~ps'.scanning_exclusive
              /\ ps'.scanning_owner \in {ps.scanning_owner, None}
              /\ ps'.scanning => ps.scanning
    BY <1>11, SnapshotX DEF ReleaseScan, FreeScanning, Status
  <2> QED
    BY <2>1, <2>2, ScanLeavesExclusion DEF FreePos, OtherPos, WritePos
<1>12. CASE AfterScan(j)
  <2>1. Moves(j, "drive") \/ Moves(j, "done")
    BY Zenon, <1>12, MovesFacts, SnapshotX DEF AfterScan, Pos, OtherPos
  <2>2. Calm(ps, j)
    BY <1>12 DEF AfterScan
  <2> QED
    BY <2>1, <2>2, SnapshotX, AsideExclusion DEF FreePos, OtherPos, WritePos
<1> QED
  BY <1>1, <1>2, <1>3, <1>4, <1>5, <1>6, <1>7, <1>8, <1>9, <1>10, <1>11, <1>12 DEF ScanStep

\* What registering and unregistering change.
LEMMA RegisterFacts ==
    ASSUME TypeOK, NEW s \in Status, NEW j \in Jobs, NEW kind \in ReservationKind
    PROVE  LET t == Register(s, j, job[j].worker, kind)
               u == Unregister(s, j)
           IN  /\ t.scanning = s.scanning /\ t.scanning_exclusive = s.scanning_exclusive
               /\ t.scanning_owner = s.scanning_owner
               /\ t.destructive_busy = s.destructive_busy
               /\ Registered(t, j) /\ t.pending_enqueue_tokens[j].worker = job[j].worker
               /\ \A k \in Jobs \ {j} :
                     t.pending_enqueue_tokens[k] = s.pending_enqueue_tokens[k]
               /\ u.scanning = s.scanning /\ u.scanning_exclusive = s.scanning_exclusive
               /\ u.scanning_owner = s.scanning_owner
               /\ u.destructive_busy = s.destructive_busy
               /\ ~Registered(u, j)
               /\ \A k \in Jobs \ {j} :
                     u.pending_enqueue_tokens[k] = s.pending_enqueue_tokens[k]
<1> DEFINE m == [worker |-> job[j].worker, kind |-> kind]
<1>1. m \in EnqueueMeta /\ m # None
  BY StatusAssumption DEF EnqueueMeta, TypeOK, Job
<1>2. m.worker = job[j].worker
  OBVIOUS
<1> HIDE DEF m
<1>3. Register(s, j, job[j].worker, kind) = [s EXCEPT !.pending_enqueue_tokens[j] = m]
  BY DEF Register, m
<1> QED
  BY <1>1, <1>2, <1>3 DEF Unregister, Registered, Status

\* Exclusion: enqueueing, which registers in pending_enqueues.
LEMMA EnqueueStepExclusion ==
    ASSUME XInv, NEW j \in Jobs, EnqueueStep(j)
    PROVE  Exclusion(ps)'
<1> USE DEF Calm, KeepsScan, history
<1>1. CASE ReserveUpload(j)
  <2>1. CASE Refuse
    BY <2>1, RefuseExclusion
  <2>2. CASE ~Refuse
    <3>1. /\ ps' = Register(Snapshot, j, job[j].worker, "enqueue")
          /\ ~IngressFenced(Snapshot) /\ force_dropped' = force_dropped
          /\ Start(j, "upload", "reserved") /\ alive' = alive
      BY <1>1, <2>2 DEF ReserveUpload, Acquire
    <3>2. Moves(j, "reserved")
      BY Zenon, <3>1, MovesFacts, SnapshotX DEF JobKind, Pos, OtherPos
    <3> QED
      BY <3>1, <3>2, SnapshotX, RegisterFacts, EnqueueExclusion DEF ReservationKind
  <2> QED
    BY <2>1, <2>2
<1>2. CASE GuardUpload(j)
  <2>1. force_dropped' = force_dropped
    BY <1>2 DEF GuardUpload
  <2>2. CASE ps' = Unregister(Snapshot, j) /\ Move(j, "done")
    <3>1. Moves(j, "done")
      BY <1>2, <2>2, MovesFacts, SnapshotX DEF GuardUpload, Pos, OtherPos
    <3> QED
      BY <2>1, <2>2, <3>1, SnapshotX, RegisterFacts, EnqueueExclusion
         DEF ReservationKind, WritePos
  <2>3. CASE ps' = Snapshot /\ Move(j, "write")
    <3>1. Moves(j, "write")
      BY <1>2, <2>3, MovesFacts, SnapshotX DEF GuardUpload, Pos, OtherPos
    <3>2. Onward(Snapshot, j, "write")
      BY <1>2 DEF GuardUpload, At, Onward, WritePos, ScanPos, DestroyPos, NoWriterPos, BusyPos
    <3> QED
      BY <2>1, <2>3, <3>1, <3>2, SnapshotX, CalmExclusion
  <2> QED
    BY <1>2, <2>2, <2>3 DEF GuardUpload
<1>3. CASE GuardInsert(j)
  <2>1. CASE Refuse
    BY <2>1, RefuseExclusion
  <2>2. CASE ~Refuse
    <3>1. /\ ps' = Snapshot /\ force_dropped' = force_dropped
          /\ Start(j, "insert", "prepared") /\ alive' = alive
      BY <1>3, <2>2 DEF GuardInsert, Acquire
    <3>2. Moves(j, "prepared")
      BY Zenon, <3>1, MovesFacts, SnapshotX DEF JobKind, Pos, OtherPos
    <3> QED
      BY <3>1, <3>2, SnapshotX, AsideExclusion DEF FreePos, OtherPos, WritePos
  <2> QED
    BY <2>1, <2>2
<1>4. CASE MintInsert(j)
  <2>1. force_dropped' = force_dropped
    BY <1>4 DEF MintInsert
  <2>2. CASE ps' = Snapshot /\ Move(j, "done")
    <3>1. Moves(j, "done")
      BY <1>4, <2>2, MovesFacts, SnapshotX DEF MintInsert, Pos, OtherPos
    <3> QED
      BY <2>1, <2>2, <3>1, SnapshotX, AsideExclusion DEF FreePos, OtherPos, WritePos
  <2>3. CASE /\ ps' = Register(Snapshot, j, job[j].worker, "enqueue")
             /\ ~IngressFenced(Snapshot) /\ Move(j, "write")
    <3>1. Moves(j, "write")
      BY <1>4, <2>3, MovesFacts, SnapshotX DEF MintInsert, Pos, OtherPos
    <3> QED
      BY <2>1, <2>3, <3>1, SnapshotX, RegisterFacts, EnqueueExclusion DEF ReservationKind
  <2> QED
    BY <1>4, <2>2, <2>3 DEF MintInsert
<1>5. CASE ReserveRepair(j)
  <2>1. CASE Refuse
    BY <2>1, RefuseExclusion
  <2>2. CASE ~Refuse
    <3>1. /\ ps' = Register(Snapshot, j, job[j].worker, "source_repair")
          /\ ~IngressFenced(Snapshot) /\ force_dropped' = force_dropped
          /\ Start(j, "repair", "write") /\ alive' = alive
      BY <1>5, <2>2 DEF ReserveRepair, Acquire
    <3>2. Moves(j, "write")
      BY Zenon, <3>1, MovesFacts, SnapshotX DEF JobKind, Pos, OtherPos
    <3> QED
      BY <3>1, <3>2, SnapshotX, RegisterFacts, EnqueueExclusion DEF ReservationKind
  <2> QED
    BY <2>1, <2>2
<1>6. CASE ReleaseEnqueue(j)
  <2>1. ps' = Unregister(ps, j) /\ force_dropped' = force_dropped
    BY <1>6 DEF ReleaseEnqueue
  <2>2. Moves(j, "drive") \/ Moves(j, "done")
    BY Zenon, <1>6, MovesFacts, SnapshotX DEF ReleaseEnqueue, Pos, OtherPos
  <2>3. CASE Moves(j, "drive")
    BY <2>1, <2>3, SnapshotX, RegisterFacts, EnqueueExclusion DEF ReservationKind, WritePos
  <2>4. CASE Moves(j, "done")
    BY <2>1, <2>4, SnapshotX, RegisterFacts, EnqueueExclusion DEF ReservationKind, WritePos
  <2> QED
    BY <2>2, <2>3, <2>4
<1> QED
  BY <1>1, <1>2, <1>3, <1>4, <1>5, <1>6 DEF EnqueueStep

\* Exclusion: the processing run, its polls and its hand-over.
LEMMA ProcessStepExclusion ==
    ASSUME XInv, NEW j \in Jobs, ProcessStep(j)
    PROVE  Exclusion(ps)'
<1> USE DEF Calm, KeepsScan, history
<1>0. job[j].next \in FreePos
  BY SnapshotX DEF TypeOK, Job, FreePos, OtherPos, WritePos
<1>1. CASE StartProcess(j)
  <2>1. Moves(j, "drive")
    BY Zenon, <1>1, MovesFacts, SnapshotX DEF StartProcess, Pos, OtherPos, JobKind
  <2>2. Calm(ps, j)
    BY <1>1 DEF StartProcess
  <2> QED
    BY <2>1, <2>2, SnapshotX, AsideExclusion DEF FreePos, OtherPos, WritePos
<1>2. CASE AcquireProcessing(j)
  <2> DEFINE verdict == ProcessingVerdict(Snapshot, job[j].pos = "handoff", FALSE)
  <2>1. Calm(Snapshot, j)
    BY <1>2, SnapshotX DEF AcquireProcessing, ProcessingOutcome, GiveBusy, Status
  <2>2. CASE verdict = "acquired"
    <3>1. Moves(j, "run") /\ job'[j].kind = job[j].kind
      BY <1>2, <2>2, MovesFacts, SnapshotX DEF AcquireProcessing, Pos, BusyPos
    <3>2. ~Snapshot.scanning_exclusive \/ job[j].pos = "handoff"
      BY <2>2 DEF ProcessingVerdict
    <3>3. Onward(Snapshot, j, "run")
      BY <3>1, <3>2 DEF Onward, WritePos, ScanPos, DestroyPos, NoWriterPos, BusyPos
    <3> QED
      BY <2>1, <3>1, <3>3, SnapshotX, CalmExclusion
  <2>3. CASE verdict # "acquired"
    <3>1. Moves(j, job[j].next)
      BY <1>0, <1>2, <2>3, MovesFacts, SnapshotX DEF AcquireProcessing, Return, Pos, FreePos
    <3> QED
      BY <1>0, <2>1, <3>1, SnapshotX, AsideExclusion
  <2> QED
    BY <2>2, <2>3
<1>3. CASE NameRun(j)
  BY <1>3, SnapshotX, StillExclusion DEF NameRun, Status
<1>4. CASE BeginManualDrain(j)
  BY <1>4, SnapshotX, StillExclusion DEF BeginManualDrain, IfOwner, FreezeForManual, Status
<1>5. CASE DrainWait(j)
  BY <1>5, SnapshotX, StillExclusion DEF DrainWait
<1>6. CASE FenceStalledEnqueue(j)
  <2>1. Moves(j, "raise")
    BY Zenon, <1>6, MovesFacts, SnapshotX DEF FenceStalledEnqueue, Pos, OtherPos
  <2>2. Calm(ps, j)
    BY <1>6, SnapshotX DEF FenceStalledEnqueue, RaiseFence, Status
  <2> QED
    BY <2>1, <2>2, SnapshotX, AsideExclusion DEF FreePos, OtherPos, WritePos
<1>7. CASE DecideReset(j)
  <2>1. Moves(j, "reset_begin") /\ job'[j].kind = job[j].kind
    BY Zenon, <1>7, MovesFacts, SnapshotX DEF DecideReset, Pos, BusyPos
  <2>2. Calm(ps, j)
    BY <1>7 DEF DecideReset
  <2>3. Onward(ps, j, "reset_begin")
    BY <1>7, <2>1 DEF DecideReset, At, Onward, WritePos, ScanPos, DestroyPos, NoWriterPos,
        BusyPos
  <2> QED
    BY <2>1, <2>2, <2>3, SnapshotX, CalmExclusion
<1>8. CASE DrainMore(j)
  <2>1. \/ Moves(j, "run") /\ job'[j].kind = job[j].kind
        \/ Moves(j, "raise")
    BY Zenon, <1>8, MovesFacts, SnapshotX DEF DrainMore, Pos, BusyPos, OtherPos
  <2>2. Calm(ps, j)
    BY <1>8, SnapshotX DEF DrainMore, RaiseFence, Status
  <2>3. CASE Moves(j, "run") /\ job'[j].kind = job[j].kind
    <3>1. Onward(ps, j, "run")
      BY <1>8, <2>3 DEF DrainMore, At, Onward, WritePos, ScanPos, DestroyPos, NoWriterPos,
          BusyPos
    <3> QED
      BY <2>2, <2>3, <3>1, SnapshotX, CalmExclusion
  <2>4. CASE Moves(j, "raise")
    BY <2>2, <2>4, SnapshotX, AsideExclusion DEF FreePos, OtherPos, WritePos
  <2> QED
    BY <2>1, <2>3, <2>4
<1>9. CASE EnterReset(j)
  <2>1. Moves(j, "resetting") /\ job'[j].kind = job[j].kind
    BY Zenon, <1>9, MovesFacts, SnapshotX DEF EnterReset, Pos, BusyPos
  <2>2. Calm(ps, j)
    BY <1>9, SnapshotX DEF EnterReset, EnterExclusiveReset, Status
  <2>3. Onward(ps, j, "resetting")
    BY <1>9, <2>1 DEF EnterReset, At, Onward, WritePos, ScanPos, DestroyPos, NoWriterPos,
        BusyPos
  <2> QED
    BY <2>1, <2>2, <2>3, SnapshotX, CalmExclusion
<1>10. CASE EndManualDrain(j)
  <2>1. Moves(j, "run") /\ job'[j].kind = job[j].kind
    BY Zenon, <1>10, MovesFacts, SnapshotX DEF EndManualDrain, Pos, BusyPos
  <2>2. Calm(ps, j)
    BY <1>10, SnapshotX DEF EndManualDrain, IfOwner, ManualIdle, Status
  <2>3. Onward(ps, j, "run")
    BY <1>10, <2>1 DEF EndManualDrain, At, Onward, WritePos, ScanPos, DestroyPos, NoWriterPos,
        BusyPos
  <2> QED
    BY <2>1, <2>2, <2>3, SnapshotX, CalmExclusion
<1>11. CASE RunRaises(j)
  <2>1. Moves(j, "raise")
    BY Zenon, <1>11, MovesFacts, SnapshotX DEF RunRaises, Pos, OtherPos
  <2>2. Calm(ps, j)
    BY <1>11 DEF RunRaises
  <2> QED
    BY <2>1, <2>2, SnapshotX, AsideExclusion DEF FreePos, OtherPos, WritePos
<1>12. CASE RunCancelled(j)
  <2>1. Moves(j, "raise")
    BY Zenon, <1>12, MovesFacts, SnapshotX DEF RunCancelled, Pos, OtherPos
  <2>2. Calm(ps, j)
    BY <1>12, SnapshotX DEF RunCancelled, Uncancel, Status
  <2> QED
    BY <2>1, <2>2, SnapshotX, AsideExclusion DEF FreePos, OtherPos, WritePos
<1>13. CASE DecideReleased(j)
  <2>1. Moves(j, "released") \/ Moves(j, job[j].next)
    BY Zenon, <1>0, <1>13, MovesFacts, SnapshotX
       DEF DecideReleased, Return, Pos, FreePos, OtherPos
  <2>2. Calm(ps, j)
    BY <1>13, SnapshotX DEF DecideReleased, FreeBusy, Status
  <2> QED
    BY <1>0, <2>1, <2>2, SnapshotX, AsideExclusion DEF FreePos, OtherPos, WritePos
<1>14. CASE Finalize(j)
  <2>1. Moves(j, job[j].next)
    BY Zenon, <1>0, <1>14, MovesFacts, SnapshotX DEF Finalize, Return, Pos, FreePos
  <2>2. Calm(ps, j)
    BY <1>14, SnapshotX DEF Finalize, IfOwner, ManualIdle, FreeBusy, Uncancel, Status
  <2> QED
    BY <1>0, <2>1, <2>2, SnapshotX, AsideExclusion
<1> QED
  BY <1>1, <1>2, <1>3, <1>4, <1>5, <1>6, <1>7, <1>8, <1>9, <1>10, <1>11, <1>12, <1>13,
     <1>14 DEF ProcessStep

\* An operator's force reset: what it drops is remembered as dropped.
LEMMA ForceResetExclusion ==
    ASSUME XInv, ForceReset
    PROVE  Exclusion(ps)'
<1>1. /\ ~ps'.destructive_busy /\ ~ps'.scanning /\ ~ps'.scanning_exclusive
      /\ ps'.scanning_owner = None
      /\ \A k \in Jobs :
            \/ ps'.pending_enqueue_tokens[k] = ps.pending_enqueue_tokens[k]
            \/ Registered(ps, k) /\ ~Registered(ps', k)
  BY SnapshotX DEF ForceReset, ForceResetStatus, ManualIdle, FreeScanning, FreeDestructive,
      FreeBusy, Registered, Status
<1>2. /\ job' = job /\ alive' = alive /\ Fenced(ps)
      /\ force_dropped \subseteq force_dropped'
      /\ \A k \in Jobs :
            OwnsScanning(ps, k) \/ (Registered(ps, k) /\ ~Registered(ps', k))
                => k \in force_dropped'
  BY DEF ForceReset
<1>3. \A k \in Jobs : ~(Live(k) /\ job[k].pos \in BusyPos)
  BY <1>2, SnapshotX DEF StatusInv, FenceStopsHolders
<1>4. \A k \in Jobs : ~Scanning(k)' /\ ~Destroying(k)'
  BY <1>2, <1>3, SnapshotX
     DEF Scanning, Destroying, Live, BusyPos, Exclusion, ScansOwn
<1>5. WritersRegistered(ps)'
  BY <1>1, <1>2, SnapshotX DEF Exclusion, WritersRegistered, Live, Registered
<1>6. FlagsBar(ps)'
  BY <1>1, <1>4 DEF FlagsBar
<1>7. ResetsBar(ps)'
  BY <1>2, <1>3 DEF ResetsBar, Live, NoWriterPos, BusyPos
<1> QED
  BY <1>1, <1>4, <1>5, <1>6, <1>7 DEF Exclusion, ScansOwn, ScansAlone

\* Every step keeps the parts of the exclusion invariant.
LEMMA NextExclusion ==
    ASSUME XInv, [Next]_vars
    PROVE  XInv'
<1>1. IInv'
  BY NextInv DEF XInv
<1>2. ASSUME NEW j \in Jobs, JobStep(j) PROVE Exclusion(ps)'
  BY <1>2, AdminStepExclusion, PatchStepExclusion, DestructiveStepExclusion,
     ScanStepExclusion, EnqueueStepExclusion, ProcessStepExclusion DEF JobStep
<1>3. ASSUME CancelPipeline PROVE Exclusion(ps)'
  BY <1>3, SnapshotX, StillExclusion DEF CancelPipeline, Status, KeepsScan
<1>4. ASSUME NEW w \in Workers, WorkerDies(w) PROVE Exclusion(ps)'
  <2>1. /\ ps' = ps /\ job' = job /\ force_dropped' = force_dropped
        /\ \A k \in Jobs : Live(k)' => Live(k)
    BY <1>4 DEF WorkerDies, history, Live
  <2> QED
    BY <2>1, SnapshotX DEF Exclusion, WritersRegistered, ScansOwn, Scanning, OwnsScanning,
       FlagsBar, Destroying, ResetsBar, ScansAlone, Registered, PendingEnqueues
<1>5. ASSUME UNCHANGED vars PROVE Exclusion(ps)'
  BY <1>5, SnapshotX, StillExclusion DEF vars, KeepsScan
<1> QED
  BY <1>1, <1>2, <1>3, <1>4, <1>5, ForceResetExclusion DEF XInv, Next

\* The parts hold when the process starts.
LEMMA InitExclusion ==
    Init => XInv
<1> SUFFICES ASSUME Init PROVE Exclusion(ps)
  BY InitInv DEF XInv
<1>1. /\ ~ps.destructive_busy /\ ~ps.scanning_exclusive /\ ps.scanning_owner = None
      /\ \A k \in Jobs : ~Registered(ps, k)
  BY DEF Init, InitialStatus, Registered
<1>2. \A j \in Jobs : job[j].pos = "idle"
  BY DEF Init
<1> QED
  BY <1>1, <1>2 DEF Exclusion, WritersRegistered, WritePos, ScansOwn, Scanning, ScanPos,
     FlagsBar, Destroying, ResetsBar, NoWriterPos, ScansAlone

\* XInv holds in every reachable state.
LEMMA ExclusionHolds ==
    Spec => []XInv
BY InitExclusion, NextExclusion, PTL DEF Spec

\* Whoever needs the storage for itself has it: no enqueue writes and no scan
\* classifies while a clear or a batch deletion tears storage down, nobody writes
\* during an exclusive FAILED reset, and no run but one that a direct deletion
\* handed over reads the rows a scan rewrites.
THEOREM WorkIsExclusive ==
    Spec => []ExclusiveWork
BY ExclusionHolds, ExclusionSuffices, PTL

-----------------------------------------------------------------------------
(* What a step may never do.  Every step of a job changes the owner of the   *)
(* slot in one of four ways.                                                 *)

\* the owner leaves, on its own
Leaves(j) ==
    Live(j) /\ OwnsBusy(ps, j) /\ ps'.busy_owner = None /\ job'[j] # job[j]

\* j gets a free slot, or re-tags its own
Takes(j) ==
    /\ ~Fenced(Snapshot)
    /\ Snapshot.busy_owner = None \/ (Live(j) /\ OwnsBusy(Snapshot, j))
    /\ OwnsBusy(ps', j)

BusyMoves(j) ==
    \/ ps'.busy_owner = ps.busy_owner
    \/ ps'.busy_owner = Snapshot.busy_owner /\ (Fenced(Snapshot) => Fenced(ps'))
    \/ Leaves(j)
    \/ Takes(j)

\* no scan and no enqueue is admitted beyond those of s
AdmitsNobody(s) ==
    /\ ps'.scanning_owner \in {s.scanning_owner, None}
    /\ \A k \in Jobs : Registered(ps', k) => Registered(s, k)

Effect(j) ==
    /\ BusyMoves(j)
    /\ AdmitsNobody(ps) \/ AdmitsNobody(Snapshot) \/ ~Fenced(Snapshot)

\* A fence admits nobody, and a live owner leaves by itself.
LEMMA EffectSuffices ==
    ASSUME XInv, NEW j \in Jobs, Effect(j)
    PROVE  /\ DeadWriterFences /\ FenceAdmitsNobody
           /\ \A k \in Jobs :
                 OwnsBusy(ps, k) /\ Live(k) /\ ~OwnsBusy(ps', k) => job'[k] # job[k]
<1>0. IInv
  BY DEF XInv
<1>1. ASSUME NEW k \in Jobs, OwnsBusy(ps, k), Live(k)
      PROVE  ps.busy_owner.worker \in alive
  BY <1>1, SnapshotX DEF StatusInv, OwnerInPlace, OwnsBusy, Live
<1>2. Fenced(ps) => AdmitsNobody(ps)
  BY <1>0, SnapshotFacts DEF Effect, AdmitsNobody, Registered
<1>3. DeadWriterFences
  <2> SUFFICES ASSUME ps.busy_owner # None, ps.busy_owner.kind \notin Rerunnable,
                      ps.busy_owner.worker \notin alive,
                      ps'.busy_owner # ps.busy_owner
               PROVE  Fenced(ps') \/ Fenced(ps)
    BY DEF DeadWriterFences
  <2>1. ~Leaves(j)
    BY <1>1 DEF Leaves
  <2>2. ~Takes(j)
    BY <1>0, <1>1, SnapshotFacts DEF Takes, OwnsBusy
  <2> QED
    BY <1>0, <2>1, <2>2, SnapshotFacts DEF Effect, BusyMoves
<1>4. FenceAdmitsNobody
  <2> SUFFICES ASSUME Fenced(ps) PROVE ps'.busy_owner \in {ps.busy_owner, None}
    BY <1>2 DEF FenceAdmitsNobody, AdmitsNobody
  <2> QED
    BY <1>0, SnapshotFacts DEF Effect, BusyMoves, Leaves, Takes
<1>5. ASSUME NEW k \in Jobs, OwnsBusy(ps, k), Live(k), ~OwnsBusy(ps', k)
      PROVE  job'[k] # job[k]
  <2>1. Snapshot.busy_owner = ps.busy_owner
    BY <1>0, <1>1, <1>5, SnapshotFacts
  <2>2. ps'.busy_owner # ps.busy_owner
    BY <1>5 DEF OwnsBusy
  <2>3. ~Takes(j)
    BY <1>5, <2>1 DEF Takes, OwnsBusy
  <2>4. Leaves(j) /\ j = k
    BY <1>5, <2>1, <2>2, <2>3 DEF Effect, BusyMoves, Leaves, OwnsBusy
  <2> QED
    BY <2>4 DEF Leaves
<1> QED
  BY <1>3, <1>4, <1>5

\* A step that changes neither owner nor reservations.
LEMMA KeepsEffect ==
    ASSUME NEW j \in Jobs, NEW s \in {ps, Snapshot},
           ps'.busy_owner = s.busy_owner, Fenced(s) => Fenced(ps'),
           ps'.scanning_owner \in {s.scanning_owner, None},
           \/ ps'.pending_enqueue_tokens = s.pending_enqueue_tokens
           \/ \A k \in Jobs : Registered(ps', k) => Registered(s, k)
    PROVE  Effect(j)
BY DEF Effect, BusyMoves, AdmitsNobody, Registered

\* An owner-checked release of a job that moves.
LEMMA LeavesEffect ==
    ASSUME NEW j \in Jobs, Live(j), job'[j] # job[j],
           \/ ps'.busy_owner = ps.busy_owner
           \/ ps'.busy_owner = None /\ OwnsBusy(ps, j),
           ps'.scanning_owner = ps.scanning_owner,
           ps'.pending_enqueue_tokens = ps.pending_enqueue_tokens
    PROVE  Effect(j)
BY DEF Effect, BusyMoves, Leaves, AdmitsNobody, Registered

\* The slot is given out while the workspace is not fenced.
LEMMA TakesEffect ==
    ASSUME XInv, NEW j \in Jobs, NEW ok, ~Fenced(Snapshot),
           ~Snapshot.busy \/ (Live(j) /\ OwnsBusy(Snapshot, j)),
           ps'.busy_owner = OwnerRecord(j, job[j].worker, ok), ok \in OwnerKind
    PROVE  Effect(j)
<1>1. OwnerRecord(j, job[j].worker, ok) \in Owners
  BY SnapshotX DEF OwnerRecord, Owners, TypeOK, Job
<1>2. OwnsBusy(ps', j)
  BY <1>1, StatusAssumption DEF OwnsBusy, OwnerRecord
<1> QED
  BY <1>2, SnapshotX DEF Effect, BusyMoves, Takes, StatusInv

\* A reservation that is refused disturbs neither busy nor the fence.
LEMMA RefuseEffect ==
    ASSUME NEW j \in Jobs, Refuse
    PROVE  Effect(j)
BY KeepsEffect DEF Refuse

\* The effect of an administrator's or a patching step on busy and the fence.
LEMMA AdminPatchEffect ==
    ASSUME XInv, NEW j \in Jobs, AdminStep(j) \/ PatchStep(j)
    PROVE  Effect(j)
<1>0. job[j] \in Job /\ job \in [Jobs -> Job]
  BY SnapshotX DEF TypeOK
<1> USE DEF OwnerKind
<1>1. CASE AcquireAdmin(j)
  BY <1>1, RefuseEffect, TakesEffect, SnapshotX DEF AcquireAdmin, Acquire, GiveBusy, Me, Status
<1>2. CASE ReleaseAdmin(j)
  <2>1. Live(j) /\ job'[j] # job[j]
    BY <1>0, <1>2 DEF ReleaseAdmin, At, Drive, Move, Job
  <2> QED
    BY <1>2, <2>1, SnapshotX, LeavesEffect DEF ReleaseAdmin, IfOwner, FreeBusy, Status
<1>3. CASE AcquireCustomChunks(j)
  BY <1>3, RefuseEffect, TakesEffect, SnapshotX
     DEF AcquireCustomChunks, Acquire, GiveBusy, Uncancel, Me, Status
<1>4. CASE AcquireSdkDelete(j)
  BY <1>4, RefuseEffect, TakesEffect, SnapshotX
     DEF AcquireSdkDelete, GiveBusy, Uncancel, Me, Status
<1>5. CASE JoinBatchDelete(j)
  BY <1>5, KeepsEffect DEF JoinBatchDelete
<1>6. CASE LeaveJoined(j)
  BY <1>6, KeepsEffect DEF LeaveJoined
<1>7. CASE ExitHandoff(j)
  BY <1>7, SnapshotX, KeepsEffect DEF ExitHandoff, Uncancel, Status, Fenced
<1>8. CASE ExitRelease(j)
  <2>1. Live(j) /\ job'[j] # job[j]
    BY <1>0, <1>8 DEF ExitRelease, At, Move, Job
  <2> QED
    BY <1>8, <2>1, SnapshotX, LeavesEffect
       DEF ExitRelease, IfOwner, FreeBusy, Uncancel, Status
<1>9. CASE TerminalRelease(j)
  <2>1. Live(j) /\ job'[j] # job[j]
    BY <1>0, <1>9 DEF TerminalRelease, At, Move, Job
  <2> QED
    BY <1>9, <2>1, SnapshotX, LeavesEffect
       DEF TerminalRelease, IfOwner, FreeBusy, Uncancel, Status
<1> QED
  BY <1>1, <1>2, <1>3, <1>4, <1>5, <1>6, <1>7, <1>8, <1>9 DEF AdminStep, PatchStep

\* The effect of a destructive job's step.
LEMMA DestructiveEffect ==
    ASSUME XInv, NEW j \in Jobs, DestructiveStep(j)
    PROVE  Effect(j)
<1>0. job[j] \in Job /\ job \in [Jobs -> Job]
  BY SnapshotX DEF TypeOK
<1>1. ASSUME NEW kind, NEW ok \in OwnerKind, AcquireDestructive(j, kind, ok) PROVE Effect(j)
  BY <1>1, RefuseEffect, TakesEffect, SnapshotX
     DEF AcquireDestructive, Acquire, GiveBusy, Me, Status
<1>2. CASE AcquireBatchDelete(j) \/ AcquireClear(j)
  BY <1>1, <1>2 DEF AcquireBatchDelete, AcquireClear, OwnerKind
<1>3. CASE NameDestructive(j)
  BY <1>3, SnapshotX, KeepsEffect DEF NameDestructive, Status, Fenced
<1>4. CASE AbandonDestructive(j)
  <2>1. Live(j) /\ job'[j] # job[j]
    BY <1>0, <1>4 DEF AbandonDestructive, At, Move, Job
  <2> QED
    BY <1>4, <2>1, SnapshotX, LeavesEffect
       DEF AbandonDestructive, IfOwner, FreeDestructive, FreeBusy, Status
<1>5. CASE StopBatchDelete(j)
  BY <1>5, KeepsEffect DEF StopBatchDelete
<1>6. CASE ReleaseBatchDelete(j)
  <2>1. Live(j) /\ job'[j] # job[j]
    BY <1>0, <1>6 DEF ReleaseBatchDelete, At, Drive, Move, Job
  <2> QED
    BY <1>6, <2>1, SnapshotX, LeavesEffect
       DEF ReleaseBatchDelete, IfOwner, FreeDestructive, FreeBusy, Uncancel, Status
<1>7. CASE ReleaseClear(j)
  <2>1. Live(j) /\ job'[j] # job[j]
    BY <1>0, <1>7 DEF ReleaseClear, At, Move, Job
  <2> QED
    BY <1>7, <2>1, SnapshotX, LeavesEffect
       DEF ReleaseClear, IfOwner, FreeDestructive, FreeBusy, Status
<1> QED
  BY <1>2, <1>3, <1>4, <1>5, <1>6, <1>7 DEF DestructiveStep

\* acquire_processing_reservation, for a run or for the reset of a scan.
LEMMA ProcessingEffect ==
    ASSUME XInv, NEW j \in Jobs, Live(j), NEW held \in BOOLEAN, held => OwnsBusy(ps, j),
           NEW owns \in BOOLEAN,
           ps' = ProcessingOutcome(Snapshot, ProcessingVerdict(Snapshot, held, owns), j,
                                   job[j].worker, owns)
    PROVE  Effect(j)
<1> DEFINE verdict == ProcessingVerdict(Snapshot, held, owns)
<1>1. CASE verdict = "acquired"
  <2>1. ps'.busy_owner = OwnerRecord(j, job[j].worker, "processing")
    BY <1>1, SnapshotX DEF ProcessingOutcome, GiveBusy, Status
  <2>2. ~Fenced(Snapshot) /\ (~Snapshot.busy \/ held)
    BY <1>1 DEF ProcessingVerdict
  <2>3. held => OwnsBusy(Snapshot, j)
    <3>1. held => ps.busy_owner.worker \in alive
      BY SnapshotX DEF StatusInv, OwnerInPlace, OwnsBusy, Live
    <3> QED
      BY <3>1, SnapshotFacts DEF XInv, OwnsBusy
  <2> QED
    BY <2>1, <2>2, <2>3, TakesEffect DEF OwnerKind
<1>2. CASE verdict # "acquired"
  <2>1. \/ ps' = Snapshot
        \/ ps' = [Snapshot EXCEPT !.scan_deferred_processing = TRUE]
    BY <1>2 DEF ProcessingOutcome
  <2> QED
    BY <2>1, SnapshotX, KeepsEffect DEF Status, Fenced
<1> QED
  BY <1>1, <1>2

\* The effect of a scan's step.
LEMMA ScanEffect ==
    ASSUME XInv, NEW j \in Jobs, ScanStep(j)
    PROVE  Effect(j)
<1>0. job[j] \in Job /\ job \in [Jobs -> Job]
  BY SnapshotX DEF TypeOK
<1>1. CASE AcquireScan(j)
  <2>1. CASE Refuse
    BY <2>1, RefuseEffect
  <2>2. CASE ~Refuse
    <3>1. /\ ~Fenced(Snapshot)
          /\ ps' = [Snapshot EXCEPT !.scanning = TRUE, !.scanning_exclusive = TRUE,
                                    !.scanning_owner = Me(j, "scan")]
      BY <1>1, <2>2 DEF AcquireScan, Acquire
    <3> QED
      BY <3>1, SnapshotX DEF Effect, BusyMoves, Status
  <2> QED
    BY <2>1, <2>2
<1>2. CASE AbandonScan(j)
  BY <1>2, SnapshotX, KeepsEffect DEF AbandonScan, FreeScanning, Status, Fenced
<1>3. CASE CommitScan(j)
  BY <1>3, KeepsEffect DEF CommitScan
<1>4. CASE AcquireScanReset(j)
  <2>1. Live(j)
    BY <1>4 DEF AcquireScanReset, At
  <2> QED
    BY <1>4, <2>1, ProcessingEffect DEF AcquireScanReset, OwnsScanning
<1>5. CASE BeginScanDrain(j)
  BY <1>5, SnapshotX, KeepsEffect DEF BeginScanDrain, IfOwner, FreezeForManual, Status, Fenced
<1>6. CASE ConfirmScanDrain(j)
  BY <1>6, KeepsEffect DEF ConfirmScanDrain
<1>7. CASE EnterScanReset(j)
  BY <1>7, SnapshotX, KeepsEffect DEF EnterScanReset, EnterExclusiveReset, Status, Fenced
<1>8. CASE LeaveScanReset(j)
  <2>1. Live(j) /\ job'[j] # job[j]
    BY <1>0, <1>8 DEF LeaveScanReset, At, Move, Job
  <2> QED
    BY <1>8, <2>1, SnapshotX, LeavesEffect
       DEF LeaveScanReset, IfOwner, ManualIdle, FreeBusy, Status
<1>9. CASE FinishClassification(j)
  BY <1>9, SnapshotX, KeepsEffect DEF FinishClassification, Status, Fenced
<1>10. CASE ScanFails(j)
  BY <1>10, KeepsEffect DEF ScanFails
<1>11. CASE ReleaseScan(j)
  BY <1>11, SnapshotX, KeepsEffect DEF ReleaseScan, FreeScanning, Status, Fenced
<1>12. CASE AfterScan(j)
  BY <1>12, KeepsEffect DEF AfterScan
<1> QED
  BY <1>1, <1>2, <1>3, <1>4, <1>5, <1>6, <1>7, <1>8, <1>9, <1>10, <1>11, <1>12 DEF ScanStep

\* The effect of an enqueueing step.
LEMMA EnqueueEffect ==
    ASSUME XInv, NEW j \in Jobs, EnqueueStep(j)
    PROVE  Effect(j)
<1>1. ASSUME NEW s \in {ps, Snapshot}, ps' = Unregister(s, j) PROVE Effect(j)
  <2>1. s \in Status
    BY SnapshotX
  <2>2. /\ ps'.busy_owner = s.busy_owner /\ (Fenced(s) => Fenced(ps'))
        /\ ps'.scanning_owner = s.scanning_owner
        /\ \A k \in Jobs : Registered(ps', k) => Registered(s, k)
    BY <1>1, <2>1 DEF Unregister, Status, Fenced, Registered
  <2> QED
    BY <2>2, KeepsEffect
<1>2. ASSUME NEW kind, ps' = Register(Snapshot, j, job[j].worker, kind), ~Fenced(Snapshot)
      PROVE  Effect(j)
  <2>1. ps'.busy_owner = Snapshot.busy_owner
    BY <1>2, SnapshotX DEF Register, Status
  <2> QED
    BY <1>2, <2>1 DEF Effect, BusyMoves
<1>3. CASE ReserveUpload(j)
  BY <1>2, <1>3, RefuseEffect DEF ReserveUpload, Acquire
<1>4. CASE GuardUpload(j)
  BY <1>1, <1>4, KeepsEffect DEF GuardUpload
<1>5. CASE GuardInsert(j)
  BY <1>5, RefuseEffect, KeepsEffect DEF GuardInsert, Acquire
<1>6. CASE MintInsert(j)
  BY <1>2, <1>6, KeepsEffect DEF MintInsert
<1>7. CASE ReserveRepair(j)
  BY <1>2, <1>7, RefuseEffect DEF ReserveRepair, Acquire
<1>8. CASE ReleaseEnqueue(j)
  BY <1>1, <1>8 DEF ReleaseEnqueue
<1> QED
  BY <1>3, <1>4, <1>5, <1>6, <1>7, <1>8 DEF EnqueueStep

\* The effect of a step of the processing run.
LEMMA ProcessEffect ==
    ASSUME XInv, NEW j \in Jobs, ProcessStep(j)
    PROVE  Effect(j)
<1>0. job[j] \in Job /\ job \in [Jobs -> Job]
  BY SnapshotX DEF TypeOK
<1>1. CASE StartProcess(j)
  BY <1>1, KeepsEffect DEF StartProcess
<1>2. CASE AcquireProcessing(j)
  <2>1. Live(j) /\ (job[j].pos = "handoff" => OwnsBusy(ps, j))
    BY <1>2, SnapshotX DEF AcquireProcessing, At, StatusInv, HoldersOwn, BusyPos
  <2> QED
    BY <1>2, <2>1, ProcessingEffect DEF AcquireProcessing
<1>3. CASE NameRun(j)
  BY <1>3, SnapshotX, KeepsEffect DEF NameRun, Status, Fenced
<1>4. CASE BeginManualDrain(j)
  BY <1>4, SnapshotX, KeepsEffect DEF BeginManualDrain, IfOwner, FreezeForManual, Status, Fenced
<1>5. CASE DrainWait(j)
  BY <1>5, KeepsEffect DEF DrainWait
<1>6. CASE FenceStalledEnqueue(j)
  BY <1>6, SnapshotX, KeepsEffect DEF FenceStalledEnqueue, RaiseFence, Status, Fenced
<1>7. CASE DecideReset(j)
  BY <1>7, KeepsEffect DEF DecideReset
<1>8. CASE DrainMore(j)
  BY <1>8, SnapshotX, KeepsEffect DEF DrainMore, RaiseFence, Status, Fenced
<1>9. CASE EnterReset(j)
  BY <1>9, SnapshotX, KeepsEffect DEF EnterReset, EnterExclusiveReset, Status, Fenced
<1>10. CASE EndManualDrain(j)
  BY <1>10, SnapshotX, KeepsEffect DEF EndManualDrain, IfOwner, ManualIdle, Status, Fenced
<1>11. CASE RunRaises(j)
  BY <1>11, KeepsEffect DEF RunRaises
<1>12. CASE RunCancelled(j)
  BY <1>12, SnapshotX, KeepsEffect DEF RunCancelled, Uncancel, Status, Fenced
<1>13. CASE DecideReleased(j)
  <2>1. Live(j) /\ OwnsBusy(ps, j)
    BY <1>13, SnapshotX DEF DecideReleased, At, StatusInv, HoldersOwn, BusyPos
  <2>2. job'[j] # job[j]
    BY <1>0, <1>13 DEF DecideReleased, At, Move, Return, Job
  <2> QED
    BY <1>13, <2>1, <2>2, SnapshotX, LeavesEffect DEF DecideReleased, FreeBusy, Status
<1>14. CASE Finalize(j)
  <2>1. Live(j) /\ job'[j] # job[j]
    BY <1>0, <1>14 DEF Finalize, At, Move, Return, Job
  <2> QED
    BY <1>14, <2>1, SnapshotX, LeavesEffect
       DEF Finalize, IfOwner, ManualIdle, FreeBusy, Uncancel, Status
<1> QED
  BY <1>1, <1>2, <1>3, <1>4, <1>5, <1>6, <1>7, <1>8, <1>9, <1>10, <1>11, <1>12, <1>13,
     <1>14 DEF ProcessStep

\* the property OnlyHolderFrees is about one step
LosesByOwnStep ==
    \A j \in Jobs :
        OwnsBusy(ps, j) /\ Live(j) /\ ~OwnsBusy(ps', j) =>
            job'[j] # job[j] \/ (Fenced(ps) /\ ~Fenced(ps'))

\* The effect of any step of a job: busy moves by its holder, nobody passes the fence.
LEMMA StepEffect ==
    ASSUME XInv, [Next]_vars
    PROVE  LosesByOwnStep /\ DeadWriterFences /\ FenceAdmitsNobody
<1>1. ASSUME NEW j \in Jobs, JobStep(j)
      PROVE  LosesByOwnStep /\ DeadWriterFences /\ FenceAdmitsNobody
  <2>1. Effect(j)
    BY <1>1, AdminPatchEffect, DestructiveEffect, ScanEffect, EnqueueEffect, ProcessEffect
       DEF JobStep
  <2> QED
    BY <2>1, EffectSuffices DEF LosesByOwnStep
<1>2. ASSUME ps'.busy_owner = ps.busy_owner, ps'.scanning_owner = ps.scanning_owner,
             ps'.pending_enqueue_tokens = ps.pending_enqueue_tokens
      PROVE  LosesByOwnStep /\ DeadWriterFences /\ FenceAdmitsNobody
  BY <1>2 DEF LosesByOwnStep, OwnsBusy, DeadWriterFences, FenceAdmitsNobody, Registered
<1>3. CASE CancelPipeline
  BY <1>2, <1>3, SnapshotX DEF CancelPipeline, Status
<1>4. CASE ForceReset
  <2>1. /\ Fenced(ps) /\ ~Fenced(ps')
        /\ ps'.busy_owner = None /\ ps'.scanning_owner = None
        /\ \A k \in Jobs : Registered(ps', k) => Registered(ps, k)
    BY <1>4, SnapshotX DEF ForceReset, ForceResetStatus, ManualIdle, FreeScanning,
       FreeDestructive, FreeBusy, Registered, Fenced, Status
  <2> QED
    BY <2>1 DEF LosesByOwnStep, DeadWriterFences, FenceAdmitsNobody
<1>5. CASE \E w \in Workers : WorkerDies(w)
  BY <1>2, <1>5 DEF WorkerDies
<1>6. CASE UNCHANGED vars
  BY <1>2, <1>6 DEF vars
<1> QED
  BY <1>1, <1>3, <1>4, <1>5, <1>6 DEF Next

\* A live job loses the busy slot by a step of its own or by the force reset of
\* a fenced workspace: nobody else's release, finalizer or reclaim takes it.
THEOREM HolderFrees ==
    Spec => OnlyHolderFrees
<1>1. XInv /\ [Next]_vars => [LosesByOwnStep]_vars
  BY StepEffect
<1>2. Spec => [][LosesByOwnStep]_vars
  BY <1>1, ExclusionHolds, PTL DEF Spec
<1> QED
  BY <1>2 DEF OnlyHolderFrees, LosesByOwnStep

\* A dead holder that cannot be run again leaves the recovery fence behind, and a
\* fenced workspace gives out neither slot and no enqueue reservation.
THEOREM FenceHolds ==
    Spec => RecoveryFence
<1>1. XInv /\ [Next]_vars => [DeadWriterFences /\ FenceAdmitsNobody]_vars
  BY StepEffect
<1> QED
  BY <1>1, ExclusionHolds, PTL DEF Spec, RecoveryFence
=============================================================================
