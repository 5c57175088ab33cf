----------------------- MODULE SchedulerScenes_proofs -----------------------
(***************************************************************************)
(* The properties of MCPipelineScheduler, for whatever its jobs and the     *)
(* capacities are: the theorems of PipelineScheduler_proofs, applied to the *)
(* five scenes.                                                             *)
(***************************************************************************)
EXTENDS MCPipelineScheduler

\* The assumptions of the proofs hold in every scene.
LEMMA ScenesAssumed ==
    /\ Guarded
    /\ Unpaged!StatusAssumption /\ Unpaged!MailboxAssumption
    /\ Unpaged!SchedulerAssumption /\ Unpaged!Guarded
    /\ Faulty!StatusAssumption /\ Faulty!MailboxAssumption
    /\ Faulty!SchedulerAssumption /\ Faulty!Guarded
    /\ Retry!StatusAssumption /\ Retry!MailboxAssumption
    /\ Retry!SchedulerAssumption /\ Retry!Guarded
    /\ Fence!StatusAssumption /\ Fence!MailboxAssumption
    /\ Fence!SchedulerAssumption /\ Fence!Guarded
<1>1. Guarded
  BY ScenesAssumption DEF Guarded, NoStall
<1>2. /\ \A S : S \subseteq 1 .. 3 /\ None \in S => None \in 1 .. 4
      /\ \A S : S \subseteq 1 .. 2 /\ None \in S => None \in 1 .. 4
  OBVIOUS
<1>3. /\ Unpaged!StatusAssumption /\ Unpaged!MailboxAssumption
      /\ Unpaged!SchedulerAssumption /\ Unpaged!Guarded
  <2>1. Unpaged!StatusAssumption
    BY StatusAssumption
    DEF StatusAssumption, Unpaged!StatusAssumption, Owners, Unpaged!Owners, EnqueueMeta,
        Unpaged!EnqueueMeta, FenceKind, Unpaged!FenceKind, OwnerKind, Unpaged!OwnerKind,
        ReservationKind, Unpaged!ReservationKind, Rerunnable, Unpaged!Rerunnable
  <2>2. Unpaged!MailboxAssumption
    BY MailboxAssumption DEF MailboxAssumption, Unpaged!MailboxAssumption
  <2>3. Unpaged!SchedulerAssumption
    BY SchedulerAssumption, ScenesAssumption, <1>2
    DEF SchedulerAssumption, Unpaged!SchedulerAssumption, Docs, Unpaged!Docs, JobKind,
       Unpaged!JobKind, FaultKind, Unpaged!FaultKind,
        RowStatus, Unpaged!RowStatus
  <2>4. Unpaged!Guarded
    BY ScenesAssumption DEF Unpaged!Guarded, Unpaged!NoStall
  <2> QED
    BY <2>1, <2>2, <2>3, <2>4
<1>4. /\ Faulty!StatusAssumption /\ Faulty!MailboxAssumption
      /\ Faulty!SchedulerAssumption /\ Faulty!Guarded
  <2>1. Faulty!StatusAssumption
    BY StatusAssumption
    DEF StatusAssumption, Faulty!StatusAssumption, Owners, Faulty!Owners, EnqueueMeta,
        Faulty!EnqueueMeta, FenceKind, Faulty!FenceKind, OwnerKind, Faulty!OwnerKind,
        ReservationKind, Faulty!ReservationKind, Rerunnable, Faulty!Rerunnable
  <2>2. Faulty!MailboxAssumption
    BY MailboxAssumption DEF MailboxAssumption, Faulty!MailboxAssumption
  <2>3. Faulty!SchedulerAssumption
    BY SchedulerAssumption, ScenesAssumption, <1>2
    DEF SchedulerAssumption, Faulty!SchedulerAssumption, Docs, Faulty!Docs, JobKind,
       Faulty!JobKind, FaultKind, Faulty!FaultKind,
        RowStatus, Faulty!RowStatus
  <2>4. Faulty!Guarded
    BY ScenesAssumption DEF Faulty!Guarded, Faulty!NoStall
  <2> QED
    BY <2>1, <2>2, <2>3, <2>4
<1>5. /\ Retry!StatusAssumption /\ Retry!MailboxAssumption
      /\ Retry!SchedulerAssumption /\ Retry!Guarded
  <2>1. Retry!StatusAssumption
    BY StatusAssumption
    DEF StatusAssumption, Retry!StatusAssumption, Owners, Retry!Owners, EnqueueMeta,
        Retry!EnqueueMeta, FenceKind, Retry!FenceKind, OwnerKind, Retry!OwnerKind,
        ReservationKind, Retry!ReservationKind, Rerunnable, Retry!Rerunnable
  <2>2. Retry!MailboxAssumption
    BY MailboxAssumption DEF MailboxAssumption, Retry!MailboxAssumption
  <2>3. Retry!SchedulerAssumption
    BY SchedulerAssumption, ScenesAssumption, <1>2
    DEF SchedulerAssumption, Retry!SchedulerAssumption, Docs, Retry!Docs, JobKind, Retry!JobKind,
       FaultKind, Retry!FaultKind,
        RowStatus, Retry!RowStatus
  <2>4. Retry!Guarded
    BY ScenesAssumption DEF Retry!Guarded, Retry!NoStall
  <2> QED
    BY <2>1, <2>2, <2>3, <2>4
<1>6. /\ Fence!StatusAssumption /\ Fence!MailboxAssumption
      /\ Fence!SchedulerAssumption /\ Fence!Guarded
  <2>1. Fence!StatusAssumption
    BY StatusAssumption
    DEF StatusAssumption, Fence!StatusAssumption, Owners, Fence!Owners, EnqueueMeta,
        Fence!EnqueueMeta, FenceKind, Fence!FenceKind, OwnerKind, Fence!OwnerKind,
        ReservationKind, Fence!ReservationKind, Rerunnable, Fence!Rerunnable
  <2>2. Fence!MailboxAssumption
    BY MailboxAssumption DEF MailboxAssumption, Fence!MailboxAssumption
  <2>3. Fence!SchedulerAssumption
    BY SchedulerAssumption, ScenesAssumption, <1>2, SMTT(20)
    DEF SchedulerAssumption, Fence!SchedulerAssumption, Docs, Fence!Docs, JobKind, Fence!JobKind,
       FaultKind, Fence!FaultKind,
        RowStatus, Fence!RowStatus
  <2>4. Fence!Guarded
    BY ScenesAssumption DEF Fence!Guarded, Fence!NoStall
  <2> QED
    BY <2>1, <2>2, <2>3, <2>4
<1> QED
  BY <1>1, <1>3, <1>4, <1>5, <1>6

-----------------------------------------------------------------------------
(* All scenes together *)

\* The invariant of the scene that is played.
SceneInv ==
    CASE scene = "faulty" -> Faulty!IInv
      [] scene = "unpaged" -> Unpaged!IInv
      [] scene = "retry" -> Retry!IInv
      [] scene = "fence" -> Fence!IInv
      [] OTHER -> IInv

\* It holds in the beginning and after every step.
LEMMA SceneInvHolds == SceneSpec => []SceneInv
<1>1. SceneInit => SceneInv
  BY ScenesAssumed, InitInv, Unpaged!InitInv, Faulty!InitInv, Retry!InitInv, Fence!InitInv
     DEF SceneInit, SceneInv
<1>2. SceneInv /\ [SceneNext]_<<vars, scene>> => SceneInv'
  <2> SUFFICES ASSUME SceneInv, [SceneNext]_<<vars, scene>>
               PROVE  SceneInv'
    OBVIOUS
  <2>1. scene' = scene
    BY DEF SceneNext
  <2>2. CASE scene = "unpaged"
    <3>1. Unpaged!IInv /\ (Unpaged!Next \/ UNCHANGED Unpaged!vars)
      BY <2>2 DEF SceneInv, SceneNext, vars, Unpaged!vars
    <3>2. Unpaged!IInv'
      BY <3>1, ScenesAssumed, Unpaged!NextInv
    <3> QED
      BY <2>1, <2>2, <3>2 DEF SceneInv
  <2>3. CASE scene = "faulty"
    <3>1. Faulty!IInv /\ (Faulty!Next \/ UNCHANGED Faulty!vars)
      BY <2>3 DEF SceneInv, SceneNext, vars, Faulty!vars
    <3>2. Faulty!IInv'
      BY <3>1, ScenesAssumed, Faulty!NextInv
    <3> QED
      BY <2>1, <2>3, <3>2 DEF SceneInv
  <2>4. CASE scene = "retry"
    <3>1. Retry!IInv /\ (Retry!Next \/ UNCHANGED Retry!vars)
      BY <2>4 DEF SceneInv, SceneNext, vars, Retry!vars
    <3>2. Retry!IInv'
      BY <3>1, ScenesAssumed, Retry!NextInv
    <3> QED
      BY <2>1, <2>4, <3>2 DEF SceneInv
  <2>5. CASE scene = "fence"
    <3>1. Fence!IInv /\ (Fence!Next \/ UNCHANGED Fence!vars)
      BY <2>5 DEF SceneInv, SceneNext, vars, Fence!vars
    <3>2. Fence!IInv'
      BY <3>1, ScenesAssumed, Fence!NextInv
    <3> QED
      BY <2>1, <2>5, <3>2 DEF SceneInv
  <2>6. CASE scene \notin {"unpaged", "faulty", "retry", "fence"}
    <3>1. IInv /\ [Next]_vars
      BY <2>6 DEF SceneInv, SceneNext, vars
    <3>2. IInv'
      BY <3>1, NextInv
    <3> QED
      BY <2>1, <2>6, <3>2 DEF SceneInv
  <2> QED
    BY <2>2, <2>3, <2>4, <2>5, <2>6
<1> QED
  BY <1>1, <1>2, PTL DEF SceneSpec

\* In every scene whoever resets the FAILED documents finds nobody's document waiting and
\* nobody writing, also after a drain that stalled and was fenced, with a row that bars
\* the reset (_confirm_auto_drained, _run_exclusive_failed_reset).
THEOREM ResetsAreIdle == SceneSpec => []ResetsFindIdle
<1>1. SceneInv => ResetsFindIdle
  BY ScenesAssumed, IInvMeans, Unpaged!IInvMeans, Retry!IInvMeans, Fence!IInvMeans
     DEF SceneInv, ResetsFindIdle
<1> QED
  BY <1>1, SceneInvHolds, PTL

\* The mailbox stays within its capacities (_BoundedTerminalIds, put_documents), and a
\* batch within a page.
THEOREM BoundsAreKept == SceneSpec => []BoundsHold
<1>1. SceneInv => BoundsHold
  BY ScenesAssumed, IInvMeans, Unpaged!IInvMeans, Faulty!IInvMeans, Retry!IInvMeans,
     Fence!IInvMeans
     DEF SceneInv, BoundsHold
<1> QED
  BY <1>1, SceneInvHolds, PTL

\* A manual retry is acknowledged with every FAILED document put back, also where pages
\* and batches fail in between (ack_manual_retry).
THEOREM AcksAfterResets == SceneSpec => AcksMeanReset
<1>1. SceneInv /\ [SceneNext]_<<vars, scene>> =>
        [ /\ scene = "unpaged" => Unpaged!AckMeansResetStep
          /\ scene = "retry" => Retry!AckMeansResetStep ]_<<vars, scene>>
  BY ScenesAssumed, Unpaged!StepMeans, Retry!StepMeans
     DEF SceneInv, SceneNext, vars, Unpaged!vars, Retry!vars
<1> QED
  BY <1>1, SceneInvHolds, PTL DEF SceneSpec, AcksMeanReset

\* The row of an accepted document is kept while storage fails, and no processed document
\* is taken up again.
THEOREM DocumentsAreKept == SceneSpec => DocsAreKept
<1>1. SceneInv /\ [SceneNext]_<<vars, scene>> =>
        [ /\ scene = "faulty" => Faulty!AcceptedIsKeptStep
          /\ scene = "paged" => ProcessedStaysStep ]_<<vars, scene>>
  BY ScenesAssumed, Faulty!StepMeans, StepMeans
     DEF SceneInv, SceneNext, vars, Faulty!vars
<1> QED
  BY <1>1, SceneInvHolds, PTL DEF SceneSpec, DocsAreKept

-----------------------------------------------------------------------------
(* The wake-ups *)

\* No failure of these scenes loses a signal.
LEMMA ScenesCalm == Calm /\ Unpaged!Calm /\ Faulty!Calm
BY ScenesAssumption DEF Calm, Unpaged!Calm, Faulty!Calm

\* The account of the wake-ups in the scenes where they are not lost.
SceneSignals ==
    /\ scene = "paged" => QInv
    /\ scene = "unpaged" => Unpaged!QInv
    /\ scene = "faulty" => Faulty!QInv

\* It holds in the beginning and after every step.
LEMMA SceneSignalsHold == SceneSpec => []SceneSignals
<1>1. SceneInit => SceneSignals
  BY ScenesAssumed, ScenesCalm, InitSignals, Unpaged!InitSignals, Faulty!InitSignals
     DEF SceneInit, SceneSignals
<1>2. SceneInv /\ SceneSignals /\ [SceneNext]_<<vars, scene>> => SceneSignals'
  <2> SUFFICES ASSUME SceneInv, SceneSignals, [SceneNext]_<<vars, scene>>
               PROVE  SceneSignals'
    OBVIOUS
  <2>1. scene' = scene
    BY DEF SceneNext
  <2>2. CASE scene = "unpaged"
    <3>1. Unpaged!IInv /\ Unpaged!QInv /\ (Unpaged!Next \/ UNCHANGED Unpaged!vars)
      BY <2>2 DEF SceneInv, SceneSignals, SceneNext, vars, Unpaged!vars
    <3>2. Unpaged!QInv'
      BY <3>1, ScenesAssumed, ScenesCalm, Unpaged!NextSignals
    <3> QED
      BY <2>1, <2>2, <3>2 DEF SceneSignals
  <2>3. CASE scene = "faulty"
    <3>1. Faulty!IInv /\ Faulty!QInv /\ (Faulty!Next \/ UNCHANGED Faulty!vars)
      BY <2>3 DEF SceneInv, SceneSignals, SceneNext, vars, Faulty!vars
    <3>2. Faulty!QInv'
      BY <3>1, ScenesAssumed, ScenesCalm, Faulty!NextSignals
    <3> QED
      BY <2>1, <2>3, <3>2 DEF SceneSignals
  <2>4. CASE scene = "paged"
    <3>1. IInv /\ QInv /\ [Next]_vars
      BY <2>4 DEF SceneInv, SceneSignals, SceneNext, vars
    <3>2. QInv'
      BY <3>1, ScenesCalm, NextSignals
    <3> QED
      BY <2>1, <2>4, <3>2 DEF SceneSignals
  <2> QED
    BY <2>1, <2>2, <2>3, <2>4 DEF SceneSignals
<1> QED
  BY <1>1, <1>2, SceneInvHolds, PTL DEF SceneSpec

\* When all jobs have ended nothing is left over where nothing fails, with status pages
\* and without; and where pages, rows, publishes and contents fail, whatever still waits
\* has a wake-up in the mailbox (_decide_pipeline_next_step, _finalize).
THEOREM NobodyIsStranded == SceneSpec => []NothingStranded
<1>1. SceneInv /\ SceneSignals => NothingStranded
  <2> SUFFICES ASSUME SceneInv, SceneSignals
               PROVE  NothingStranded
    OBVIOUS
  <2>1. CASE scene = "paged"
    <3>1. IInv /\ QInv
      BY <2>1 DEF SceneInv, SceneSignals
    <3>2. NoStrandedWork
      BY <3>1, QInvMeans, ScenesAssumption DEF NoStrandedWork
    <3> QED
      BY <2>1, <3>2 DEF NothingStranded
  <2>2. CASE scene = "unpaged"
    <3>1. /\ Unpaged!IInv /\ Unpaged!QInv
          /\ Unpaged!Quiescent => Unpaged!Owed = {} /\ ~Unpaged!HasWork(mb)
      BY <2>2, ScenesAssumed, Unpaged!QInvMeans, ScenesAssumption
         DEF SceneInv, SceneSignals
    <3>2. NoStrandedWork
      BY <3>1
         DEF NoStrandedWork, Quiescent, Unpaged!Quiescent, Owed, Unpaged!Owed, AutoResume,
             Unpaged!AutoResume, HasWork, Unpaged!HasWork, HasManualRetry, Unpaged!HasManualRetry
    <3> QED
      BY <2>2, <3>2 DEF NothingStranded
  <2>3. CASE scene = "faulty"
    <3>1. /\ Faulty!IInv /\ Faulty!QInv
          /\ Faulty!Quiescent /\ Faulty!Owed # {} => Faulty!HasWork(mb)
      BY <2>3, ScenesAssumed, Faulty!QInvMeans
         DEF SceneInv, SceneSignals
    <3>2. SignalSurvives
      BY <3>1, ScenesAssumption
         DEF SignalSurvives, Quiescent, Faulty!Quiescent, Owed, Faulty!Owed, AutoResume,
             Faulty!AutoResume, HasWork, Faulty!HasWork, HasManualRetry, Faulty!HasManualRetry
    <3> QED
      BY <2>3, <3>2 DEF NothingStranded
  <2> QED
    BY <2>1, <2>2, <2>3 DEF NothingStranded
<1> QED
  BY <1>1, SceneInvHolds, SceneSignalsHold, PTL
=============================================================================
