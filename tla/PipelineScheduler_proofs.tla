----------------------- MODULE PipelineScheduler_proofs -----------------------
(***************************************************************************)
(* Proofs about the processing run and those who feed it.                   *)
(*                                                                          *)
(* IInv says who holds the busy slot, what the run knows of its documents   *)
(* at each of its positions, and what a drain keeps out.  QInv follows the  *)
(* wake-ups: every document that waits has one, with its publisher, in the  *)
(* mailbox or with the run.                                                 *)
(***************************************************************************)
EXTENDS PipelineScheduler, FiniteSetTheorems, WellFoundedInduction,
        SequenceTheorems, TLAPS

-----------------------------------------------------------------------------
(* The inductive invariant *)

\* force_reset_recovery forgets the enqueues that stalled a drain
NoStall == "stall" \notin Faults

\* where they can be forgotten, an unfinished journal bars every reset
Guarded == ~NoStall => Journaled \ (OldFailed \cup Stubs) # {}

Holding == RunPos \cup {"body", "handoff"}

Writing == {"content", "status"}

Unpublished == Writing \cup {"leave", "publish"}

Run ==
    [step : Step, docs : SUBSET Docs, cursor : CURSOR_START .. CURSOR_END,
     uncommitted : BOOLEAN, drained : Seq(Docs), request : Jobs \cup {None},
     blocked : BOOLEAN, inflight : SUBSET Docs, active : SUBSET Docs,
     feeding : BOOLEAN, feed : Seq(Docs), pending : SUBSET Docs,
     deferred : Seq(Docs), blocking : SUBSET Docs, repeats : Nat]

Job == [kind : JobKind, pos : Pos, doc : Docs \cup {None}, next : {"done", "terminal"}]

JobsTyped(jobs) ==
    /\ jobs \in [Jobs -> Job]
    /\ \A j \in Jobs : jobs[j].pos \in Unpublished => jobs[j].doc \in Docs

\* a finished request, as the mailbox remembers it
Ended == [id : Jobs \cup {None}, state : {"acked", "cancelled_by_clear"}]

Mailbox(m) ==
    /\ DOMAIN m = {"documents", "auto_rescan_pending", "manual_retries", "terminal_ids"}
    /\ m = [f \in DOMAIN m |-> m[f]]
    /\ m.documents \in Seq(Docs) /\ Len(m.documents) <= DocumentCapacity
    /\ m.manual_retries \in Seq(Jobs) /\ Len(m.manual_retries) <= ManualCapacity
    /\ m.auto_rescan_pending \in BOOLEAN
    /\ m.terminal_ids \in Seq(Ended) /\ Len(m.terminal_ids) <= TerminalCapacity

Typed ==
    /\ ps \in Status
    /\ Mailbox(mb)
    /\ row \in [Docs -> RowStatus \cup {None}]
    /\ content \subseteq Docs
    /\ JobsTyped(job)
    /\ run \in [Jobs -> Run]

\* Whoever is in a run, or in the body of a job that took the pipeline, holds the
\* busy slot, and the workspace is not fenced.
Slot ==
    \A j \in Jobs : job[j].pos \in Holding => OwnsBusy(ps, j) /\ ps.busy /\ ~Fenced(ps)

\* A drain and the reset refuse new enqueues.
Frozen == ps.manual_phase # "IDLE" => ps.manual_freeze_requested

Unstalled == NoStall => ps.recovery_required # "manual_drain_enqueue_stalled"

\* An insert owns its document; its row does not exist before its content does.
Inserting ==
    /\ \A j, k \in Jobs : job[j].doc # None /\ job[j].doc = job[k].doc => j = k
    /\ \A k \in Jobs : job[k].pos \in Writing =>
          /\ job[k].doc \in Docs /\ row[job[k].doc] = None
          /\ job[k].pos = "status" => job[k].doc \in content
          /\ NoStall => Registered(ps, k)

\* Nobody touches the rows with an unfinished journal.
Journal ==
    \A d \in Journaled :
        row[d] = IF d \in OldFailed \cup Stubs THEN "FAILED" ELSE "ACTIVE"

\* A row without content is a stub or was orphaned from the start.
Backed == \A d \in Docs \ content : row[d] \in {None, "FAILED"} \/ d \in Orphans

\* The locals of a run, wherever it is.
Local(r) ==
    /\ r.docs \cap Journaled = {} /\ r.docs \subseteq content \cup Orphans
    /\ r.active \subseteq r.inflight /\ r.active \subseteq content \ Journaled
    /\ (PageSize > 0) => /\ Cardinality(r.docs) <= PageSize
                         /\ Cardinality(r.inflight) <= PageSize

\* What a run knows at each of its positions.
Known(j) ==
    LET r == run[j]
        pos == job[j].pos
    IN  /\ pos # "batch" => /\ r.active = {} /\ r.inflight = {} /\ r.pending = {}
                            /\ r.feed = <<>> /\ r.deferred = <<>> /\ ~r.feeding
        /\ pos \notin RunPos \cup {"raise"} => r = NoRun
        /\ (pos = "loop" /\ ~ps.cancellation_requested) =>
              \A d \in r.docs : row[d] \in AutoResume
        /\ pos = "validate" => \A d \in r.docs : row[d] \in AutoResume
        /\ pos = "wait" => r.docs = {}
        /\ pos = "batch" =>
              /\ \A d \in r.active : row[d] \in AutoResume
              /\ \A d \in r.pending \ r.inflight : row[d] = "PENDING"

\* The confirmation of the drain, the reset and its acknowledgement.
Reset(j) ==
    LET r == run[j]
        pos == job[j].pos
    IN  /\ pos \in {"confirm", "enter", "reset", "ack"} =>
              /\ ps.manual_freeze_requested
              /\ NoStall => \A k \in Jobs : job[k].pos \notin Writing
        /\ pos = "confirm" =>
              \A d \in Docs :
                  (row[d] \in AutoResume /\ d <= r.cursor /\ (NoStall \/ d \in Journaled))
                  => d \in Journaled /\ r.blocked
        /\ Guarded /\ (pos = "enter" \/ (pos = "reset" /\ r.cursor = CURSOR_START)) =>
              \A d \in Docs : row[d] \notin AutoResume
        /\ Guarded /\ pos \in {"enter", "reset", "ack"} => NoStall
        /\ pos = "reset" =>
              \A d \in content \ Journaled : (d <= r.cursor) => row[d] # "FAILED"
        /\ pos = "ack" => \A d \in content \ Journaled : row[d] # "FAILED"

IInv ==
    /\ Typed /\ Slot /\ Frozen /\ Unstalled /\ Inserting /\ Journal /\ Backed
    /\ \A j \in Jobs : Local(run[j]) /\ Known(j) /\ Reset(j)

-----------------------------------------------------------------------------
(* Pages *)

\* A page is a set of document ids, and so it has a largest one.
LEMMA DocsAreFinite == IsFiniteSet(Docs) /\ Docs \subseteq Nat /\ CURSOR_END \in Nat
<1>1. NDocs \in Nat
  BY SchedulerAssumption
<1>2. IsFiniteSet(1 .. NDocs)
  BY <1>1, FS_Interval
<1> QED
  BY <1>1, <1>2 DEF Docs, CURSOR_END

\* A non-empty set of numbers has a smallest element: the one below which the set
\* is smallest, in the well-founded order of the finite sets of numbers.
LEMMA MinIsIn ==
    ASSUME NEW S, S \subseteq Nat, S # {}
    PROVE  Min(S) \in S /\ \A k \in S : Min(S) =< k
<1> DEFINE UpTo(k) == {l \in S : l =< k}
           T == {UpTo(k) : k \in S}
<1>1. \A k \in S : IsFiniteSet(UpTo(k))
  BY FS_BoundedSetOfNaturals
<1>2. T \subseteq FiniteSubsetsOf(Nat) /\ T # {}
  BY <1>1 DEF FiniteSubsetsOf
<1>3. PICK L \in T : \A M \in T : ~ (<<M, L>> \in StrictSubsetOrdering(Nat))
  BY <1>2, WFMin, FS_StrictSubsetOrderingWellFounded
<1>4. PICK m \in S : L = UpTo(m)
  OBVIOUS
<1>5. ASSUME NEW k \in S, k < m
      PROVE  FALSE
  <2>0. UpTo(k) \in T
    OBVIOUS
  <2>1. UpTo(k) \subseteq UpTo(m) /\ m \in UpTo(m) \ UpTo(k)
    <3>1. k \in Nat /\ m \in Nat /\ \A l \in S : l =< k => l =< m
      BY <1>5
    <3>2. ~ (m =< k) /\ m =< m
      BY <1>5, <3>1
    <3> QED
      BY <3>1, <3>2, Zenon
  <2>2. UpTo(k) \in SUBSET Nat /\ UpTo(m) \in SUBSET Nat /\ UpTo(k) # UpTo(m)
    BY <2>1
  <2> HIDE DEF UpTo, T
  <2>3. <<UpTo(k), UpTo(m)>> \in StrictSubsetOrdering(Nat)
    BY <2>1, <2>2 DEF StrictSubsetOrdering
  <2> QED
    BY <1>3, <1>4, <2>0, <2>3
<1>6. \A k \in S : m =< k
  BY <1>5
<1> QED
  BY <1>6 DEF Min

\* A non-empty bounded set of numbers has a largest element.
LEMMA MaxIsIn ==
    ASSUME NEW S, S \subseteq Nat, S # {}, NEW b \in Nat, \A k \in S : k =< b
    PROVE  Max(S) \in S /\ \A k \in S : k =< Max(S)
<1> DEFINE T == {b - k : k \in S}
<1>1. T \subseteq Nat /\ T # {}
  <2>1. \A k \in S : b - k \in Nat
    OBVIOUS
  <2> QED
    BY <2>1
<1>2. Min(T) \in T /\ \A t \in T : Min(T) =< t
  BY <1>1, MinIsIn
<1>3. PICK m \in S : Min(T) = b - m
  BY <1>2
<1>4. ASSUME NEW k \in S
      PROVE  k =< m
  <2>1. b - k \in T
    OBVIOUS
  <2>2. b - m =< b - k
    BY <1>2, <1>3, <2>1
  <2> QED
    BY <2>2
<1> QED
  BY <1>4 DEF Max

LEMMA MaxOfDocs ==
    ASSUME NEW S \in SUBSET Docs, S # {}
    PROVE  Max(S) \in S /\ \A d \in S : d <= Max(S)
<1>1. S \subseteq Nat /\ NDocs \in Nat /\ \A d \in S : d =< NDocs
  BY SchedulerAssumption DEF Docs
<1> QED
  BY <1>1, MaxIsIn

\* What a keyset sweep reads: rows in order, at most a page of them, and where it goes on
\* is where the page ends (get_docs_by_statuses_page).
LEMMA Pages ==
    ASSUME NEW statuses, NEW position \in CURSOR_START .. CURSOR_END,
           NEW page, page = PageRows(statuses, position)
    PROVE  /\ page \in SUBSET Docs
           /\ \A d \in page : d > position /\ row[d] \in statuses
           /\ PageSize > 0 => Cardinality(page) <= PageSize
           /\ NextPosition(page) \in CURSOR_START .. CURSOR_END
           /\ NextPosition(page) # CURSOR_START
           /\ \A d \in Docs : d > position /\ d <= NextPosition(page) /\ row[d] \in statuses
                              => d \in page
<1> DEFINE rows == {d \in Docs : d > position /\ row[d] \in statuses}
           UpTo(d) == {e \in rows : e <= d}
<1>1. /\ page \in SUBSET Docs /\ page \subseteq rows /\ rows \in SUBSET Docs
      /\ PageSize = 0 => page = rows
      /\ PageSize # 0 => page = {d \in rows : Cardinality(UpTo(d)) <= PageSize}
  BY DEF PageRows
<1>2. /\ PageSize \in Nat /\ NDocs \in Nat
      /\ \A S \in SUBSET Docs : IsFiniteSet(S) /\ Cardinality(S) \in Nat
  BY SchedulerAssumption, DocsAreFinite, FS_Subset, FS_CardinalityType
<1>3. /\ Docs \subseteq 1 .. NDocs /\ CURSOR_START = 0 /\ CURSOR_END = NDocs + 1
      /\ position \in Int
  BY <1>2 DEF Docs, CURSOR_START, CURSOR_END
<1>4. \A d \in rows : UpTo(d) \in SUBSET Docs
  OBVIOUS
<1>5. ASSUME PageSize > 0
      PROVE  Cardinality(page) <= PageSize
  <2>1. CASE page = {}
    BY <1>2, <2>1, FS_EmptySet
  <2>2. CASE page # {}
    <3>1. Max(page) \in page /\ \A d \in page : d <= Max(page)
      BY <1>1, <2>2, MaxOfDocs
    <3>2. page \subseteq UpTo(Max(page))
      BY <1>1, <3>1
    <3>3. Cardinality(UpTo(Max(page))) <= PageSize /\ UpTo(Max(page)) \in SUBSET Docs
      BY <1>1, <1>2, <1>4, <1>5, <3>1
    <3>4. Cardinality(page) <= Cardinality(UpTo(Max(page)))
      BY <1>2, <3>2, <3>3, FS_Subset
    <3> QED
      BY <1>1, <1>2, <3>3, <3>4
  <2> QED
    BY <2>1, <2>2
<1>6. \A d \in page, e \in rows : e <= d => e \in page
  <2> SUFFICES ASSUME PageSize # 0, NEW d \in page, NEW e \in rows, e <= d
               PROVE  e \in page
    BY <1>1
  <2>1. UpTo(e) \subseteq UpTo(d)
    <3>1. \A x \in rows : x \in Int /\ d \in Int /\ e \in Int /\ (x <= e => x <= d)
      BY <1>1, <1>3
    <3> QED
      BY <3>1
  <2>2. UpTo(e) \in SUBSET Docs /\ UpTo(d) \in SUBSET Docs
    BY <1>1, <1>4
  <2>3. Cardinality(UpTo(e)) <= Cardinality(UpTo(d))
    BY <1>2, <2>1, <2>2, FS_Subset
  <2>4. Cardinality(UpTo(d)) <= PageSize
    BY <1>1
  <2>5. Cardinality(UpTo(e)) <= PageSize
    BY <1>2, <2>2, <2>3, <2>4
  <2> QED
    BY <1>1, <2>5
<1>7. ASSUME Cardinality(page) < PageSize
      PROVE  page = rows
  <2> SUFFICES ASSUME rows \ page # {} PROVE FALSE
    BY <1>1
  <2> DEFINE m == Min(rows \ page)
  <2>1. m \in rows \ page /\ \A d \in rows \ page : m <= d
    <3>1. rows \ page \subseteq Nat
      BY DocsAreFinite
    <3> HIDE DEF rows
    <3> QED
      BY <3>1, MinIsIn
  <2> HIDE DEF m
  <2>2. UpTo(m) \subseteq page \cup {m}
    <3> SUFFICES ASSUME NEW e \in rows, e <= m, e \notin page
                 PROVE  e = m
      OBVIOUS
    <3>1. m <= e /\ m \in Int /\ e \in Int
      BY <1>1, <1>3, <2>1
    <3> QED
      BY <3>1
  <2>3. /\ IsFiniteSet(page \cup {m})
        /\ Cardinality(page \cup {m}) = Cardinality(page) + 1
    BY <1>1, <1>2, <2>1, FS_AddElement
  <2>4. Cardinality(UpTo(m)) <= Cardinality(page \cup {m})
    BY <2>2, <2>3, FS_Subset
  <2>5. Cardinality(UpTo(m)) <= PageSize
    BY <1>1, <1>2, <1>4, <1>7, <2>1, <2>3, <2>4
  <2> QED
    BY <1>1, <1>2, <1>7, <2>1, <2>5
<1>8. NextPosition(page) \in CURSOR_START .. CURSOR_END /\ NextPosition(page) # CURSOR_START
  <2>1. CASE PageSize = 0 \/ Cardinality(page) < PageSize
    BY <1>2, <1>3, <2>1 DEF NextPosition
  <2>2. CASE ~ (PageSize = 0 \/ Cardinality(page) < PageSize)
    <3>1. page # {}
      BY <1>2, <2>2, FS_EmptySet
    <3>2. Max(page) \in Docs
      BY <1>1, <3>1, MaxOfDocs
    <3> QED
      BY <1>2, <1>3, <2>2, <3>2 DEF NextPosition, Docs
  <2> QED
    BY <2>1, <2>2
<1>9. \A d \in rows : d <= NextPosition(page) => d \in page
  <2>1. CASE PageSize = 0 \/ Cardinality(page) < PageSize
    BY <1>1, <1>7, <2>1
  <2>2. CASE ~ (PageSize = 0 \/ Cardinality(page) < PageSize)
    <3>1. page # {}
      BY <1>2, <2>2, FS_EmptySet
    <3>2. Max(page) \in page /\ NextPosition(page) = Max(page)
      BY <1>1, <2>2, <3>1, MaxOfDocs DEF NextPosition
    <3> QED
      BY <1>6, <3>2
  <2> QED
    BY <2>1, <2>2
<1> QED
  BY <1>1, <1>5, <1>8, <1>9

-----------------------------------------------------------------------------
(* Types *)

\* The operators on the status keep its type.
LEMMA StatusOps ==
    ASSUME NEW s \in Status, NEW t \in Jobs, NEW kind \in OwnerKind
    PROVE  /\ FreeBusy(s) \in Status /\ ManualIdle(s) \in Status /\ Uncancel(s) \in Status
           /\ ManualIdle(FreeBusy(s)) \in Status /\ Uncancel(FreeBusy(s)) \in Status
           /\ Uncancel(ManualIdle(FreeBusy(s))) \in Status
           /\ GiveBusy(s, Me(t, kind)) \in Status /\ Uncancel(GiveBusy(s, Me(t, kind))) \in Status
           /\ Register(s, t, Me(t, kind).worker, "enqueue") \in Status
           /\ Unregister(s, t) \in Status
           /\ FreezeForManual(s, t) \in Status /\ EnterExclusiveReset(s) \in Status
           /\ \A f \in {"manual_drain_blocked", "manual_drain_stalled",
                        "manual_drain_enqueue_stalled"} : RaiseFence(s, f) \in Status
           /\ [s EXCEPT !.cancellation_requested = TRUE] \in Status
           /\ \A h \in BOOLEAN : ProcessingOutcome(s, ProcessingVerdict(s, h, FALSE), t,
                                    Me(t, "processing").worker, FALSE) \in Status
<1>1. /\ Me(t, kind) \in Owners /\ Me(t, kind).worker \in Workers
      /\ OwnerRecord(t, Me(t, "processing").worker, "processing") \in Owners
  BY SchedulerAssumption DEF Me, OwnerRecord, Owners, OwnerKind
<1>2. FreeBusy(s) \in Status /\ ManualIdle(s) \in Status /\ Uncancel(s) \in Status
  BY ZenonT(40) DEF FreeBusy, ManualIdle, Uncancel, Status, ManualPhase
<1>3. ManualIdle(FreeBusy(s)) \in Status /\ Uncancel(FreeBusy(s)) \in Status
  BY ZenonT(40) DEF FreeBusy, ManualIdle, Uncancel, Status, ManualPhase
<1>4. Uncancel(ManualIdle(FreeBusy(s))) \in Status
  BY <1>3, ZenonT(40) DEF Uncancel, Status
<1>5. GiveBusy(s, Me(t, kind)) \in Status
  BY <1>1 DEF GiveBusy, Status
<1>6. Uncancel(GiveBusy(s, Me(t, kind))) \in Status
  BY <1>5 DEF Uncancel, Status
<1>7. Register(s, t, Me(t, kind).worker, "enqueue") \in Status
  BY <1>1 DEF Register, Status, EnqueueMeta, ReservationKind
<1>8. Unregister(s, t) \in Status
  BY DEF Unregister, Status
<1>9. FreezeForManual(s, t) \in Status /\ EnterExclusiveReset(s) \in Status
  BY DEF FreezeForManual, EnterExclusiveReset, Status, ManualPhase
<1>10. \A f \in {"manual_drain_blocked", "manual_drain_stalled",
                 "manual_drain_enqueue_stalled"} : RaiseFence(s, f) \in Status
  BY DEF RaiseFence, Status, FenceKind
<1>11. [s EXCEPT !.cancellation_requested = TRUE] \in Status
  BY DEF Status
<1>13. ASSUME NEW h \in BOOLEAN
       PROVE  ProcessingOutcome(s, ProcessingVerdict(s, h, FALSE), t,
                                Me(t, "processing").worker, FALSE) \in Status
  BY <1>1, ZenonT(40) DEF ProcessingOutcome, ProcessingVerdict, GiveBusy, Status, JobName
<1> QED
  BY <1>2, <1>3, <1>4, <1>5, <1>6, <1>7, <1>8, <1>9, <1>10, <1>11, <1>13

LEMMA ForceResetTyped ==
    ASSUME NEW s \in Status
    PROVE  ForceResetStatus(s) \in Status
<1> DEFINE drops == s.recovery_required = "manual_drain_enqueue_stalled"
           cleared == [s EXCEPT !.recovery_required = None,
                                !.pending_enqueue_tokens =
                         [t \in Jobs |-> IF drops /\ @[t] # None /\ @[t].kind = "enqueue"
                                         THEN None ELSE @[t]]]
<1>1. cleared \in Status
  BY Zenon DEF Status
<1> HIDE DEF cleared
<1>2. ManualIdle(FreeScanning(FreeDestructive(cleared))) \in Status
  <2>1. FreeBusy(cleared) \in Status
    BY <1>1 DEF FreeBusy, Status
  <2>2. FreeDestructive(cleared) \in Status
    BY <2>1 DEF FreeDestructive, Status
  <2>3. FreeScanning(FreeDestructive(cleared)) \in Status
    BY <2>2 DEF FreeScanning, Status
  <2> QED
    BY <2>3 DEF ManualIdle, Status, ManualPhase
<1> QED
  BY <1>2 DEF ForceResetStatus, cleared

LEMMA CutType ==
    ASSUME NEW S, NEW s \in Seq(S), NEW a \in Int, NEW b \in Int, 1 <= a, b <= Len(s)
    PROVE  SubSeq(s, a, b) \in Seq(S)
<1>1. \A i \in a .. b : s[i] \in S
  BY ElementOfSeq, LenProperties
<1> QED
  BY <1>1, SubSeqProperties

\* A cut is as long as it says, and what is cut from the end is no longer than the whole.
LEMMA CutLength ==
    ASSUME NEW S, NEW s \in Seq(S), NEW a \in Int, NEW b \in Int, 1 <= a, a <= b + 1, b <= Len(s)
    PROVE  SubSeq(s, a, b) \in Seq(S) /\ Len(SubSeq(s, a, b)) = b + 1 - a
BY CutType, SubSeqProperties

LEMMA RemoveFirstType ==
    ASSUME NEW S, NEW q \in Seq(S), NEW any
    PROVE  RemoveFirst(q, any) \in Seq(S) /\ Len(RemoveFirst(q, any)) <= Len(q)
<1> DEFINE I == {i \in 1 .. Len(q) : q[i] = any}
<1>1. CASE I = {}
  BY <1>1 DEF RemoveFirst
<1>2. CASE I # {}
  <2>1. I \subseteq Nat
    OBVIOUS
  <2>2. Min(I) \in I
    BY <1>2, <2>1, MinIsIn
  <2>3. RemoveFirst(q, any) = SubSeq(q, 1, Min(I) - 1) \o SubSeq(q, Min(I) + 1, Len(q))
    BY <1>2 DEF RemoveFirst, RemoveAt, SelectInSeq
  <2>4. Min(I) \in Nat /\ 1 <= Min(I) /\ Min(I) <= Len(q) /\ Len(q) \in Nat
    BY <2>2
  <2> HIDE DEF I
  <2>5. /\ SubSeq(q, 1, Min(I) - 1) \in Seq(S) /\ Len(SubSeq(q, 1, Min(I) - 1)) = Min(I) - 1
        /\ SubSeq(q, Min(I) + 1, Len(q)) \in Seq(S)
        /\ Len(SubSeq(q, Min(I) + 1, Len(q))) = Len(q) - Min(I)
    <3>1. Min(I) - 1 \in Int /\ Min(I) + 1 \in Int /\ Len(q) \in Int
      BY <2>4
    <3>2. /\ 1 <= 1 /\ 1 <= (Min(I) - 1) + 1 /\ Min(I) - 1 <= Len(q)
          /\ 1 <= Min(I) + 1 /\ Min(I) + 1 <= Len(q) + 1 /\ Len(q) <= Len(q)
          /\ (Min(I) - 1) + 1 - 1 = Min(I) - 1 /\ Len(q) + 1 - (Min(I) + 1) = Len(q) - Min(I)
      BY <2>4
    <3>3. 1 \in Int
      OBVIOUS
    <3>4. SubSeq(q, 1, Min(I) - 1) \in Seq(S) /\ Len(SubSeq(q, 1,
             Min(I) - 1)) = (Min(I) - 1) + 1 - 1
      BY <3>1, <3>2, <3>3, CutLength
    <3>5. /\ SubSeq(q, Min(I) + 1, Len(q)) \in Seq(S)
          /\ Len(SubSeq(q, Min(I) + 1, Len(q))) = Len(q) + 1 - (Min(I) + 1)
      BY <3>1, <3>2, CutLength
    <3> QED
      BY <3>2, <3>4, <3>5
  <2>6. \A u, v \in Seq(S) : u \o v \in Seq(S) /\ Len(u \o v) = Len(u) + Len(v)
    OBVIOUS
  <2> QED
    BY <2>3, <2>4, <2>5, <2>6
<1> QED
  BY <1>1, <1>2

LEMMA NewestType ==
    ASSUME NEW S, NEW ids \in Seq(S)
    PROVE  Newest(ids) \in Seq(S) /\ Len(Newest(ids)) <= TerminalCapacity
<1>1. TerminalCapacity \in Nat \ {0} /\ Len(ids) \in Nat
  BY MailboxAssumption
<1>2. CASE Len(ids) > TerminalCapacity
  <2>1. Newest(ids) = SubSeq(ids, Len(ids) - TerminalCapacity + 1, Len(ids))
    BY <1>2 DEF Newest
  <2>2. /\ Len(ids) - TerminalCapacity + 1 \in Int /\ Len(ids) \in Int
        /\ 1 <= Len(ids) - TerminalCapacity + 1 /\ Len(ids) - TerminalCapacity + 1 <= Len(ids) + 1
        /\ Len(ids) + 1 - (Len(ids) - TerminalCapacity + 1) = TerminalCapacity
    BY <1>1, <1>2
  <2>3. /\ Newest(ids) \in Seq(S)
        /\ Len(Newest(ids)) = Len(ids) + 1 - (Len(ids) - TerminalCapacity + 1)
    <3> HIDE DEF Newest
    <3>1. Len(ids) <= Len(ids)
      BY <1>1
    <3> QED
      BY <2>1, <2>2, <3>1, CutLength
  <2> QED
    BY <1>1, <2>2, <2>3
<1>3. CASE ~(Len(ids) > TerminalCapacity)
  <2>1. Newest(ids) = ids
    BY <1>3 DEF Newest
  <2> QED
    BY <1>1, <1>3, <2>1
<1> QED
  BY <1>2, <1>3

\* So do those on the mailbox, whichever documents and requests they are given.
LEMMA MailboxOps ==
    ASSUME NEW m, Mailbox(m)
    PROVE  /\ \A docs \in Seq(Docs) :
                 /\ Mailbox(PutDocuments(m, docs))
                 /\ Mailbox(RequestAutoRescan(PutDocuments(m, docs)))
           /\ Mailbox(RequestAutoRescan(m)) /\ Mailbox(ConsumeAutoRescan(m))
           /\ \A request \in Jobs : Mailbox(RequestManualRetry(m, request))
           /\ Mailbox(DrainDocuments(m, DrainLimit)) /\ Drained(m, DrainLimit) \in Seq(Docs)
           /\ \A request \in Jobs \cup {None} : Mailbox(AckManualRetry(m, request))
           /\ Mailbox(CancelManualRetries(m))
           /\ HasManualRetry(m) => NextManualRetry(m) \in Jobs
<1>1. /\ m.documents \in Seq(Docs) /\ m.manual_retries \in Seq(Jobs)
      /\ DocumentCapacity \in Nat \ {0} /\ DrainLimit \in Nat \ {0}
      /\ ManualCapacity \in Nat \ {0}
      /\ Len(m.documents) <= DocumentCapacity /\ Len(m.manual_retries) <= ManualCapacity
  BY MailboxAssumption, SchedulerAssumption DEF Mailbox
<1>2. ASSUME NEW a \in Int, NEW b \in Int
      PROVE  /\ Min({a, b}) = (IF a <= b THEN a ELSE b)
  <2>1. \A x \in {a, b} : (\A y \in {a, b} : x =< y) <=> x = (IF a <= b THEN a ELSE b)
    OBVIOUS
  <2> QED
    BY <2>1 DEF Min
<1>3. ASSUME NEW docs \in Seq(Docs)
      PROVE  Mailbox(PutDocuments(m, docs))
  <2> DEFINE all == m.documents \o docs
             cut == SubSeq(all, 1, Min({Len(all), DocumentCapacity}))
  <2>1. all \in Seq(Docs) /\ Len(all) \in Nat
    BY <1>1
  <2>2. cut \in Seq(Docs) /\ Len(cut) <= DocumentCapacity
    <3>1. Len(all) \in Int /\ DocumentCapacity \in Int
      BY <1>1, <2>1
    <3>2. /\ Min({Len(all), DocumentCapacity}) \in Int
          /\ Min({Len(all), DocumentCapacity}) <= Len(all)
          /\ 0 <= Min({Len(all), DocumentCapacity})
          /\ Min({Len(all), DocumentCapacity}) <= DocumentCapacity
      <4> HIDE DEF all
      <4>1. Min({Len(all), DocumentCapacity}) =
              IF Len(all) <= DocumentCapacity THEN Len(all) ELSE DocumentCapacity
        BY <1>2, <3>1
      <4> QED
        BY <1>1, <2>1, <3>1, <4>1
    <3> QED
      <4> HIDE DEF all
      <4>1. \A b \in Int : 0 <= b /\ b <= Len(all) =>
                SubSeq(all, 1, b) \in Seq(Docs) /\ Len(SubSeq(all, 1, b)) = b
        <5>1. \A b \in Int : 0 <= b => 1 <= 1 /\ 1 <= b + 1 /\ b + 1 - 1 = b
          OBVIOUS
        <5> QED
          BY <2>1, <5>1, CutLength
      <4> QED
        BY <3>2, <4>1
  <2>3. PutDocuments(m, docs) =
          [m EXCEPT !.documents = cut,
                    !.auto_rescan_pending = @ \/ Len(all) > DocumentCapacity]
    BY DEF PutDocuments
  <2> HIDE DEF all, cut
  <2> QED
    BY <2>2, <2>3 DEF Mailbox
<1>4. \A n : Mailbox(n) => Mailbox(RequestAutoRescan(n)) /\ Mailbox(ConsumeAutoRescan(n))
  BY DEF Mailbox, RequestAutoRescan, ConsumeAutoRescan
<1>5. ASSUME NEW request \in Jobs
      PROVE  Mailbox(RequestManualRetry(m, request))
  <2>1. /\ Append(m.manual_retries, request) \in Seq(Jobs)
        /\ Len(Append(m.manual_retries, request)) = Len(m.manual_retries) + 1
    BY <1>1
  <2>2. \A q \in Seq(Jobs) : Len(q) <= ManualCapacity => Mailbox([m EXCEPT !.manual_retries = q])
    BY DEF Mailbox
  <2>3. ManualRetryResult(m, request) = "accepted" /\ ~IsQueued(m, request)
        => Len(m.manual_retries) + 1 <= ManualCapacity
    <3>1. Len(m.manual_retries) \in Nat
      BY <1>1
    <3> QED
      BY <1>1, <3>1 DEF ManualRetryResult
  <2> QED
    BY <2>1, <2>2, <2>3 DEF RequestManualRetry, Mailbox
<1>6. Mailbox(DrainDocuments(m, DrainLimit)) /\ Drained(m, DrainLimit) \in Seq(Docs)
  <2> DEFINE n == Min({DrainLimit, Len(m.documents)})
             left == SubSeq(m.documents, n + 1, Len(m.documents))
  <2>1. n \in Nat /\ n <= Len(m.documents) /\ Len(m.documents) \in Nat
    <3>1. Len(m.documents) \in Nat /\ DrainLimit \in Nat
      BY <1>1
    <3> QED
      BY <1>2, <3>1
  <2>2. /\ SubSeq(m.documents, 1, n) \in Seq(Docs) /\ left \in Seq(Docs)
        /\ Len(left) <= DocumentCapacity
    <3> HIDE DEF n
    <3>1. /\ n + 1 \in Int /\ Len(m.documents) \in Int /\ 1 <= n + 1
          /\ n + 1 <= Len(m.documents) + 1 /\ Len(m.documents) <= Len(m.documents)
      BY <2>1
    <3>2. left \in Seq(Docs) /\ Len(left) = Len(m.documents) + 1 - (n + 1)
      BY <1>1, <3>1, CutLength
    <3>3. SubSeq(m.documents, 1, n) \in Seq(Docs)
      BY <1>1, <2>1, CutType
    <3> QED
      BY <1>1, <2>1, <3>2, <3>3
  <2>3. DrainDocuments(m, DrainLimit) = [m EXCEPT !.documents = left]
    BY DEF DrainDocuments, Mailbox
  <2>4. Drained(m, DrainLimit) = SubSeq(m.documents, 1, n)
    BY DEF Drained
  <2> HIDE DEF n, left
  <2> QED
    BY <2>2, <2>3, <2>4 DEF Mailbox
<1>7. ASSUME NEW request \in Jobs \cup {None}
      PROVE  Mailbox(AckManualRetry(m, request))
  <2> DEFINE q == RemoveFirst(m.manual_retries, request)
             ids == AddTerminal(m.terminal_ids, request, "acked")
  <2>1. q \in Seq(Jobs) /\ Len(q) <= ManualCapacity
    <3>1. q \in Seq(Jobs) /\ Len(q) <= Len(m.manual_retries)
      BY <1>1, RemoveFirstType
    <3>2. Len(q) \in Nat /\ Len(m.manual_retries) \in Nat
      BY <1>1, <3>1
    <3> QED
      BY <1>1, <3>1, <3>2
  <2>2. ids \in Seq(Ended) /\ Len(ids) <= TerminalCapacity
    <3>1. m.terminal_ids \in Seq(Ended) /\ Len(m.terminal_ids) <= TerminalCapacity
      BY DEF Mailbox
    <3>2. Append(m.terminal_ids, [id |-> request, state |-> "acked"]) \in Seq(Ended)
      BY <3>1 DEF Ended
    <3> QED
      BY <3>1, <3>2, NewestType DEF AddTerminal
  <2>3. AckManualRetry(m, request) = [m EXCEPT !.manual_retries = q, !.terminal_ids = ids]
    BY DEF AckManualRetry, Mailbox
  <2> HIDE DEF q, ids
  <2> QED
    BY <2>1, <2>2, <2>3 DEF Mailbox
<1>8. Mailbox(CancelManualRetries(m))
  <2> DEFINE new == [i \in DOMAIN m.manual_retries |->
                        [id |-> m.manual_retries[i], state |-> "cancelled_by_clear"]]
             ids == Newest(m.terminal_ids \o new)
  <2>1. new \in Seq(Ended)
    <3>1. DOMAIN m.manual_retries = 1 .. Len(m.manual_retries) /\ Len(m.manual_retries) \in Nat
      BY <1>1
    <3>2. \A i \in 1 .. Len(m.manual_retries) : m.manual_retries[i] \in Jobs
      BY <1>1
    <3>3. new \in [1 .. Len(m.manual_retries) -> Ended]
      BY <3>1, <3>2 DEF Ended
    <3> HIDE DEF new
    <3> QED
      BY <3>1, <3>3, SeqDef
  <2>2. ids \in Seq(Ended) /\ Len(ids) <= TerminalCapacity
    <3>1. m.terminal_ids \o new \in Seq(Ended)
      <4> HIDE DEF new
      <4> QED
        BY <2>1 DEF Mailbox
    <3> QED
      BY <3>1, NewestType
  <2>3. CancelManualRetries(m) = [m EXCEPT !.manual_retries = <<>>, !.terminal_ids = ids]
    BY DEF CancelManualRetries, Mailbox
  <2>4. <<>> \in Seq(Jobs) /\ Len(<<>>) <= ManualCapacity
    BY <1>1
  <2> HIDE DEF new, ids
  <2>5. \A q \in Seq(Jobs) : Len(q) <= ManualCapacity =>
            Mailbox([m EXCEPT !.manual_retries = q, !.terminal_ids = ids])
    BY <2>2 DEF Mailbox
  <2> QED
    <3>1. Mailbox([m EXCEPT !.manual_retries = <<>>, !.terminal_ids = ids])
      BY <2>4, <2>5, Zenon
    <3> QED
      BY <2>3, <3>1, Zenon
<1>9. HasManualRetry(m) => NextManualRetry(m) \in Jobs
  BY <1>1 DEF HasManualRetry, NextManualRetry
<1> QED
  BY <1>3, <1>4, <1>5, <1>6, <1>7, <1>8, <1>9

\* A job that moves stays a job.
LEMMA JobMoves ==
    ASSUME Typed, NEW j \in Jobs
    PROVE  /\ \A pos \in Pos : pos \notin Unpublished \/ job[j].pos \in Unpublished =>
                 JobsTyped([job EXCEPT ![j].pos = pos])
           /\ JobsTyped([job EXCEPT ![j].pos = job[j].next])
           /\ \A kind \in JobKind, pos \in Pos \ Unpublished :
                 JobsTyped([job EXCEPT ![j].kind = kind, ![j].pos = pos])
<1>1. /\ job \in [Jobs -> Job] /\ job[j] \in Job
      /\ \A k \in Jobs : job[k].pos \in Unpublished => job[k].doc \in Docs
  BY DEF Typed, JobsTyped
<1>2. ASSUME NEW pos \in Pos, pos \notin Unpublished \/ job[j].pos \in Unpublished
      PROVE  JobsTyped([job EXCEPT ![j].pos = pos])
  <2>1. [job[j] EXCEPT !.pos = pos] \in Job
    BY <1>1 DEF Job
  <2>2. [job EXCEPT ![j].pos = pos] \in [Jobs -> Job]
    BY <1>1, <2>1
  <2>3. ASSUME NEW k \in Jobs, [job EXCEPT ![j].pos = pos][k].pos \in Unpublished
        PROVE  [job EXCEPT ![j].pos = pos][k].doc \in Docs
    BY <1>1, <1>2, <2>3 DEF Job
  <2> QED
    BY <2>2, <2>3 DEF JobsTyped
<1>3. job[j].next \in Pos \ Unpublished
  BY <1>1 DEF Job, Pos, RunPos, Unpublished, Writing
<1>4. ASSUME NEW kind \in JobKind, NEW pos \in Pos \ Unpublished
      PROVE  JobsTyped([job EXCEPT ![j].kind = kind, ![j].pos = pos])
  <2>1. [job[j] EXCEPT !.kind = kind, !.pos = pos] \in Job
    BY <1>1 DEF Job
  <2>2. [job EXCEPT ![j].kind = kind, ![j].pos = pos] \in [Jobs -> Job]
    BY <1>1, <2>1
  <2>3. ASSUME NEW k \in Jobs,
               [job EXCEPT ![j].kind = kind, ![j].pos = pos][k].pos \in Unpublished
        PROVE  [job EXCEPT ![j].kind = kind, ![j].pos = pos][k].doc \in Docs
    BY <1>1, <2>3 DEF Job
  <2> QED
    BY <2>2, <2>3 DEF JobsTyped
<1> QED
  BY <1>2, <1>3, <1>4

LEMMA RequestTyped ==
    ASSUME Typed, NEW j \in Jobs, Request(j)
    PROVE  Typed'
<1>1. CASE ReserveInsert(j)
  <2>1. ps' \in Status
    BY <1>1, StatusOps DEF ReserveInsert, Typed, OwnerKind
  <2>2. PICK d \in Docs : job' = [job EXCEPT ![j].kind = "insert", ![j].pos = "content",
                                            ![j].doc = d]
    BY <1>1 DEF ReserveInsert
  <2>3. [job[j] EXCEPT !.kind = "insert", !.pos = "content", !.doc = d] \in Job
    BY DEF Typed, JobsTyped, Job, JobKind, Pos
  <2>4. job' \in [Jobs -> Job]
    BY <2>2, <2>3 DEF Typed, JobsTyped
  <2>5. ASSUME NEW k \in Jobs, job'[k].pos \in Unpublished
        PROVE  job'[k].doc \in Docs
    BY <2>2, <2>5 DEF Typed, JobsTyped, Job
  <2> QED
    BY <1>1, <2>1, <2>4, <2>5 DEF ReserveInsert, Typed, JobsTyped
<1>2. CASE CommitRetry(j)
  <2>1. Mailbox(mb')
    BY <1>2, MailboxOps DEF CommitRetry, Typed
  <2>2. JobsTyped(job')
    BY <1>2, JobMoves DEF CommitRetry, Start, JobKind, Pos, Unpublished, Writing
  <2> QED
    BY <1>2, <2>1, <2>2 DEF CommitRetry, Typed
<1>3. CASE StartProcess(j)
  <2>1. JobsTyped(job')
    BY <1>3, JobMoves DEF StartProcess, Start, JobKind, Pos, Unpublished, Writing
  <2> QED
    BY <1>3, <2>1 DEF StartProcess, Typed
<1>4. CASE TakePipeline(j)
  <2>1. JobsTyped(job')
    <3>1. "body" \in Pos \ Unpublished /\ {"admin", "custom_chunks"} \subseteq JobKind
      BY DEF Pos, Unpublished, Writing, JobKind
    <3>2. \/ job' = [job EXCEPT ![j].kind = "admin", ![j].pos = "body"]
          \/ job' = [job EXCEPT ![j].kind = "custom_chunks", ![j].pos = "body"]
      BY <1>4 DEF TakePipeline, Start
    <3>3. \A kind \in JobKind : JobsTyped([job EXCEPT ![j].kind = kind, ![j].pos = "body"])
      BY <3>1, JobMoves
    <3> QED
      BY <3>1, <3>2, <3>3
  <2>2. ps' \in Status
    BY <1>4, StatusOps DEF TakePipeline, Typed, OwnerKind
  <2> QED
    BY <1>4, <2>1, <2>2 DEF TakePipeline, Typed
<1> QED
  BY <1>1, <1>2, <1>3, <1>4 DEF Request

LEMMA CallerTyped ==
    ASSUME Typed, NEW j \in Jobs, CallerStep(j)
    PROVE  Typed'
<1>0. "processing" \in OwnerKind
  BY DEF OwnerKind
<1>1. CASE WriteContent(j)
  <2>1. JobsTyped(job')
    BY <1>1, JobMoves DEF WriteContent, Move, At, Pos, Unpublished, Writing
  <2>2. job[j].doc \in Docs
    BY <1>1 DEF WriteContent, At, Typed, JobsTyped, Unpublished, Writing
  <2> QED
    BY <1>1, <2>1, <2>2 DEF WriteContent, Typed
<1>2. CASE WriteStatus(j)
  <2>1. JobsTyped(job')
    BY <1>2, JobMoves DEF WriteStatus, Move, At, Pos, Unpublished, Writing
  <2> QED
    BY <1>2, <2>1 DEF WriteStatus, Typed, RowStatus
<1>3. CASE WriteStatusFails(j)
  <2>1. JobsTyped(job')
    BY <1>3, JobMoves DEF WriteStatusFails, Move, At, Pos, Unpublished, Writing
  <2>2. Mailbox(mb')
    BY <1>3, MailboxOps DEF WriteStatusFails, Typed
  <2> QED
    BY <1>3, <2>1, <2>2 DEF WriteStatusFails, Typed, RowStatus
<1>4. CASE LeaveInsert(j)
  <2>1. JobsTyped(job')
    BY <1>4, JobMoves DEF LeaveInsert, Move, Pos, At, Unpublished, Writing
  <2>2. ps' \in Status
    BY <1>0, <1>4, StatusOps DEF LeaveInsert, Typed
  <2> QED
    BY <1>4, <2>1, <2>2 DEF LeaveInsert, Typed
<1>5. CASE Publish(j)
  <2>1. job[j].doc \in Docs
    BY <1>5 DEF Publish, At, Typed, JobsTyped, Unpublished
  <2>2. <<job[j].doc>> \in Seq(Docs)
    BY <2>1
  <2>3. Mailbox(mb')
    BY <1>5, <2>2, MailboxOps DEF Publish, Typed
  <2>4. JobsTyped(job')
    BY <1>5, JobMoves DEF Publish, Move, Pos, Unpublished, Writing
  <2> QED
    BY <1>5, <2>3, <2>4 DEF Publish, Typed
<1>6. CASE ReleaseAdmin(j)
  <2>1. JobsTyped(job')
    BY <1>6, JobMoves DEF ReleaseAdmin, Move, Pos, Unpublished, Writing
  <2>2. ps' \in Status
    BY <1>0, <1>6, StatusOps DEF ReleaseAdmin, IfOwner, Typed
  <2> QED
    BY <1>6, <2>1, <2>2 DEF ReleaseAdmin, Typed
<1>7. CASE DriveIfDeferred(j)
  <2>1. JobsTyped(job')
    BY <1>7, JobMoves DEF DriveIfDeferred, Move, Pos, Unpublished, Writing
  <2> QED
    BY <1>7, <2>1 DEF DriveIfDeferred, Typed
<1>8. CASE ExitCustomChunks(j)
  <2>1. CASE OwnsBusy(ps, j) /\ HasWork(mb)
    <3>1. [job[j] EXCEPT !.pos = "handoff", !.next = "terminal"] \in Job
      BY DEF Typed, JobsTyped, Job, Pos
    <3>2. job' = [job EXCEPT ![j].pos = "handoff", ![j].next = "terminal"]
      BY <1>8, <2>1 DEF ExitCustomChunks
    <3>3. job' \in [Jobs -> Job]
      BY <3>1, <3>2 DEF Typed, JobsTyped
    <3>4. ASSUME NEW k \in Jobs, job'[k].pos \in Unpublished
          PROVE  job'[k].doc \in Docs
      BY <3>2, <3>4 DEF Typed, JobsTyped, Job, Unpublished, Writing
    <3>5. ps' \in Status
      BY <1>0, <1>8, <2>1, StatusOps DEF ExitCustomChunks, Typed
    <3> QED
      BY <1>8, <3>3, <3>4, <3>5 DEF ExitCustomChunks, Typed, JobsTyped
  <2>2. CASE ~ (OwnsBusy(ps, j) /\ HasWork(mb))
    <3>1. JobsTyped(job')
      BY <1>8, <2>2, JobMoves DEF ExitCustomChunks, Move, Pos, Unpublished, Writing
    <3>2. ps' \in Status
      BY <1>0, <1>8, <2>2, StatusOps DEF ExitCustomChunks, IfOwner, Typed
    <3> QED
      BY <1>8, <3>1, <3>2 DEF ExitCustomChunks, Typed
  <2> QED
    BY <2>1, <2>2
<1>9. CASE TerminalRelease(j)
  <2>1. JobsTyped(job')
    BY <1>9, JobMoves DEF TerminalRelease, Move, Pos, Unpublished, Writing
  <2>2. ps' \in Status
    BY <1>0, <1>9, StatusOps DEF TerminalRelease, IfOwner, Typed
  <2> QED
    BY <1>9, <2>1, <2>2 DEF TerminalRelease, Typed
<1> QED
  BY <1>1, <1>2, <1>3, <1>4, <1>5, <1>6, <1>7, <1>8, <1>9 DEF CallerStep

\* A page is a set of documents, and the next position is one.
LEMMA PageTyped ==
    ASSUME NEW statuses, NEW position \in CURSOR_START .. CURSOR_END
    PROVE  /\ PageRows(statuses, position) \in SUBSET Docs
           /\ NextPosition(PageRows(statuses, position)) \in CURSOR_START .. CURSOR_END
BY Pages

LEMMA EmptyFields == <<>> \in Seq(Docs) /\ {} \in SUBSET Docs /\ FALSE \in BOOLEAN
OBVIOUS

LEMMA BatchTyped ==
    ASSUME Typed, NEW j \in Jobs, BatchStep(j)
    PROVE  Typed'
<1>0. run[j] \in Run /\ run \in [Jobs -> Run]
  BY DEF Typed
<1>1. ASSUME NEW d \in Docs, StageDoc(j, d)
      PROVE  Typed'
  <2> QED
    BY <1>1 DEF StageDoc, RowStatus, Typed
<1>2. ASSUME NEW d \in Docs, FinishDoc(j, d)
      PROVE  Typed'
  <2>1. run' \in [Jobs -> Run]
    BY <1>0, <1>2 DEF FinishDoc, Run
  <2>2. row' \in [Docs -> RowStatus \cup {None}]
    BY <1>2 DEF FinishDoc, Typed, RowStatus
  <2> QED
    BY <1>2, <2>1, <2>2 DEF FinishDoc, Typed
<1>3. ASSUME NEW d \in Docs, FinishUnrecorded(j, d)
      PROVE  Typed'
  <2>1. run' \in [Jobs -> Run]
    BY <1>0, <1>3 DEF FinishUnrecorded, Run
  <2> QED
    BY <1>3, <2>1 DEF FinishUnrecorded, Typed
<1>4. ASSUME NEW d \in Docs, FinishHalting(j, d)
      PROVE  Typed'
  <2>1. run' \in [Jobs -> Run]
    BY <1>0, <1>4 DEF FinishHalting, Run
  <2>2. row' \in [Docs -> RowStatus \cup {None}]
    BY <1>4 DEF FinishHalting, Typed, RowStatus
  <2>3. ps' \in Status
    BY <1>4 DEF FinishHalting, Typed, Status
  <2> QED
    BY <1>4, <2>1, <2>2, <2>3 DEF FinishHalting, Typed
<1>5. CASE FeederDrain(j)
  <2>1. Mailbox(mb') /\ Drained(mb, DrainLimit) \in Seq(Docs)
    BY <1>5, MailboxOps DEF FeederDrain, Typed
  <2>2. run' \in [Jobs -> Run]
    BY <1>0, <1>5, <2>1 DEF FeederDrain, Run
  <2> QED
    BY <1>5, <2>1, <2>2 DEF FeederDrain, Typed
<1>6. CASE FeederRoute(j)
  <2>1. Head(run[j].feed) \in Docs /\ Tail(run[j].feed) \in Seq(Docs)
    BY <1>0, <1>6 DEF FeederRoute, Run
  <2>2. run' \in [Jobs -> Run]
    BY <1>0, <1>6, <2>1, ZenonT(40) DEF FeederRoute, Run
  <2> QED
    BY <1>6, <2>1, <2>2 DEF FeederRoute, Typed
<1>7. CASE FeederSkip(j)
  <2>1. Head(run[j].feed) \in Docs /\ Tail(run[j].feed) \in Seq(Docs)
    BY <1>0, <1>7 DEF FeederSkip, Run
  <2>2. Append(run[j].deferred, Head(run[j].feed)) \in Seq(Docs)
    BY <1>0, <2>1 DEF Run
  <2>3. run' \in [Jobs -> Run]
    BY <1>0, <1>7, <2>1, <2>2 DEF FeederSkip, Run
  <2>4. Mailbox(mb')
    BY <1>7, MailboxOps DEF FeederSkip, Typed
  <2> QED
    BY <1>7, <2>1, <2>2, <2>3, <2>4 DEF FeederSkip, Typed
<1>8. CASE FeederYield(j)
  <2>1. run[j].deferred \o run[j].feed \in Seq(Docs)
    BY <1>0 DEF Run
  <2>2. Mailbox(mb')
    BY <1>8, <2>1, MailboxOps DEF FeederYield, Republish, Typed
  <2>3. run' \in [Jobs -> Run]
    <3>1. [run[j] EXCEPT !.feeding = FALSE, !.feed = <<>>, !.deferred = <<>>,
                         !.pending = {}] \in Run
      BY <1>0, EmptyFields DEF Run
    <3> QED
      BY <1>0, <1>8, <3>1 DEF FeederYield
  <2> QED
    BY <1>8, <2>1, <2>2, <2>3 DEF FeederYield, Typed
<1>9. ASSUME NEW pos \in {"decide", "raise"}, LeaveBatch(j, pos)
      PROVE  Typed'
  <2>1. run[j].deferred \o run[j].feed \in Seq(Docs)
    BY <1>0 DEF Run
  <2>2. Mailbox(mb')
    BY <1>9, <2>1, MailboxOps DEF LeaveBatch, Republish, Typed
  <2>3. run' \in [Jobs -> Run]
    <3>1. [run[j] EXCEPT !.feeding = FALSE, !.feed = <<>>, !.deferred = <<>>,
                         !.pending = {}, !.inflight = {}, !.active = {}] \in Run
      BY <1>0, EmptyFields DEF Run
    <3> QED
      BY <1>0, <1>9, <3>1 DEF LeaveBatch
  <2>4. JobsTyped(job')
    BY <1>9, JobMoves DEF LeaveBatch, Move, Pos, RunPos, Unpublished, Writing
  <2> QED
    BY <1>9, <2>2, <2>3, <2>4 DEF LeaveBatch, Typed
<1> QED
  BY <1>1, <1>2, <1>3, <1>4, <1>5, <1>6, <1>7, <1>8, <1>9 DEF BatchStep, BatchEnds, BatchFails

LEMMA RunTyped ==
    ASSUME Typed, NEW j \in Jobs, RunStep(j)
    PROVE  Typed'
<1>0. /\ run[j] \in Run /\ run \in [Jobs -> Run]
      /\ {"processing"} \subseteq OwnerKind /\ job[j].next \in Pos
  BY DEF Typed, OwnerKind, JobsTyped, Job, Pos
<1>1. CASE AcquireProcessing(j)
  <2>1. JobsTyped(job')
    BY <1>1, JobMoves DEF AcquireProcessing, Move, Pos, RunPos, Unpublished, Writing, Return
  <2>2. Mailbox(mb')
    BY <1>1, MailboxOps DEF AcquireProcessing, Typed
  <2>3. ps' \in Status
    <3>1. At(j, "handoff") \in BOOLEAN
      BY DEF At
    <3> QED
      BY <1>0, <1>1, <3>1, StatusOps DEF AcquireProcessing, Typed
  <2> QED
    BY <1>1, <2>1, <2>2, <2>3 DEF AcquireProcessing, Typed
<1>2. CASE Absorb(j)
  <2>1. JobsTyped(job')
    BY <1>2, JobMoves, ZenonT(40) DEF Absorb, Move, Pos, RunPos, Unpublished, Writing
  <2>2. Mailbox(mb') /\ (HasManualRetry(mb) => NextManualRetry(mb) \in Jobs)
    BY <1>2, MailboxOps DEF Absorb, Typed
  <2>3. mb.auto_rescan_pending \in BOOLEAN
    BY DEF Typed, Mailbox
  <2>4. run' \in [Jobs -> Run]
    <3>1. \A r \in Jobs : [run[j] EXCEPT !.request = r] \in Run
      BY <1>0 DEF Run
    <3>2. [run[j] EXCEPT !.uncommitted = mb.auto_rescan_pending] \in Run
      BY <1>0, <2>3 DEF Run
    <3> QED
      BY <1>0, <1>2, <2>2, <3>1, <3>2 DEF Absorb
  <2> QED
    BY <1>2, <2>1, <2>2, <2>3, <2>4 DEF Absorb, Typed
<1>3. CASE BeginManualDrain(j)
  <2>1. JobsTyped(job')
    BY <1>3, JobMoves DEF BeginManualDrain, Move, Pos, RunPos, Unpublished, Writing
  <2>2. ps' \in Status
    BY <1>0, <1>3, StatusOps DEF BeginManualDrain, IfOwner, Typed
  <2> QED
    BY <1>3, <2>1, <2>2 DEF BeginManualDrain, Typed
<1>4. CASE FetchPage(j)
  <2>1. JobsTyped(job')
    BY <1>4, JobMoves DEF FetchPage, Move, Pos, RunPos, Unpublished, Writing
  <2> DEFINE page == PageRows(AutoResume, IF run[j].step = "continue_sweep_page"
                                         THEN run[j].cursor ELSE CURSOR_START)
  <2>2. run[j].cursor \in CURSOR_START .. CURSOR_END /\
           CURSOR_START \in CURSOR_START .. CURSOR_END
    BY <1>0, DocsAreFinite DEF Run, CURSOR_START, CURSOR_END
  <2>3. page \in SUBSET Docs /\ NextPosition(page) \in CURSOR_START .. CURSOR_END
    BY <2>2, PageTyped
  <2>4. \E u \in BOOLEAN :
          run' = [run EXCEPT ![j].docs = page \ Journaled, ![j].cursor = NextPosition(page),
                             ![j].drained = <<>>, ![j].uncommitted = u]
    <3>1. run[j].uncommitted \in BOOLEAN
      BY <1>0 DEF Run
    <3> QED
      BY <1>4, <3>1 DEF FetchPage
  <2> HIDE DEF page
  <2>5. run' \in [Jobs -> Run]
    <3>1. \A u \in BOOLEAN :
            [run[j] EXCEPT !.docs = page \ Journaled, !.cursor = NextPosition(page),
                           !.drained = <<>>, !.uncommitted = u] \in Run
      BY <1>0, <2>3, EmptyFields DEF Run
    <3> QED
      BY <1>0, <2>4, <3>1, ZenonT(40)
  <2> QED
    BY <1>4, <2>1, <2>5 DEF FetchPage, Typed
<1>5. CASE FetchFails(j)
  <2>1. JobsTyped(job')
    BY <1>5, JobMoves DEF FetchFails, Move, Pos, RunPos, Unpublished, Writing
  <2>2. run[j].drained \in Seq(Docs)
    BY <1>0 DEF Run
  <2>3. Mailbox(mb')
    BY <1>5, <2>2, MailboxOps DEF FetchFails, Typed
  <2> QED
    BY <1>5, <2>1, <2>2, <2>3 DEF FetchFails, Typed
<1>6. CASE LoopTop(j)
  <2>1. JobsTyped(job')
    <3>1. {"raise", "decide", "validate"} \subseteq Pos \ Unpublished
      BY DEF Pos, RunPos, Unpublished, Writing
    <3>2. job' = job \/ \E pos \in {"raise", "decide",
             "validate"} : job' = [job EXCEPT ![j].pos = pos]
      BY <1>6 DEF LoopTop, Move
    <3> QED
      BY <3>1, <3>2, JobMoves DEF Typed
  <2>2. ps' \in Status
    BY <1>0, <1>6, StatusOps DEF LoopTop, Typed
  <2> QED
    BY <1>6, <2>1, <2>2 DEF LoopTop, Typed
<1>7. CASE Validate(j)
  <2>1. JobsTyped(job')
    BY <1>7, JobMoves DEF Validate, Move, Pos, RunPos, Unpublished, Writing
  <2>2. row' \in [Docs -> RowStatus \cup {None}]
    BY <1>7 DEF Validate, Typed, RowStatus
  <2>3. run' \in [Jobs -> Run]
    <3>1. \A v \in SUBSET Docs, f \in BOOLEAN :
            [run[j] EXCEPT !.docs = v, !.uncommitted = FALSE, !.inflight = v, !.active = v,
                           !.feeding = f, !.step = "continue_sweep_page"] \in Run
      BY <1>0 DEF Run, Step
    <3>2. run[j].docs \cap content \in SUBSET Docs
      BY <1>0 DEF Run
    <3> QED
      BY <1>0, <1>7, <3>1, <3>2 DEF Validate
  <2> QED
    BY <1>7, <2>1, <2>2, <2>3 DEF Validate, Typed
<1>8. CASE ValidateFails(j)
  <2>1. JobsTyped(job')
    BY <1>8, JobMoves DEF ValidateFails, Move, Pos, RunPos, Unpublished, Writing
  <2> QED
    BY <1>8, <2>1 DEF ValidateFails, Typed
<1>9. CASE BatchStep(j)
  BY <1>9, BatchTyped
<1>10. CASE Decide(j)
  <2>1. JobsTyped(job')
    BY <1>10, JobMoves DEF Decide, Move, Pos, RunPos, Unpublished, Writing
  <2>2. Mailbox(mb') /\ (HasManualRetry(mb) => NextManualRetry(mb) \in Jobs)
    BY <1>10, MailboxOps DEF Decide, Typed
  <2>3. NextStep(j) \in Step /\ (NextStep(j) = "continue_manual" => HasManualRetry(mb))
    BY <1>10 DEF Decide, NextStep, Step
  <2>4. CURSOR_START \in CURSOR_START .. CURSOR_END
    BY DocsAreFinite DEF CURSOR_START, CURSOR_END
  <2>5. run' \in [Jobs -> Run]
    BY <1>0, <1>10, <2>2, <2>3, <2>4 DEF Decide, Run
  <2> QED
    BY <1>10, <2>1, <2>2, <2>3, <2>4, <2>5 DEF Decide, Typed
<1>11. CASE DecideReleased(j)
  <2>1. JobsTyped(job')
    BY <1>11, JobMoves, ZenonT(40) DEF DecideReleased, Move, Pos, RunPos, Unpublished, Writing,
       Return
  <2>2. ps' \in Status
    BY <1>0, <1>11, StatusOps DEF DecideReleased, Typed
  <2>3. NoRun \in Run
    BY DocsAreFinite DEF NoRun, Run, Step, CURSOR_START, CURSOR_END
  <2>4. run' \in [Jobs -> Run]
    BY <1>0, <1>11, <2>3 DEF DecideReleased
  <2> QED
    BY <1>11, <2>1, <2>2, <2>3, <2>4 DEF DecideReleased, Typed
<1>12. CASE DecideCancelled(j)
  <2>1. JobsTyped(job')
    BY <1>12, JobMoves DEF DecideCancelled, Move, Pos, RunPos, Unpublished, Writing
  <2> QED
    BY <1>12, <2>1 DEF DecideCancelled, Typed
<1>13. CASE DrainChannel(j)
  <2>1. JobsTyped(job')
    BY <1>13, JobMoves DEF DrainChannel, Move, Pos, RunPos, Unpublished, Writing
  <2>2. Mailbox(mb') /\ Drained(mb, DrainLimit) \in Seq(Docs)
    BY <1>13, MailboxOps DEF DrainChannel, Typed
  <2>3. run' \in [Jobs -> Run]
    BY <1>0, <1>13, <2>2 DEF DrainChannel, Run
  <2> QED
    BY <1>13, <2>1, <2>2, <2>3 DEF DrainChannel, Typed
<1>14. CASE DrainWait(j)
  <2>1. JobsTyped(job')
    BY <1>14, JobMoves DEF DrainWait, Move, Pos, RunPos, Unpublished, Writing
  <2> QED
    BY <1>14, <2>1 DEF DrainWait, Typed
<1>15. CASE FenceStalledEnqueue(j)
  <2>1. JobsTyped(job')
    BY <1>15, JobMoves DEF FenceStalledEnqueue, Move, Pos, RunPos, Unpublished, Writing
  <2>2. ps' \in Status
    BY <1>0, <1>15, StatusOps DEF FenceStalledEnqueue, Typed
  <2> QED
    BY <1>15, <2>1, <2>2 DEF FenceStalledEnqueue, Typed
<1>16. CASE ConfirmDrained(j)
  <2>1. JobsTyped(job')
    <3>1. {"raise", "loop", "enter"} \subseteq Pos \ Unpublished
      BY DEF Pos, RunPos, Unpublished, Writing
    <3>2. job' = job \/ \E pos \in {"raise", "loop", "enter"} : job' = [job EXCEPT ![j].pos = pos]
      BY <1>16 DEF ConfirmDrained, Move
    <3> QED
      BY <3>1, <3>2, JobMoves DEF Typed
  <2>2. ps' \in Status
    BY <1>0, <1>16, StatusOps DEF ConfirmDrained, Typed
  <2> DEFINE page == PageRows(AutoResume, run[j].cursor)
  <2>3. page \in SUBSET Docs /\ NextPosition(page) \in CURSOR_START .. CURSOR_END
    BY <1>0, PageTyped DEF Run
  <2>4. Repeats(j, page \ Journaled) \in Nat
    BY <1>0 DEF Repeats, Run
  <2>5. \/ run' = [run EXCEPT ![j].docs = page \ Journaled, ![j].cursor = NextPosition(page),
                             ![j].blocking = page \ Journaled,
                             ![j].repeats = Repeats(j, page \ Journaled)]
        \/ run' = [run EXCEPT ![j].blocked = run[j].blocked \/ page \cap Journaled # {},
                             ![j].cursor = NextPosition(page)]
    BY <1>16 DEF ConfirmDrained
  <2>6. (run[j].blocked \/ page \cap Journaled # {}) \in BOOLEAN
    BY <1>0 DEF Run
  <2> HIDE DEF page
  <2>7. run' \in [Jobs -> Run]
    <3>1. \A n \in Nat :
            [run[j] EXCEPT !.docs = page \ Journaled, !.cursor = NextPosition(page),
                           !.blocking = page \ Journaled, !.repeats = n] \in Run
      BY <1>0, <2>3 DEF Run
    <3>2. \A b \in BOOLEAN :
            [run[j] EXCEPT !.blocked = b, !.cursor = NextPosition(page)] \in Run
      BY <1>0, <2>3 DEF Run
    <3> QED
      BY <1>0, <2>4, <2>5, <2>6, <3>1, <3>2
  <2> QED
    BY <1>16, <2>1, <2>2, <2>7 DEF ConfirmDrained, Typed
<1>17. CASE EnterReset(j)
  <2>1. JobsTyped(job')
    BY <1>17, JobMoves DEF EnterReset, Move, Pos, RunPos, Unpublished, Writing
  <2>2. ps' \in Status
    BY <1>0, <1>17, StatusOps DEF EnterReset, Typed
  <2>3. CURSOR_START \in CURSOR_START .. CURSOR_END
    BY DocsAreFinite DEF CURSOR_START, CURSOR_END
  <2>4. run' \in [Jobs -> Run]
    BY <1>0, <1>17, <2>3 DEF EnterReset, Run
  <2> QED
    BY <1>17, <2>1, <2>2, <2>3, <2>4 DEF EnterReset, Typed
<1>18. CASE ResetPage(j)
  <2>1. JobsTyped(job')
    <3>1. "ack" \in Pos \ Unpublished
      BY DEF Pos, RunPos, Unpublished, Writing
    <3>2. job' = job \/ job' = [job EXCEPT ![j].pos = "ack"]
      BY <1>18 DEF ResetPage, Move
    <3> QED
      BY <3>1, <3>2, JobMoves DEF Typed
  <2>2. row' \in [Docs -> RowStatus \cup {None}]
    BY <1>18 DEF ResetPage, Typed, RowStatus
  <2>3. NextPosition(PageRows({"FAILED"}, run[j].cursor)) \in CURSOR_START .. CURSOR_END
    BY <1>0, PageTyped DEF Run
  <2>4. run' \in [Jobs -> Run]
    BY <1>0, <1>18, <2>3 DEF ResetPage, Run
  <2> QED
    BY <1>18, <2>1, <2>2, <2>3, <2>4 DEF ResetPage, Typed
<1>19. CASE ResetFails(j)
  <2>1. JobsTyped(job')
    BY <1>19, JobMoves DEF ResetFails, Move, Pos, RunPos, Unpublished, Writing
  <2> QED
    BY <1>19, <2>1 DEF ResetFails, Typed
<1>20. CASE Acknowledge(j)
  <2>1. JobsTyped(job')
    BY <1>20, JobMoves DEF Acknowledge, Move, Pos, RunPos, Unpublished, Writing
  <2>2. Mailbox(mb')
    BY <1>20, MailboxOps DEF Acknowledge, Typed, Run
  <2> QED
    BY <1>20, <2>1, <2>2 DEF Acknowledge, Typed
<1>21. CASE EndManualDrain(j)
  <2>1. JobsTyped(job')
    BY <1>21, JobMoves DEF EndManualDrain, Move, Pos, RunPos, Unpublished, Writing
  <2>2. ps' \in Status
    BY <1>0, <1>21, StatusOps DEF EndManualDrain, IfOwner, Typed
  <2>3. run' \in [Jobs -> Run]
    BY <1>0, <1>21 DEF EndManualDrain, Run
  <2> QED
    BY <1>21, <2>1, <2>2, <2>3 DEF EndManualDrain, Typed
<1>22. CASE Finalize(j)
  <2>1. JobsTyped(job')
    BY <1>22, JobMoves DEF Finalize, Move, Pos, RunPos, Unpublished, Writing, Return
  <2>2. ps' \in Status
    BY <1>0, <1>22, StatusOps DEF Finalize, IfOwner, Typed
  <2>3. Mailbox(mb')
    BY <1>22, MailboxOps DEF Finalize, Typed
  <2>4. NoRun \in Run
    BY DocsAreFinite DEF NoRun, Run, Step, CURSOR_START, CURSOR_END
  <2>5. run' \in [Jobs -> Run]
    BY <1>0, <1>22, <2>4 DEF Finalize
  <2> QED
    BY <1>22, <2>1, <2>2, <2>3, <2>4, <2>5 DEF Finalize, Typed
<1> QED
  BY <1>1, <1>2, <1>3, <1>4, <1>5, <1>6, <1>7, <1>8, <1>9, <1>10, <1>11, <1>12, <1>13, <1>14,
     <1>15, <1>16, <1>17, <1>18, <1>19, <1>20, <1>21, <1>22 DEF RunStep

LEMMA NextTyped ==
    ASSUME Typed, Next
    PROVE  Typed'
<1>1. ASSUME NEW j \in Jobs, Request(j) \/ CallerStep(j) \/ RunStep(j)
      PROVE  Typed'
  BY <1>1, RequestTyped, CallerTyped, RunTyped
<1>2. CASE CancelPipeline
  BY <1>2 DEF CancelPipeline, Typed, Status
<1>3. CASE ForceReset
  <2>1. ps' \in Status
    BY <1>3, ForceResetTyped DEF ForceReset, Typed
  <2>2. Mailbox(mb')
    BY <1>3, MailboxOps DEF ForceReset, Typed
  <2> QED
    BY <1>3, <2>1, <2>2 DEF ForceReset, Typed
<1> QED
  BY <1>1, <1>2, <1>3 DEF Next

-----------------------------------------------------------------------------
(* The invariant: the beginning, and three kinds of steps *)

LEMMA InitInv == Init => IInv
<1> SUFFICES ASSUME Init PROVE IInv
  OBVIOUS
<1>0. /\ None \notin RowStatus /\ CURSOR_START \in CURSOR_START .. CURSOR_END
      /\ CURSOR_END \in CURSOR_START .. CURSOR_END
      /\ OldFailed \cup Stubs \cup Orphans \cup Journaled \subseteq Docs
  BY SchedulerAssumption, DocsAreFinite DEF CURSOR_START, CURSOR_END
<1>1. NoRun \in Run
  BY <1>0, EmptyFields DEF NoRun, Run, Step
<1>2. Typed
  <2>1. ps \in Status
    BY DEF Init, InitialStatus, Status, ManualPhase, JobName
  <2>2. Mailbox(mb)
    <3>1. /\ <<>> \in Seq(Docs) /\ <<>> \in Seq(Jobs) /\ <<>> \in Seq(Ended) /\ Len(<<>>) = 0
          /\ 0 <= DocumentCapacity /\ 0 <= ManualCapacity /\ 0 <= TerminalCapacity
      BY MailboxAssumption
    <3> QED
      BY <3>1, EmptyFields DEF Init, EmptyMailbox, Mailbox
  <2>3. JobsTyped(job)
    BY DEF Init, JobsTyped, Job, JobKind, Pos, Unpublished, Writing
  <2> QED
    BY <1>0, <1>1, <2>1, <2>2, <2>3 DEF Init, Typed, RowStatus
<1>3. \A j \in Jobs : job[j].pos = "idle" /\ job[j].doc = None /\ run[j] = NoRun
  BY DEF Init
<1>4. Slot /\ Frozen /\ Unstalled /\ Inserting
  <2>1. None # "manual_drain_enqueue_stalled"
    BY StatusAssumption DEF FenceKind
  <2> QED
    BY <1>3, <2>1 DEF Slot, Frozen, Unstalled, Inserting, Init, InitialStatus, Holding, RunPos,
                      Writing
<1>5. Journal /\ Backed
  BY <1>0 DEF Journal, Backed, Init
<1>6. Local(NoRun)
  <2>1. Cardinality({}) = 0 /\ PageSize \in Nat
    BY FS_EmptySet, SchedulerAssumption
  <2> QED
    BY <2>1 DEF Local, NoRun
<1>7. ASSUME NEW j \in Jobs
      PROVE  Local(run[j]) /\ Known(j) /\ Reset(j)
  <2>1. job[j].pos = "idle" /\ run[j] = NoRun
    BY <1>3
  <2>2. Known(j)
    BY <2>1 DEF Known, NoRun
  <2>3. Reset(j)
    BY <2>1 DEF Reset
  <2> QED
    BY <1>6, <2>1, <2>2, <2>3
<1> QED
  BY <1>2, <1>4, <1>5, <1>7 DEF IInv

\* what the step of one job leaves to the others
Others(j) == \A k \in Jobs \ {j} : job'[k] = job[k] /\ run'[k] = run[k]

\* no enqueue but the job's own is forgotten
TokensStay(j) == \A t \in Jobs \ {j} : Registered(ps, t) => Registered(ps', t)

\* whoever holds the slot keeps it, frozen and cancelled as it was
HolderStays(k) ==
    job[k].pos \in Holding =>
        /\ OwnsBusy(ps', k) /\ ps'.busy /\ ~Fenced(ps')
        /\ ps.manual_freeze_requested => ps'.manual_freeze_requested
        /\ ps.cancellation_requested => ps'.cancellation_requested

\* The step of a job that nobody else keeps from the slot.
LEMMA HolderStep ==
    ASSUME IInv, NEW j \in Jobs, Typed', Others(j), TokensStay(j), Frozen', Unstalled',
           \A k \in Jobs \ {j} : job[k].pos \notin Holding,
           job'[j].doc = job[j].doc, job'[j].pos \notin Writing, content' = content,
           \A d \in Docs : \/ row'[d] = row[d]
                           \/ /\ row[d] # None /\ d \notin Journaled
                              /\ row'[d] = None \/ d \in content,
           job'[j].pos \in Holding => OwnsBusy(ps', j) /\ ps'.busy /\ ~Fenced(ps'),
           Local(run[j])', Known(j)', Reset(j)'
    PROVE  IInv'
<1>1. Slot'
  BY DEF Slot, Others
<1>2. Inserting'
  BY DEF IInv, Inserting, Others, TokensStay, Typed
<1>3. Journal'
  <2>1. Journaled \subseteq Docs
    BY SchedulerAssumption
  <2> QED
    BY <2>1 DEF IInv, Journal
<1>4. Backed'
  BY DEF IInv, Backed
<1>5. ASSUME NEW k \in Jobs \ {j}
      PROVE  Local(run[k])' /\ Known(k)' /\ Reset(k)'
  <2>1. /\ job[k].pos \notin RunPos /\ job'[k] = job[k] /\ run'[k] = run[k]
        /\ Local(run[k]) /\ Known(k)
    BY <1>5 DEF Others, Holding, IInv
  <2>2. Local(run[k])'
    BY <2>1 DEF Local
  <2>3. Known(k)'
    BY <2>1 DEF Known, RunPos
  <2>4. Reset(k)'
    BY <2>1 DEF Reset, RunPos
  <2> QED
    BY <2>2, <2>3, <2>4
<1> QED
  BY <1>1, <1>2, <1>3, <1>4, <1>5 DEF IInv

\* The step of a job beside the run: it leaves the rows alone.
LEMMA AsideStep ==
    ASSUME IInv, NEW j \in Jobs, Typed', Others(j), TokensStay(j), Frozen', Unstalled',
           job'[j].doc = job[j].doc, job'[j].pos \notin Holding \cup Writing,
           run'[j] = NoRun, row' = row, content' = content,
           \A k \in Jobs \ {j} : HolderStays(k)
    PROVE  IInv'
<1>1. Slot'
  BY DEF Slot, Others, HolderStays
<1>2. Inserting'
  BY DEF IInv, Inserting, Others, TokensStay
<1>3. Journal' /\ Backed'
  BY DEF IInv, Journal, Backed
<1>4. Local(run[j])' /\ Known(j)' /\ Reset(j)'
  <2>1. Cardinality({}) = 0 /\ PageSize \in Nat
    BY FS_EmptySet, SchedulerAssumption
  <2> QED
    BY <2>1 DEF Local, Known, Reset, NoRun, Holding, RunPos
<1>5. ASSUME NEW k \in Jobs \ {j}
      PROVE  Local(run[k])' /\ Known(k)' /\ Reset(k)'
  <2>1. /\ job'[k] = job[k] /\ run'[k] = run[k] /\ HolderStays(k)
        /\ Local(run[k]) /\ Known(k) /\ Reset(k)
    BY <1>5 DEF Others, IInv
  <2>2. Local(run[k])'
    BY <2>1 DEF Local
  <2>3. Known(k)'
    BY <2>1 DEF Known, HolderStays, Holding, RunPos
  <2>4. \A l \in Jobs : job'[l].pos \in Writing => job[l].pos \in Writing
    BY DEF Others
  <2>5. Reset(k)'
    BY <2>1, <2>4 DEF Reset, HolderStays, Holding, RunPos
  <2> QED
    BY <2>2, <2>3, <2>5
<1> QED
  BY <1>1, <1>2, <1>3, <1>4, <1>5 DEF IInv

\* The step of an operator: it changes the status and the mailbox only.
LEMMA StatusStep ==
    ASSUME IInv, Typed', UNCHANGED <<row, content, job, run>>, Frozen', Unstalled',
           NoStall => \A t \in Jobs : Registered(ps, t) => Registered(ps', t),
           \A k \in Jobs : HolderStays(k)
    PROVE  IInv'
<1>1. Slot'
  BY DEF Slot, HolderStays
<1>2. Inserting' /\ Journal' /\ Backed'
  BY DEF IInv, Inserting, Journal, Backed
<1>3. ASSUME NEW k \in Jobs
      PROVE  Local(run[k])' /\ Known(k)' /\ Reset(k)'
  <2>1. HolderStays(k) /\ Local(run[k]) /\ Known(k) /\ Reset(k)
    BY <1>3 DEF IInv
  <2>2. Local(run[k])'
    BY <2>1 DEF Local
  <2>3. Known(k)'
    BY <2>1 DEF Known, HolderStays, Holding, RunPos
  <2>4. Reset(k)'
    BY <2>1 DEF Reset, HolderStays, Holding, RunPos
  <2> QED
    BY <2>2, <2>3, <2>4
<1> QED
  BY <1>1, <1>2, <1>3 DEF IInv

\* The step of an insert: it writes nothing but its own document.
LEMMA WriterStep ==
    ASSUME IInv, NEW j \in Jobs, Typed', Others(j), TokensStay(j), Frozen', Unstalled',
           run' = run, job[j].pos \notin RunPos \cup {"raise"}, job'[j].pos \notin Holding,
           Inserting', content \subseteq content',
           \A d \in content' \ content : row[d] = None /\ d \notin Journaled,
           \A d \in Docs : \/ row'[d] = row[d]
                           \/ /\ row[d] = None /\ row'[d] = "PENDING" /\ d \in content'
                              /\ job[j].pos \in Writing,
           NoStall /\ job'[j].pos \in Writing /\ job[j].pos \notin Writing
               => ~ps.manual_freeze_requested,
           \A k \in Jobs \ {j} : HolderStays(k)
    PROVE  IInv'
<1>0. /\ None \notin {"PENDING", "ACTIVE", "PROCESSED", "FAILED"} /\ Journaled \subseteq Docs
      /\ content' \subseteq Docs /\ content \subseteq Docs
  BY SchedulerAssumption DEF RowStatus, IInv, Typed
<1>1. Slot'
  BY DEF Slot, Others, HolderStays
<1>2. Journal'
  BY <1>0 DEF IInv, Journal
<1>3. Backed'
  BY <1>0 DEF IInv, Backed
<1>4. ASSUME NEW k \in Jobs
      PROVE  Local(run[k])'
  BY <1>4 DEF IInv, Local
<1>5. Known(j)' /\ Reset(j)'
  <2>1. run'[j] = NoRun
    BY DEF IInv, Known
  <2> QED
    BY <2>1 DEF Known, Reset, NoRun, Holding, RunPos
<1>6. ASSUME NEW k \in Jobs \ {j}
      PROVE  Known(k)' /\ Reset(k)'
  <2>1. /\ job'[k] = job[k] /\ run'[k] = run[k] /\ HolderStays(k) /\ run[k] \in Run
        /\ Known(k) /\ Reset(k) /\ Local(run[k])
    BY <1>6 DEF Others, IInv, Typed
  <2>2. \A d \in Docs : row[d] # None => row'[d] = row[d]
    OBVIOUS
  <2>3. Known(k)'
    <3>1. \A d \in Docs : row[d] \in AutoResume => row'[d] = row[d]
      BY <1>0, <2>2 DEF AutoResume
    <3>2. \A d \in Docs : row[d] = "PENDING" => row'[d] = row[d]
      BY <1>0, <2>2
    <3>3. /\ run[k].docs \subseteq Docs /\ run[k].active \subseteq Docs
          /\ run[k].pending \subseteq Docs
      BY <2>1 DEF Run
    <3> QED
      BY <2>1, <3>1, <3>2, <3>3 DEF Known, HolderStays, Holding, RunPos
  <2>4. ASSUME job[k].pos \in {"confirm", "enter", "reset", "ack"}
        PROVE  Reset(k)'
    <3>1. NoStall => \A l \in Jobs : job'[l].pos \notin Writing
      BY <2>1, <2>4 DEF Reset, Others
    <3>2. NoStall => \A d \in Docs : row'[d] = row[d]
      BY <2>1, <2>4 DEF Reset
    <3>3. \A d \in Journaled : row'[d] = row[d]
      BY <1>0, <1>2 DEF IInv, Journal
    <3>4. ps'.manual_freeze_requested
      BY <2>1, <2>4 DEF Reset, HolderStays, Holding, RunPos
    <3>5. \A d \in content' \ Journaled :
              \/ row'[d] # "FAILED"
              \/ d \in content \ Journaled /\ row'[d] = row[d]
      BY <1>0
    <3>6. job[k].pos = "confirm" => Reset(k)'
      BY <2>1, <3>1, <3>2, <3>3, <3>4 DEF Reset
    <3>7. job[k].pos = "enter" => Reset(k)'
      BY <2>1, <3>1, <3>2, <3>4 DEF Reset
    <3>8. job[k].pos = "reset" => Reset(k)'
      BY <2>1, <3>1, <3>2, <3>4, <3>5 DEF Reset
    <3>9. job[k].pos = "ack" => Reset(k)'
      BY <2>1, <3>1, <3>2, <3>4, <3>5 DEF Reset
    <3> QED
      BY <2>4, <3>6, <3>7, <3>8, <3>9
  <2>5. job[k].pos \notin {"confirm", "enter", "reset", "ack"} => Reset(k)'
    BY <2>1 DEF Reset
  <2> QED
    BY <2>3, <2>4, <2>5
<1> QED
  BY <1>1, <1>2, <1>3, <1>4, <1>5, <1>6 DEF IInv

-----------------------------------------------------------------------------
(* The invariant: callers *)

\* The slot has one holder.
LEMMA OneHolder ==
    ASSUME IInv, NEW j \in Jobs, job[j].pos \in Holding \/ OwnsBusy(ps, j) \/ ~ps.busy \/
           Fenced(ps)
    PROVE  \A k \in Jobs \ {j} : job[k].pos \notin Holding
BY DEF IInv, Slot, OwnsBusy

\* A job whose position is beside the run has the locals of no run.
LEMMA Beside ==
    ASSUME IInv, NEW j \in Jobs
    PROVE  /\ job[j] \in Job /\ run[j] \in Run /\ job[j].next \in {"done", "terminal"}
           /\ job[j].pos \notin RunPos \cup {"raise"} => run[j] = NoRun
BY DEF IInv, Typed, JobsTyped, Job, Known

\* What the operators on the status leave alone.
LEMMA StatusKept ==
    ASSUME NEW s \in Status, NEW t \in Jobs, NEW kind \in OwnerKind,
           NEW u, u \in {FreeBusy(s), Uncancel(s), Uncancel(FreeBusy(s)),
              GiveBusy(s, Me(t, kind)),
                         Uncancel(GiveBusy(s, Me(t, kind)))}
    PROVE  /\ u.pending_enqueue_tokens = s.pending_enqueue_tokens
           /\ u.manual_phase = s.manual_phase
           /\ u.manual_freeze_requested = s.manual_freeze_requested
           /\ u.recovery_required = s.recovery_required
BY DEF FreeBusy, Uncancel, GiveBusy, Status

\* Whoever is not in the run keeps a status that leaves slot and freeze alone.
LEMMA Kept ==
    ASSUME IInv, ps'.busy = ps.busy, ps'.busy_owner = ps.busy_owner,
           ps'.recovery_required = ps.recovery_required,
           ps'.manual_freeze_requested = ps.manual_freeze_requested,
           ps'.manual_phase = ps.manual_phase,
           ps'.cancellation_requested = ps.cancellation_requested
    PROVE  Frozen' /\ Unstalled' /\ \A k \in Jobs : HolderStays(k)
BY DEF IInv, Frozen, Unstalled, HolderStays, Slot, OwnsBusy, Fenced

LEMMA RequestInv ==
    ASSUME IInv, NEW j \in Jobs, Request(j)
    PROVE  IInv'
<1>0. /\ Typed /\ Typed' /\ job[j] \in Job /\ job \in [Jobs -> Job]
      /\ job[j].pos \notin RunPos \cup {"raise"} => run[j] = NoRun
  BY RequestTyped, Beside DEF IInv, Typed, JobsTyped
<1>1. CASE ReserveInsert(j)
  <2>1. PICK d \in Docs : /\ row[d] = None /\ \A k \in Jobs : job[k].doc # d
                          /\ job' = [job EXCEPT ![j].kind = "insert", ![j].pos = "content",
                                                ![j].doc = d]
    BY <1>1 DEF ReserveInsert
  <2>2. job[j].pos = "idle" /\ job'[j].pos = "content" /\ job'[j].doc = d
    BY <1>0, <1>1, <2>1 DEF ReserveInsert, MayStart, At, Job
  <2>3. /\ Me(j, "processing").worker \in Workers /\ ps \in Status
        /\ \A w \in Workers : [worker |-> w, kind |-> "enqueue"] \in EnqueueMeta
    BY <1>0, SchedulerAssumption DEF Me, OwnerRecord, Typed, EnqueueMeta, ReservationKind
  <2>4. /\ \A t \in Jobs \ {j} : ps'.pending_enqueue_tokens[t] = ps.pending_enqueue_tokens[t]
        /\ ps'.pending_enqueue_tokens[j] # None
        /\ ps' = [ps EXCEPT !.pending_enqueue_tokens = ps'.pending_enqueue_tokens]
    BY <1>1, <2>3, StatusAssumption DEF ReserveInsert, Register, Status
  <2>5. Frozen' /\ Unstalled' /\ \A k \in Jobs : HolderStays(k)
    BY <2>3, <2>4, Kept DEF Status
  <2>6. Others(j)
    BY <1>0, <1>1, <2>1 DEF Others, ReserveInsert
  <2>7. TokensStay(j)
    BY <2>4 DEF TokensStay, Registered
  <2>8. Inserting'
    <3>1. \A k \in Jobs \ {j} : job'[k] = job[k] /\ job[k].doc # d
      BY <2>1, <2>6 DEF Others
    <3>2. \A k \in Jobs : Registered(ps, k) => Registered(ps', k)
      BY <2>4 DEF Registered
    <3>3. row' = row /\ content' = content /\ Registered(ps', j)
      BY <1>1, <2>4 DEF ReserveInsert, Registered
    <3>4. \A k, l \in Jobs : job'[k].doc # None /\ job'[k].doc = job'[l].doc => k = l
      BY <2>2, <3>1 DEF IInv, Inserting
    <3>5. ASSUME NEW k \in Jobs, job'[k].pos \in Writing
          PROVE  /\ job'[k].doc \in Docs /\ row'[job'[k].doc] = None
                 /\ job'[k].pos = "status" => job'[k].doc \in content'
                 /\ NoStall => Registered(ps', k)
      <4>1. CASE k = j
        BY <2>1, <2>2, <3>3, <4>1
      <4>2. CASE k # j
        BY <3>1, <3>2, <3>3, <3>5, <4>2 DEF IInv, Inserting
      <4> QED
        BY <4>1, <4>2
    <3> QED
      BY <3>4, <3>5 DEF Inserting
  <2>9. run' = run /\ row' = row /\ content' = content /\ ~ps.manual_freeze_requested
    BY <1>1 DEF ReserveInsert, IngressFenced
  <2>10. job[j].pos \notin RunPos \cup {"raise"} /\ job'[j].pos \notin Holding
    BY <2>2 DEF RunPos, Holding
  <2> QED
    BY <1>0, <2>2, <2>5, <2>6, <2>7, <2>8, <2>9, <2>10, WriterStep
<1>2. CASE CommitRetry(j) \/ StartProcess(j)
  <2>1. /\ ps' = ps /\ UNCHANGED <<row, content, run>> /\ job[j].pos = "idle"
        /\ job'[j].doc = job[j].doc /\ job'[j].pos = "drive"
        /\ \A k \in Jobs \ {j} : job'[k] = job[k]
    BY <1>0, <1>2 DEF CommitRetry, StartProcess, MayStart, At, Start, Job
  <2>2. Frozen' /\ Unstalled' /\ (\A k \in Jobs : HolderStays(k))
    BY <2>1, Kept
  <2>3. TokensStay(j) /\ Others(j)
    BY <2>1 DEF TokensStay, Others
  <2>4. run'[j] = NoRun /\ job'[j].pos \notin Holding \cup Writing
    BY <1>0, <2>1 DEF Holding, RunPos, Writing
  <2> QED
    BY <1>0, <2>1, <2>2, <2>3, <2>4, AsideStep
<1>3. CASE TakePipeline(j)
  <2>1. /\ UNCHANGED <<row, content, run>> /\ job[j].pos = "idle" /\ ~ps.busy /\ ~Fenced(ps)
        /\ job'[j].doc = job[j].doc /\ job'[j].pos = "body"
        /\ \A k \in Jobs \ {j} : job'[k] = job[k]
    BY <1>0, <1>3 DEF TakePipeline, MayStart, At, Start, Job
  <2>2. \E kind \in OwnerKind : ps' = GiveBusy(ps, Me(j, kind)) \/
                                ps' = Uncancel(GiveBusy(ps, Me(j, kind)))
    BY <1>3 DEF TakePipeline, OwnerKind
  <2>3. /\ ps'.pending_enqueue_tokens = ps.pending_enqueue_tokens
        /\ ps'.manual_phase = ps.manual_phase
        /\ ps'.manual_freeze_requested = ps.manual_freeze_requested
        /\ ps'.recovery_required = ps.recovery_required
    BY <1>0, <2>2, StatusKept DEF Typed
  <2>4. OwnsBusy(ps', j) /\ ps'.busy
    <3>1. \A kind \in OwnerKind : Me(j, kind) \in Owners /\ Me(j, kind).token = j
      BY SchedulerAssumption DEF Me, OwnerRecord, Owners
    <3>2. ps'.busy /\ \E kind \in OwnerKind : ps'.busy_owner = Me(j, kind)
      BY <1>0, <2>2 DEF GiveBusy, Uncancel, Typed, Status
    <3> QED
      BY <3>1, <3>2, StatusAssumption DEF OwnsBusy
  <2>5. TokensStay(j) /\ Others(j) /\ Frozen' /\ Unstalled' /\ ~Fenced(ps')
    BY <2>1, <2>3 DEF TokensStay, Others, Registered, IInv, Frozen, Unstalled, Fenced
  <2>6. \A k \in Jobs \ {j} : job[k].pos \notin Holding
    BY <2>1, OneHolder
  <2>7. run'[j] = NoRun /\ job'[j].pos \notin Writing
    BY <1>0, <2>1 DEF RunPos, Writing
  <2>8. Local(run[j])' /\ Known(j)' /\ Reset(j)'
    <3>1. Cardinality({}) = 0 /\ PageSize \in Nat
      BY FS_EmptySet, SchedulerAssumption
    <3>2. Local(run[j])'
      BY <2>7, <3>1 DEF Local, NoRun
    <3>3. Known(j)'
      BY <2>1, <2>7 DEF Known, NoRun
    <3>4. Reset(j)'
      BY <2>1 DEF Reset
    <3> QED
      BY <3>2, <3>3, <3>4
  <2> QED
    BY <1>0, <2>1, <2>4, <2>5, <2>6, <2>7, <2>8, HolderStep
<1> QED
  BY <1>1, <1>2, <1>3 DEF Request

LEMMA WriterInv ==
    ASSUME IInv, NEW j \in Jobs, WriteContent(j) \/ WriteStatus(j) \/ WriteStatusFails(j)
    PROVE  IInv'
<1>0. /\ Typed /\ Typed' /\ job[j] \in Job /\ job \in [Jobs -> Job]
      /\ row \in [Docs -> RowStatus \cup {None}]
      /\ job[j].pos \notin RunPos \cup {"raise"} => run[j] = NoRun
  BY CallerTyped, Beside DEF IInv, Typed, JobsTyped, CallerStep
<1>1. /\ ps' = ps /\ run' = run /\ job[j].pos \in Writing /\ job'[j].doc = job[j].doc
      /\ \A k \in Jobs \ {j} : job'[k] = job[k]
      /\ job'[j].pos \in {"status", "leave", "failed_leave", "driven_leave"}
      /\ job'[j].pos = "status" => job[j].pos = "content"
  BY <1>0 DEF WriteContent, WriteStatus, WriteStatusFails, At, Move, Job, Writing
<1>2. /\ job[j].doc \in Docs /\ row[job[j].doc] = None /\ job[j].doc # None
      /\ job[j].pos = "status" => job[j].doc \in content
      /\ NoStall => Registered(ps, j)
  BY <1>1, SchedulerAssumption DEF IInv, Inserting
<1>3. /\ (content' = content \cup {job[j].doc} /\ job[j].pos = "content") \/ content' = content
      /\ job'[j].pos = "status" => row' = row /\ job[j].doc \in content'
      /\ row' = row \/ (row' = [row EXCEPT ![job[j].doc] = "PENDING"] /\ job[j].pos = "status")
  BY <1>0, <1>1 DEF WriteContent, WriteStatus, WriteStatusFails, At, Move, Job
<1>4. Frozen' /\ Unstalled' /\ (\A k \in Jobs : HolderStays(k)) /\ Others(j) /\ TokensStay(j)
  BY <1>1, Kept DEF Others, TokensStay
<1>5. Inserting'
  <2>1. \A k, l \in Jobs : job'[k].doc # None /\ job'[k].doc = job'[l].doc => k = l
    <3>1. \A k \in Jobs : job'[k].doc = job[k].doc
      BY <1>1
    <3> QED
      BY <3>1 DEF IInv, Inserting
  <2>2. ASSUME NEW k \in Jobs, job'[k].pos \in Writing
        PROVE  /\ job'[k].doc \in Docs /\ row'[job'[k].doc] = None
               /\ job'[k].pos = "status" => job'[k].doc \in content'
               /\ NoStall => Registered(ps', k)
    <3>1. CASE k = j
      <4>1. job'[j].pos = "status"
        BY <1>1, <2>2, <3>1 DEF Writing
      <4> QED
        BY <1>1, <1>2, <1>3, <3>1, <4>1
    <3>2. CASE k # j
      <4>1. job'[k] = job[k] /\ job[k].doc # job[j].doc
        BY <1>1, <1>2, <3>2 DEF IInv, Inserting
      <4>2. job[k].doc \in Docs /\ row'[job[k].doc] = row[job[k].doc]
        BY <1>0, <1>3, <2>2, <4>1 DEF IInv, Inserting
      <4> QED
        BY <1>1, <1>3, <2>2, <4>1, <4>2 DEF IInv, Inserting
    <3> QED
      BY <3>1, <3>2
  <2> QED
    BY <2>1, <2>2 DEF Inserting
<1>6. /\ job[j].pos \notin RunPos \cup {"raise"} /\ job'[j].pos \notin Holding
  BY <1>1 DEF RunPos, Holding, Writing
<1>7. \A d \in Docs : \/ row'[d] = row[d]
                      \/ /\ row[d] = None /\ row'[d] = "PENDING" /\ d \in content'
                         /\ job[j].pos \in Writing
  BY <1>0, <1>1, <1>2, <1>3
<1>8. \A d \in content' \ content : row[d] = None /\ d \notin Journaled
  BY <1>2, <1>3, SchedulerAssumption DEF IInv, Journal, RowStatus
<1> QED
  BY <1>0, <1>1, <1>3, <1>4, <1>5, <1>6, <1>7, <1>8, WriterStep

LEMMA CallerInv ==
    ASSUME IInv, NEW j \in Jobs, CallerStep(j)
    PROVE  IInv'
<1>0. /\ Typed /\ Typed' /\ ps \in Status /\ job[j] \in Job /\ job \in [Jobs -> Job]
      /\ job[j].pos \notin RunPos \cup {"raise"} => run[j] = NoRun
  BY CallerTyped, Beside DEF IInv, Typed, JobsTyped
<1>1. CASE WriteContent(j) \/ WriteStatus(j) \/ WriteStatusFails(j)
  BY <1>1, WriterInv
<1>2. CASE LeaveInsert(j) \/ Publish(j) \/ DriveIfDeferred(j)
  <2>1. /\ UNCHANGED <<row, content, run>> /\ job'[j].doc = job[j].doc
        /\ job[j].pos \in {"leave", "failed_leave", "driven_leave", "publish", "admin_out"}
        /\ job'[j].pos \in {"publish", "done", "drive"}
        /\ \A k \in Jobs \ {j} : job'[k] = job[k]
    BY <1>0, <1>2 DEF LeaveInsert, Publish, DriveIfDeferred, At, Move, Job
  <2>2. ps' = ps \/ ps' = Unregister(ps, j)
    BY <1>2 DEF LeaveInsert, Publish, DriveIfDeferred
  <2>3. TokensStay(j)
    BY <1>0, <2>2 DEF TokensStay, Registered, Unregister, Status
  <2>4. Frozen' /\ Unstalled' /\ \A k \in Jobs : HolderStays(k)
    <3>1. /\ ps'.busy = ps.busy /\ ps'.busy_owner = ps.busy_owner
          /\ ps'.recovery_required = ps.recovery_required
          /\ ps'.manual_freeze_requested = ps.manual_freeze_requested
          /\ ps'.manual_phase = ps.manual_phase
          /\ ps'.cancellation_requested = ps.cancellation_requested
      BY <1>0, <2>2 DEF Unregister, Status
    <3> QED
      BY <3>1, Kept
  <2>5. Others(j) /\ run'[j] = NoRun /\ job'[j].pos \notin Holding \cup Writing
    BY <1>0, <2>1 DEF Others, RunPos, Holding, Writing
  <2> QED
    BY <1>0, <2>1, <2>3, <2>4, <2>5, AsideStep
<1>3. CASE ReleaseAdmin(j) \/ TerminalRelease(j) \/
           (ExitCustomChunks(j) /\ ~ (OwnsBusy(ps, j) /\ HasWork(mb)))
  <2>1. /\ UNCHANGED <<row, content, run>> /\ job'[j].doc = job[j].doc
        /\ job[j].pos \in {"body", "terminal"}
        /\ job'[j].pos \in {"admin_out", "terminal", "done"}
        /\ \A k \in Jobs \ {j} : job'[k] = job[k]
    BY <1>0, <1>3 DEF ReleaseAdmin, TerminalRelease, ExitCustomChunks, At, Move, Job
  <2>2. \/ ps' = ps
        \/ OwnsBusy(ps, j) /\ (ps' = FreeBusy(ps) \/ ps' = Uncancel(FreeBusy(ps)))
    BY <1>3 DEF ReleaseAdmin, TerminalRelease, ExitCustomChunks, IfOwner
  <2>3. /\ ps'.pending_enqueue_tokens = ps.pending_enqueue_tokens
        /\ ps'.manual_phase = ps.manual_phase
        /\ ps'.manual_freeze_requested = ps.manual_freeze_requested
        /\ ps'.recovery_required = ps.recovery_required
    BY <1>0, <2>2 DEF FreeBusy, Uncancel, Status
  <2>4. TokensStay(j) /\ Frozen' /\ Unstalled'
    BY <2>3 DEF TokensStay, Registered, IInv, Frozen, Unstalled
  <2>5. ASSUME NEW k \in Jobs \ {j}
        PROVE  HolderStays(k)
    <3>1. CASE ps' = ps
      BY <3>1, Kept
    <3>2. CASE OwnsBusy(ps, j)
      BY <3>2, OneHolder DEF HolderStays
    <3> QED
      BY <2>2, <3>1, <3>2
  <2>6. Others(j) /\ run'[j] = NoRun /\ job'[j].pos \notin Holding \cup Writing
    BY <1>0, <2>1 DEF Others, RunPos, Holding, Writing
  <2> QED
    BY <1>0, <2>1, <2>4, <2>5, <2>6, AsideStep
<1>4. CASE ExitCustomChunks(j) /\ OwnsBusy(ps, j) /\ HasWork(mb)
  <2>1. /\ UNCHANGED <<row, content, run>> /\ job'[j].doc = job[j].doc
        /\ job[j].pos = "body" /\ job'[j].pos = "handoff" /\ ps' = Uncancel(ps)
        /\ \A k \in Jobs \ {j} : job'[k] = job[k]
    BY <1>0, <1>4 DEF ExitCustomChunks, At, Job
  <2>2. /\ ps'.pending_enqueue_tokens = ps.pending_enqueue_tokens
        /\ ps'.manual_phase = ps.manual_phase
        /\ ps'.manual_freeze_requested = ps.manual_freeze_requested
        /\ ps'.recovery_required = ps.recovery_required
        /\ ps'.busy = ps.busy /\ ps'.busy_owner = ps.busy_owner
    BY <1>0, <2>1 DEF Uncancel, Status
  <2>3. TokensStay(j) /\ Frozen' /\ Unstalled'
    BY <2>2 DEF TokensStay, Registered, IInv, Frozen, Unstalled
  <2>4. OwnsBusy(ps', j) /\ ps'.busy /\ ~Fenced(ps') /\ job[j].pos \in Holding
    BY <2>1, <2>2 DEF IInv, Slot, OwnsBusy, Fenced, Holding
  <2>5. \A k \in Jobs \ {j} : job[k].pos \notin Holding
    BY <2>4, OneHolder
  <2>6. Others(j) /\ run'[j] = NoRun /\ job'[j].pos \notin Writing
    BY <1>0, <2>1 DEF Others, RunPos, Writing
  <2>7. Local(run[j])' /\ Known(j)' /\ Reset(j)'
    <3>1. Local(run[j])'
      BY <2>1 DEF IInv, Local
    <3>2. Known(j)'
      BY <2>1, <2>6 DEF Known, NoRun
    <3>3. Reset(j)'
      BY <2>1 DEF Reset
    <3> QED
      BY <3>1, <3>2, <3>3
  <2> QED
    BY <1>0, <2>1, <2>3, <2>4, <2>5, <2>6, <2>7, HolderStep
<1> QED
  BY <1>1, <1>2, <1>3, <1>4 DEF CallerStep

-----------------------------------------------------------------------------
(* The invariant: the batch *)

\* what a step of the run does to the rows
RowsMove ==
    \A d \in Docs : \/ row'[d] = row[d]
                    \/ /\ row[d] # None /\ d \notin Journaled
                       /\ row'[d] = None \/ d \in content

\* The step of a run that keeps the slot, its freeze and the enqueues.
LEMMA SlotStep ==
    ASSUME IInv, NEW j \in Jobs, Typed', Others(j), job[j].pos \in Holding,
           ps'.busy = ps.busy, ps'.busy_owner = ps.busy_owner,
           ps'.recovery_required = ps.recovery_required,
           ps'.pending_enqueue_tokens = ps.pending_enqueue_tokens, Frozen',
           job'[j].doc = job[j].doc, job'[j].pos \notin Writing, content' = content, RowsMove,
           Local(run[j])', Known(j)', Reset(j)'
    PROVE  IInv'
<1>1. TokensStay(j) /\ Unstalled'
  BY DEF TokensStay, Registered, IInv, Unstalled
<1>2. OwnsBusy(ps', j) /\ ps'.busy /\ ~Fenced(ps')
  BY DEF IInv, Slot, OwnsBusy, Fenced
<1>3. \A k \in Jobs \ {j} : job[k].pos \notin Holding
  BY OneHolder
<1> QED
  BY <1>1, <1>2, <1>3, HolderStep DEF RowsMove

\* Facts about a run in its batch.
LEMMA InBatch ==
    ASSUME IInv, NEW j \in Jobs, At(j, "batch")
    PROVE  /\ run[j].active \subseteq run[j].inflight
           /\ run[j].active \subseteq content \ Journaled
           /\ run[j].inflight \subseteq Docs /\ IsFiniteSet(run[j].inflight)
           /\ \A d \in run[j].active : row[d] \in AutoResume /\ row[d] # None
           /\ \A d \in run[j].pending \ run[j].inflight : row[d] = "PENDING"
           /\ run[j] \in Run /\ job[j].pos \in Holding
<1>1. run[j] \in Run /\ Local(run[j]) /\ Known(j) /\ job[j].pos = "batch"
  BY DEF IInv, Typed, At
<1>2. None \notin AutoResume
  BY SchedulerAssumption DEF AutoResume, RowStatus
<1>3. run[j].inflight \subseteq Docs
  BY <1>1 DEF Run
<1> QED
  BY <1>1, <1>2, <1>3, DocsAreFinite, FS_Subset DEF Local, Known, Holding, RunPos

\* A step inside the batch.
LEMMA BatchKeeps ==
    ASSUME IInv, NEW j \in Jobs, Typed', At(j, "batch"), job' = job, content' = content,
           \A k \in Jobs \ {j} : run'[k] = run[k], RowsMove,
           ps' = ps \/ ps' = [ps EXCEPT !.cancellation_requested = TRUE],
           run'[j].docs = run[j].docs,
           run'[j].active \subseteq run'[j].inflight,
           run'[j].active \subseteq content \ Journaled,
           PageSize > 0 => Cardinality(run'[j].inflight) <= PageSize,
           \A d \in run'[j].active : row'[d] \in AutoResume,
           \A d \in run'[j].pending \ run'[j].inflight : row'[d] = "PENDING"
    PROVE  IInv'
<1>1. /\ ps'.busy = ps.busy /\ ps'.busy_owner = ps.busy_owner
      /\ ps'.recovery_required = ps.recovery_required
      /\ ps'.pending_enqueue_tokens = ps.pending_enqueue_tokens
      /\ ps'.manual_phase = ps.manual_phase
      /\ ps'.manual_freeze_requested = ps.manual_freeze_requested
  BY DEF IInv, Typed, Status
<1>2. Frozen' /\ Others(j)
  BY <1>1 DEF IInv, Frozen, Others
<1>3. Local(run[j])'
  BY DEF IInv, Local
<1>4. Known(j)' /\ Reset(j)'
  BY DEF Known, Reset, At, RunPos
<1>5. job[j].pos \in Holding /\ job[j].pos \notin Writing
  BY DEF At, Holding, RunPos, Writing
<1> QED
  BY <1>1, <1>2, <1>3, <1>4, <1>5, SlotStep

LEMMA BatchInv ==
    ASSUME IInv, NEW j \in Jobs, BatchStep(j)
    PROVE  IInv'
<1>0. /\ Typed /\ Typed' /\ run \in [Jobs -> Run] /\ row \in [Docs -> RowStatus \cup {None}]
      /\ At(j, "batch") /\ content \subseteq Docs
  BY BatchTyped DEF IInv, Typed, BatchStep, StageDoc, FinishDoc, FinishUnrecorded, FinishHalting,
     FeederDrain, FeederRoute, FeederSkip, FeederYield, BatchEnds, BatchFails, LeaveBatch
<1>i. /\ run[j].active \subseteq run[j].inflight /\ run[j].active \subseteq content \ Journaled
      /\ run[j].inflight \subseteq Docs /\ IsFiniteSet(run[j].inflight)
      /\ \A d \in run[j].active : row[d] \in AutoResume /\ row[d] # None
      /\ \A d \in run[j].pending \ run[j].inflight : row[d] = "PENDING"
      /\ run[j] \in Run /\ job[j].pos \in Holding
  BY <1>0, InBatch
<1>c. PageSize > 0 => Cardinality(run[j].inflight) <= PageSize
  BY DEF IInv, Local
<1>1. ASSUME NEW d \in Docs, StageDoc(j, d)
      PROVE  IInv'
  <2>1. /\ d \in run[j].active /\ row' = [row EXCEPT ![d] = "ACTIVE"]
        /\ ps' = ps /\ content' = content /\ job' = job /\ run' = run
    BY <1>1 DEF StageDoc
  <2>2. RowsMove
    BY <1>0, <1>i, <2>1 DEF RowsMove
  <2>3. \A e \in Docs : row'[e] = IF e = d THEN "ACTIVE" ELSE row[e]
    BY <1>0, <2>1
  <2>4. \A e \in run[j].active : row'[e] \in AutoResume
    BY <1>0, <1>i, <2>3 DEF AutoResume
  <2>5. \A e \in run[j].pending \ run[j].inflight : row'[e] = "PENDING"
    BY <1>i, <2>1, <2>3 DEF Run
  <2> QED
    BY <1>0, <1>i, <1>c, <2>1, <2>2, <2>4, <2>5, BatchKeeps
<1>2. ASSUME NEW d \in Docs, FinishDoc(j, d) \/ FinishUnrecorded(j, d) \/ FinishHalting(j, d)
      PROVE  IInv'
  <2>1. /\ d \in run[j].active /\ content' = content /\ job' = job
        /\ run' = [run EXCEPT ![j].active = @ \ {d}]
        /\ row' = row \/ row' = [row EXCEPT ![d] = "PROCESSED"] \/
              row' = [row EXCEPT ![d] = "FAILED"]
        /\ ps' = ps \/ ps' = [ps EXCEPT !.cancellation_requested = TRUE]
    BY <1>2 DEF FinishDoc, FinishUnrecorded, FinishHalting
  <2>2. /\ run'[j].active = run[j].active \ {d} /\ run'[j].inflight = run[j].inflight
        /\ run'[j].docs = run[j].docs /\ run'[j].pending = run[j].pending
        /\ \A k \in Jobs \ {j} : run'[k] = run[k]
    BY <1>0, <1>i, <2>1 DEF Run
  <2>3. RowsMove /\ \A e \in Docs \ {d} : row'[e] = row[e]
    BY <1>0, <1>i, <2>1 DEF RowsMove
  <2>4. \A e \in run'[j].active : row'[e] \in AutoResume
    BY <1>0, <1>i, <2>2, <2>3
  <2>5. \A e \in run'[j].pending \ run'[j].inflight : row'[e] = "PENDING"
    BY <1>i, <2>1, <2>2, <2>3 DEF Run
  <2> QED
    BY <1>0, <1>i, <1>c, <2>1, <2>2, <2>3, <2>4, <2>5, BatchKeeps
<1>3. CASE FeederDrain(j)
  <2>1. /\ UNCHANGED <<ps, row, content, job>>
        /\ run' = [run EXCEPT ![j].feed = Drained(mb, DrainLimit),
                              ![j].pending = {d \in Docs : row[d] = "PENDING"}]
    BY <1>3 DEF FeederDrain
  <2>2. /\ run'[j].active = run[j].active /\ run'[j].inflight = run[j].inflight
        /\ run'[j].docs = run[j].docs /\ run'[j].pending = {d \in Docs : row[d] = "PENDING"}
        /\ \A k \in Jobs \ {j} : run'[k] = run[k]
    BY <1>0, <1>i, <2>1 DEF Run
  <2>3. RowsMove
    BY <2>1 DEF RowsMove
  <2> QED
    BY <1>0, <1>i, <1>c, <2>1, <2>2, <2>3, BatchKeeps
<1>4. CASE FeederRoute(j)
  <2> DEFINE d == Head(run[j].feed)
             admit == d \notin run[j].inflight /\ d \in run[j].pending \ Journaled
  <2>1. /\ UNCHANGED <<ps, row, content, job>> /\ ~EpochFull(j) /\ (admit => d \in content)
        /\ run' = [run EXCEPT ![j].feed = Tail(@),
              ![j].inflight = IF admit THEN @ \cup {d} ELSE @,
              ![j].active = IF admit THEN @ \cup {d} ELSE @]
    BY <1>4 DEF FeederRoute
  <2> HIDE DEF d
  <2>2. /\ run'[j].active = IF admit THEN run[j].active \cup {d} ELSE run[j].active
        /\ run'[j].inflight = IF admit THEN run[j].inflight \cup {d} ELSE run[j].inflight
        /\ run'[j].docs = run[j].docs /\ run'[j].pending = run[j].pending
        /\ \A k \in Jobs \ {j} : run'[k] = run[k]
    BY <1>0, <1>i, <2>1 DEF Run
  <2>3. RowsMove
    BY <2>1 DEF RowsMove
  <2>4. PageSize > 0 => Cardinality(run'[j].inflight) <= PageSize
    <3>1. CASE admit
      <4>1. /\ Cardinality(run[j].inflight \cup {d}) = Cardinality(run[j].inflight) + 1
            /\ Cardinality(run[j].inflight) \in Nat
        BY <1>i, <3>1, FS_AddElement, FS_CardinalityType, ZenonT(40)
      <4>2. PageSize > 0 => ~ (Cardinality(run[j].inflight) >= PageSize)
        BY <2>1 DEF EpochFull
      <4>3. run'[j].inflight = run[j].inflight \cup {d} /\ PageSize \in Nat
        BY <2>2, <3>1, SchedulerAssumption
      <4> QED
        BY <4>1, <4>2, <4>3
    <3>2. CASE ~admit
      BY <1>c, <2>2, <3>2
    <3> QED
      BY <3>1, <3>2
  <2>5. \A e \in run'[j].active : row'[e] \in AutoResume
    BY <1>i, <2>1, <2>2 DEF AutoResume
  <2>6. /\ run'[j].active \subseteq run'[j].inflight
        /\ run'[j].active \subseteq content \ Journaled
        /\ \A e \in run'[j].pending \ run'[j].inflight : row'[e] = "PENDING"
    <3>1. CASE admit
      <4>1. /\ run'[j].active = run[j].active \cup {d} /\ d \in content \ Journaled
            /\ run'[j].inflight = run[j].inflight \cup {d} /\ run'[j].pending = run[j].pending
            /\ row' = row
        BY <2>1, <2>2, <3>1
      <4> HIDE DEF admit
      <4> QED
        BY <1>i, <4>1
    <3>2. CASE ~admit
      BY <1>i, <2>1, <2>2, <3>2
    <3> QED
      BY <3>1, <3>2
  <2> QED
    BY <1>0, <2>1, <2>2, <2>3, <2>4, <2>5, <2>6, BatchKeeps
<1>5. CASE FeederSkip(j) \/ FeederYield(j)
  <2>1. UNCHANGED <<ps, row, content, job>>
    BY <1>5 DEF FeederSkip, FeederYield
  <2>2. /\ run'[j].active = run[j].active /\ run'[j].inflight = run[j].inflight
        /\ run'[j].docs = run[j].docs /\ run'[j].pending \in {run[j].pending, {}}
        /\ \A k \in Jobs \ {j} : run'[k] = run[k]
    <3>1. CASE FeederSkip(j)
      BY <1>0, <1>i, <3>1 DEF FeederSkip, Run
    <3>2. CASE FeederYield(j)
      BY <1>0, <1>i, <3>2 DEF FeederYield, Run
    <3> QED
      BY <1>5, <3>1, <3>2
  <2>3. RowsMove
    BY <2>1 DEF RowsMove
  <2> QED
    BY <1>0, <1>i, <1>c, <2>1, <2>2, <2>3, BatchKeeps
<1>6. ASSUME NEW pos \in {"decide", "raise"}, LeaveBatch(j, pos)
      PROVE  IInv'
  <2>0. job \in [Jobs -> Job] /\ job[j] \in Job
    BY <1>0 DEF Typed, JobsTyped
  <2>1. /\ UNCHANGED <<ps, row, content>> /\ job'[j].pos = pos /\ job'[j].doc = job[j].doc
        /\ Others(j)
    BY <1>0, <1>6, <2>0 DEF LeaveBatch, Move, Others, Job
  <2>2. /\ run'[j].docs = run[j].docs /\ run'[j].active = {} /\ run'[j].inflight = {}
        /\ run'[j].pending = {} /\ run'[j].feed = <<>> /\ run'[j].deferred = <<>>
        /\ ~run'[j].feeding
    BY <1>0, <1>i, <1>6 DEF LeaveBatch, Run
  <2>3. Local(run[j])'
    <3>1. Cardinality({}) = 0 /\ PageSize \in Nat
      BY FS_EmptySet, SchedulerAssumption
    <3> QED
      BY <2>1, <2>2, <3>1 DEF IInv, Local
  <2>4. Known(j)' /\ Reset(j)'
    <3>1. Known(j)'
      BY <2>1, <2>2 DEF Known, RunPos
    <3>2. Reset(j)'
      BY <2>1 DEF Reset
    <3> QED
      BY <3>1, <3>2
  <2>5. RowsMove /\ Frozen' /\ pos \notin Writing
    BY <2>1 DEF RowsMove, IInv, Frozen, Writing
  <2> QED
    BY <1>0, <1>i, <2>1, <2>3, <2>4, <2>5, SlotStep
<1> QED
  BY <1>1, <1>2, <1>3, <1>4, <1>5, <1>6 DEF BatchStep, BatchEnds, BatchFails

-----------------------------------------------------------------------------
(* The invariant: the run outside the batch *)

Scheduled(docs) ==
    /\ docs \cap Journaled = {} /\ docs \subseteq content \cup Orphans
    /\ (PageSize > 0) => Cardinality(docs) <= PageSize

\* the step leaves the locals of the batch alone
BatchAlone(j) ==
    /\ run'[j].active = run[j].active /\ run'[j].inflight = run[j].inflight
    /\ run'[j].pending = run[j].pending /\ run'[j].feed = run[j].feed
    /\ run'[j].deferred = run[j].deferred /\ run'[j].feeding = run[j].feeding

\* the step keeps the slot, or raises a fence and the run with it
SlotAlone(j) ==
    /\ ps'.busy = ps.busy /\ ps'.busy_owner = ps.busy_owner
    /\ ps'.pending_enqueue_tokens = ps.pending_enqueue_tokens
    /\ \/ ps'.recovery_required = ps.recovery_required
       \/ job'[j].pos = "raise" /\ Unstalled'

\* the job moves to another position, and nobody else moves
Moves(j, positions) ==
    /\ job'[j].pos \in positions /\ job'[j].doc = job[j].doc /\ Others(j)

\* A step of the run outside the batch.
LEMMA OutsideStep ==
    ASSUME IInv, NEW j \in Jobs, Typed', job[j].pos \in RunPos \ {"batch"},
           Moves(j, (RunPos \ {"batch"}) \cup {"raise"}), SlotAlone(j), Frozen', BatchAlone(j),
           content' = content, RowsMove, Scheduled(run'[j].docs),
           (job'[j].pos = "loop" /\ ~ps'.cancellation_requested) \/ job'[j].pos = "validate"
               => \A d \in run'[j].docs : row'[d] \in AutoResume,
           job'[j].pos = "wait" => run'[j].docs = {},
           Reset(j)'
    PROVE  IInv'
<1>0. Local(run[j]) /\ Known(j) /\ job[j].pos \in Holding
  BY DEF IInv, Holding
<1>1. TokensStay(j) /\ Unstalled'
  BY DEF SlotAlone, TokensStay, Registered, IInv, Unstalled
<1>2. job'[j].pos \in Holding => OwnsBusy(ps', j) /\ ps'.busy /\ ~Fenced(ps')
  BY <1>0 DEF SlotAlone, IInv, Slot, OwnsBusy, Fenced, Holding, RunPos
<1>3. \A k \in Jobs \ {j} : job[k].pos \notin Holding
  BY <1>0, OneHolder
<1>4. job'[j].pos \notin Writing
  BY DEF Moves, RunPos, Writing
<1>5. /\ run[j].active = {} /\ run[j].inflight = {} /\ run[j].pending = {}
      /\ run[j].feed = <<>> /\ run[j].deferred = <<>> /\ ~run[j].feeding
  BY <1>0 DEF Known
<1>6. Local(run[j])'
  <2>1. Cardinality({}) = 0 /\ PageSize \in Nat
    BY FS_EmptySet, SchedulerAssumption
  <2> QED
    BY <1>5, <2>1 DEF Local, Scheduled, BatchAlone
<1>7. Known(j)'
  BY <1>5 DEF Known, BatchAlone, Moves
<1> QED
  BY <1>1, <1>2, <1>3, <1>4, <1>6, <1>7, HolderStep DEF Moves, RowsMove

\* What a position in the run says of the state.
LEMMA InRun ==
    ASSUME IInv, NEW j \in Jobs, job[j].pos \in RunPos
    PROVE  /\ OwnsBusy(ps, j) /\ ps.busy /\ ~Fenced(ps) /\ Scheduled(run[j].docs)
           /\ Scheduled({}) /\ job[j].pos \in Holding
           /\ \A k \in Jobs \ {j} : job[k].pos \notin Holding
<1>1. job[j].pos \in Holding /\ Local(run[j])
  BY DEF IInv, Holding
<1>2. Cardinality({}) = 0 /\ PageSize \in Nat
  BY FS_EmptySet, SchedulerAssumption
<1> QED
  BY <1>1, <1>2, OneHolder DEF IInv, Slot, Local, Scheduled

\* What a sweep finds can be scheduled.
LEMMA SweepFinds ==
    ASSUME IInv, NEW position \in CURSOR_START .. CURSOR_END, NEW page,
           page = PageRows(AutoResume, position)
    PROVE  /\ Scheduled(page \ Journaled) /\ page \subseteq Docs
           /\ \A d \in page : d > position /\ row[d] \in AutoResume
           /\ NextPosition(page) \in CURSOR_START .. CURSOR_END
           /\ \A d \in Docs : d > position /\ d <= NextPosition(page) /\ row[d] \in AutoResume
                              => d \in page
<1>1. /\ page \in SUBSET Docs
      /\ \A d \in page : d > position /\ row[d] \in AutoResume
      /\ PageSize > 0 => Cardinality(page) <= PageSize
      /\ NextPosition(page) \in CURSOR_START .. CURSOR_END
      /\ \A d \in Docs : d > position /\ d <= NextPosition(page) /\ row[d] \in AutoResume
                         => d \in page
  BY Pages
<1>2. page \subseteq content \cup Orphans
  <2>1. \A d \in page : row[d] \notin {None, "FAILED"}
    BY <1>1, SchedulerAssumption DEF AutoResume, RowStatus
  <2> QED
    BY <1>1, <2>1 DEF IInv, Backed
<1>3. PageSize > 0 => Cardinality(page \ Journaled) <= PageSize
  <2>1. IsFiniteSet(page) /\ IsFiniteSet(page \ Journaled)
    BY <1>1, DocsAreFinite, FS_Subset
  <2>2. /\ Cardinality(page \ Journaled) <= Cardinality(page)
        /\ Cardinality(page) \in Nat /\ Cardinality(page \ Journaled) \in Nat
    BY <2>1, FS_Subset, FS_CardinalityType
  <2> QED
    BY <1>1, <2>2, SchedulerAssumption
<1> QED
  BY <1>1, <1>2, <1>3 DEF Scheduled

LEMMA MovesTo ==
    ASSUME Typed, NEW j \in Jobs, NEW pos, Move(j, pos), \A k \in Jobs \ {j} : run'[k] = run[k]
    PROVE  /\ job'[j].pos = pos /\ job'[j].doc = job[j].doc /\ Others(j)
           /\ job'[j].kind = job[j].kind /\ job'[j].next = job[j].next
BY DEF Typed, JobsTyped, Job, Move, Others

\* Steps before and after the batch that only move on.
LEMMA PlainInv ==
    ASSUME IInv, NEW j \in Jobs,
           \/ Absorb(j) \/ BeginManualDrain(j) \/ FetchFails(j) \/ ValidateFails(j)
           \/ DecideCancelled(j) \/ DrainChannel(j) \/ ResetFails(j) \/ DrainWait(j)
           \/ EndManualDrain(j) \/ Acknowledge(j)
    PROVE  IInv'
<1>0. /\ Typed /\ Typed' /\ ps \in Status /\ run \in [Jobs -> Run] /\ run[j] \in Run
  BY RunTyped DEF IInv, Typed, RunStep
<1>1. /\ job[j].pos \in RunPos \ {"batch"} /\ row' = row /\ content' = content
      /\ \E pos \in {"begin", "page", "raise", "loop", "end"} :
            /\ Move(j, pos)
            /\ pos = "loop" => \/ ps.cancellation_requested /\ ps' = ps
                               \/ At(j, "wait") /\ run' = run
  <2>1. CASE Absorb(j) \/ BeginManualDrain(j) \/ DrainChannel(j) \/ EndManualDrain(j)
             \/ Acknowledge(j)
    BY <2>1 DEF Absorb, BeginManualDrain, DrainChannel, EndManualDrain, Acknowledge, At, RunPos
  <2>2. CASE FetchFails(j) \/ ValidateFails(j) \/ ResetFails(j) \/ DrainWait(j)
    BY <2>2 DEF FetchFails, ValidateFails, ResetFails, DrainWait, At, RunPos
  <2>3. CASE DecideCancelled(j)
    <3>1. ps.cancellation_requested
      BY <2>3 DEF DecideCancelled, NextStep
    <3>2. Move(j, "raise") \/ Move(j, "loop")
      BY <2>3, Zenon DEF DecideCancelled
    <3> QED
      BY <2>3, <3>1, <3>2 DEF DecideCancelled, At, RunPos
  <2> QED
    BY <2>1, <2>2, <2>3
<1>2. /\ ps' = ps \/ ps' = FreezeForManual(ps, j) \/ ps' = ManualIdle(ps)
      /\ BatchAlone(j) /\ run'[j].docs = run[j].docs /\ \A k \in Jobs \ {j} : run'[k] = run[k]
  <2>1. CASE Absorb(j)
    BY <1>0, <2>1 DEF Absorb, BatchAlone, Run
  <2>2. CASE BeginManualDrain(j)
    BY <1>0, <2>2 DEF BeginManualDrain, IfOwner, BatchAlone
  <2>3. CASE DrainChannel(j)
    BY <1>0, <2>3 DEF DrainChannel, BatchAlone, Run
  <2>4. CASE EndManualDrain(j)
    BY <1>0, <2>4 DEF EndManualDrain, IfOwner, BatchAlone, Run
  <2>5. CASE FetchFails(j) \/ ValidateFails(j) \/ DecideCancelled(j) \/ ResetFails(j)
             \/ DrainWait(j) \/ Acknowledge(j)
    BY <2>5 DEF FetchFails, ValidateFails, DecideCancelled, ResetFails, DrainWait, Acknowledge,
       BatchAlone
  <2> QED
    BY <2>1, <2>2, <2>3, <2>4, <2>5
<1>3. /\ ps'.busy = ps.busy /\ ps'.busy_owner = ps.busy_owner
      /\ ps'.pending_enqueue_tokens = ps.pending_enqueue_tokens
      /\ ps'.recovery_required = ps.recovery_required
      /\ Frozen'
  BY <1>0, <1>2 DEF FreezeForManual, ManualIdle, IInv, Frozen, Status
<1>4. PICK pos \in {"begin", "page", "raise", "loop", "end"} :
            /\ Move(j, pos)
            /\ pos = "loop" => \/ ps.cancellation_requested /\ ps' = ps
                               \/ At(j, "wait") /\ run' = run
  BY <1>1
<1>5. job'[j].pos = pos /\ Moves(j, (RunPos \ {"batch"}) \cup {"raise"})
  BY <1>0, <1>2, <1>4, MovesTo DEF Moves, RunPos
<1>6. SlotAlone(j) /\ RowsMove /\ Scheduled(run'[j].docs)
  BY <1>1, <1>2, <1>3, InRun DEF SlotAlone, RowsMove
<1>7. (job'[j].pos = "loop" /\ ~ps'.cancellation_requested) \/ job'[j].pos = "validate"
         => \A d \in run'[j].docs : row'[d] \in AutoResume
  <2>1. At(j, "wait") => run[j].docs = {}
    BY DEF IInv, Known, At
  <2> QED
    BY <1>4, <1>5, <2>1
<1>8. Reset(j)' /\ job'[j].pos # "wait"
  BY <1>5 DEF Reset
<1> QED
  BY <1>0, <1>1, <1>2, <1>3, <1>5, <1>6, <1>7, <1>8, OutsideStep

\* A page is read, and the loop over it begins.
LEMMA FetchInv ==
    ASSUME IInv, NEW j \in Jobs, FetchPage(j)
    PROVE  IInv'
<1> DEFINE position == IF run[j].step = "continue_sweep_page" THEN run[j].cursor ELSE CURSOR_START
           page == PageRows(AutoResume, position)
<1>0. /\ Typed /\ Typed' /\ run \in [Jobs -> Run] /\ run[j] \in Run
      /\ position \in CURSOR_START .. CURSOR_END
  <2>1. /\ Typed /\ Typed' /\ run \in [Jobs -> Run] /\ run[j] \in Run
    BY RunTyped DEF IInv, Typed, RunStep
  <2>2. CURSOR_START \in CURSOR_START .. CURSOR_END
    BY DocsAreFinite DEF CURSOR_START, CURSOR_END
  <2> QED
    BY <2>1, <2>2 DEF Run
<1>1. /\ UNCHANGED <<ps, mb, row, content>> /\ job[j].pos = "page"
      /\ Move(j, "decide") \/ Move(j, "loop")
      /\ \E u : run' = [run EXCEPT ![j].docs = page \ Journaled, ![j].cursor = NextPosition(page),
                                   ![j].drained = <<>>, ![j].uncommitted = u]
  BY DEF FetchPage, At
<1> HIDE DEF position
<1>2. Scheduled(page \ Journaled) /\ \A d \in page : row[d] \in AutoResume
  BY <1>0, SweepFinds
<1> HIDE DEF page
<1>3. /\ BatchAlone(j) /\ run'[j].docs = page \ Journaled
      /\ \A k \in Jobs \ {j} : run'[k] = run[k]
  BY <1>0, <1>1 DEF BatchAlone, Run
<1>4. /\ job'[j].pos \in {"decide", "loop"} /\ Moves(j, (RunPos \ {"batch"}) \cup {"raise"})
  BY <1>0, <1>1, <1>3, MovesTo DEF Moves, RunPos
<1>5. SlotAlone(j) /\ Frozen' /\ RowsMove /\ Scheduled(run'[j].docs) /\ Reset(j)'
  BY <1>1, <1>2, <1>3, <1>4 DEF SlotAlone, RowsMove, Reset, IInv, Frozen
<1>6. \A d \in run'[j].docs : row'[d] \in AutoResume
  BY <1>1, <1>2, <1>3
<1>7. job[j].pos \in RunPos \ {"batch"}
  BY <1>1 DEF RunPos
<1> QED
  BY <1>0, <1>1, <1>3, <1>4, <1>5, <1>6, <1>7, OutsideStep

LEMMA LoopInv ==
    ASSUME IInv, NEW j \in Jobs, LoopTop(j)
    PROVE  IInv'
<1>0. Typed /\ Typed' /\ ps \in Status
  BY RunTyped DEF IInv, Typed, RunStep
<1>1. /\ UNCHANGED <<mb, row, content, run>> /\ job[j].pos = "loop"
      /\ \/ ps' = Uncancel(ps) /\ Move(j, "raise")
         \/ ps' = ps /\ ~ps.cancellation_requested /\ (Move(j, "decide") \/ Move(j, "validate"))
  BY DEF LoopTop, At
<1>2. /\ Moves(j, (RunPos \ {"batch"}) \cup {"raise"})
      /\ \/ job'[j].pos = "raise" \/ job'[j].pos = "decide"
         \/ job'[j].pos = "validate" /\ ~ps.cancellation_requested
  BY <1>0, <1>1, MovesTo DEF Moves, RunPos
<1>3. /\ ps'.busy = ps.busy /\ ps'.busy_owner = ps.busy_owner
      /\ ps'.pending_enqueue_tokens = ps.pending_enqueue_tokens
      /\ ps'.recovery_required = ps.recovery_required
      /\ Frozen'
  BY <1>0, <1>1 DEF Uncancel, IInv, Frozen, Status
<1>4. SlotAlone(j) /\ BatchAlone(j) /\ RowsMove /\ Reset(j)' /\ job[j].pos \in RunPos \ {"batch"}
  BY <1>1, <1>2, <1>3 DEF SlotAlone, BatchAlone, RowsMove, Reset, RunPos
<1>5. job'[j].pos = "validate" => \A d \in run'[j].docs : row'[d] \in AutoResume
  BY <1>1, <1>2 DEF IInv, Known
<1>6. Scheduled(run'[j].docs)
  BY <1>1, <1>4, InRun
<1>7. job'[j].pos \notin {"loop", "wait"}
  BY <1>2
<1> QED
  BY <1>0, <1>1, <1>2, <1>3, <1>4, <1>5, <1>6, <1>7, OutsideStep

\* Documents without content lose their row, the others start over in the batch.
LEMMA ValidateInv ==
    ASSUME IInv, NEW j \in Jobs, Validate(j)
    PROVE  IInv'
<1> DEFINE docs == run[j].docs
           valid == docs \cap content
<1>0. /\ Typed /\ Typed' /\ run \in [Jobs -> Run] /\ run[j] \in Run /\ docs \subseteq Docs
      /\ row \in [Docs -> RowStatus \cup {None}]
  BY RunTyped DEF IInv, Typed, RunStep, Run
<1>1. /\ UNCHANGED <<ps, mb, content>> /\ job[j].pos = "validate"
      /\ row' = [d \in Docs |-> IF d \notin docs THEN row[d]
                                ELSE IF d \in valid THEN "PENDING" ELSE None]
      /\ run' = [run EXCEPT ![j].docs = valid, ![j].uncommitted = FALSE, ![j].inflight = valid,
                            ![j].active = valid, ![j].feeding = valid # {},
                            ![j].step = "continue_sweep_page"]
      /\ Move(j, IF valid = {} THEN "decide" ELSE "batch")
  BY DEF Validate, At
<1>2. /\ Local(run[j]) /\ \A d \in docs : row[d] \in AutoResume
      /\ run[j].active = {} /\ run[j].inflight = {} /\ run[j].pending = {}
      /\ run[j].feed = <<>> /\ run[j].deferred = <<>> /\ ~run[j].feeding
  BY <1>1 DEF IInv, Known
<1>3. /\ run'[j].docs = valid /\ run'[j].inflight = valid /\ run'[j].active = valid
      /\ run'[j].feeding = (valid # {}) /\ run'[j].pending = {} /\ run'[j].feed = <<>>
      /\ run'[j].deferred = <<>>
      /\ \A k \in Jobs \ {j} : run'[k] = run[k]
  BY <1>0, <1>1, <1>2 DEF Run
<1>4. /\ valid \cap Journaled = {} /\ valid \subseteq content /\ valid \subseteq Docs
      /\ PageSize > 0 => Cardinality(valid) <= PageSize
  <2>1. IsFiniteSet(docs) /\ IsFiniteSet(valid)
    BY <1>0, DocsAreFinite, FS_Subset
  <2>2. /\ Cardinality(valid) <= Cardinality(docs)
        /\ Cardinality(valid) \in Nat /\ Cardinality(docs) \in Nat
    BY <2>1, FS_Subset, FS_CardinalityType
  <2> QED
    BY <1>0, <1>2, <2>2, SchedulerAssumption DEF Local
<1>5. RowsMove
  <2>1. \A d \in docs : row[d] # None /\ d \notin Journaled
    BY <1>2, SchedulerAssumption DEF AutoResume, RowStatus, Local
  <2> QED
    BY <1>0, <1>1, <2>1 DEF RowsMove
<1>6. \A d \in valid : row'[d] = "PENDING"
  BY <1>0, <1>1
<1> HIDE DEF docs, valid
<1>7. /\ job'[j].pos \in {"decide", "batch"} /\ (job'[j].pos = "decide" => valid = {})
      /\ job'[j].doc = job[j].doc /\ Others(j)
  <2>1. \/ Move(j, "decide") /\ valid = {}
        \/ Move(j, "batch") /\ valid # {}
    BY <1>1
  <2> QED
    BY <1>0, <1>3, <2>1, MovesTo
<1>8. Local(run[j])'
  BY <1>1, <1>3, <1>4 DEF Local
<1>9. Known(j)' /\ Reset(j)'
  <2>1. CASE job'[j].pos = "decide"
    <3>1. Known(j)'
      BY <1>3, <1>7, <2>1 DEF Known, RunPos
    <3>2. Reset(j)'
      BY <2>1 DEF Reset
    <3> QED
      BY <3>1, <3>2
  <2>2. CASE job'[j].pos = "batch"
    <3>1. Known(j)'
      BY <1>3, <1>6, <2>2 DEF Known, RunPos, AutoResume
    <3>2. Reset(j)'
      BY <2>2 DEF Reset
    <3> QED
      BY <3>1, <3>2
  <2> QED
    BY <1>7, <2>1, <2>2
<1>10. job[j].pos \in Holding /\ job'[j].pos \notin Writing /\ Frozen'
  BY <1>1, <1>7 DEF Holding, RunPos, Writing, IInv, Frozen
<1> QED
  BY <1>0, <1>1, <1>5, <1>7, <1>8, <1>9, <1>10, SlotStep

\* The decision begins nothing that depends on the rows; a reset is decided on only when no
\* enqueue is registered, and so none is writing.
LEMMA DecideInv ==
    ASSUME IInv, NEW j \in Jobs, Decide(j)
    PROVE  IInv'
<1> DEFINE step == NextStep(j)
<1>0. /\ Typed /\ Typed' /\ run \in [Jobs -> Run] /\ run[j] \in Run
  BY RunTyped DEF IInv, Typed, RunStep
<1>1. /\ UNCHANGED <<ps, row, content>> /\ job[j].pos = "decide"
      /\ \E cursor, request :
            /\ step = "begin_exclusive_reset" => cursor = CURSOR_START
            /\ run' = [run EXCEPT ![j].step = step, ![j].docs = {}, ![j].cursor = cursor,
                                  ![j].blocked = FALSE, ![j].request = request]
      /\ \/ step = "begin_exclusive_reset" /\ Move(j, "confirm")
         \/ Move(j, "begin") \/ Move(j, "drain") \/ Move(j, "wait") \/ Move(j, "page")
  <2>1. UNCHANGED <<ps, row, content>> /\ job[j].pos = "decide"
    BY DEF Decide, At
  <2>2. run' = [run EXCEPT
              ![j].step = step, ![j].docs = {},
              ![j].cursor = IF step = "begin_exclusive_reset" THEN CURSOR_START ELSE @,
              ![j].blocked = FALSE,
              ![j].request = IF step = "continue_manual" THEN NextManualRetry(mb) ELSE @]
    BY Zenon DEF Decide
  <2>3. Move(j, CASE step = "continue_manual" -> "begin"
                     [] step = "continue_document" -> "drain"
                     [] step = "continue_drain_wait" -> "wait"
                     [] step = "begin_exclusive_reset" -> "confirm"
                     [] OTHER -> "page")
    BY Zenon DEF Decide
  <2> HIDE DEF step
  <2> QED
    BY <2>1, <2>2, <2>3
<1>2. step = "begin_exclusive_reset" => Draining /\ ~PendingEnqueues(ps)
  BY <1>1 DEF Decide, NextStep
<1> HIDE DEF step
<1>3. /\ BatchAlone(j) /\ run'[j].docs = {}
      /\ step = "begin_exclusive_reset" => run'[j].cursor = CURSOR_START
      /\ \A k \in Jobs \ {j} : run'[k] = run[k]
  BY <1>0, <1>1 DEF BatchAlone, Run
<1>4. PICK pos \in {"begin", "drain", "wait", "page", "confirm"} :
          Move(j, pos) /\ (pos = "confirm" => step = "begin_exclusive_reset")
  BY <1>1
<1>5. job'[j].pos = pos /\ Others(j) /\ Moves(j, (RunPos \ {"batch"}) \cup {"raise"})
  BY <1>0, <1>3, <1>4, MovesTo DEF Moves, RunPos
<1>6. /\ SlotAlone(j) /\ Frozen' /\ RowsMove /\ Scheduled(run'[j].docs)
      /\ job[j].pos \in RunPos \ {"batch"}
  BY <1>1, <1>3, InRun DEF SlotAlone, RowsMove, IInv, Frozen, RunPos
<1>7. ASSUME pos = "confirm"
      PROVE  Reset(j)'
  <2>1. ps.manual_freeze_requested
    BY <1>2, <1>4, <1>7 DEF Draining, IInv, Frozen
  <2>2. NoStall => \A k \in Jobs : job'[k].pos \notin Writing
    <3>1. NoStall => \A k \in Jobs : job[k].pos \notin Writing
      BY <1>2, <1>4, <1>7 DEF PendingEnqueues, IInv, Inserting
    <3>2. job'[j].pos \notin Writing
      BY <1>5, <1>7 DEF Writing
    <3> QED
      BY <1>5, <3>1, <3>2 DEF Others
  <2>3. \A d \in Docs : ~ (d <= run'[j].cursor)
    BY <1>3, <1>4, <1>7, SchedulerAssumption DEF Docs, CURSOR_START
  <2> QED
    BY <1>1, <1>5, <1>7, <2>1, <2>2, <2>3 DEF Reset
<1>8. Reset(j)'
  <2>1. pos # "confirm" => Reset(j)'
    BY <1>5 DEF Reset
  <2> QED
    BY <1>7, <2>1
<1>9. job'[j].pos \notin {"loop", "validate"}
  BY <1>5
<1> QED
  BY <1>0, <1>1, <1>3, <1>5, <1>6, <1>8, <1>9, OutsideStep

\* The end of a run gives up the slot and forgets the locals.
LEMMA EndInv ==
    ASSUME IInv, NEW j \in Jobs, DecideReleased(j) \/ Finalize(j)
    PROVE  IInv'
<1>0. /\ Typed /\ Typed' /\ ps \in Status /\ run \in [Jobs -> Run]
      /\ job[j].next \in {"done", "terminal"}
  BY RunTyped, Beside DEF IInv, Typed, RunStep
<1>1. /\ UNCHANGED <<row, content>> /\ run'[j] = NoRun
      /\ \A k \in Jobs \ {j} : run'[k] = run[k]
      /\ \/ job[j].pos = "decide" /\ ps' = FreeBusy(ps)
         \/ job[j].pos \in {"raise", "released"}
      /\ \E pos \in {"done", "terminal", "released"} : Move(j, pos)
  BY <1>0 DEF DecideReleased, Finalize, At, Return
<1>2. \/ job[j].pos = "decide" /\ ps' = FreeBusy(ps)
      \/ OwnsBusy(ps, j) /\ ps' = Uncancel(ManualIdle(FreeBusy(ps)))
      \/ ps.busy_owner = None /\ ps' = Uncancel(ps)
      \/ ps' = ps
  <2>1. CASE DecideReleased(j)
    BY <2>1 DEF DecideReleased, At
  <2>2. CASE Finalize(j)
    BY <2>2 DEF Finalize, IfOwner
  <2> QED
    BY <2>1, <2>2
<1>3. /\ ps'.pending_enqueue_tokens = ps.pending_enqueue_tokens
      /\ ps'.recovery_required = ps.recovery_required
      /\ Frozen'
  BY <1>0, <1>2 DEF FreeBusy, Uncancel, ManualIdle, Status, IInv, Frozen
<1>4. TokensStay(j) /\ Unstalled'
  BY <1>3 DEF TokensStay, Registered, IInv, Unstalled
<1>5. ASSUME NEW k \in Jobs \ {j}
      PROVE  HolderStays(k)
  <2>1. CASE ps' = ps
    BY <2>1, Kept
  <2>2. CASE job[j].pos = "decide" \/ OwnsBusy(ps, j)
    BY <2>2, OneHolder DEF HolderStays, Holding, RunPos
  <2>3. CASE ps.busy_owner = None
    BY <2>3 DEF HolderStays, IInv, Slot, OwnsBusy
  <2> QED
    BY <1>2, <2>1, <2>2, <2>3
<1>6. /\ job'[j].doc = job[j].doc /\ Others(j) /\ job'[j].pos \notin Holding \cup Writing
  <2>1. PICK pos \in {"done", "terminal", "released"} : Move(j, pos)
    BY <1>1
  <2>2. job'[j].pos = pos /\ job'[j].doc = job[j].doc /\ Others(j)
    BY <1>0, <1>1, <2>1, MovesTo
  <2> QED
    BY <2>2 DEF Holding, RunPos, Writing
<1> QED
  BY <1>0, <1>1, <1>3, <1>4, <1>5, <1>6, AsideStep

\* A run is refused, or takes a slot that nobody else holds.
LEMMA AcquireInv ==
    ASSUME IInv, NEW j \in Jobs, AcquireProcessing(j)
    PROVE  IInv'
<1> DEFINE verdict == ProcessingVerdict(ps, At(j, "handoff"), FALSE)
           worker == Me(j, "processing").worker
<1>0. /\ Typed /\ Typed' /\ ps \in Status /\ run \in [Jobs -> Run]
      /\ job[j].next \in {"done", "terminal"}
      /\ job[j].pos \notin RunPos \cup {"raise"} => run[j] = NoRun
      /\ At(j, "handoff") \in BOOLEAN
  BY RunTyped, Beside DEF IInv, Typed, RunStep, At
<1>1. /\ UNCHANGED <<row, content, run>> /\ job[j].pos \in {"drive", "handoff"}
      /\ ps' = ProcessingOutcome(ps, verdict, j, worker, FALSE)
      /\ IF verdict = "acquired" THEN Move(j, "absorb") ELSE Move(j, job[j].next)
  BY DEF AcquireProcessing, At, Return
<1>2. /\ verdict \in {"recovery_required", "scanning", "busy", "acquired"}
      /\ verdict = "acquired" => ~Fenced(ps) /\ (job[j].pos = "drive" => ~ps.busy)
      /\ job[j].pos = "handoff" => verdict = "acquired"
  BY <1>1 DEF ProcessingVerdict, At, IInv, Slot, Holding
<1> HIDE DEF verdict, worker
<1>3. run'[j] = NoRun /\ job[j].pos \notin RunPos
  BY <1>0, <1>1 DEF RunPos
<1>4. CASE verdict # "acquired"
  <2>1. /\ ps'.pending_enqueue_tokens = ps.pending_enqueue_tokens
        /\ ps'.recovery_required = ps.recovery_required
        /\ ps'.busy = ps.busy /\ ps'.busy_owner = ps.busy_owner
        /\ ps'.manual_phase = ps.manual_phase
        /\ ps'.manual_freeze_requested = ps.manual_freeze_requested
        /\ ps'.cancellation_requested = ps.cancellation_requested
    BY <1>0, <1>1, <1>2, <1>4 DEF ProcessingOutcome, Status
  <2>2. Frozen' /\ Unstalled' /\ (\A k \in Jobs : HolderStays(k)) /\ TokensStay(j)
    BY <2>1, Kept DEF TokensStay, Registered
  <2>3. Move(j, job[j].next)
    BY <1>1, <1>4
  <2>4. /\ job'[j].doc = job[j].doc /\ Others(j) /\ job'[j].pos = job[j].next
    BY <1>0, <1>1, <2>3, MovesTo
  <2>5. job'[j].pos \notin Holding \cup Writing
    BY <1>0, <2>4 DEF Holding, RunPos, Writing
  <2> QED
    BY <1>0, <1>1, <1>3, <2>2, <2>4, <2>5, AsideStep
<1>5. CASE verdict = "acquired"
  <2>1. ps' = [GiveBusy(ps, OwnerRecord(j, worker, "processing"))
                  EXCEPT !.cancellation_requested = FALSE, !.job_name = "other",
                         !.scan_deferred_processing = @ /\ FALSE]
    BY <1>1, <1>5 DEF ProcessingOutcome
  <2>2. /\ ps'.pending_enqueue_tokens = ps.pending_enqueue_tokens
        /\ ps'.recovery_required = ps.recovery_required
        /\ ps'.manual_phase = ps.manual_phase
        /\ ps'.manual_freeze_requested = ps.manual_freeze_requested
        /\ ps'.busy /\ ps'.busy_owner = OwnerRecord(j, worker, "processing")
    BY <1>0, <2>1 DEF GiveBusy, Status
  <2>3. OwnsBusy(ps', j) /\ ps'.busy /\ ~Fenced(ps')
    <3>1. OwnerRecord(j, worker, "processing") \in Owners
      BY SchedulerAssumption DEF OwnerRecord, Owners, OwnerKind, Me, worker
    <3>2. OwnerRecord(j, worker, "processing").token = j
      BY DEF OwnerRecord
    <3> QED
      BY <1>2, <1>5, <2>2, <3>1, <3>2, StatusAssumption DEF OwnsBusy, Fenced
  <2>4. \A k \in Jobs \ {j} : job[k].pos \notin Holding
    BY <1>1, <1>2, <1>5, OneHolder DEF Holding
  <2>5. TokensStay(j) /\ Frozen' /\ Unstalled'
    BY <2>2 DEF TokensStay, Registered, IInv, Frozen, Unstalled
  <2>6. Move(j, "absorb")
    BY <1>1, <1>5
  <2>7. job'[j].pos = "absorb" /\ job'[j].doc = job[j].doc /\ Others(j)
    BY <1>0, <1>1, <2>6, MovesTo
  <2>8. Local(run[j])' /\ Known(j)' /\ Reset(j)' /\ job'[j].pos \notin Writing
    <3>1. Local(run[j])'
      BY <1>1 DEF IInv, Local
    <3>2. Known(j)'
      BY <1>3, <2>7 DEF Known, NoRun, RunPos
    <3>3. Reset(j)'
      BY <2>7 DEF Reset
    <3> QED
      BY <2>7, <3>1, <3>2, <3>3 DEF Writing
  <2> QED
    BY <1>0, <1>1, <2>3, <2>4, <2>5, <2>7, <2>8, HolderStep
<1> QED
  BY <1>4, <1>5

\* A fence leaves slot, freeze and enqueues alone.
LEMMA FenceRaised ==
    ASSUME IInv, NEW j \in Jobs, NEW kind, ps' = RaiseFence(ps, kind),
           kind \in {"manual_drain_blocked", "manual_drain_stalled"} \/ ~NoStall,
           job'[j].pos = "raise"
    PROVE  SlotAlone(j) /\ Frozen'
<1>1. /\ ps'.busy = ps.busy /\ ps'.busy_owner = ps.busy_owner
      /\ ps'.pending_enqueue_tokens = ps.pending_enqueue_tokens
      /\ ps'.manual_phase = ps.manual_phase
      /\ ps'.manual_freeze_requested = ps.manual_freeze_requested
      /\ ps'.recovery_required \in {ps.recovery_required, kind}
  BY DEF IInv, Typed, Status, RaiseFence
<1>2. Frozen' /\ Unstalled'
  BY <1>1 DEF IInv, Frozen, Unstalled
<1> QED
  BY <1>1, <1>2 DEF SlotAlone

LEMMA FenceInv ==
    ASSUME IInv, NEW j \in Jobs, FenceStalledEnqueue(j)
    PROVE  IInv'
<1>0. Typed /\ Typed'
  BY RunTyped DEF IInv, RunStep
<1>1. /\ UNCHANGED <<row, content, run>> /\ job[j].pos = "wait" /\ ~NoStall
      /\ ps' = RaiseFence(ps, "manual_drain_enqueue_stalled") /\ Move(j, "raise")
  BY DEF FenceStalledEnqueue, At, NoStall
<1>2. job'[j].pos = "raise" /\ Moves(j, (RunPos \ {"batch"}) \cup {"raise"})
  BY <1>0, <1>1, MovesTo DEF Moves
<1>3. SlotAlone(j) /\ Frozen'
  BY <1>1, <1>2, FenceRaised
<1>4. /\ BatchAlone(j) /\ RowsMove /\ Reset(j)' /\ job[j].pos \in RunPos \ {"batch"}
      /\ Scheduled(run'[j].docs)
  BY <1>1, <1>2, InRun DEF BatchAlone, RowsMove, Reset, RunPos
<1> QED
  BY <1>0, <1>1, <1>2, <1>3, <1>4, OutsideStep

\* The confirmation ends with no document waiting, or not at all.
LEMMA ConfirmInv ==
    ASSUME IInv, NEW j \in Jobs, ConfirmDrained(j)
    PROVE  IInv'
<1> DEFINE page == PageRows(AutoResume, run[j].cursor)
           docs == page \ Journaled
           next == NextPosition(page)
           blocked == run[j].blocked \/ page \cap Journaled # {}
           repeats == Repeats(j, docs)
<1>0. /\ Typed /\ Typed' /\ run \in [Jobs -> Run] /\ run[j] \in Run /\ NDocs \in Nat
      /\ run[j].cursor \in CURSOR_START .. CURSOR_END
  BY RunTyped, SchedulerAssumption DEF IInv, Typed, RunStep, Run
<1>1. /\ UNCHANGED <<mb, row, content>> /\ job[j].pos = "confirm"
      /\ \/ /\ docs # {}
            /\ run' = [run EXCEPT ![j].docs = docs, ![j].cursor = next,
                                  ![j].blocking = docs, ![j].repeats = repeats]
            /\ \/ ps' = RaiseFence(ps, "manual_drain_stalled") /\ Move(j, "raise")
               \/ ps' = ps /\ Move(j, "loop")
         \/ /\ docs = {}
            /\ run' = [run EXCEPT ![j].blocked = blocked, ![j].cursor = next]
            /\ \/ next # CURSOR_END /\ ps' = ps /\ job' = job
               \/ ps' = RaiseFence(ps, "manual_drain_blocked") /\ Move(j, "raise")
               \/ next = CURSOR_END /\ ~blocked /\ ps' = ps /\ Move(j, "enter")
  BY DEF ConfirmDrained, At
<1>2. /\ Scheduled(docs) /\ page \subseteq Docs
      /\ \A d \in page : row[d] \in AutoResume
      /\ next \in CURSOR_START .. CURSOR_END
      /\ \A d \in Docs : d > run[j].cursor /\ d <= next /\ row[d] \in AutoResume => d \in page
  BY <1>0, SweepFinds
<1>3. /\ ps.manual_freeze_requested /\ (NoStall => \A k \in Jobs : job[k].pos \notin Writing)
      /\ \A d \in Docs :
            (row[d] \in AutoResume /\ d <= run[j].cursor /\ (NoStall \/ d \in Journaled))
            => d \in Journaled /\ run[j].blocked
      /\ Scheduled(run[j].docs) /\ job[j].pos \in RunPos \ {"batch"}
  BY <1>1, InRun DEF IInv, Reset, RunPos
<1> HIDE DEF page, next, repeats
<1>4. CASE docs # {}
  <2>1. /\ BatchAlone(j) /\ run'[j].docs = docs /\ \A k \in Jobs \ {j} : run'[k] = run[k]
    BY <1>0, <1>1, <1>4 DEF BatchAlone, Run
  <2> HIDE DEF docs
  <2>2. /\ \/ job'[j].pos = "raise" /\ ps' = RaiseFence(ps, "manual_drain_stalled")
           \/ job'[j].pos = "loop" /\ ps' = ps
        /\ Moves(j, (RunPos \ {"batch"}) \cup {"raise"})
    <3>1. PICK pos \in {"raise", "loop"} :
              /\ Move(j, pos)
              /\ \/ pos = "raise" /\ ps' = RaiseFence(ps, "manual_drain_stalled")
                 \/ pos = "loop" /\ ps' = ps
      BY <1>1, <1>4
    <3>2. job'[j].pos = pos /\ job'[j].doc = job[j].doc /\ Others(j)
      BY <1>0, <2>1, <3>1, MovesTo
    <3> QED
      BY <3>1, <3>2 DEF Moves, RunPos
  <2>3. SlotAlone(j) /\ Frozen'
    <3>1. ps' = ps => SlotAlone(j) /\ Frozen'
      BY DEF SlotAlone, IInv, Frozen
    <3> QED
      BY <2>2, <3>1, FenceRaised
  <2>4. RowsMove /\ Scheduled(run'[j].docs) /\ \A d \in run'[j].docs : row'[d] \in AutoResume
    BY <1>1, <1>2, <2>1 DEF RowsMove, docs
  <2>5. Reset(j)' /\ job'[j].pos # "wait"
    BY <2>2 DEF Reset
  <2> QED
    BY <1>0, <1>1, <1>3, <2>1, <2>2, <2>3, <2>4, <2>5, OutsideStep
<1>5. CASE docs = {}
  <2>1. /\ BatchAlone(j) /\ run'[j].docs = run[j].docs /\ \A k \in Jobs \ {j} : run'[k] = run[k]
        /\ run'[j].blocked = blocked /\ run'[j].cursor = next
    BY <1>0, <1>1, <1>5 DEF BatchAlone, Run
  <2>2. page \subseteq Journaled
    BY <1>5
  <2>3. \A d \in Docs : (row[d] \in AutoResume /\ d <= next /\ (NoStall \/ d \in Journaled))
                        => d \in Journaled /\ blocked
    <3> SUFFICES ASSUME NEW d \in Docs, row[d] \in AutoResume, d <= next, NoStall \/
           d \in Journaled
                 PROVE  d \in Journaled /\ blocked
      OBVIOUS
    <3>1. CASE d <= run[j].cursor
      BY <1>3, <3>1
    <3>2. CASE d > run[j].cursor
      <4>1. d \in page
        BY <1>2, <3>2
      <4> QED
        BY <2>2, <4>1
    <3>3. d \in Int /\ run[j].cursor \in Int
      BY <1>0 DEF Docs, CURSOR_START, CURSOR_END
    <3> QED
      BY <3>1, <3>2, <3>3
  <2> HIDE DEF docs, blocked
  <2>4. PICK pos \in {"confirm", "raise", "enter"} :
            /\ job'[j].pos = pos /\ job'[j].doc = job[j].doc /\ Others(j)
            /\ \/ pos = "confirm" /\ ps' = ps
               \/ pos = "raise" /\ ps' = RaiseFence(ps, "manual_drain_blocked")
               \/ pos = "enter" /\ ps' = ps /\ next = CURSOR_END /\ ~blocked
    <3>1. \/ ps' = ps /\ job' = job
          \/ ps' = RaiseFence(ps, "manual_drain_blocked") /\ Move(j, "raise")
          \/ next = CURSOR_END /\ ~blocked /\ ps' = ps /\ Move(j, "enter")
      BY <1>1, <1>5
    <3>2. job' = job => job'[j].pos = "confirm" /\ job'[j].doc = job[j].doc /\ Others(j)
      BY <1>1, <2>1 DEF Others
    <3>3. \A pos : Move(j, pos) => job'[j].pos = pos /\ job'[j].doc = job[j].doc /\ Others(j)
      BY <1>0, <2>1, MovesTo
    <3> QED
      BY <3>1, <3>2, <3>3
  <2>5. SlotAlone(j) /\ Frozen' /\ Moves(j, (RunPos \ {"batch"}) \cup {"raise"})
    <3>1. ps' = ps => SlotAlone(j) /\ Frozen'
      BY DEF SlotAlone, IInv, Frozen
    <3> QED
      BY <2>4, <3>1, FenceRaised DEF Moves, RunPos
  <2>6. RowsMove /\ Scheduled(run'[j].docs)
    BY <1>1, <1>3, <2>1 DEF RowsMove
  <2>7. NoStall => \A k \in Jobs : job'[k].pos \notin Writing
    BY <1>3, <2>4 DEF Others, Writing
  <2>8. Reset(j)'
    <3>1. CASE pos = "raise"
      BY <2>4, <3>1 DEF Reset
    <3>2. CASE pos = "confirm"
      BY <1>1, <1>3, <2>1, <2>3, <2>4, <2>7, <3>2 DEF Reset
    <3>3. CASE pos = "enter"
      <4>1. \A d \in Docs : d <= next
        BY <1>0, <2>4, <3>3 DEF Docs, CURSOR_END
      <4>2. \A d \in Docs : row[d] \in AutoResume => ~NoStall /\ d \notin Journaled
        BY <2>3, <2>4, <3>3, <4>1
      <4>3. Guarded => NoStall
        <5>1. \A d \in Journaled \ (OldFailed \cup Stubs) : row[d] \in AutoResume /\ d \in Docs
          BY SchedulerAssumption DEF IInv, Journal, AutoResume
        <5> QED
          BY <4>2, <5>1 DEF Guarded
      <4> QED
        BY <1>1, <1>3, <2>4, <2>7, <3>3, <4>2, <4>3 DEF Reset
    <3> QED
      BY <2>4, <3>1, <3>2, <3>3
  <2>9. job'[j].pos \notin {"loop", "validate", "wait"}
    BY <2>4
  <2> QED
    BY <1>0, <1>1, <1>3, <2>1, <2>4, <2>5, <2>6, <2>8, <2>9, OutsideStep
<1> QED
  BY <1>4, <1>5

LEMMA EnterInv ==
    ASSUME IInv, NEW j \in Jobs, EnterReset(j)
    PROVE  IInv'
<1>0. /\ Typed /\ Typed' /\ ps \in Status /\ run \in [Jobs -> Run] /\ run[j] \in Run
  BY RunTyped DEF IInv, Typed, RunStep
<1>1. /\ UNCHANGED <<mb, row, content>> /\ job[j].pos = "enter"
      /\ ps' = EnterExclusiveReset(ps) /\ Move(j, "reset")
      /\ run' = [run EXCEPT ![j].cursor = CURSOR_START]
  BY DEF EnterReset, At
<1>2. /\ BatchAlone(j) /\ run'[j].docs = run[j].docs /\ run'[j].cursor = CURSOR_START
      /\ \A k \in Jobs \ {j} : run'[k] = run[k]
  BY <1>0, <1>1 DEF BatchAlone, Run
<1>3. /\ job'[j].pos = "reset" /\ Others(j) /\ Moves(j, (RunPos \ {"batch"}) \cup {"raise"})
  BY <1>0, <1>1, <1>2, MovesTo DEF Moves, RunPos
<1>4. /\ ps.manual_freeze_requested /\ (NoStall => \A k \in Jobs : job[k].pos \notin Writing)
      /\ Guarded => (\A d \in Docs : row[d] \notin AutoResume) /\ NoStall
      /\ Scheduled(run[j].docs) /\ job[j].pos \in RunPos \ {"batch"}
  BY <1>1, InRun DEF IInv, Reset, RunPos
<1>5. /\ SlotAlone(j) /\ Frozen' /\ ps'.manual_freeze_requested /\ RowsMove
      /\ Scheduled(run'[j].docs)
  BY <1>0, <1>1, <1>2, <1>4 DEF SlotAlone, Frozen, EnterExclusiveReset, Status, RowsMove
<1>6. Reset(j)'
  <2>1. NoStall => \A k \in Jobs : job'[k].pos \notin Writing
    BY <1>3, <1>4 DEF Others, Writing
  <2>2. \A d \in Docs : ~ (d <= run'[j].cursor)
    BY <1>2, SchedulerAssumption DEF Docs, CURSOR_START
  <2>3. content' \subseteq Docs
    BY <1>0 DEF Typed
  <2> QED
    BY <1>1, <1>3, <1>4, <1>5, <2>1, <2>2, <2>3 DEF Reset
<1>7. job'[j].pos \notin {"loop", "validate", "wait"}
  BY <1>3
<1> QED
  BY <1>0, <1>1, <1>2, <1>3, <1>4, <1>5, <1>6, <1>7, OutsideStep

\* Page by page, every FAILED row with content and without a journal is put back.
LEMMA ResetPageInv ==
    ASSUME IInv, NEW j \in Jobs, ResetPage(j)
    PROVE  IInv'
<1> DEFINE page == PageRows({"FAILED"}, run[j].cursor)
           next == NextPosition(page)
           put == (page \cap content) \ Journaled
<1>0. /\ Typed /\ Typed' /\ run \in [Jobs -> Run] /\ run[j] \in Run /\ NDocs \in Nat
      /\ run[j].cursor \in CURSOR_START .. CURSOR_END /\ content \subseteq Docs
  BY RunTyped, SchedulerAssumption DEF IInv, Typed, RunStep, Run
<1>1. /\ UNCHANGED <<ps, mb, content>> /\ job[j].pos = "reset"
      /\ row' = [d \in Docs |-> IF d \in put THEN "PENDING" ELSE row[d]]
      /\ run' = [run EXCEPT ![j].cursor = next]
      /\ \/ next = CURSOR_END /\ Move(j, "ack")
         \/ job' = job
  BY DEF ResetPage, At
<1>2. /\ page \subseteq Docs /\ \A d \in page : row[d] = "FAILED"
      /\ next \in CURSOR_START .. CURSOR_END /\ next # CURSOR_START
      /\ \A d \in Docs : d > run[j].cursor /\ d <= next /\ row[d] = "FAILED" => d \in page
  <2>1. /\ page \subseteq Docs /\ \A d \in page : row[d] \in {"FAILED"}
        /\ next \in CURSOR_START .. CURSOR_END /\ next # CURSOR_START
        /\ \A d \in Docs : d > run[j].cursor /\ d <= next /\ row[d] \in {"FAILED"} => d \in page
    BY <1>0, Pages
  <2> QED
    BY <2>1
<1> HIDE DEF page, next
<1>3. /\ BatchAlone(j) /\ run'[j].docs = run[j].docs /\ run'[j].cursor = next
      /\ \A k \in Jobs \ {j} : run'[k] = run[k]
  BY <1>0, <1>1 DEF BatchAlone, Run
<1>4. /\ job'[j].pos \in {"reset", "ack"} /\ (job'[j].pos = "ack" => next = CURSOR_END)
      /\ job'[j].doc = job[j].doc /\ Others(j)
  <2>1. job' = job => job'[j].pos = "reset" /\ job'[j].doc = job[j].doc /\ Others(j)
    BY <1>1, <1>3 DEF Others
  <2>2. Move(j, "ack") => job'[j].pos = "ack" /\ job'[j].doc = job[j].doc /\ Others(j)
    BY <1>0, <1>3, MovesTo
  <2> QED
    BY <1>1, <2>1, <2>2
<1>5. /\ ps.manual_freeze_requested /\ (NoStall => \A k \in Jobs : job[k].pos \notin Writing)
      /\ Guarded => NoStall
      /\ \A d \in content \ Journaled : (d <= run[j].cursor) => row[d] # "FAILED"
      /\ Scheduled(run[j].docs) /\ job[j].pos \in RunPos \ {"batch"}
  BY <1>1, InRun DEF IInv, Reset, RunPos
<1>6. RowsMove
  <2>1. \A d \in put : row[d] # None /\ d \notin Journaled /\ d \in content
    BY <1>2, SchedulerAssumption DEF RowStatus
  <2> QED
    BY <1>1, <2>1 DEF RowsMove
<1>7. \A d \in content \ Journaled : (d <= next) => row'[d] # "FAILED"
  <2> SUFFICES ASSUME NEW d \in content \ Journaled, d <= next
               PROVE  row'[d] # "FAILED"
    OBVIOUS
  <2>1. CASE d \in put
    BY <1>0, <1>1, <2>1
  <2>2. CASE d \notin put
    <3>1. d \in Docs /\ row'[d] = row[d] /\ d \notin page
      BY <1>0, <1>1, <2>2
    <3>2. CASE d <= run[j].cursor
      BY <1>5, <3>1, <3>2
    <3>3. CASE ~ (d <= run[j].cursor)
      <4>1. d > run[j].cursor
        BY <1>0, <3>1, <3>3 DEF Docs, CURSOR_START, CURSOR_END
      <4> QED
        BY <1>2, <3>1, <4>1
    <3> QED
      BY <3>2, <3>3
  <2> QED
    BY <2>1, <2>2
<1> HIDE DEF put
<1>8. Reset(j)'
  <2>1. NoStall => \A k \in Jobs : job'[k].pos \notin Writing
    BY <1>4, <1>5 DEF Others, Writing
  <2>2. job'[j].pos = "ack" => \A d \in content : d <= next
    BY <1>0, <1>4 DEF Docs, CURSOR_END
  <2>3. ps'.manual_freeze_requested /\ content' = content /\ run'[j].cursor # CURSOR_START
    BY <1>1, <1>2, <1>3, <1>5
  <2>4. CASE job'[j].pos = "reset"
    BY <1>3, <1>5, <1>7, <2>1, <2>3, <2>4 DEF Reset
  <2>5. CASE job'[j].pos = "ack"
    BY <1>5, <1>7, <2>1, <2>2, <2>3, <2>5 DEF Reset
  <2> QED
    BY <1>4, <2>4, <2>5
<1>9. /\ Moves(j, (RunPos \ {"batch"}) \cup {"raise"}) /\ Scheduled(run'[j].docs)
      /\ SlotAlone(j) /\ Frozen' /\ job'[j].pos \notin {"loop", "validate", "wait"}
  BY <1>1, <1>3, <1>4, <1>5 DEF Moves, RunPos, SlotAlone, IInv, Frozen
<1> QED
  BY <1>0, <1>1, <1>3, <1>5, <1>6, <1>8, <1>9, OutsideStep

-----------------------------------------------------------------------------
(* The invariant *)

LEMMA OperatorInv ==
    ASSUME IInv, CancelPipeline \/ ForceReset
    PROVE  IInv'
<1>0. Typed /\ Typed' /\ ps \in Status
  BY NextTyped DEF IInv, Typed, Next
<1>1. CASE CancelPipeline
  <2>1. /\ ps'.busy = ps.busy /\ ps'.busy_owner = ps.busy_owner
        /\ ps'.pending_enqueue_tokens = ps.pending_enqueue_tokens
        /\ ps'.manual_phase = ps.manual_phase
        /\ ps'.manual_freeze_requested = ps.manual_freeze_requested
        /\ ps'.recovery_required = ps.recovery_required /\ ps'.cancellation_requested
        /\ UNCHANGED <<row, content, job, run>>
    BY <1>0, <1>1 DEF CancelPipeline, Status
  <2>2. Frozen' /\ Unstalled' /\ \A k \in Jobs : HolderStays(k)
    BY <2>1 DEF IInv, Frozen, Unstalled, HolderStays, Slot, OwnsBusy, Fenced
  <2>3. \A t \in Jobs : Registered(ps, t) => Registered(ps', t)
    BY <2>1 DEF Registered
  <2> QED
    BY <1>0, <2>1, <2>2, <2>3, StatusStep
<1>2. CASE ForceReset
  <2>1. /\ Fenced(ps) /\ UNCHANGED <<row, content, job, run>> /\ ps' = ForceResetStatus(ps)
    BY <1>2 DEF ForceReset
  <2>2. /\ ps'.manual_phase = "IDLE" /\ ps'.recovery_required = None
        /\ NoStall => ps'.pending_enqueue_tokens = ps.pending_enqueue_tokens
    <3>1. NoStall => ps.recovery_required # "manual_drain_enqueue_stalled"
      BY DEF IInv, Unstalled
    <3> QED
      BY <1>0, <2>1, <3>1 DEF ForceResetStatus, ManualIdle, FreeScanning, FreeDestructive,
         FreeBusy,
         Status
  <2>3. Frozen' /\ Unstalled'
    BY <2>2, StatusAssumption DEF Frozen, Unstalled, FenceKind
  <2>4. \A k \in Jobs : HolderStays(k)
    BY <2>1 DEF HolderStays, IInv, Slot
  <2>5. NoStall => \A t \in Jobs : Registered(ps, t) => Registered(ps', t)
    BY <2>2 DEF Registered
  <2> QED
    BY <1>0, <2>1, <2>3, <2>4, <2>5, StatusStep
<1> QED
  BY <1>1, <1>2

LEMMA RunInv ==
    ASSUME IInv, NEW j \in Jobs, RunStep(j)
    PROVE  IInv'
BY AcquireInv, PlainInv, FetchInv, LoopInv, ValidateInv, BatchInv, DecideInv, EndInv, FenceInv,
   ConfirmInv, EnterInv, ResetPageInv, Zenon DEF RunStep

LEMMA NextInv == IInv /\ [Next]_vars => IInv'
<1>1. ASSUME IInv, Next
      PROVE  IInv'
  BY <1>1, RequestInv, CallerInv, RunInv, OperatorInv DEF Next
<1>2. ASSUME IInv, UNCHANGED vars
      PROVE  IInv'
  BY <1>2 DEF vars, IInv, Typed, Slot, Frozen, Unstalled, Inserting, Journal, Backed, Local,
     Known,
     Reset, JobsTyped, Mailbox, Registered, OwnsBusy, Fenced
<1> QED
  BY <1>1, <1>2

\* The status, the rows and the locals of the runs stay well formed, the slot has one
\* holder, and the drain keeps out what it must: the invariant all else rests on.
THEOREM SchedulerInvariant == Spec => []IInv
BY InitInv, NextInv, PTL DEF Spec

-----------------------------------------------------------------------------
(* What the steps do to the rows and to the queue of manual requests *)

\* Only orphaned rows are deleted, and processed rows stay as they are.
LEMMA RowStep ==
    ASSUME IInv, Next, NEW d \in Docs
    PROVE  \/ row'[d] = row[d] \/ row[d] = None
           \/ row[d] # "PROCESSED" /\ (row'[d] # None \/ d \in Orphans)
<1>0. Typed /\ row \in [Docs -> RowStatus \cup {None}] /\ None \notin RowStatus
  BY SchedulerAssumption DEF IInv, Typed
<1>1. ASSUME NEW j \in Jobs, Request(j)
      PROVE  row'[d] = row[d]
  BY <1>1 DEF Request, ReserveInsert, CommitRetry, StartProcess, TakePipeline
<1>2. ASSUME NEW j \in Jobs, CallerStep(j)
      PROVE  row'[d] = row[d] \/ row[d] = None
  <2>1. CASE WriteStatus(j) \/ WriteStatusFails(j)
    <3>1. At(j, "status") /\ (row' = row \/ row' = [row EXCEPT ![job[j].doc] = "PENDING"])
      BY <2>1 DEF WriteStatus, WriteStatusFails
    <3>2. row[job[j].doc] = None
      BY <3>1 DEF IInv, Inserting, At, Writing
    <3> QED
      BY <1>0, <3>1, <3>2
  <2>2. CASE ~ (WriteStatus(j) \/ WriteStatusFails(j))
    <3>1. row' = row
      BY <1>2, <2>2 DEF CallerStep, WriteContent, LeaveInsert, Publish, ReleaseAdmin,
         DriveIfDeferred, ExitCustomChunks, TerminalRelease
    <3> QED
      BY <3>1
  <2> QED
    BY <2>1, <2>2
<1>3. ASSUME NEW j \in Jobs, BatchStep(j)
      PROVE  row'[d] = row[d] \/ (row[d] # "PROCESSED" /\ row'[d] # None)
  <2>1. At(j, "batch") =>
          \A e \in run[j].active : e \in Docs /\ row[e] # "PROCESSED"
    <3>1. At(j, "batch") => run[j].active \subseteq Docs /\
             \A e \in run[j].active : row[e] \in AutoResume
      BY InBatch DEF Run
    <3> QED
      BY <3>1 DEF AutoResume
  <2>2. \/ row' = row
        \/ \E e \in run[j].active, status \in {"ACTIVE", "PROCESSED", "FAILED"} :
              At(j, "batch") /\ row' = [row EXCEPT ![e] = status]
    <3>1. CASE \E e \in Docs : StageDoc(j, e) \/ FinishDoc(j, e) \/ FinishUnrecorded(j, e)
                               \/ FinishHalting(j, e)
      BY <3>1 DEF StageDoc, FinishDoc, FinishUnrecorded, FinishHalting
    <3>2. CASE \/ FeederDrain(j) \/ FeederRoute(j) \/ FeederSkip(j) \/ FeederYield(j)
               \/ BatchEnds(j) \/ BatchFails(j)
      BY <3>2 DEF FeederDrain, FeederRoute, FeederSkip, FeederYield, BatchEnds, BatchFails,
         LeaveBatch
    <3> QED
      BY <1>3, <3>1, <3>2 DEF BatchStep
  <2>3. {"ACTIVE", "PROCESSED", "FAILED"} \subseteq RowStatus
    BY DEF RowStatus
  <2> QED
    BY <1>0, <2>1, <2>2, <2>3
<1>4. ASSUME NEW j \in Jobs, Validate(j)
      PROVE  \/ row'[d] = row[d]
             \/ row[d] # "PROCESSED" /\ (row'[d] # None \/ d \in Orphans)
  <2>1. /\ run[j].docs \subseteq content \cup Orphans
        /\ \A e \in run[j].docs : row[e] \in AutoResume
    BY <1>4 DEF Validate, At, IInv, Known, Local
  <2>2. row'[d] = IF d \notin run[j].docs THEN row[d]
                  ELSE IF d \in content THEN "PENDING" ELSE None
    BY <1>4 DEF Validate
  <2> QED
    BY <1>0, <2>1, <2>2 DEF AutoResume, RowStatus
<1>5. ASSUME NEW j \in Jobs, ResetPage(j)
      PROVE  row'[d] = row[d] \/ (row[d] # "PROCESSED" /\ row'[d] # None)
  <2>1. \A e \in PageRows({"FAILED"}, run[j].cursor) : row[e] \in {"FAILED"}
    BY Pages DEF IInv, Typed, Run
  <2>2. row'[d] = IF d \in (PageRows({"FAILED"}, run[j].cursor) \cap content) \ Journaled
                  THEN "PENDING" ELSE row[d]
    BY <1>5 DEF ResetPage
  <2> QED
    BY <1>0, <2>1, <2>2 DEF RowStatus
<1>6. ASSUME NEW j \in Jobs, RunStep(j), ~BatchStep(j), ~Validate(j), ~ResetPage(j)
      PROVE  row'[d] = row[d]
  <2>1. row' = row
    BY <1>6 DEF RunStep, AcquireProcessing, Absorb, BeginManualDrain, FetchPage, FetchFails,
       LoopTop,
       ValidateFails, Decide, DecideReleased, DecideCancelled, DrainChannel, DrainWait,
       FenceStalledEnqueue, ConfirmDrained, EnterReset, ResetFails, Acknowledge, EndManualDrain,
       Finalize
  <2> QED
    BY <2>1
<1>7. CASE CancelPipeline \/ ForceReset
  BY <1>7 DEF CancelPipeline, ForceReset
<1> QED
  BY <1>1, <1>2, <1>3, <1>4, <1>5, <1>6, <1>7 DEF Next

\* A request is queued by its commit, and leaves when it is acknowledged or cancelled.
LEMMA QueueKept ==
    ASSUME IInv, Next, \A j \in Jobs : ~CommitRetry(j) /\ ~Acknowledge(j), ~ForceReset
    PROVE  mb'.manual_retries = mb.manual_retries
<1>0. Mailbox(mb)
  BY DEF IInv, Typed
<1>1. /\ \A docs : PutDocuments(mb, docs).manual_retries = mb.manual_retries
      /\ \A docs : RequestAutoRescan(PutDocuments(mb, docs)).manual_retries = mb.manual_retries
      /\ RequestAutoRescan(mb).manual_retries = mb.manual_retries
      /\ ConsumeAutoRescan(mb).manual_retries = mb.manual_retries
      /\ DrainDocuments(mb, DrainLimit).manual_retries = mb.manual_retries
  BY <1>0 DEF Mailbox, PutDocuments, RequestAutoRescan, ConsumeAutoRescan, DrainDocuments
<1>2. ASSUME NEW j \in Jobs, Request(j)
      PROVE  mb'.manual_retries = mb.manual_retries
  BY <1>2 DEF Request, ReserveInsert, StartProcess, TakePipeline
<1>3. ASSUME NEW j \in Jobs, CallerStep(j)
      PROVE  mb'.manual_retries = mb.manual_retries
  BY <1>1, <1>3 DEF CallerStep, WriteContent, WriteStatus, WriteStatusFails, LeaveInsert, Publish,
     ReleaseAdmin, DriveIfDeferred, ExitCustomChunks, TerminalRelease
<1>4. ASSUME NEW j \in Jobs, BatchStep(j)
      PROVE  mb'.manual_retries = mb.manual_retries
  <2>1. CASE \E d \in Docs : StageDoc(j, d) \/ FinishDoc(j, d) \/ FinishUnrecorded(j, d)
                             \/ FinishHalting(j, d)
    BY <2>1 DEF StageDoc, FinishDoc, FinishUnrecorded, FinishHalting
  <2>2. CASE \/ FeederDrain(j) \/ FeederRoute(j) \/ FeederSkip(j) \/ FeederYield(j)
             \/ BatchEnds(j) \/ BatchFails(j)
    BY <1>1, <2>2 DEF FeederDrain, FeederRoute, FeederSkip, FeederYield, BatchEnds, BatchFails,
       LeaveBatch, Republish
  <2> QED
    BY <1>4, <2>1, <2>2 DEF BatchStep
<1>5. ASSUME NEW j \in Jobs, RunStep(j)
      PROVE  mb'.manual_retries = mb.manual_retries
  <2>1. CASE FetchFails(j)
    BY <1>1, <2>1 DEF FetchFails
  <2>2. CASE Finalize(j) \/ Absorb(j) \/ DrainChannel(j) \/ AcquireProcessing(j)
    BY <1>1, <2>2 DEF Finalize, Absorb, DrainChannel, AcquireProcessing
  <2>3. CASE Decide(j)
    BY <1>1, <2>3 DEF Decide
  <2>4. CASE ~ (FetchFails(j) \/ Finalize(j) \/ Absorb(j) \/ DrainChannel(j)
                \/ AcquireProcessing(j) \/ Decide(j))
    BY <1>4, <1>5, <2>4 DEF RunStep, BeginManualDrain, FetchPage, LoopTop, Validate,
       ValidateFails, DecideReleased, DecideCancelled, DrainWait, FenceStalledEnqueue,
       ConfirmDrained, EnterReset, ResetPage, ResetFails, EndManualDrain
  <2> QED
    BY <2>1, <2>2, <2>3, <2>4
<1>6. CancelPipeline => mb' = mb
  BY DEF CancelPipeline
<1> QED
  BY <1>2, <1>3, <1>4, <1>5, <1>6 DEF Next

LEMMA QueueStep ==
    ASSUME IInv, Next, NEW r \in Jobs, IsQueued(mb, r), ~IsQueued(mb', r), ~Fenced(ps)
    PROVE  \E j \in Jobs : Acknowledge(j)
<1>0. /\ Mailbox(mb) /\ mb.manual_retries \in Seq(Jobs)
  BY DEF IInv, Typed, Mailbox
<1>1. \A q \in Seq(Jobs), x \in Jobs : Contains(q, r) => Contains(Append(q, x), r)
  <2> SUFFICES ASSUME NEW q \in Seq(Jobs), NEW x \in Jobs, NEW i \in 1 .. Len(q), q[i] = r
               PROVE  Contains(Append(q, x), r)
    BY DEF Contains
  <2>1. i \in 1 .. Len(Append(q, x)) /\ Append(q, x)[i] = r
    BY AppendProperties
  <2> QED
    BY <2>1 DEF Contains
<1>2. ASSUME NEW x \in Jobs, CommitRetry(x)
      PROVE  FALSE
  <2>1. mb'.manual_retries \in {mb.manual_retries, Append(mb.manual_retries, x)}
    BY <1>0, <1>2 DEF CommitRetry, RequestManualRetry, Mailbox
  <2> QED
    BY <1>0, <1>1, <2>1 DEF IsQueued
<1>3. ~ForceReset
  BY DEF ForceReset
<1>4. mb'.manual_retries # mb.manual_retries
  BY DEF IsQueued
<1> QED
  BY <1>2, <1>3, <1>4, QueueKept

-----------------------------------------------------------------------------
(* Theorems *)

\* What the invariant says of a state.
LEMMA IInvMeans == IInv => TypeOK /\ EpochBounded /\ (Guarded => ResetFindsIdle)
<1> SUFFICES ASSUME IInv
             PROVE  TypeOK /\ EpochBounded /\ (Guarded => ResetFindsIdle)
  OBVIOUS
<1>1. TypeOK
  BY DEF IInv, Typed, TypeOK, Mailbox, JobsTyped, Job, Run, Local
<1>2. EpochBounded
  BY DEF IInv, Local, EpochBounded
<1>3. Guarded => ResetFindsIdle
  BY DEF IInv, ResetFindsIdle, Reset, At, Writing
<1> QED
  BY <1>1, <1>2, <1>3

\* And of a step.
LEMMA StepMeans ==
    IInv /\ [Next]_vars =>
        /\ AckMeansResetStep \/ UNCHANGED vars
        /\ AcceptedIsKeptStep \/ UNCHANGED vars
        /\ ProcessedStaysStep \/ UNCHANGED vars
<1> SUFFICES ASSUME IInv, Next
             PROVE  AckMeansResetStep /\ AcceptedIsKeptStep /\ ProcessedStaysStep
  OBVIOUS
<1>1. AckMeansResetStep
  <2> SUFFICES ASSUME NEW r \in Jobs, IsQueued(mb, r), ~IsQueued(mb', r), ~Fenced(ps)
               PROVE  \A d \in content \ Journaled : row[d] # "FAILED"
    BY DEF AckMeansResetStep
  <2>1. PICK j \in Jobs : Acknowledge(j)
    BY QueueStep
  <2> QED
    BY <2>1 DEF Acknowledge, At, IInv, Reset
<1>2. AcceptedIsKeptStep
  BY RowStep DEF AcceptedIsKeptStep
<1>3. ProcessedStaysStep
  BY RowStep, SchedulerAssumption DEF ProcessedStaysStep, RowStatus
<1> QED
  BY <1>1, <1>2, <1>3

\* The types, and the capacities of the mailbox.
THEOREM TypesHold == Spec => []TypeOK
BY IInvMeans, SchedulerInvariant, PTL

\* With paging a batch never takes in more than a page.
THEOREM EpochsAreBounded == Spec => []EpochBounded
BY IInvMeans, SchedulerInvariant, PTL

\* Whoever resets the FAILED documents finds nobody's document waiting and nobody
\* writing: the drain confirms it page by page after the enqueues have gone
\* (_confirm_auto_drained, _run_exclusive_failed_reset).
THEOREM ResetFindsIdleHolds ==
    ASSUME Guarded
    PROVE  Spec => []ResetFindsIdle
BY IInvMeans, SchedulerInvariant, PTL

\* A manual retry is acknowledged with every FAILED document put back, whatever else
\* fails or is fed in meanwhile.
THEOREM AcksMeanResets == Spec => [][AckMeansResetStep]_vars
BY StepMeans, SchedulerInvariant, PTL DEF Spec

\* No accepted document loses its row, in whichever order content and row appear.
THEOREM AcceptedIsKept == Spec => [][AcceptedIsKeptStep]_vars
BY StepMeans, SchedulerInvariant, PTL DEF Spec

\* No processed document is taken up again.
THEOREM ProcessedStays == Spec => [][ProcessedStaysStep]_vars
BY StepMeans, SchedulerInvariant, PTL DEF Spec

-----------------------------------------------------------------------------
(* The signals *)

\* Failures after which the run itself gives a signal back, and no manual retry
\* that a failure could interrupt.
Calm ==
    /\ Faults \subseteq {"page", "status", "publish", "read"}
    /\ Faults # {} => "retry" \notin Kinds
    /\ Orphans = {} /\ Journaled = {}

In(d, s) == \E i \in 1 .. Len(s) : s[i] = d

\* what a manual retry continues with
Manual == {"continue_manual", "begin_exclusive_reset", "continue_drain_wait"}

\* The run will still get to the document in its current sweep, or starts a new one.
Ahead(j, d) ==
    LET r == run[j]
        pos == job[j].pos
    IN  \/ pos \in {"reset", "ack", "end"}
        \/ pos = "begin" /\ r.step \in Manual
        \/ pos = "page" /\ r.step \in Manual \cup {"continue_auto"}
        \/ pos = "page" /\ r.step = "continue_sweep_page" /\ d > r.cursor
        \/ pos \in {"loop", "validate"} /\ (d \in r.docs \/ d > r.cursor)
        \/ pos = "batch" /\ (d \in r.active \/ d > r.cursor)
        \/ pos \in {"decide", "wait", "confirm"} /\ d > r.cursor

\* The run has taken a signal for the document, and will act on it or give it back.
Owes(j, d) ==
    LET r == run[j]
        pos == job[j].pos
    IN  \/ pos = "page" /\ r.step = "first" /\ r.uncommitted
        \/ pos = "page" /\ r.step = "continue_document" /\ In(d, r.drained)
        \/ pos = "batch" /\ d \in r.pending \ r.inflight /\ In(d, r.feed)
        \/ pos = "batch" /\ In(d, r.deferred)
        \/ pos = "raise" /\ r.uncommitted

InMailbox(m, d) == m.auto_rescan_pending \/ In(d, m.documents)

\* The job will see to the document, or tell others of it: its insert has written the
\* row and not published it yet, or it is the run.
Carries(j, d) ==
    \/ job[j].pos \in {"leave", "publish"} /\ job[j].doc = d
    \/ Ahead(j, d) \/ Owes(j, d)

Signalled(d) == InMailbox(mb, d) \/ \E j \in Jobs : Carries(j, d)

Waiting(d) == d \in content /\ row[d] \in AutoResume

\* Nothing is cancelled or scanned, and only manual retries drain.
Undisturbed ==
    /\ ~ps.cancellation_requested /\ ~ps.scanning_exclusive
    /\ mb.manual_retries # <<>> \/ ps.manual_phase # "IDLE" => "retry" \in Kinds

\* How a run got where it is.
Ordered(j) ==
    LET r == run[j]
        pos == job[j].pos
    IN  /\ pos = "absorb" => r = NoRun
        /\ pos = "drain" => r.step = "continue_document"
        /\ pos = "begin" \/ r.step \in Manual => "retry" \in Kinds
        /\ pos \in {"wait", "confirm", "enter", "reset", "ack", "end"} => r.step \in Manual
        /\ ~r.blocked

\* What is being processed is in the batch of a run.
Batched ==
    \A d \in content : row[d] = "ACTIVE" =>
        \E j \in Jobs : job[j].pos = "batch" /\ d \in run[j].active

\* What left the batch is not waiting.
Settled ==
    \A j \in Jobs : job[j].pos = "batch" =>
        \A d \in run[j].inflight :
            row[d] # None /\ (row[d] \in AutoResume => d \in run[j].active)

SInv ==
    /\ Undisturbed /\ Batched /\ Settled
    /\ \A j \in Jobs : Ordered(j)
    /\ \A d \in Docs : Waiting(d) => Signalled(d)

-----------------------------------------------------------------------------
(* Where nothing fails *)

\* A job that will look into the mailbox.
Looks(j) ==
    \/ job[j].pos \in RunPos \cup {"drive", "handoff"}
    \/ job[j].pos = "body" /\ job[j].kind = "custom_chunks"
    \/ /\ mb.auto_rescan_pending /\ job[j].kind = "admin"
       /\ job[j].pos \in {"body", "admin_out"}

Looking == HasWork(mb) => \E j \in Jobs : Looks(j)

\* The slot is taken by somebody.
Taken == ps.busy => \E j \in Jobs : job[j].pos \in Holding

\* Documents that held up a drain do so once.
Advancing(j) ==
    \A d \in run[j].blocking :
        /\ row[d] # None
        /\ Waiting(d) /\ job[j].pos \in RunPos => Ahead(j, d) /\ job[j].pos # "confirm"

\* Only these two kinds take the pipeline for a body of their own.
Bodies == \A j \in Jobs : job[j].pos = "body" => job[j].kind \in {"admin", "custom_chunks"}

FInv ==
    /\ Looking /\ Taken /\ Bodies /\ ~Fenced(ps)
    /\ \A j \in Jobs : Advancing(j) /\ job[j].pos # "raise"

QInv == SInv /\ (Faults = {} => FInv)

-----------------------------------------------------------------------------
(* The signals: what sequences and the mailbox keep of them *)

\* Members of a sequence, of what is put together from sequences and of what is cut off.
LEMMA InSequences ==
    ASSUME NEW S, NEW s \in Seq(S), NEW t \in Seq(S), NEW d
    PROVE  /\ In(d, s \o t) <=> In(d, s) \/ In(d, t)
           /\ \A e \in S : In(d, Append(s, e)) <=> In(d, s) \/ d = e
           /\ s # <<>> => (In(d, s) <=> d = Head(s) \/ In(d, Tail(s)))
           /\ \A n \in 0 .. Len(s) : In(d, s) =>
                 In(d, SubSeq(s, 1, n)) \/ In(d, SubSeq(s, n + 1, Len(s)))
           /\ ~In(d, <<>>) /\ (In(d, s) => d \in S)
<1>0. Len(s) \in Nat /\ Len(t) \in Nat /\ Len(s \o t) = Len(s) + Len(t) /\ s \o t \in Seq(S)
  OBVIOUS
<1>1. In(d, s \o t) <=> In(d, s) \/ In(d, t)
  <2>1. \A i \in 1 .. Len(s) : (s \o t)[i] = s[i]
    OBVIOUS
  <2>2. \A i \in 1 .. Len(t) : (s \o t)[Len(s) + i] = t[i] /\ Len(s) + i \in 1 .. Len(s \o t)
    BY <1>0
  <2>3. \A i \in 1 .. Len(s \o t) : i \in 1 .. Len(s) \/ i - Len(s) \in 1 .. Len(t)
    BY <1>0
  <2>4. \A i \in 1 .. Len(s) : i \in 1 .. Len(s \o t)
    BY <1>0
  <2>5. ASSUME NEW i \in 1 .. Len(s \o t), (s \o t)[i] = d
        PROVE  In(d, s) \/ In(d, t)
    <3>1. CASE i \in 1 .. Len(s)
      BY <2>1, <2>5, <3>1 DEF In
    <3>2. CASE i - Len(s) \in 1 .. Len(t)
      <4>1. i = Len(s) + (i - Len(s))
        BY <1>0
      <4>2. (s \o t)[i] = t[i - Len(s)]
        BY <2>2, <3>2, <4>1
      <4> QED
        BY <2>5, <3>2, <4>2 DEF In
    <3> QED
      BY <2>3, <3>1, <3>2
  <2>6. In(d, s) => In(d, s \o t)
    BY <2>1, <2>4 DEF In
  <2>7. In(d, t) => In(d, s \o t)
    BY <2>2 DEF In
  <2> QED
    BY <2>5, <2>6, <2>7 DEF In
<1>2. ASSUME NEW e \in S
      PROVE  In(d, Append(s, e)) <=> In(d, s) \/ d = e
  <2>1. /\ Len(Append(s, e)) = Len(s) + 1 /\ Append(s, e)[Len(s) + 1] = e
        /\ \A i \in 1 .. Len(s) : Append(s, e)[i] = s[i]
    OBVIOUS
  <2>2. \A i : i \in 1 .. Len(s) + 1 <=> i \in 1 .. Len(s) \/ i = Len(s) + 1
    BY <1>0
  <2> QED
    BY <2>1, <2>2 DEF In
<1>3. ASSUME s # <<>>
      PROVE  In(d, s) <=> d = Head(s) \/ In(d, Tail(s))
  <2>1. /\ Len(Tail(s)) = Len(s) - 1 /\ Head(s) = s[1] /\ Len(s) > 0
        /\ \A i \in 1 .. Len(Tail(s)) : Tail(s)[i] = s[i + 1]
    BY <1>3
  <2>2. \A i \in 1 .. Len(s) : i = 1 \/ (i - 1 \in 1 .. Len(Tail(s)) /\ Tail(s)[i - 1] = s[i])
    BY <1>0, <2>1
  <2>3. \A i \in 1 .. Len(Tail(s)) : i + 1 \in 1 .. Len(s)
    BY <1>0, <2>1
  <2>4. 1 \in 1 .. Len(s)
    BY <1>0, <2>1
  <2> QED
    BY <2>1, <2>2, <2>3, <2>4, ZenonT(40) DEF In
<1>4. ASSUME NEW n \in 0 .. Len(s), In(d, s)
      PROVE  In(d, SubSeq(s, 1, n)) \/ In(d, SubSeq(s, n + 1, Len(s)))
  <2>1. PICK i \in 1 .. Len(s) : s[i] = d
    BY <1>4 DEF In
  <2>2. CASE i <= n
    <3>1. Len(SubSeq(s, 1, n)) = n /\ SubSeq(s, 1, n)[i] = s[i] /\ i \in 1 .. n
      BY <1>0, <2>1, <2>2
    <3> QED
      BY <2>1, <3>1 DEF In
  <2>3. CASE i > n
    <3>1. /\ Len(SubSeq(s, n + 1, Len(s))) = Len(s) - n /\ i - n \in 1 .. Len(s) - n
          /\ SubSeq(s, n + 1, Len(s))[i - n] = s[(n + 1) + (i - n) - 1]
      BY <1>0, <2>1, <2>3
    <3>2. (n + 1) + (i - n) - 1 = i
      BY <1>0, <2>1
    <3> QED
      BY <2>1, <3>1, <3>2 DEF In
  <2> QED
    BY <1>0, <2>2, <2>3
<1>5. ~In(d, <<>>) /\ (In(d, s) => d \in S)
  BY DEF In
<1> QED
  BY <1>1, <1>2, <1>3, <1>4, <1>5

\* What is published is in the mailbox, as an id or as the flag; what the mailbox has
\* stays, and a drain hands out what it takes (put_documents, drain_documents).
LEMMA MailboxSignals ==
    ASSUME NEW m, Mailbox(m), NEW d
    PROVE  /\ \A docs \in Seq(Docs) : InMailbox(m, d) \/ In(d, docs)
                                        => InMailbox(PutDocuments(m, docs), d)
           /\ InMailbox(DrainDocuments(m, DrainLimit), d) \/ In(d, Drained(m, DrainLimit))
              \/ ~InMailbox(m, d)
           /\ DrainDocuments(m, DrainLimit).auto_rescan_pending = m.auto_rescan_pending
           /\ InMailbox(RequestAutoRescan(m), d)
           /\ ConsumeAutoRescan(m).documents = m.documents
           /\ InMailbox(CancelManualRetries(m), d) <=> InMailbox(m, d)
           /\ \A request : InMailbox(AckManualRetry(m, request), d) <=> InMailbox(m, d)
           /\ \A request : InMailbox(RequestManualRetry(m, request), d) <=> InMailbox(m, d)
<1>1. /\ m.documents \in Seq(Docs) /\ DocumentCapacity \in Nat \ {0} /\ DrainLimit \in Nat \ {0}
      /\ m.auto_rescan_pending \in BOOLEAN
  BY MailboxAssumption, SchedulerAssumption DEF Mailbox
<1>2. \A a, b \in Int : Min({a, b}) = (IF a <= b THEN a ELSE b)
  <2>1. \A a, b \in Int : \A x \in {a, b} : 
            (\A y \in {a, b} : x =< y) <=> x = (IF a <= b THEN a ELSE b)
    OBVIOUS
  <2> QED
    BY <2>1 DEF Min
<1>3. ASSUME NEW docs \in Seq(Docs), InMailbox(m, d) \/ In(d, docs)
      PROVE  InMailbox(PutDocuments(m, docs), d)
  <2> DEFINE all == m.documents \o docs
             n == Min({Len(all), DocumentCapacity})
  <2>1. /\ PutDocuments(m, docs).documents = SubSeq(all, 1, n)
        /\ PutDocuments(m, docs).auto_rescan_pending =
              (m.auto_rescan_pending \/ Len(all) > DocumentCapacity)
    BY DEF PutDocuments, Mailbox
  <2>2. In(d, m.documents) \/ In(d, docs) => In(d, all)
    BY <1>1, InSequences
  <2>3. all \in Seq(Docs) /\ Len(all) \in Nat
    BY <1>1
  <2> HIDE DEF all
  <2>4. CASE Len(all) > DocumentCapacity
    BY <2>1, <2>4 DEF InMailbox
  <2>5. CASE ~ (Len(all) > DocumentCapacity)
    <3>1. n = Len(all)
      BY <1>1, <1>2, <2>3, <2>5, SMTT(20)
    <3>2. SubSeq(all, 1, Len(all)) = all
      BY <2>3
    <3> QED
      BY <1>3, <2>1, <2>2, <3>1, <3>2 DEF InMailbox
  <2> QED
    BY <2>4, <2>5
<1>4. /\ InMailbox(DrainDocuments(m, DrainLimit), d) \/ In(d, Drained(m, DrainLimit))
         \/ ~InMailbox(m, d)
      /\ DrainDocuments(m, DrainLimit).auto_rescan_pending = m.auto_rescan_pending
  <2> DEFINE n == Min({DrainLimit, Len(m.documents)})
  <2>1. n \in 0 .. Len(m.documents)
    <3>1. Len(m.documents) \in Nat
      BY <1>1
    <3> QED
      BY <1>1, <1>2, <3>1
  <2>2. /\ DrainDocuments(m, DrainLimit).documents = SubSeq(m.documents, n + 1, Len(m.documents))
        /\ DrainDocuments(m, DrainLimit).auto_rescan_pending = m.auto_rescan_pending
        /\ Drained(m, DrainLimit) = SubSeq(m.documents, 1, n)
    BY DEF DrainDocuments, Drained, Mailbox
  <2> HIDE DEF n
  <2>3. In(d, m.documents) => In(d, Drained(m, DrainLimit)) \/
                              In(d, DrainDocuments(m, DrainLimit).documents)
    BY <1>1, <2>1, <2>2, InSequences
  <2> QED
    BY <2>2, <2>3 DEF InMailbox
<1>5. /\ InMailbox(RequestAutoRescan(m), d) /\ ConsumeAutoRescan(m).documents = m.documents
      /\ InMailbox(CancelManualRetries(m), d) <=> InMailbox(m, d)
      /\ \A request : InMailbox(AckManualRetry(m, request), d) <=> InMailbox(m, d)
      /\ \A request : InMailbox(RequestManualRetry(m, request), d) <=> InMailbox(m, d)
  BY DEF InMailbox, RequestAutoRescan, ConsumeAutoRescan, CancelManualRetries, AckManualRetry,
     RequestManualRetry, Mailbox
<1> QED
  BY <1>3, <1>4, <1>5

-----------------------------------------------------------------------------
(* The signals: what the run is allowed to assume *)

\* The faults that would disturb it are not there.
LEMMA CalmExcludes ==
    ASSUME Calm, IInv, NEW j \in Jobs
    PROVE  /\ ~ValidateFails(j) /\ ~BatchFails(j) /\ ~FenceStalledEnqueue(j) /\ ~CancelPipeline
           /\ \A d : ~FinishUnrecorded(j, d) /\ ~FinishHalting(j, d)
           /\ "page" \in Faults \/ "read" \in Faults => "retry" \notin Kinds
           /\ Orphans = {} /\ Journaled = {}
BY DEF Calm, ValidateFails, BatchFails, FenceStalledEnqueue, CancelPipeline, FinishUnrecorded,
       FinishHalting

\* No step cancels, scans or fences; a drain begins and a reset is entered by two steps only.
LEMMA CalmStatus ==
    ASSUME Calm, IInv, Next
    PROVE  /\ ps'.cancellation_requested => ps.cancellation_requested
           /\ ps'.scanning_exclusive => ps.scanning_exclusive
           /\ \/ ps'.manual_phase \in {ps.manual_phase, "IDLE"}
              \/ \E j \in Jobs : BeginManualDrain(j) \/ EnterReset(j)
           /\ Fenced(ps') => Fenced(ps) \/ \E k \in Jobs : ConfirmDrained(k) /\ ps' # ps
<1>0. ps \in Status
  BY DEF IInv, Typed
<1> DEFINE Raised == \E k \in Jobs : ConfirmDrained(k) /\ ps' # ps
           Good == /\ ps'.cancellation_requested => ps.cancellation_requested
                   /\ ps'.scanning_exclusive => ps.scanning_exclusive
                   /\ ps'.manual_phase \in {ps.manual_phase, "IDLE"}
                   /\ Fenced(ps') => Fenced(ps) \/ Raised
<1>r. \A k \in Jobs : ConfirmDrained(k) /\ ps' # ps => Raised
  OBVIOUS
<1> HIDE DEF Raised
<1>1. ps' = ps => Good
  OBVIOUS
<1>2. ASSUME NEW j \in Jobs, Request(j) \/ CallerStep(j)
      PROVE  Good
  <2>1. \/ ps' = ps \/ ps' = Unregister(ps, j)
        \/ ps' = Register(ps, j, Me(j, "processing").worker, "enqueue")
        \/ \E kind : ps' = GiveBusy(ps, Me(j, kind)) \/ ps' = Uncancel(GiveBusy(ps, Me(j, kind)))
        \/ ps' = FreeBusy(ps) \/ ps' = Uncancel(FreeBusy(ps)) \/ ps' = Uncancel(ps)
    <3>1. CASE Request(j)
      BY <3>1 DEF Request, ReserveInsert, CommitRetry, StartProcess, TakePipeline
    <3>2. CASE CallerStep(j)
      <4>1. CASE ReleaseAdmin(j) \/ TerminalRelease(j)
        BY <4>1 DEF ReleaseAdmin, TerminalRelease, IfOwner
      <4>2. CASE ExitCustomChunks(j)
        BY <4>2 DEF ExitCustomChunks, IfOwner
      <4>3. CASE ~ (ReleaseAdmin(j) \/ TerminalRelease(j) \/ ExitCustomChunks(j))
        BY <3>2, <4>3 DEF CallerStep, WriteContent, WriteStatus, WriteStatusFails, LeaveInsert,
           Publish, DriveIfDeferred
      <4> QED
        BY <4>1, <4>2, <4>3
    <3> QED
      BY <1>2, <3>1, <3>2
  <2> QED
    BY <1>0, <2>1 DEF Unregister, Register, GiveBusy, Uncancel, FreeBusy, Status, Fenced
<1>3. ASSUME NEW j \in Jobs, BatchStep(j)
      PROVE  Good
  <2>1. ps' = ps
    <3>1. CASE \E d \in Docs : StageDoc(j, d) \/ FinishDoc(j, d)
      BY <3>1 DEF StageDoc, FinishDoc
    <3>2. CASE FeederDrain(j) \/ FeederRoute(j) \/ FeederSkip(j) \/ FeederYield(j) \/ BatchEnds(j)
      BY <3>2 DEF FeederDrain, FeederRoute, FeederSkip, FeederYield, BatchEnds, LeaveBatch
    <3> QED
      BY <1>3, <3>1, <3>2, CalmExcludes DEF BatchStep
  <2> QED
    BY <2>1
<1>4. ASSUME NEW j \in Jobs, RunStep(j), ~BatchStep(j), ~BeginManualDrain(j), ~EnterReset(j)
      PROVE  Good
  <2>1. CASE AcquireProcessing(j)
    <3> DEFINE v == ProcessingVerdict(ps, At(j, "handoff"), FALSE)
               w == Me(j, "processing").worker
    <3>1. v \in {"recovery_required", "scanning", "busy", "acquired"}
      BY DEF ProcessingVerdict
    <3>2. ps' = ProcessingOutcome(ps, v, j, w, FALSE)
      BY <2>1 DEF AcquireProcessing
    <3> HIDE DEF v, w
    <3> QED
      BY <1>0, <3>1, <3>2 DEF ProcessingOutcome, GiveBusy, Status, Fenced
  <2>2. CASE LoopTop(j) \/ DecideReleased(j) \/ EndManualDrain(j) \/ Finalize(j)
    <3>1. \/ ps' = ps \/ ps' = Uncancel(ps) \/ ps' = FreeBusy(ps) \/ ps' = ManualIdle(ps)
          \/ ps' = Uncancel(ManualIdle(FreeBusy(ps)))
      <4>1. CASE LoopTop(j)
        BY <4>1 DEF LoopTop
      <4>2. CASE DecideReleased(j)
        BY <4>2 DEF DecideReleased
      <4>3. CASE EndManualDrain(j)
        BY <4>3 DEF EndManualDrain, IfOwner
      <4>4. CASE Finalize(j)
        BY <4>4 DEF Finalize, IfOwner
      <4> QED
        BY <2>2, <4>1, <4>2, <4>3, <4>4
    <3> QED
      BY <1>0, <3>1 DEF Uncancel, FreeBusy, ManualIdle, Status, Fenced
  <2>3. CASE ConfirmDrained(j)
    <3>1. ps' = ps \/ \E kind : ps' = RaiseFence(ps, kind)
      BY <2>3 DEF ConfirmDrained
    <3> QED
      BY <1>0, <1>r, <2>3, <3>1 DEF RaiseFence, Status
  <2>4. CASE ~ (\/ AcquireProcessing(j) \/ LoopTop(j) \/ DecideReleased(j) \/ EndManualDrain(j)
                \/ Finalize(j) \/ ConfirmDrained(j))
    <3>1. ps' = ps
      BY <1>4, <2>4, CalmExcludes DEF RunStep, Absorb, FetchPage, FetchFails, Validate, Decide,
         DecideCancelled, DrainChannel, DrainWait, ResetPage, ResetFails, Acknowledge
    <3> QED
      BY <3>1
  <2> QED
    BY <2>1, <2>2, <2>3, <2>4
<1>5. ASSUME ForceReset
      PROVE  Good
  BY <1>0, <1>5 DEF ForceReset, ForceResetStatus, ManualIdle, FreeScanning, FreeDestructive,
     FreeBusy,
     Status, Fenced
<1>6. ~CancelPipeline
  BY DEF Calm, CancelPipeline
<1>7. ASSUME NEW j \in Jobs, BeginManualDrain(j) \/ EnterReset(j)
      PROVE  /\ ps'.cancellation_requested => ps.cancellation_requested
             /\ ps'.scanning_exclusive => ps.scanning_exclusive
             /\ Fenced(ps') => Fenced(ps)
  BY <1>0, <1>7 DEF BeginManualDrain, IfOwner, FreezeForManual, EnterReset, EnterExclusiveReset,
     Status, Fenced
<1> HIDE DEF Good
<1>8. ASSUME NEW j \in Jobs, Request(j) \/ CallerStep(j) \/ RunStep(j)
      PROVE  Good \/ BeginManualDrain(j) \/ EnterReset(j)
  BY <1>2, <1>3, <1>4, <1>8
<1>9. Good \/ \E j \in Jobs : BeginManualDrain(j) \/ EnterReset(j)
  BY <1>5, <1>6, <1>8 DEF Next
<1> QED
  BY <1>7, <1>9 DEF Good, Raised

LEMMA UndisturbedStep ==
    ASSUME Calm, IInv, SInv, Next
    PROVE  Undisturbed'
<1>1. ~ps'.cancellation_requested /\ ~ps'.scanning_exclusive
  BY CalmStatus DEF SInv, Undisturbed
<1>2. ASSUME "retry" \notin Kinds
      PROVE  ps'.manual_phase = "IDLE" /\ mb'.manual_retries = <<>>
  <2>1. ps.manual_phase = "IDLE" /\ mb.manual_retries = <<>>
    BY <1>2 DEF SInv, Undisturbed
  <2>2. \A j \in Jobs : ~BeginManualDrain(j) /\ ~EnterReset(j) /\ ~CommitRetry(j) /\
           ~Acknowledge(j)
    BY <1>2 DEF SInv, Ordered, BeginManualDrain, EnterReset, Acknowledge, At, CommitRetry,
       MayStart
  <2>3. mb'.manual_retries = <<>>
    <3>1. CASE ForceReset
      BY <3>1 DEF ForceReset, CancelManualRetries, IInv, Typed, Mailbox
    <3>2. CASE ~ForceReset
      BY <2>1, <2>2, <3>2, QueueKept
    <3> QED
      BY <3>1, <3>2
  <2> QED
    BY <2>1, <2>2, <2>3, CalmStatus
<1> QED
  BY <1>1, <1>2 DEF Undisturbed

-----------------------------------------------------------------------------
(* The signals: how a step passes them on *)

\* What was the mailbox's or the job's to see to is so afterwards.
HandsOn(j) ==
    \A d \in Docs :
        Waiting(d)' /\ (Waiting(d) => InMailbox(mb, d) \/ Carries(j, d))
            => InMailbox(mb', d) \/ Carries(j, d)'

\* What others carry they go on carrying.
LEMMA OthersCarry ==
    ASSUME NEW j \in Jobs, Others(j), NEW k \in Jobs \ {j}, NEW d
    PROVE  /\ Carries(k, d)' <=> Carries(k, d)
           /\ Ordered(k)' <=> Ordered(k)
           /\ Ahead(k, d)' <=> Ahead(k, d)
<1>1. job'[k] = job[k] /\ run'[k] = run[k]
  BY DEF Others
<1>2. Ahead(k, d)' <=> Ahead(k, d)
  BY <1>1 DEF Ahead
<1>3. Owes(k, d)' <=> Owes(k, d)
  BY <1>1 DEF Owes, In
<1>4. Ordered(k)' <=> Ordered(k)
  BY <1>1 DEF Ordered
<1> QED
  BY <1>1, <1>2, <1>3, <1>4 DEF Carries

\* So a step whose job hands on what it had leaves nobody who waits alone.
LEMMA SignalledStep ==
    ASSUME SInv, NEW j \in Jobs, Others(j), HandsOn(j)
    PROVE  \A d \in Docs : Waiting(d)' => Signalled(d)'
<1> SUFFICES ASSUME NEW d \in Docs, Waiting(d)'
             PROVE  Signalled(d)'
  OBVIOUS
<1>1. CASE Waiting(d) => InMailbox(mb, d) \/ Carries(j, d)
  BY <1>1 DEF HandsOn, Signalled
<1>2. CASE Waiting(d) /\ \E k \in Jobs \ {j} : Carries(k, d)
  BY <1>2, OthersCarry DEF Signalled
<1> QED
  BY <1>1, <1>2 DEF SInv, Signalled

\* The step of a job outside the batch that leaves the rows alone.
LEMMA OutsideSignals ==
    ASSUME Calm, IInv, SInv, Next, NEW j \in Jobs, Others(j), row' = row, content' = content,
           job[j].pos # "batch", job'[j].pos # "batch", HandsOn(j), Ordered(j)'
    PROVE  SInv'
<1>1. Undisturbed' /\ \A k \in Jobs : Ordered(k)'
  BY UndisturbedStep, OthersCarry DEF SInv
<1>2. \A d \in Docs : Waiting(d)' => Signalled(d)'
  BY SignalledStep
<1>3. Batched'
  <2> SUFFICES ASSUME NEW d \in content', row'[d] = "ACTIVE"
               PROVE  \E k \in Jobs : job'[k].pos = "batch" /\ d \in run'[k].active
    BY DEF Batched
  <2>1. PICK k \in Jobs : job[k].pos = "batch" /\ d \in run[k].active
    BY DEF SInv, Batched
  <2> QED
    BY <2>1 DEF Others
<1>4. Settled'
  BY DEF SInv, Settled, Others
<1> QED
  BY <1>1, <1>2, <1>3, <1>4 DEF SInv

\* A job outside the run has the order of one that has not begun.
LEMMA Unbegun ==
    ASSUME NEW j \in Jobs, run'[j] = NoRun, job'[j].pos \notin RunPos \ {"absorb"}
    PROVE  Ordered(j)'
BY DEF Ordered, NoRun, RunPos, Manual

\* The step of a job beside the run that carries nothing away.
LEMMA AsideSignals ==
    ASSUME Calm, IInv, SInv, Next, NEW j \in Jobs, Others(j), row' = row, content' = content,
           run'[j] = NoRun,
           job[j].pos \notin (RunPos \ {"absorb"}) \cup {"raise"},
           job'[j].pos \notin RunPos \ {"absorb"},
           \A d \in Docs : InMailbox(mb, d) => InMailbox(mb', d),
           \A d \in Docs : job[j].pos \in {"leave", "publish"} /\ job[j].doc = d =>
              \/ InMailbox(mb', d)
              \/ job'[j].pos \in {"leave", "publish"} /\ job'[j].doc = d
              \/ d \notin content \/ row[d] \notin AutoResume
    PROVE  SInv'
<1>1. Ordered(j)' /\ job[j].pos # "batch" /\ job'[j].pos # "batch"
  BY Unbegun DEF RunPos
<1>2. \A d : ~Ahead(j, d) /\ ~Owes(j, d)
  BY DEF Ahead, Owes, RunPos
<1>3. HandsOn(j)
  BY <1>2 DEF HandsOn, Carries, Waiting
<1> QED
  BY <1>1, <1>3, OutsideSignals

\* No row is deleted.
LEMMA CalmRows ==
    ASSUME Calm, IInv, Next, NEW d \in Docs, row[d] # None
    PROVE  row'[d] # None
BY RowStep DEF Calm

\* A step inside the run, which takes with it the documents that held up a drain.
GoesOn(j) ==
    /\ Others(j) /\ job'[j].pos \in RunPos
    /\ Advancing(j) => Advancing(j)'

\* It does so when they stay ahead of it.
LEMMA GoingOn ==
    ASSUME Calm, IInv, Next, NEW j \in Jobs, Others(j), job[j].pos \in RunPos,
           job'[j].pos \in RunPos, run'[j].blocking = run[j].blocking,
           \A d \in Docs :
              Waiting(d)' /\ (Waiting(d) => Ahead(j, d) /\ job[j].pos # "confirm")
                 => Ahead(j, d)' /\ job'[j].pos # "confirm"
    PROVE  GoesOn(j)
<1>1. run[j].blocking \subseteq Docs
  BY DEF IInv, Typed, Run
<1>2. ASSUME Advancing(j)
      PROVE  Advancing(j)'
  <2> SUFFICES ASSUME NEW d \in run[j].blocking
               PROVE  /\ row'[d] # None
                      /\ Waiting(d)' => Ahead(j, d)' /\ job'[j].pos # "confirm"
    BY DEF Advancing
  <2>1. row'[d] # None
    BY <1>1, <1>2, CalmRows DEF Advancing
  <2>2. Waiting(d) => Ahead(j, d) /\ job[j].pos # "confirm"
    BY <1>2 DEF Advancing
  <2> QED
    BY <1>1, <2>1, <2>2
<1> QED
  BY <1>2 DEF GoesOn

\* A request that arrives takes no signal away.
LEMMA RequestSignals ==
    ASSUME Calm, IInv, SInv, Next, NEW j \in Jobs, Request(j)
    PROVE  SInv'
<1>0. Typed /\ Mailbox(mb) /\ job[j] \in Job /\ job \in [Jobs -> Job] /\ run[j] \in Run
      /\ (job[j].pos \notin RunPos \cup {"raise"} => run[j] = NoRun)
  BY Beside DEF IInv, Typed, JobsTyped
<1>1. /\ row' = row /\ content' = content /\ run' = run /\ job[j].pos = "idle"
      /\ mb' = mb \/ mb' = RequestManualRetry(mb, j)
  BY DEF Request, ReserveInsert, CommitRetry, StartProcess, TakePipeline, MayStart, At
<1>2. Others(j) /\ job'[j].pos \in {"content", "drive", "body"}
  <2>1. \/ \E k, p : p \in {"drive", "body"} /\ job' = [job EXCEPT ![j].kind = k, ![j].pos = p]
        \/ \E d : job' = [job EXCEPT ![j].kind = "insert", ![j].pos = "content", ![j].doc = d]
    <3>1. CASE ReserveInsert(j)
      BY <3>1 DEF ReserveInsert
    <3>2. CASE CommitRetry(j) \/ StartProcess(j)
      BY <3>2 DEF CommitRetry, StartProcess, Start
    <3>3. CASE TakePipeline(j)
      BY <3>3 DEF TakePipeline, Start
    <3> QED
      BY <3>1, <3>2, <3>3 DEF Request
  <2> QED
    BY <1>0, <1>1, <2>1, ZenonT(40) DEF Others, Job
<1>3. \A d \in Docs : InMailbox(mb, d) => InMailbox(mb', d)
  BY <1>0, <1>1, MailboxSignals
<1>4. run'[j] = NoRun
  BY <1>0, <1>1 DEF RunPos
<1> QED
  BY <1>1, <1>2, <1>3, <1>4, AsideSignals DEF RunPos

\* An insert that writes its document is the signal for it until it is published; when the
\* outcome of the write is not known it arms a rescan.
LEMMA WriterSignals ==
    ASSUME Calm, IInv, SInv, Next, NEW j \in Jobs,
           WriteContent(j) \/ WriteStatus(j) \/ WriteStatusFails(j)
    PROVE  SInv'
<1> DEFINE own == job[j].doc
<1>0. /\ Mailbox(mb) /\ job[j] \in Job /\ job \in [Jobs -> Job] /\ run[j] \in Run
      /\ row \in [Docs -> RowStatus \cup {None}]
      /\ job[j].pos \in Writing /\ own \in Docs /\ row[own] = None /\ run[j] = NoRun
  <2>1. job[j].pos \in Writing
    BY DEF WriteContent, WriteStatus, WriteStatusFails, At, Writing
  <2>2. own \in Docs /\ row[own] = None
    BY <2>1 DEF IInv, Inserting
  <2> QED
    BY <2>1, <2>2, Beside DEF IInv, Typed, JobsTyped, RunPos, Writing
<1>1. /\ run' = run /\ Others(j)
      /\ job'[j].pos \in {"status", "leave", "failed_leave", "driven_leave"}
      /\ job'[j].doc = own
  BY <1>0 DEF WriteContent, WriteStatus, WriteStatusFails, Move, Others, Job
<1>2. /\ content' \in {content, content \cup {own}}
      /\ \A d \in Docs \ {own} : row'[d] = row[d]
      /\ row'[own] \in {None, "PENDING"}
      /\ \A d : InMailbox(mb, d) => InMailbox(mb', d)
      /\ row'[own] = None \/ job'[j].pos = "leave" \/ \A d : InMailbox(mb', d)
  <2>1. \A d : InMailbox(RequestAutoRescan(mb), d)
    BY <1>0, MailboxSignals
  <2>2. CASE WriteContent(j)
    BY <1>0, <2>2 DEF WriteContent
  <2>3. CASE WriteStatus(j)
    BY <1>0, <2>3 DEF WriteStatus, Move, Job
  <2>4. CASE WriteStatusFails(j)
    BY <1>0, <2>1, <2>4 DEF WriteStatusFails
  <2> QED
    BY <2>2, <2>3, <2>4
<1> HIDE DEF own
<1>3. None # "PENDING" /\ "PENDING" # "ACTIVE" /\ None # "ACTIVE" /\ None \notin AutoResume
  BY SchedulerAssumption DEF RowStatus, AutoResume
<1>4. HandsOn(j)
  <2> SUFFICES ASSUME NEW d \in Docs, Waiting(d)', Waiting(d) => InMailbox(mb, d) \/ Carries(j, d)
               PROVE  InMailbox(mb', d) \/ Carries(j, d)'
    BY DEF HandsOn
  <2>1. ~Carries(j, d) \/ d = own
    BY <1>0 DEF Carries, Ahead, Owes, RunPos, Writing, own
  <2>2. CASE d = own
    <3>1. row'[own] # None
      BY <1>3, <2>2 DEF Waiting
    <3> QED
      BY <1>1, <1>2, <2>2, <3>1 DEF Carries
  <2>3. CASE d # own
    <3>1. Waiting(d)
      BY <1>2, <2>3 DEF Waiting
    <3> QED
      BY <1>2, <2>1, <2>3, <3>1
  <2> QED
    BY <2>2, <2>3
<1>5. Undisturbed' /\ \A d \in Docs : Waiting(d)' => Signalled(d)'
  BY <1>1, <1>4, UndisturbedStep, SignalledStep
<1>6. \A k \in Jobs : Ordered(k)'
  <2>1. Ordered(j)'
    BY <1>0, <1>1, Unbegun DEF RunPos
  <2> QED
    BY <1>1, <2>1, OthersCarry DEF SInv
<1>7. Batched'
  <2> SUFFICES ASSUME NEW d \in content', row'[d] = "ACTIVE"
               PROVE  \E k \in Jobs : job'[k].pos = "batch" /\ d \in run'[k].active
    BY DEF Batched
  <2>1. d # own
    BY <1>2, <1>3
  <2>2. d \in content /\ d \in Docs /\ row[d] = "ACTIVE"
    BY <1>2, <2>1 DEF IInv, Typed
  <2>3. PICK k \in Jobs : job[k].pos = "batch" /\ d \in run[k].active
    BY <2>2 DEF SInv, Batched
  <2>4. k # j
    BY <1>0, <2>3 DEF Writing
  <2> QED
    BY <1>1, <2>3, <2>4 DEF Others
<1>8. Settled'
  <2> SUFFICES ASSUME NEW k \in Jobs, job'[k].pos = "batch", NEW d \in run'[k].inflight
               PROVE  row'[d] # None /\ (row'[d] \in AutoResume => d \in run'[k].active)
    BY DEF Settled
  <2>1. k # j /\ job'[k] = job[k] /\ run'[k] = run[k]
    BY <1>1 DEF Others
  <2>2. row[d] # None /\ (row[d] \in AutoResume => d \in run[k].active)
    BY <2>1 DEF SInv, Settled
  <2>3. d \in Docs
    BY <2>1 DEF IInv, Typed, Run
  <2>4. d # own
    BY <1>0, <2>2
  <2> QED
    BY <1>2, <2>1, <2>2, <2>3, <2>4
<1> QED
  BY <1>5, <1>6, <1>7, <1>8 DEF SInv

\* Nor does a caller: it publishes its document before it forgets it.
LEMMA CallerSignals ==
    ASSUME Calm, IInv, SInv, Next, NEW j \in Jobs, CallerStep(j)
    PROVE  SInv'
<1>0. /\ Mailbox(mb) /\ job[j] \in Job /\ job \in [Jobs -> Job] /\ JobsTyped(job)
      /\ (job[j].pos \notin RunPos \cup {"raise"} => run[j] = NoRun)
  BY Beside DEF IInv, Typed, JobsTyped
<1>1. CASE LeaveInsert(j)
  <2>1. /\ row' = row /\ content' = content /\ run' = run /\ mb' = mb /\ Others(j)
        /\ job[j].pos \in {"leave", "failed_leave", "driven_leave"}
        /\ job'[j].pos \in {"publish", "done", "drive"}
        /\ job'[j].doc = job[j].doc /\ (job[j].pos = "leave" => job'[j].pos = "publish")
    BY <1>0, <1>1 DEF LeaveInsert, Move, Others, Job, At
  <2> QED
    BY <1>0, <2>1, AsideSignals DEF RunPos
<1>2. CASE Publish(j)
  <2> DEFINE one == <<job[j].doc>>
  <2>1. /\ row' = row /\ content' = content /\ run' = run /\ Others(j)
        /\ job[j].pos = "publish" /\ job'[j].pos = "drive"
        /\ mb' = PutDocuments(mb, one) \/ mb' = RequestAutoRescan(mb)
    BY <1>0, <1>2 DEF Publish, Move, Others, Job, At
  <2>2. job[j].doc \in Docs
    BY <1>0, <2>1 DEF JobsTyped, Unpublished
  <2>3. one \in Seq(Docs) /\ In(job[j].doc, one)
    BY <2>2 DEF In
  <2> HIDE DEF one
  <2>4. \A d \in Docs : InMailbox(mb, d) \/ d = job[j].doc => InMailbox(mb', d)
    <3>1. \A d : InMailbox(RequestAutoRescan(mb), d)
      BY <1>0, MailboxSignals
    <3>2. \A d : InMailbox(mb, d) \/ In(d, one) => InMailbox(PutDocuments(mb, one), d)
      BY <1>0, <2>3, MailboxSignals
    <3> QED
      BY <2>1, <2>3, <3>1, <3>2, Zenon
  <2> QED
    BY <1>0, <2>1, <2>4, AsideSignals DEF RunPos
<1>3. CASE ReleaseAdmin(j) \/ DriveIfDeferred(j) \/ ExitCustomChunks(j) \/ TerminalRelease(j)
  <2>1. /\ row' = row /\ content' = content /\ run' = run /\ mb' = mb
        /\ job[j].pos \in {"body", "admin_out", "terminal"}
    BY <1>3 DEF ReleaseAdmin, DriveIfDeferred, ExitCustomChunks, TerminalRelease, At
  <2>2. Others(j) /\ job'[j].pos \in {"admin_out", "drive", "done", "handoff", "terminal"}
    <3>1. CASE ReleaseAdmin(j) \/ DriveIfDeferred(j) \/ TerminalRelease(j)
      BY <1>0, <2>1, <3>1 DEF ReleaseAdmin, DriveIfDeferred, TerminalRelease, Move, Others, Job
    <3>2. CASE ExitCustomChunks(j)
      BY <1>0, <2>1, <3>2 DEF ExitCustomChunks, Move, Others, Job
    <3> QED
      BY <1>3, <3>1, <3>2
  <2> QED
    BY <1>0, <2>1, <2>2, AsideSignals DEF RunPos
<1> QED
  BY <1>1, <1>2, <1>3, WriterSignals DEF CallerStep

\* In the batch the run carries what it works on, what is behind its page, what it has
\* drained and will admit, and what it put off.
CarriesInBatch(r, d) ==
    \/ d \in r.active \/ d > r.cursor
    \/ d \in r.pending \ r.inflight /\ In(d, r.feed)
    \/ In(d, r.deferred)

LEMMA BatchCarries ==
    ASSUME NEW j \in Jobs, NEW d
    PROVE  /\ job[j].pos = "batch" => (Carries(j, d) <=> CarriesInBatch(run[j], d))
           /\ job'[j].pos = "batch" => (Carries(j, d)' <=> CarriesInBatch(run'[j], d))
BY DEF Carries, Ahead, Owes, CarriesInBatch, In

\* What is being processed is in this batch, and what left it is not waiting.
LEMMA InBatchSignals ==
    ASSUME IInv, SInv, NEW j \in Jobs, job[j].pos = "batch"
    PROVE  /\ \A d \in content : row[d] = "ACTIVE" => d \in run[j].active
           /\ \A d \in run[j].inflight :
                 row[d] # None /\ (row[d] \in AutoResume => d \in run[j].active)
           /\ \A k \in Jobs \ {j} : job[k].pos \notin Holding
<1>1. \A k \in Jobs \ {j} : job[k].pos \notin Holding
  BY OneHolder DEF Holding, RunPos
<1>2. ASSUME NEW d \in content, row[d] = "ACTIVE"
      PROVE  d \in run[j].active
  <2>1. PICK k \in Jobs : job[k].pos = "batch" /\ d \in run[k].active
    BY <1>2 DEF SInv, Batched
  <2>2. k = j
    BY <1>1, <2>1 DEF Holding, RunPos
  <2> QED
    BY <2>1, <2>2
<1> QED
  BY <1>1, <1>2 DEF SInv, Settled

\* A step inside the batch.
LEMMA BatchSignals ==
    ASSUME Calm, IInv, SInv, Next, NEW j \in Jobs, job[j].pos = "batch", job' = job,
           content' = content, \A k \in Jobs \ {j} : run'[k] = run[k],
           run'[j].step = run[j].step, run'[j].blocked = run[j].blocked,
           run'[j].blocking = run[j].blocking,
           \A d \in content : row'[d] = "ACTIVE" => d \in run'[j].active,
           \A d \in run'[j].inflight :
              row'[d] # None /\ (row'[d] \in AutoResume => d \in run'[j].active),
           \A d \in Docs :
              Waiting(d)' /\ (Waiting(d) => InMailbox(mb, d) \/ CarriesInBatch(run[j], d))
                 => InMailbox(mb', d) \/ CarriesInBatch(run'[j], d),
           \A d \in Docs :
              Waiting(d)' /\ (Waiting(d) => d \in run[j].active \/ d > run[j].cursor)
                 => d \in run'[j].active \/ d > run'[j].cursor
    PROVE  SInv' /\ GoesOn(j)
<1>1. Others(j) /\ job'[j].pos = "batch"
  BY DEF Others
<1>2. HandsOn(j)
  BY <1>1, BatchCarries DEF HandsOn
<1>3. Undisturbed' /\ \A d \in Docs : Waiting(d)' => Signalled(d)'
  BY <1>1, <1>2, UndisturbedStep, SignalledStep
<1>4. \A k \in Jobs : Ordered(k)'
  <2>1. Ordered(j)'
    BY <1>1 DEF SInv, Ordered
  <2> QED
    BY <1>1, <2>1, OthersCarry DEF SInv
<1>5. Batched'
  BY <1>1 DEF Batched
<1>6. Settled'
  <2>1. \A k \in Jobs \ {j} : job[k].pos # "batch"
    BY InBatchSignals DEF Holding, RunPos
  <2> QED
    BY <2>1 DEF Settled
<1>7. GoesOn(j)
  <2>1. \A d \in Docs :
              Waiting(d)' /\ (Waiting(d) => Ahead(j, d) /\ job[j].pos # "confirm")
                 => Ahead(j, d)' /\ job'[j].pos # "confirm"
    BY <1>1 DEF Ahead
  <2> QED
    BY <1>1, <2>1, GoingOn DEF RunPos
<1> QED
  BY <1>3, <1>4, <1>5, <1>6, <1>7 DEF SInv

LEMMA WorkerSignals ==
    ASSUME Calm, IInv, SInv, Next, NEW j \in Jobs, NEW e \in Docs,
           StageDoc(j, e) \/ FinishDoc(j, e)
    PROVE  SInv' /\ GoesOn(j)
<1>0. /\ run \in [Jobs -> Run] /\ row \in [Docs -> RowStatus \cup {None}] /\ run[j] \in Run
      /\ job[j].pos = "batch" /\ e \in run[j].active /\ content \subseteq Docs
      /\ row[e] \in AutoResume /\ e \in content /\ run[j].inflight \subseteq Docs
  BY InBatch DEF IInv, Typed, StageDoc, FinishDoc, At
<1>1. /\ \A d \in content : row[d] = "ACTIVE" => d \in run[j].active
      /\ \A d \in run[j].inflight :
                 row[d] # None /\ (row[d] \in AutoResume => d \in run[j].active)
  BY <1>0, InBatchSignals
<1>2. /\ job' = job /\ content' = content /\ mb' = mb
      /\ \A k \in Jobs \ {j} : run'[k] = run[k]
      /\ run'[j].step = run[j].step /\ run'[j].blocked = run[j].blocked
      /\ run'[j].blocking = run[j].blocking
      /\ run'[j].inflight = run[j].inflight /\ run'[j].cursor = run[j].cursor
      /\ run'[j].pending = run[j].pending /\ run'[j].feed = run[j].feed
      /\ run'[j].deferred = run[j].deferred
      /\ \A d \in Docs \ {e} : row'[d] = row[d]
      /\ \/ row'[e] = "ACTIVE" /\ run'[j].active = run[j].active
         \/ row'[e] \in {"PROCESSED", "FAILED"} /\ run'[j].active = run[j].active \ {e}
  <2>1. CASE StageDoc(j, e)
    BY <1>0, <2>1 DEF StageDoc
  <2>2. CASE FinishDoc(j, e)
    BY <1>0, <2>2 DEF FinishDoc, Run
  <2> QED
    BY <2>1, <2>2
<1>3. None \notin {"ACTIVE", "PROCESSED", "FAILED"} /\ "ACTIVE" \in AutoResume
      /\ {"PROCESSED", "FAILED"} \cap (AutoResume \cup {"ACTIVE"}) = {}
  BY SchedulerAssumption DEF RowStatus, AutoResume
<1>4. \A d \in content : row'[d] = "ACTIVE" => d \in run'[j].active
  BY <1>0, <1>1, <1>2, <1>3
<1>5. \A d \in run'[j].inflight :
              row'[d] # None /\ (row'[d] \in AutoResume => d \in run'[j].active)
  BY <1>0, <1>1, <1>2, <1>3
<1>6. ASSUME NEW d \in Docs, Waiting(d)', Waiting(d) => InMailbox(mb, d) \/
             CarriesInBatch(run[j], d)
      PROVE  InMailbox(mb', d) \/ CarriesInBatch(run'[j], d)
  <2>1. CASE d # e
    BY <1>2, <1>6, <2>1 DEF Waiting, CarriesInBatch
  <2>2. CASE d = e
    BY <1>0, <1>2, <1>3, <1>6, <2>2 DEF Waiting, CarriesInBatch
  <2> QED
    BY <2>1, <2>2
<1>7. ASSUME NEW d \in Docs, Waiting(d)', Waiting(d) => d \in run[j].active \/ d > run[j].cursor
      PROVE  d \in run'[j].active \/ d > run'[j].cursor
  <2>1. CASE d # e
    BY <1>2, <1>7, <2>1 DEF Waiting
  <2>2. CASE d = e
    BY <1>0, <1>2, <1>3, <1>7, <2>2 DEF Waiting
  <2> QED
    BY <2>1, <2>2
<1> QED
  BY <1>0, <1>2, <1>4, <1>5, <1>6, <1>7, BatchSignals

\* Whatever the feeder drains it admits, puts off with a rescan, or publishes again.
LEMMA FeederSignals ==
    ASSUME Calm, IInv, SInv, Next, NEW j \in Jobs,
           FeederDrain(j) \/ FeederRoute(j) \/ FeederSkip(j) \/ FeederYield(j)
    PROVE  SInv' /\ GoesOn(j)
<1>0. /\ run \in [Jobs -> Run] /\ row \in [Docs -> RowStatus \cup {None}] /\ run[j] \in Run
      /\ job[j].pos = "batch" /\ content \subseteq Docs /\ Mailbox(mb)
      /\ run[j].feed \in Seq(Docs) /\ run[j].deferred \in Seq(Docs)
      /\ \A d \in run[j].pending \ run[j].inflight : row[d] = "PENDING"
  <2>1. job[j].pos = "batch"
    BY DEF FeederDrain, FeederRoute, FeederSkip, FeederYield, At
  <2> QED
    BY <2>1, InBatch DEF IInv, Typed, At, Run
<1>1. /\ \A d \in content : row[d] = "ACTIVE" => d \in run[j].active
      /\ \A d \in run[j].inflight :
                 row[d] # None /\ (row[d] \in AutoResume => d \in run[j].active)
  BY <1>0, InBatchSignals
<1>2. row' = row /\ job' = job /\ content' = content /\ \A d : Waiting(d)' <=> Waiting(d)
  BY DEF FeederDrain, FeederRoute, FeederSkip, FeederYield, Waiting
<1>3. CASE FeederDrain(j)
  <2>1. /\ \A k \in Jobs \ {j} : run'[k] = run[k]
        /\ run'[j].step = run[j].step /\ run'[j].blocked = run[j].blocked
        /\ run'[j].blocking = run[j].blocking
        /\ run'[j].inflight = run[j].inflight /\ run'[j].cursor = run[j].cursor
        /\ run'[j].pending = {d \in Docs : row[d] = "PENDING"}
        /\ run'[j].feed = Drained(mb, DrainLimit) /\ run[j].feed = <<>>
        /\ run'[j].deferred = run[j].deferred /\ run'[j].active = run[j].active
        /\ mb' = DrainDocuments(mb, DrainLimit)
    BY <1>0, <1>3 DEF FeederDrain, Run
  <2>2. ASSUME NEW d \in Docs, Waiting(d), InMailbox(mb, d) \/ CarriesInBatch(run[j], d)
        PROVE  InMailbox(mb', d) \/ CarriesInBatch(run'[j], d)
    <3>1. InMailbox(mb, d) => InMailbox(mb', d) \/ In(d, run'[j].feed)
      BY <1>0, <2>1, MailboxSignals
    <3>2. d \in run'[j].pending \ run'[j].inflight \/ d \in run'[j].active
      BY <1>1, <2>1, <2>2 DEF Waiting, AutoResume
    <3>3. ~In(d, run[j].feed)
      BY <2>1 DEF In
    <3> QED
      BY <2>1, <2>2, <3>1, <3>2, <3>3 DEF CarriesInBatch
  <2> QED
    BY <1>0, <1>1, <1>2, <2>1, <2>2, BatchSignals
<1>4. CASE FeederRoute(j)
  <2> DEFINE e == Head(run[j].feed)
             admit == e \notin run[j].inflight /\ e \in run[j].pending \ Journaled
  <2>1. /\ \A k \in Jobs \ {j} : run'[k] = run[k]
        /\ run'[j].step = run[j].step /\ run'[j].blocked = run[j].blocked
        /\ run'[j].blocking = run[j].blocking
        /\ run'[j].cursor = run[j].cursor /\ run'[j].pending = run[j].pending
        /\ run'[j].feed = Tail(run[j].feed) /\ run[j].feed # <<>>
        /\ run'[j].deferred = run[j].deferred /\ mb' = mb
        /\ run'[j].active = IF admit THEN run[j].active \cup {e} ELSE run[j].active
        /\ run'[j].inflight = IF admit THEN run[j].inflight \cup {e} ELSE run[j].inflight
    BY <1>0, <1>4 DEF FeederRoute, Run
  <2>2. Journaled = {}
    BY DEF Calm
  <2> HIDE DEF e
  <2>3. \A d : In(d, run[j].feed) <=> d = e \/ In(d, run'[j].feed)
    BY <1>0, <2>1, InSequences DEF e
  <2>4. \A d \in content : row'[d] = "ACTIVE" => d \in run'[j].active
    BY <1>1, <1>2, <2>1
  <2>5. \A d \in run'[j].inflight :
              row'[d] # None /\ (row'[d] \in AutoResume => d \in run'[j].active)
    <3>1. CASE admit
      <4>1. row[e] = "PENDING" /\ None # "PENDING"
        BY <1>0, <3>1, SchedulerAssumption DEF RowStatus
      <4> QED
        BY <1>1, <1>2, <2>1, <3>1, <4>1
    <3>2. CASE ~admit
      BY <1>1, <1>2, <2>1, <3>2
    <3> QED
      BY <3>1, <3>2
  <2>6. ASSUME NEW d \in Docs, CarriesInBatch(run[j], d)
        PROVE  CarriesInBatch(run'[j], d)
    <3>1. CASE d = e /\ admit
      BY <2>1, <3>1 DEF CarriesInBatch
    <3>2. CASE d = e /\ ~admit
      BY <2>1, <2>2, <2>6, <3>2 DEF CarriesInBatch
    <3>3. CASE d # e
      BY <2>1, <2>3, <2>6, <3>3 DEF CarriesInBatch
    <3> QED
      BY <3>1, <3>2, <3>3
  <2> QED
    BY <1>0, <1>2, <2>1, <2>4, <2>5, <2>6, BatchSignals
<1>5. CASE FeederSkip(j)
  <2>1. /\ \A k \in Jobs \ {j} : run'[k] = run[k]
        /\ run'[j].step = run[j].step /\ run'[j].blocked = run[j].blocked
        /\ run'[j].blocking = run[j].blocking
        /\ run'[j].inflight = run[j].inflight /\ run'[j].active = run[j].active
        /\ run'[j].cursor = run[j].cursor /\ mb' = RequestAutoRescan(mb)
    BY <1>0, <1>5 DEF FeederSkip, Run
  <2>2. \A d : InMailbox(mb', d)
    BY <1>0, <2>1, MailboxSignals
  <2> QED
    BY <1>0, <1>1, <1>2, <2>1, <2>2, BatchSignals
<1>6. CASE FeederYield(j)
  <2> DEFINE back == run[j].deferred \o run[j].feed
  <2>1. /\ \A k \in Jobs \ {j} : run'[k] = run[k]
        /\ run'[j].step = run[j].step /\ run'[j].blocked = run[j].blocked
        /\ run'[j].blocking = run[j].blocking
        /\ run'[j].inflight = run[j].inflight /\ run'[j].active = run[j].active
        /\ run'[j].cursor = run[j].cursor
        /\ mb' = PutDocuments(mb, back)
    BY <1>0, <1>6 DEF FeederYield, Republish, Run
  <2>2. back \in Seq(Docs) /\ \A d : In(d, run[j].deferred) \/ In(d, run[j].feed) => In(d, back)
    BY <1>0, InSequences
  <2> HIDE DEF back
  <2>3. \A d : InMailbox(mb, d) \/ In(d, run[j].deferred) \/ In(d, run[j].feed)
               => InMailbox(mb', d)
    BY <1>0, <2>1, <2>2, MailboxSignals
  <2>4. \A d \in Docs : InMailbox(mb, d) \/ CarriesInBatch(run[j], d)
               => InMailbox(mb', d) \/ CarriesInBatch(run'[j], d)
    BY <2>1, <2>3 DEF CarriesInBatch
  <2> QED
    BY <1>0, <1>1, <1>2, <2>1, <2>4, BatchSignals
<1> QED
  BY <1>3, <1>4, <1>5, <1>6

\* The feeder publishes what it holds when the batch ends, and nothing is being processed.
LEMMA BatchEndSignals ==
    ASSUME Calm, IInv, SInv, Next, NEW j \in Jobs, BatchEnds(j)
    PROVE  SInv' /\ GoesOn(j)
<1> DEFINE back == run[j].deferred \o run[j].feed
<1>0. /\ run \in [Jobs -> Run] /\ run[j] \in Run /\ job \in [Jobs -> Job] /\ job[j] \in Job
      /\ job[j].pos = "batch" /\ content \subseteq Docs /\ Mailbox(mb)
      /\ run[j].feed \in Seq(Docs) /\ run[j].deferred \in Seq(Docs)
  BY DEF IInv, Typed, JobsTyped, BatchEnds, LeaveBatch, At, Run
<1>1. /\ row' = row /\ content' = content /\ Others(j) /\ run[j].active = {}
      /\ job'[j].pos = "decide" /\ run'[j].cursor = run[j].cursor
      /\ run'[j].step = run[j].step /\ run'[j].blocked = run[j].blocked
      /\ run'[j].blocking = run[j].blocking
      /\ mb' = PutDocuments(mb, back)
  BY <1>0 DEF BatchEnds, LeaveBatch, Move, Republish, Others, Run, Job
<1>2. back \in Seq(Docs) /\ \A d : In(d, run[j].deferred) \/ In(d, run[j].feed) => In(d, back)
  BY <1>0, InSequences
<1> HIDE DEF back
<1>3. \A d : InMailbox(mb, d) \/ In(d, run[j].deferred) \/ In(d, run[j].feed)
               => InMailbox(mb', d)
  BY <1>0, <1>1, <1>2, MailboxSignals
<1>4. HandsOn(j)
  <2> SUFFICES ASSUME NEW d \in Docs, InMailbox(mb, d) \/ CarriesInBatch(run[j], d)
               PROVE  InMailbox(mb', d) \/ Carries(j, d)'
    BY <1>0, <1>1, BatchCarries DEF HandsOn, Waiting
  <2> QED
    BY <1>1, <1>3 DEF CarriesInBatch, Carries, Ahead
<1>5. Undisturbed' /\ \A d \in Docs : Waiting(d)' => Signalled(d)'
  BY <1>1, <1>4, UndisturbedStep, SignalledStep
<1>6. \A k \in Jobs : Ordered(k)'
  <2>1. Ordered(j)'
    BY <1>1 DEF SInv, Ordered
  <2> QED
    BY <1>1, <2>1, OthersCarry DEF SInv
<1>7. Batched' /\ Settled'
  <2>1. \A k \in Jobs : job'[k].pos # "batch"
    BY <1>0, <1>1, InBatchSignals DEF Others, Holding, RunPos
  <2>2. \A d \in content : row[d] # "ACTIVE"
    BY <1>0, <1>1, InBatchSignals
  <2> QED
    BY <1>1, <2>1, <2>2 DEF Batched, Settled
<1>8. GoesOn(j)
  <2>1. \A d \in Docs : Ahead(j, d) => Ahead(j, d)'
    BY <1>0, <1>1 DEF Ahead
  <2> QED
    BY <1>0, <1>1, <2>1, GoingOn DEF RunPos, Waiting
<1> QED
  BY <1>5, <1>6, <1>7, <1>8 DEF SInv

\* A run that is refused leaves the flag, a run that begins takes it along.
LEMMA BeginSignals ==
    ASSUME Calm, IInv, SInv, Next, NEW j \in Jobs, AcquireProcessing(j) \/ Absorb(j)
    PROVE  SInv' /\ (Absorb(j) => GoesOn(j))
<1>0. /\ run \in [Jobs -> Run] /\ run[j] \in Run /\ job \in [Jobs -> Job] /\ job[j] \in Job
      /\ Mailbox(mb) /\ mb.auto_rescan_pending \in BOOLEAN
      /\ (job[j].pos \notin RunPos \cup {"raise"} => run[j] = NoRun)
  BY Beside DEF IInv, Typed, JobsTyped, Mailbox
<1>1. CASE AcquireProcessing(j)
  <2>1. /\ row' = row /\ content' = content /\ run' = run /\ Others(j)
        /\ job[j].pos \in {"drive", "handoff"}
        /\ job'[j].pos \in {"absorb", "done", "terminal"}
        /\ mb' = mb \/ mb' = RequestAutoRescan(mb)
    BY <1>0, <1>1, ZenonT(40) DEF AcquireProcessing, Return, Move, Others, Job, At
  <2>2. \A d \in Docs : InMailbox(mb, d) => InMailbox(mb', d)
    BY <1>0, <2>1, MailboxSignals
  <2>3. ~Absorb(j)
    BY <2>1 DEF Absorb, At
  <2> QED
    BY <1>0, <2>1, <2>2, <2>3, AsideSignals DEF RunPos
<1>2. CASE Absorb(j)
  <2>0. job[j].pos = "absorb" /\ run[j] = NoRun /\ row' = row /\ content' = content
    BY <1>2 DEF Absorb, At, SInv, Ordered
  <2>1. CASE HasManualRetry(mb)
    <3>1. /\ mb' = mb /\ Others(j) /\ job'[j].pos = "begin"
          /\ run'[j].step = run[j].step /\ run'[j].blocked = run[j].blocked
          /\ run'[j].blocking = run[j].blocking
      BY <1>0, <1>2, <2>1 DEF Absorb, Move, Others, Job, Run
    <3>2. "retry" \in Kinds
      BY <2>1 DEF SInv, Undisturbed, HasManualRetry
    <3>3. Ordered(j)'
      BY <2>0, <3>1, <3>2 DEF Ordered, NoRun
    <3>4. HandsOn(j)
      BY <2>0, <3>1 DEF HandsOn, Carries, Ahead, Owes, Waiting
    <3>5. GoesOn(j)
      BY <2>0, <3>1 DEF GoesOn, Advancing, NoRun, RunPos
    <3> QED
      BY <2>0, <3>1, <3>3, <3>4, <3>5, OutsideSignals
  <2>2. CASE ~HasManualRetry(mb)
    <3>1. /\ mb' = ConsumeAutoRescan(mb) /\ Others(j) /\ job'[j].pos = "page"
          /\ run'[j].step = run[j].step /\ run'[j].blocked = run[j].blocked
          /\ run'[j].uncommitted = mb.auto_rescan_pending
          /\ run'[j].blocking = run[j].blocking
      BY <1>0, <1>2, <2>2 DEF Absorb, Move, Others, Job, Run
    <3>2. Ordered(j)'
      BY <2>0, <3>1 DEF Ordered, NoRun, Manual
    <3>3. \A d : InMailbox(mb, d) => InMailbox(mb', d) \/ run'[j].uncommitted
      BY <1>0, <3>1, MailboxSignals DEF InMailbox
    <3>4. HandsOn(j)
      BY <2>0, <3>1, <3>3 DEF HandsOn, Carries, Ahead, Owes, Waiting, NoRun
    <3>5. GoesOn(j)
      BY <2>0, <3>1 DEF GoesOn, Advancing, NoRun, RunPos
    <3> QED
      BY <2>0, <3>1, <3>2, <3>4, <3>5, OutsideSignals
  <2> QED
    BY <2>1, <2>2
<1> QED
  BY <1>1, <1>2

\* Steps of the run that only move on.
LEMMA PlainSignals ==
    ASSUME Calm, IInv, SInv, Next, NEW j \in Jobs,
           \/ BeginManualDrain(j) \/ LoopTop(j) \/ DrainWait(j) \/ DrainChannel(j)
           \/ EnterReset(j) \/ Acknowledge(j) \/ EndManualDrain(j)
    PROVE  SInv' /\ GoesOn(j)
<1>0. /\ run \in [Jobs -> Run] /\ run[j] \in Run /\ job \in [Jobs -> Job] /\ job[j] \in Job
      /\ Mailbox(mb) /\ ~ps.cancellation_requested /\ Ordered(j) /\ Known(j)
  BY DEF IInv, Typed, JobsTyped, SInv, Undisturbed
<1>1. CASE BeginManualDrain(j) \/ LoopTop(j) \/ DrainWait(j)
  <2>1. /\ row' = row /\ content' = content /\ run' = run /\ mb' = mb /\ Others(j)
        /\ \/ job[j].pos = "begin" /\ job'[j].pos = "page"
           \/ job[j].pos = "loop" /\ job'[j].pos = "validate"
           \/ job[j].pos = "loop" /\ job'[j].pos = "decide" /\ run[j].docs = {}
           \/ job[j].pos = "wait" /\ job'[j].pos = "loop"
    <3>1. CASE BeginManualDrain(j) \/ DrainWait(j)
      BY <1>0, <3>1 DEF BeginManualDrain, DrainWait, Move, Others, Job, At
    <3>2. CASE LoopTop(j)
      BY <1>0, <3>2 DEF LoopTop, Move, Others, Job, At
    <3> QED
      BY <1>1, <3>1, <3>2
  <2>2. Ordered(j)'
    BY <1>0, <2>1 DEF Ordered
  <2>3. HandsOn(j)
    BY <2>1 DEF HandsOn, Carries, Ahead, Owes, Waiting
  <2>4. GoesOn(j)
    <3>1. \A d \in Docs : Ahead(j, d) => Ahead(j, d)' 
      BY <2>1 DEF Ahead
    <3> QED
      BY <2>1, <3>1, GoingOn DEF RunPos, Waiting
  <2> QED
    BY <2>1, <2>2, <2>3, <2>4, OutsideSignals
<1>2. CASE DrainChannel(j)
  <2>1. /\ row' = row /\ content' = content /\ Others(j)
        /\ job[j].pos = "drain" /\ job'[j].pos = "page"
        /\ run'[j].step = run[j].step /\ run'[j].blocked = run[j].blocked
        /\ run'[j].blocking = run[j].blocking
        /\ run'[j].drained = Drained(mb, DrainLimit) /\ mb' = DrainDocuments(mb, DrainLimit)
    BY <1>0, <1>2 DEF DrainChannel, Move, Others, Job, Run, At
  <2>2. run[j].step = "continue_document"
    BY <1>0, <2>1 DEF Ordered
  <2>3. Ordered(j)'
    BY <1>0, <2>1 DEF Ordered
  <2>4. \A d : InMailbox(mb, d) => InMailbox(mb', d) \/ In(d, run'[j].drained)
    BY <1>0, <2>1, MailboxSignals
  <2>5. HandsOn(j)
    BY <2>1, <2>2, <2>4 DEF HandsOn, Carries, Ahead, Owes, Waiting, In
  <2>6. GoesOn(j)
    <3>1. \A d \in Docs : ~Ahead(j, d)
      BY <2>1 DEF Ahead
    <3> QED
      BY <2>1, <3>1, GoingOn DEF RunPos, Waiting
  <2> QED
    BY <2>1, <2>3, <2>5, <2>6, OutsideSignals
<1>3. CASE EnterReset(j) \/ Acknowledge(j) \/ EndManualDrain(j)
  <2>1. /\ row' = row /\ content' = content /\ Others(j)
        /\ run'[j].step = run[j].step /\ run'[j].blocked = run[j].blocked
        /\ run'[j].blocking = run[j].blocking
        /\ mb' = mb \/ mb' = AckManualRetry(mb, run[j].request)
        /\ \/ job[j].pos = "enter" /\ job'[j].pos = "reset"
           \/ job[j].pos = "ack" /\ job'[j].pos = "end"
           \/ job[j].pos = "end" /\ job'[j].pos = "page"
    BY <1>0, <1>3 DEF EnterReset, Acknowledge, EndManualDrain, Move, Others, Job, Run, At
  <2>2. run[j].step \in Manual
    BY <1>0, <2>1 DEF Ordered
  <2>3. Ordered(j)'
    BY <1>0, <2>1 DEF Ordered
  <2>4. \A d : InMailbox(mb, d) => InMailbox(mb', d)
    BY <1>0, <2>1, MailboxSignals
  <2>5. HandsOn(j)
    BY <2>1, <2>2, <2>4 DEF HandsOn, Carries, Ahead, Owes, Waiting
  <2>6. GoesOn(j)
    <3>1. \A d \in Docs : Ahead(j, d)'
      BY <2>1, <2>2 DEF Ahead
    <3> QED
      BY <2>1, <3>1, GoingOn DEF RunPos
  <2> QED
    BY <2>1, <2>3, <2>5, <2>6, OutsideSignals
<1> QED
  BY <1>1, <1>2, <1>3

\* A sweep reads on from where it is, and what it does not find is not waiting.
LEMMA FetchSignals ==
    ASSUME Calm, IInv, SInv, Next, NEW j \in Jobs, FetchPage(j)
    PROVE  SInv' /\ GoesOn(j)
<1> DEFINE position == IF run[j].step = "continue_sweep_page" THEN run[j].cursor
                                                              ELSE CURSOR_START
           page == PageRows(AutoResume, position)
<1>0. /\ run \in [Jobs -> Run] /\ run[j] \in Run /\ job \in [Jobs -> Job] /\ job[j] \in Job
      /\ Ordered(j) /\ Journaled = {} /\ job[j].pos = "page"
  BY DEF IInv, Typed, JobsTyped, SInv, Calm, FetchPage, At
<1>1. /\ row' = row /\ content' = content /\ mb' = mb /\ Others(j)
      /\ run'[j].docs = page /\ run'[j].cursor = NextPosition(page)
      /\ run'[j].step = run[j].step /\ run'[j].blocked = run[j].blocked
      /\ run'[j].blocking = run[j].blocking
      /\ \/ job'[j].pos = "loop"
         \/ job'[j].pos = "decide" /\ page = {}
  <2>1. page \ Journaled = page
    BY <1>0
  <2> DEFINE taken == /\ page # {}
                      /\ \/ run[j].step = "first" /\ run[j].uncommitted
                         \/ run[j].step \in {"continue_auto", "continue_document"}
  <2>2. /\ row' = row /\ content' = content /\ mb' = mb
        /\ run' = [run EXCEPT ![j].docs = page, ![j].cursor = NextPosition(page),
                              ![j].drained = <<>>, ![j].uncommitted = taken]
        /\ Move(j, IF run[j].step = "first" /\ page = {} THEN "decide" ELSE "loop")
    <3> HIDE DEF page
    <3> QED
      BY <1>0, <2>1 DEF FetchPage, page
  <2> HIDE DEF page, taken
  <2>3. /\ run'[j].docs = page /\ run'[j].cursor = NextPosition(page)
        /\ run'[j].step = run[j].step /\ run'[j].blocked = run[j].blocked
        /\ run'[j].blocking = run[j].blocking
        /\ \A k \in Jobs \ {j} : run'[k] = run[k]
    BY <1>0, <2>2 DEF Run
  <2> QED
    BY <1>0, <2>2, <2>3 DEF Move, Others, Job
<1>2. position \in CURSOR_START .. CURSOR_END
  BY <1>0, SchedulerAssumption DEF Run, CURSOR_START, CURSOR_END
<1>3. \A d \in Docs : d > position /\ row[d] \in AutoResume => d \in page \/
         d > NextPosition(page)
  <2> HIDE DEF position
  <2>1. /\ NextPosition(page) \in CURSOR_START .. CURSOR_END
        /\ \A d \in Docs : d > position /\ d <= NextPosition(page) /\ row[d] \in AutoResume
                              => d \in page
    BY <1>2, SweepFinds
  <2> HIDE DEF page
  <2>2. NextPosition(page) \in Int /\ Docs \subseteq Int
    BY <2>1, DocsAreFinite DEF CURSOR_START
  <2>3. \A d \in Docs : d <= NextPosition(page) \/ d > NextPosition(page)
    BY <2>2
  <2> QED
    BY <2>1, <2>3
<1>4. \A d \in Docs : Carries(j, d) => d > position
  <2>1. \A d \in Docs : d > CURSOR_START
    BY SchedulerAssumption DEF Docs, CURSOR_START
  <2> QED
    BY <1>0, <2>1 DEF Carries, Ahead, Owes, Manual
<1> HIDE DEF position, page
<1>5. \A d \in Docs : d \in page \/ d > NextPosition(page) => Carries(j, d)' /\ Ahead(j, d)'
  BY <1>1 DEF Carries, Ahead
<1>6. HandsOn(j)
  BY <1>1, <1>3, <1>4, <1>5 DEF HandsOn, Waiting
<1>7. Ordered(j)'
  BY <1>0, <1>1 DEF Ordered
<1>8. GoesOn(j)
  <2>1. \A d \in Docs : row[d] \in AutoResume /\ Ahead(j, d) => Ahead(j, d)'
    BY <1>3, <1>4, <1>5 DEF Carries
  <2> QED
    BY <1>0, <1>1, <2>1, GoingOn DEF RunPos, Waiting
<1> QED
  BY <1>0, <1>1, <1>6, <1>7, <1>8, OutsideSignals

\* A page that could not be read gives back the signal that it was read for.
LEMMA FetchFailsSignals ==
    ASSUME Calm, IInv, SInv, Next, NEW j \in Jobs, FetchFails(j)
    PROVE  SInv'
<1>0. /\ run \in [Jobs -> Run] /\ run[j] \in Run /\ job \in [Jobs -> Job] /\ job[j] \in Job
      /\ Ordered(j) /\ "retry" \notin Kinds /\ job[j].pos = "page" /\ Mailbox(mb)
      /\ run[j].drained \in Seq(Docs)
  BY DEF IInv, Typed, JobsTyped, SInv, Calm, FetchFails, At, Run
<1>1. /\ row' = row /\ content' = content /\ Others(j) /\ run' = run /\ job'[j].pos = "raise"
      /\ mb' = CASE run[j].step \in {"continue_sweep_page", "continue_auto"} ->
                       RequestAutoRescan(mb)
                 [] run[j].step = "continue_document" /\ run[j].drained # <<>> ->
                       RequestAutoRescan(PutDocuments(mb, run[j].drained))
                 [] OTHER -> mb
  BY <1>0 DEF FetchFails, Move, Others, Job
<1>2. run[j].step \notin Manual
  BY <1>0 DEF Ordered
<1>3. \A d : /\ InMailbox(RequestAutoRescan(mb), d)
             /\ InMailbox(RequestAutoRescan(PutDocuments(mb, run[j].drained)), d)
  BY <1>0, MailboxSignals, MailboxOps
<1>4. HandsOn(j)
  <2> SUFFICES ASSUME NEW d \in Docs, InMailbox(mb, d) \/ Carries(j, d)
               PROVE  InMailbox(mb', d) \/ Carries(j, d)'
    BY <1>1 DEF HandsOn, Waiting
  <2>1. CASE run[j].step \in {"continue_sweep_page", "continue_auto"}
    BY <1>1, <1>3, <2>1
  <2>2. CASE run[j].step = "continue_document" /\ run[j].drained # <<>>
    BY <1>1, <1>3, <2>2
  <2>3. CASE /\ run[j].step \notin {"continue_sweep_page", "continue_auto"}
             /\ ~ (run[j].step = "continue_document" /\ run[j].drained # <<>>)
    <3>1. mb' = mb
      BY <1>1, <2>3
    <3>2. ~In(d, <<>>)
      BY DEF In
    <3>3. Carries(j, d) => run[j].uncommitted
      BY <1>0, <1>2, <2>3, <3>2 DEF Carries, Ahead, Owes
    <3> QED
      BY <1>1, <3>1, <3>3 DEF Carries, Owes
  <2> QED
    BY <2>1, <2>2, <2>3
<1>5. Ordered(j)'
  BY <1>0, <1>1 DEF Ordered
<1> QED
  BY <1>0, <1>1, <1>4, <1>5, OutsideSignals

\* Outside the batch nothing is being processed.
LEMMA NothingActive ==
    ASSUME IInv, SInv, NEW j \in Jobs, job[j].pos \in Holding \ {"batch"}
    PROVE  /\ \A d \in content : row[d] # "ACTIVE"
           /\ \A k \in Jobs : job[k].pos # "batch"
<1>1. \A k \in Jobs : job[k].pos # "batch"
  BY OneHolder DEF Holding, RunPos
<1> QED
  BY <1>1 DEF SInv, Batched

\* The documents of the page start over in the batch.
LEMMA ValidateSignals ==
    ASSUME Calm, IInv, SInv, Next, NEW j \in Jobs, Validate(j)
    PROVE  SInv' /\ GoesOn(j)
<1> DEFINE docs == run[j].docs
<1>0. /\ run \in [Jobs -> Run] /\ run[j] \in Run /\ job \in [Jobs -> Job] /\ job[j] \in Job
      /\ Ordered(j) /\ job[j].pos = "validate" /\ content \subseteq Docs
      /\ docs \subseteq content /\ docs \cap content = docs
  <2>1. Local(run[j]) /\ Orphans = {}
    BY DEF IInv, Calm
  <2> QED
    BY <2>1 DEF IInv, Typed, JobsTyped, SInv, Validate, At, Local
<1>1. /\ content' = content /\ mb' = mb /\ Others(j)
      /\ \A d \in Docs : row'[d] = IF d \in docs THEN "PENDING" ELSE row[d]
      /\ run'[j].step = "continue_sweep_page" /\ run'[j].blocked = run[j].blocked
      /\ run'[j].cursor = run[j].cursor /\ run'[j].inflight = docs /\ run'[j].active = docs
      /\ run'[j].blocking = run[j].blocking
      /\ job'[j].pos = IF docs = {} THEN "decide" ELSE "batch"
  <2> HIDE DEF docs
  <2>1. /\ content' = content /\ mb' = mb
        /\ row' = [d \in Docs |-> IF d \notin run[j].docs THEN row[d]
                                  ELSE IF d \in docs THEN "PENDING" ELSE None]
        /\ run' = [run EXCEPT ![j].docs = docs, ![j].uncommitted = FALSE,
                              ![j].inflight = docs, ![j].active = docs,
                              ![j].feeding = docs # {}, ![j].step = "continue_sweep_page"]
        /\ Move(j, IF docs = {} THEN "decide" ELSE "batch")
    BY <1>0 DEF Validate, docs
  <2>2. /\ run'[j].step = "continue_sweep_page" /\ run'[j].blocked = run[j].blocked
        /\ run'[j].cursor = run[j].cursor /\ run'[j].inflight = docs /\ run'[j].active = docs
        /\ run'[j].blocking = run[j].blocking
        /\ Others(j) /\ job'[j].pos = IF docs = {} THEN "decide" ELSE "batch"
    BY <1>0, <2>1 DEF Move, Others, Job, Run
  <2> QED
    BY <2>1, <2>2 DEF docs
<1>2. /\ \A d \in content : row[d] # "ACTIVE"
      /\ \A k \in Jobs : job[k].pos # "batch"
  BY <1>0, NothingActive DEF Holding, RunPos
<1>3. None # "PENDING" /\ "PENDING" # "ACTIVE"
  BY SchedulerAssumption DEF RowStatus
<1> HIDE DEF docs
<1>4. HandsOn(j)
  <2> SUFFICES ASSUME NEW d \in Docs, Waiting(d)',
                      Waiting(d) => InMailbox(mb, d) \/ Carries(j, d)
               PROVE  InMailbox(mb', d) \/ Carries(j, d)'
    BY DEF HandsOn
  <2>1. CASE d \in docs
    BY <1>1, <2>1 DEF Carries, Ahead
  <2>2. CASE d \notin docs
    <3>1. InMailbox(mb, d) \/ Carries(j, d)
      BY <1>1, <2>2 DEF Waiting
    <3>2. Carries(j, d) => d > run[j].cursor
      BY <1>0, <2>2 DEF Carries, Ahead, Owes, docs
    <3> QED
      BY <1>1, <3>1, <3>2 DEF Carries, Ahead
  <2> QED
    BY <2>1, <2>2
<1>5. Undisturbed' /\ \A d \in Docs : Waiting(d)' => Signalled(d)'
  BY <1>1, <1>4, UndisturbedStep, SignalledStep
<1>6. \A k \in Jobs : Ordered(k)'
  <2>1. Ordered(j)'
    BY <1>0, <1>1 DEF Ordered, Manual
  <2> QED
    BY <1>1, <2>1, OthersCarry DEF SInv
<1>7. Batched' /\ Settled'
  <2>1. Batched'
    BY <1>0, <1>1, <1>2, <1>3 DEF Batched
  <2>2. \A k \in Jobs \ {j} : job'[k].pos # "batch"
    BY <1>1, <1>2 DEF Others
  <2>3. \A d \in docs : row'[d] = "PENDING"
    BY <1>0, <1>1
  <2> QED
    BY <1>1, <1>3, <2>1, <2>2, <2>3 DEF Settled
<1>8. GoesOn(j)
  <2>1. ASSUME NEW d \in Docs, Waiting(d)', Waiting(d) => Ahead(j, d)
        PROVE  Ahead(j, d)'
    <3>1. CASE d \in docs
      BY <1>1, <3>1 DEF Ahead
    <3>2. CASE d \notin docs
      <4>1. Ahead(j, d)
        BY <1>1, <2>1, <3>2 DEF Waiting
      <4> QED
        BY <1>0, <1>1, <3>2, <4>1 DEF Ahead, docs
    <3> QED
      BY <3>1, <3>2
  <2>2. job'[j].pos \in {"decide", "batch"}
    BY <1>1
  <2> QED
    BY <1>0, <1>1, <2>1, <2>2, GoingOn DEF RunPos
<1> QED
  BY <1>5, <1>6, <1>7, <1>8 DEF SInv

\* The decision leaves nothing behind: the rest of the sweep, the flag, the channel and the
\* drain each have a way of their own.
LEMMA DecideSignals ==
    ASSUME Calm, IInv, SInv, Next, NEW j \in Jobs, Decide(j)
    PROVE  SInv' /\ GoesOn(j)
<1> DEFINE step == NextStep(j)
<1>0. /\ run \in [Jobs -> Run] /\ run[j] \in Run /\ job \in [Jobs -> Job] /\ job[j] \in Job
      /\ Ordered(j) /\ Mailbox(mb) /\ job[j].pos = "decide" /\ Undisturbed
  BY DEF IInv, Typed, JobsTyped, SInv, Decide, At
<1>1. /\ row' = row /\ content' = content /\ Others(j) /\ run'[j].step = step
      /\ run'[j].cursor = (IF step = "begin_exclusive_reset" THEN CURSOR_START
                                                             ELSE run[j].cursor)
      /\ run'[j].blocked = FALSE /\ run'[j].blocking = run[j].blocking
      /\ mb' = (IF step = "continue_auto" THEN ConsumeAutoRescan(mb) ELSE mb)
      /\ job'[j].pos = (CASE step = "continue_manual" -> "begin"
                          [] step = "continue_document" -> "drain"
                          [] step = "continue_drain_wait" -> "wait"
                          [] step = "begin_exclusive_reset" -> "confirm"
                          [] OTHER -> "page")
      /\ step \notin {"released", "cancelled"}
  <2> HIDE DEF step
  <2>1. /\ row' = row /\ content' = content /\ step \notin {"released", "cancelled"}
        /\ mb' = (IF step = "continue_auto" THEN ConsumeAutoRescan(mb) ELSE mb)
        /\ run' = [run EXCEPT
              ![j].step = step, ![j].docs = {},
              ![j].cursor = IF step = "begin_exclusive_reset" THEN CURSOR_START ELSE @,
              ![j].blocked = FALSE,
              ![j].request = IF step = "continue_manual" THEN NextManualRetry(mb) ELSE @]
        /\ Move(j, CASE step = "continue_manual" -> "begin"
                     [] step = "continue_document" -> "drain"
                     [] step = "continue_drain_wait" -> "wait"
                     [] step = "begin_exclusive_reset" -> "confirm"
                     [] OTHER -> "page")
    BY DEF Decide, step
  <2>2. /\ run'[j].step = step /\ run'[j].blocked = FALSE
        /\ run'[j].blocking = run[j].blocking
        /\ run'[j].cursor = (IF step = "begin_exclusive_reset" THEN CURSOR_START
                                                               ELSE run[j].cursor)
        /\ \A k \in Jobs \ {j} : run'[k] = run[k]
    BY <1>0, <2>1 DEF Run
  <2> QED
    BY <1>0, <2>1, <2>2 DEF Move, Others, Job
<1>2. /\ step \in {"continue_manual", "continue_sweep_page", "continue_auto",
                   "continue_document", "continue_drain_wait", "begin_exclusive_reset"}
      /\ step = "continue_manual" => HasManualRetry(mb)
      /\ step \in {"continue_drain_wait", "begin_exclusive_reset"} => Draining
      /\ step \notin {"continue_manual", "continue_sweep_page"} => run[j].cursor = CURSOR_END
  BY <1>0, <1>1 DEF NextStep, Undisturbed
<1> HIDE DEF step
<1>3. step \in Manual => "retry" \in Kinds
  BY <1>0, <1>2 DEF Manual, Undisturbed, HasManualRetry, Draining
<1>4. Ordered(j)'
  BY <1>1, <1>2, <1>3 DEF Ordered, Manual
<1>5. \A d \in Docs : ~ (d > CURSOR_END) /\ d > CURSOR_START
  BY SchedulerAssumption DEF Docs, CURSOR_END, CURSOR_START
<1>6. HandsOn(j)
  <2> SUFFICES ASSUME NEW d \in Docs, InMailbox(mb, d) \/ Carries(j, d)
               PROVE  InMailbox(mb', d) \/ Carries(j, d)'
    BY <1>1 DEF HandsOn, Waiting
  <2>1. Carries(j, d) => d > run[j].cursor
    BY <1>0 DEF Carries, Ahead, Owes
  <2>2. CASE step = "continue_manual"
    BY <1>1, <2>2 DEF Carries, Ahead, Manual
  <2>3. CASE step = "continue_sweep_page"
    BY <1>1, <2>1, <2>3 DEF Carries, Ahead
  <2>4. CASE step = "continue_auto"
    BY <1>1, <2>4 DEF Carries, Ahead
  <2>5. CASE step \in {"continue_document", "continue_drain_wait", "begin_exclusive_reset"}
    BY <1>1, <1>2, <1>5, <2>1, <2>5
  <2> QED
    BY <1>2, <2>2, <2>3, <2>4, <2>5
<1>7. GoesOn(j)
  <2>1. ASSUME NEW d \in Docs, Ahead(j, d)
        PROVE  Ahead(j, d)' /\ job'[j].pos # "confirm"
    <3>1. d > run[j].cursor
      BY <1>0, <2>1 DEF Ahead
    <3>2. step \in {"continue_manual", "continue_sweep_page"}
      BY <1>2, <1>5, <3>1
    <3> QED
      BY <1>1, <3>1, <3>2 DEF Ahead, Manual
  <2>2. job'[j].pos \in RunPos
    BY <1>1, <1>2 DEF RunPos
  <2> QED
    BY <1>0, <1>1, <2>1, <2>2, GoingOn DEF RunPos, Waiting
<1> QED
  BY <1>0, <1>1, <1>4, <1>6, <1>7, OutsideSignals

\* The run ends when it carries nothing any more, or gives the flag back.
LEMMA EndSignals ==
    ASSUME Calm, IInv, SInv, Next, NEW j \in Jobs, DecideReleased(j) \/ Finalize(j)
    PROVE  SInv'
<1>0. /\ run \in [Jobs -> Run] /\ run[j] \in Run /\ job \in [Jobs -> Job] /\ job[j] \in Job
      /\ Mailbox(mb) /\ job[j].next \in {"done", "terminal"}
  BY DEF IInv, Typed, JobsTyped, Job
<1>1. /\ row' = row /\ content' = content /\ Others(j) /\ run'[j] = NoRun
      /\ job'[j].pos \in {"done", "terminal", "released"}
      /\ job[j].pos \in {"decide", "raise", "released"}
      /\ job[j].pos = "decide" => mb' = mb /\ run[j].cursor = CURSOR_END
      /\ job[j].pos = "raise" => mb' = IF run[j].uncommitted THEN RequestAutoRescan(mb) ELSE mb
      /\ job[j].pos = "released" => mb' = mb
  <2>1. CASE DecideReleased(j)
    <3>1. NextStep(j) = "released" => run[j].cursor = CURSOR_END
      BY DEF NextStep
    <3> QED
      BY <1>0, <2>1, <3>1 DEF DecideReleased, Return, Move, Others, Job, At
  <2>2. CASE Finalize(j)
    <3>1. /\ row' = row /\ content' = content /\ run' = [run EXCEPT ![j] = NoRun] /\ Return(j)
          /\ \/ /\ job[j].pos = "raise"
                /\ mb' = IF run[j].uncommitted THEN RequestAutoRescan(mb) ELSE mb
             \/ job[j].pos = "released" /\ mb' = mb
      BY <2>2 DEF Finalize, At
    <3> QED
      BY <1>0, <3>1 DEF Return, Move, Others, Job
  <2> QED
    BY <2>1, <2>2
<1>2. \A d : InMailbox(RequestAutoRescan(mb), d)
  BY <1>0, MailboxSignals
<1>3. \A d \in Docs : ~ (d > CURSOR_END)
  BY SchedulerAssumption DEF Docs, CURSOR_END
<1>4. HandsOn(j)
  <2> SUFFICES ASSUME NEW d \in Docs, InMailbox(mb, d) \/ Carries(j, d)
               PROVE  InMailbox(mb', d)
    BY <1>1 DEF HandsOn, Waiting
  <2>1. CASE job[j].pos = "decide"
    BY <1>1, <1>3, <2>1 DEF Carries, Ahead, Owes
  <2>2. CASE job[j].pos = "raise"
    BY <1>1, <1>2, <2>2 DEF Carries, Ahead, Owes
  <2>3. CASE job[j].pos = "released"
    BY <1>1, <2>3 DEF Carries, Ahead, Owes
  <2> QED
    BY <1>1, <2>1, <2>2, <2>3
<1>5. Ordered(j)'
  BY <1>1, Unbegun DEF RunPos
<1> QED
  BY <1>1, <1>4, <1>5, OutsideSignals

\* The confirmation works upwards and passes nobody who waits.
LEMMA ConfirmSignals ==
    ASSUME Calm, IInv, SInv, Next, NEW j \in Jobs, ConfirmDrained(j), job'[j].pos # "raise"
    PROVE  SInv' /\ GoesOn(j)
<1> DEFINE page == PageRows(AutoResume, run[j].cursor)
<1>0. /\ run \in [Jobs -> Run] /\ run[j] \in Run /\ job \in [Jobs -> Job] /\ job[j] \in Job
      /\ Ordered(j) /\ Journaled = {} /\ job[j].pos = "confirm"
  BY DEF IInv, Typed, JobsTyped, SInv, Calm, ConfirmDrained, At
<1>1. /\ row' = row /\ content' = content /\ mb' = mb /\ Others(j)
      /\ run'[j].step = run[j].step /\ ~run'[j].blocked
      /\ run'[j].cursor = NextPosition(page)
      /\ \/ /\ page # {} /\ run'[j].docs = page /\ job'[j].pos = "loop"
            /\ run'[j].blocking = page
         \/ /\ page = {} /\ run'[j].blocking = run[j].blocking
            /\ \/ job'[j].pos = "confirm"
               \/ job'[j].pos = "enter" /\ run'[j].cursor = CURSOR_END
  <2>1. page \ Journaled = page /\ page \cap Journaled = {} /\ run[j].blocked = FALSE
    BY <1>0 DEF Ordered, Run
  <2> DEFINE repeats == Repeats(j, page)
  <2>2. /\ row' = row /\ content' = content /\ mb' = mb
        /\ IF page # {}
           THEN /\ run' = [run EXCEPT ![j].docs = page, ![j].cursor = NextPosition(page),
                                      ![j].blocking = page, ![j].repeats = repeats]
                /\ Move(j, "raise") \/ Move(j, "loop")
           ELSE /\ run' = [run EXCEPT ![j].blocked = FALSE, ![j].cursor = NextPosition(page)]
                /\ IF NextPosition(page) # CURSOR_END THEN UNCHANGED job
                   ELSE Move(j, "enter")
    <3> HIDE DEF page
    <3> QED
      BY <2>1 DEF ConfirmDrained, page
  <2> HIDE DEF page, repeats
  <2>3. CASE page # {}
    <3>1. /\ run'[j].step = run[j].step /\ run'[j].blocked = run[j].blocked
          /\ run'[j].cursor = NextPosition(page) /\ run'[j].docs = page
          /\ run'[j].blocking = page
          /\ \A k \in Jobs \ {j} : run'[k] = run[k]
      BY <1>0, <2>2, <2>3 DEF Run
    <3>2. Move(j, "loop")
      BY <1>0, <2>2, <2>3 DEF Move, Job
    <3> QED
      BY <1>0, <2>1, <2>2, <2>3, <3>1, <3>2 DEF Move, Others, Job
  <2>4. CASE page = {}
    <3>1. /\ run'[j].step = run[j].step /\ run'[j].blocked = FALSE
          /\ run'[j].cursor = NextPosition(page) /\ run'[j].blocking = run[j].blocking
          /\ \A k \in Jobs \ {j} : run'[k] = run[k]
      BY <1>0, <2>2, <2>4 DEF Run
    <3>2. CASE NextPosition(page) # CURSOR_END
      BY <1>0, <2>2, <2>4, <3>1, <3>2 DEF Others
    <3>3. CASE NextPosition(page) = CURSOR_END
      BY <1>0, <2>2, <2>4, <3>1, <3>3 DEF Move, Others, Job
    <3> QED
      BY <3>2, <3>3
  <2> QED
    BY <2>3, <2>4
<1>2. run[j].cursor \in CURSOR_START .. CURSOR_END
  BY <1>0 DEF Run
<1>3. \A d \in Docs : d > run[j].cursor /\ row[d] \in AutoResume
                         => d \in page \/ d > NextPosition(page)
  <2>1. /\ NextPosition(page) \in CURSOR_START .. CURSOR_END
        /\ \A d \in Docs : d > run[j].cursor /\ d <= NextPosition(page) /\ row[d] \in AutoResume
                              => d \in page
    BY <1>2, SweepFinds
  <2> HIDE DEF page
  <2>2. NextPosition(page) \in Int /\ Docs \subseteq Int
    BY <2>1, DocsAreFinite DEF CURSOR_START
  <2>3. \A d \in Docs : d <= NextPosition(page) \/ d > NextPosition(page)
    BY <2>2
  <2> QED
    BY <2>1, <2>3
<1> HIDE DEF page
<1>4. \A d \in Docs : ~ (d > CURSOR_END)
  BY SchedulerAssumption DEF Docs, CURSOR_END
<1>5. HandsOn(j)
  <2> SUFFICES ASSUME NEW d \in Docs, row[d] \in AutoResume, InMailbox(mb, d) \/ Carries(j, d)
               PROVE  InMailbox(mb', d) \/ Carries(j, d)'
    BY <1>1 DEF HandsOn, Waiting
  <2>1. Carries(j, d) => d \in page \/ d > NextPosition(page)
    BY <1>0, <1>3 DEF Carries, Ahead, Owes
  <2>2. d \in page \/ d > NextPosition(page) => Carries(j, d)'
    BY <1>1, <1>4 DEF Carries, Ahead
  <2> QED
    BY <1>1, <2>1, <2>2
<1>6. Ordered(j)'
  BY <1>0, <1>1 DEF Ordered
<1>7. GoesOn(j)
  <2>1. CASE page # {}
    <3>1. page \subseteq Docs /\ \A d \in page : row[d] \in AutoResume
      BY <1>2, SweepFinds DEF page
    <3>2. \A d \in page : row'[d] # None /\ Ahead(j, d)'
      BY <1>1, <2>1, <3>1, SchedulerAssumption DEF Ahead, AutoResume, RowStatus
    <3>3. Advancing(j)' /\ job'[j].pos = "loop"
      BY <1>1, <2>1, <3>2 DEF Advancing
    <3> QED
      BY <1>1, <3>3 DEF GoesOn, RunPos
  <2>2. CASE page = {}
    <3>1. /\ Others(j) /\ job'[j].pos \in RunPos /\ job[j].pos \in RunPos
          /\ run'[j].blocking = run[j].blocking
      BY <1>0, <1>1, <2>2 DEF RunPos
    <3> QED
      BY <1>0, <1>1, <3>1, GoingOn DEF Waiting
  <2> QED
    BY <2>1, <2>2
<1> QED
  BY <1>0, <1>1, <1>5, <1>6, <1>7, OutsideSignals

\* What the reset puts back it will sweep.
LEMMA ResetSignals ==
    ASSUME Calm, IInv, SInv, Next, NEW j \in Jobs, ResetPage(j)
    PROVE  SInv' /\ GoesOn(j)
<1>0. /\ run \in [Jobs -> Run] /\ run[j] \in Run /\ job \in [Jobs -> Job] /\ job[j] \in Job
      /\ Ordered(j) /\ job[j].pos = "reset" /\ content \subseteq Docs
  BY DEF IInv, Typed, JobsTyped, SInv, ResetPage, At
<1>1. /\ content' = content /\ mb' = mb /\ Others(j)
      /\ \A d \in Docs : row'[d] \in {row[d], "PENDING"}
      /\ run'[j].step = run[j].step /\ run'[j].blocked = run[j].blocked
      /\ job'[j].pos \in {"reset", "ack"} /\ run'[j].blocking = run[j].blocking
  BY <1>0 DEF ResetPage, Move, Others, Job, Run
<1>2. /\ \A d \in content : row[d] # "ACTIVE"
      /\ \A k \in Jobs : job[k].pos # "batch"
  BY <1>0, NothingActive DEF Holding, RunPos
<1>3. HandsOn(j)
  BY <1>1 DEF HandsOn, Carries, Ahead
<1>4. Undisturbed' /\ \A d \in Docs : Waiting(d)' => Signalled(d)'
  BY <1>1, <1>3, UndisturbedStep, SignalledStep
<1>5. \A k \in Jobs : Ordered(k)'
  <2>1. Ordered(j)'
    BY <1>0, <1>1 DEF Ordered
  <2> QED
    BY <1>1, <2>1, OthersCarry DEF SInv
<1>6. Batched' /\ Settled'
  <2>1. \A k \in Jobs : job'[k].pos # "batch"
    BY <1>1, <1>2 DEF Others
  <2>2. \A d \in content : row'[d] # "ACTIVE"
    BY <1>0, <1>1, <1>2
  <2> QED
    BY <1>1, <2>1, <2>2 DEF Batched, Settled
<1>7. GoesOn(j)
  <2>1. \A d \in Docs : Ahead(j, d)' /\ job'[j].pos # "confirm"
    BY <1>1 DEF Ahead
  <2> QED
    BY <1>0, <1>1, <2>1, GoingOn DEF RunPos
<1> QED
  BY <1>4, <1>5, <1>6, <1>7 DEF SInv

\* A force reset cancels the manual retries and no document's signal.
LEMMA ForceSignals ==
    ASSUME Calm, IInv, SInv, Next, ForceReset
    PROVE  SInv'
<1>1. /\ row' = row /\ content' = content /\ job' = job /\ run' = run
      /\ mb' = CancelManualRetries(mb) /\ Mailbox(mb)
  BY DEF ForceReset, IInv, Typed
<1>2. \A d : InMailbox(mb', d) <=> InMailbox(mb, d)
  BY <1>1, MailboxSignals
<1>3. \A d \in Docs : Waiting(d)' => Signalled(d)'
  BY <1>1, <1>2 DEF SInv, Signalled, Waiting, Carries, Ahead, Owes, In
<1> QED
  BY <1>1, <1>3, UndisturbedStep DEF SInv, Batched, Settled, Ordered

\* Steps that need a failure, a cancel or a manual retry that cannot be there.
LEMMA CalmRules ==
    ASSUME Calm, IInv, SInv, NEW j \in Jobs
    PROVE  /\ ~ValidateFails(j) /\ ~BatchFails(j) /\ ~FenceStalledEnqueue(j) /\ ~CancelPipeline
           /\ ~ResetFails(j) /\ ~DecideCancelled(j)
           /\ \A d : ~FinishUnrecorded(j, d) /\ ~FinishHalting(j, d)
<1>1. ~ResetFails(j)
  BY DEF ResetFails, Calm, SInv, Ordered, At
<1>2. ~DecideCancelled(j)
  BY DEF DecideCancelled, NextStep, SInv, Undisturbed
<1> QED
  BY <1>1, <1>2, CalmExcludes

-----------------------------------------------------------------------------
(* The signals: every step keeps them, and where nothing fails somebody looks *)

\* Documents that hold up a drain do so once, so the confirmation never gives up.
LEMMA ConfirmGoesOn ==
    ASSUME Calm, IInv, QInv, NEW j \in Jobs, ConfirmDrained(j)
    PROVE  job'[j].pos # "raise" /\ ps' = ps
<1> DEFINE page == PageRows(AutoResume, run[j].cursor)
<1>0. /\ run \in [Jobs -> Run] /\ run[j] \in Run /\ job \in [Jobs -> Job] /\ job[j] \in Job
      /\ Ordered(j) /\ Journaled = {} /\ Orphans = {} /\ job[j].pos = "confirm"
  BY DEF IInv, Typed, JobsTyped, QInv, SInv, Calm, ConfirmDrained, At
<1>1. Advancing(j)
  <2>1. "retry" \in Kinds
    BY <1>0 DEF Ordered
  <2> QED
    BY <2>1 DEF Calm, QInv, FInv
<1>2. page # {} => page # run[j].blocking
  <2>1. run[j].cursor \in CURSOR_START .. CURSOR_END
    BY <1>0 DEF Run
  <2>2. Scheduled(page \ Journaled) /\ \A d \in page : row[d] \in AutoResume
    BY <2>1, SweepFinds
  <2> HIDE DEF page
  <2>3. \A d \in page : Waiting(d)
    BY <1>0, <2>2 DEF Scheduled, Waiting
  <2> QED
    BY <1>0, <1>1, <2>3 DEF Advancing, RunPos
<1>3. page \ Journaled = page /\ page \cap Journaled = {} /\ run[j].blocked = FALSE
  BY <1>0 DEF Ordered, Run
<1> HIDE DEF page
<1>4. /\ ps' = ps
      /\ Move(j, "loop") \/ Move(j, "enter") \/ job' = job
  BY <1>2, <1>3 DEF ConfirmDrained, page
<1> QED
  BY <1>0, <1>4 DEF Move, Job

\* Where the run is, and what its steps are.
RunGoes(j) ==
    \/ Absorb(j) \/ BeginManualDrain(j) \/ FetchPage(j) \/ LoopTop(j) \/ Validate(j)
    \/ (\E d \in Docs : StageDoc(j, d) \/ FinishDoc(j, d))
    \/ FeederDrain(j) \/ FeederRoute(j) \/ FeederSkip(j) \/ FeederYield(j) \/ BatchEnds(j)
    \/ Decide(j) \/ DrainChannel(j) \/ DrainWait(j) \/ ConfirmDrained(j) \/ EnterReset(j)
    \/ ResetPage(j) \/ Acknowledge(j) \/ EndManualDrain(j)

\* They keep the signals, and the run stays in its place.
LEMMA RunGoesOn ==
    ASSUME Calm, IInv, QInv, Next, NEW j \in Jobs, RunGoes(j)
    PROVE  SInv' /\ GoesOn(j) /\ job[j].pos \in RunPos
<1>0. SInv
  BY DEF QInv
<1>1. job[j].pos \in RunPos
  BY DEF RunGoes, Absorb, BeginManualDrain, FetchPage, LoopTop, Validate, StageDoc, FinishDoc,
     FeederDrain, FeederRoute, FeederSkip, FeederYield, BatchEnds, LeaveBatch, Decide,
     DrainChannel, DrainWait, ConfirmDrained, EnterReset, ResetPage, Acknowledge,
     EndManualDrain, At, RunPos
<1>2. CASE Absorb(j)
  BY <1>0, <1>1, <1>2, BeginSignals
<1>3. CASE \/ BeginManualDrain(j) \/ LoopTop(j) \/ DrainWait(j) \/ DrainChannel(j)
           \/ EnterReset(j) \/ Acknowledge(j) \/ EndManualDrain(j)
  BY <1>0, <1>1, <1>3, PlainSignals
<1>4. CASE \E d \in Docs : StageDoc(j, d) \/ FinishDoc(j, d)
  BY <1>0, <1>1, <1>4, WorkerSignals
<1>5. CASE FeederDrain(j) \/ FeederRoute(j) \/ FeederSkip(j) \/ FeederYield(j)
  BY <1>0, <1>1, <1>5, FeederSignals
<1>6. CASE FetchPage(j) \/ Validate(j) \/ BatchEnds(j) \/ Decide(j) \/ ResetPage(j)
  BY <1>0, <1>1, <1>6, FetchSignals, ValidateSignals, BatchEndSignals, DecideSignals, ResetSignals
<1>7. CASE ConfirmDrained(j)
  BY <1>0, <1>1, <1>7, ConfirmGoesOn, ConfirmSignals
<1> QED
  BY <1>2, <1>3, <1>4, <1>5, <1>6, <1>7 DEF RunGoes

\* The other steps of the run begin or end it.
LEMMA RunSteps ==
    ASSUME Calm, IInv, SInv, NEW j \in Jobs, RunStep(j)
    PROVE  \/ RunGoes(j) \/ AcquireProcessing(j) \/ FetchFails(j)
           \/ DecideReleased(j) \/ Finalize(j)
BY CalmRules DEF RunStep, BatchStep, RunGoes

\* Every step keeps the signals.
LEMMA SignalsKept ==
    ASSUME Calm, IInv, QInv, Next
    PROVE  SInv'
<1>0. SInv
  BY DEF QInv
<1>1. ASSUME NEW j \in Jobs, RunStep(j)
      PROVE  SInv'
  <2>1. CASE RunGoes(j)
    BY <2>1, RunGoesOn
  <2>2. CASE AcquireProcessing(j) \/ FetchFails(j) \/ DecideReleased(j) \/ Finalize(j)
    BY <1>0, <2>2, BeginSignals, FetchFailsSignals, EndSignals
  <2> QED
    BY <1>0, <1>1, <2>1, <2>2, RunSteps
<1>2. ~CancelPipeline
  BY DEF Calm, CancelPipeline
<1> QED
  BY <1>0, <1>1, <1>2, RequestSignals, CallerSignals, ForceSignals DEF Next

-----------------------------------------------------------------------------
(* The signals: where nothing fails, somebody looks *)

\* What holds up the drain of another job's run is as far as before.
LEMMA OthersAdvance ==
    ASSUME Calm, IInv, FInv, Next, NEW j \in Jobs, Others(j),
           \/ job[j].pos \in Holding
           \/ \A d \in Docs : row[d] # None /\ Waiting(d)' => Waiting(d)
    PROVE  \A k \in Jobs \ {j} : Advancing(k)' /\ job'[k].pos # "raise"
<1> SUFFICES ASSUME NEW k \in Jobs \ {j}
             PROVE  Advancing(k)' /\ job'[k].pos # "raise"
  OBVIOUS
<1>1. job'[k] = job[k] /\ run'[k] = run[k] /\ Advancing(k) /\ job[k].pos # "raise"
  BY DEF Others, FInv
<1>2. CASE job[k].pos \notin RunPos
  <2>1. run'[k].blocking = {}
    BY <1>1, <1>2, Beside DEF NoRun
  <2> QED
    BY <1>1, <2>1 DEF Advancing
<1>3. CASE job[k].pos \in RunPos
  <2>1. job[j].pos \notin Holding
    BY <1>3, OneHolder DEF Holding
  <2>2. run[k].blocking \subseteq Docs
    BY DEF IInv, Typed, Run
  <2> SUFFICES ASSUME NEW d \in run[k].blocking
               PROVE  /\ row'[d] # None
                      /\ Waiting(d)' => Ahead(k, d)' /\ job'[k].pos # "confirm"
    BY <1>1 DEF Advancing
  <2>3. row[d] # None /\ row'[d] # None
    BY <1>1, <2>2, CalmRows DEF Advancing
  <2>4. Waiting(d)' => Ahead(k, d) /\ job[k].pos # "confirm"
    BY <1>1, <1>3, <2>1, <2>2, <2>3 DEF Advancing
  <2> QED
    BY <1>1, <2>3, <2>4, OthersCarry
<1> QED
  BY <1>2, <1>3

\* Nothing is fenced, since no drain stalls.
LEMMA Unfenced ==
    ASSUME Calm, IInv, QInv, FInv, Next
    PROVE  ~Fenced(ps')
BY CalmStatus, ConfirmGoesOn DEF FInv

\* The run looks into the mailbox as long as it goes on.
LEMMA GoingOnKeeps ==
    ASSUME Calm, IInv, QInv, FInv, Next, NEW j \in Jobs, RunGoes(j)
    PROVE  FInv'
<1>1. GoesOn(j) /\ job[j].pos \in RunPos
  BY RunGoesOn
<1>2. Others(j) /\ job'[j].pos \in RunPos /\ Advancing(j)'
  BY <1>1 DEF GoesOn, FInv
<1>3. job'[j].pos \notin {"raise", "body"}
  BY <1>2 DEF RunPos
<1>4. \A k \in Jobs : Advancing(k)' /\ job'[k].pos # "raise"
  BY <1>1, <1>2, <1>3, OthersAdvance DEF Holding
<1>5. Bodies'
  BY <1>2, <1>3 DEF FInv, Bodies, Others
<1>6. Looking' /\ Taken'
  BY <1>2 DEF Looking, Looks, Taken, Holding
<1> QED
  BY <1>4, <1>5, <1>6, Unfenced DEF FInv

\* The step of a job that is not in the run afterwards.
LEMMA AsideKeeps ==
    ASSUME Calm, IInv, QInv, FInv, Next, NEW j \in Jobs, Others(j), run'[j] = NoRun,
           job'[j].pos # "raise",
           job'[j].pos = "body" => job'[j].kind \in {"admin", "custom_chunks"},
           \A d \in Docs : row[d] # None /\ Waiting(d)' => Waiting(d),
           Taken' \/ (job[j].pos \notin Holding /\ (ps'.busy => ps.busy)),
           Looking' \/ (mb' = mb /\ (Looks(j) => Looks(j)'))
    PROVE  FInv'
<1>1. \A k \in Jobs : Advancing(k)' /\ job'[k].pos # "raise"
  <2>1. Advancing(j)'
    BY DEF Advancing, NoRun
  <2> QED
    BY <2>1, OthersAdvance
<1>2. Bodies'
  BY DEF FInv, Bodies, Others
<1>3. Taken'
  BY DEF FInv, Taken, Others
<1>4. Looking'
  <2> SUFFICES ASSUME mb' = mb, Looks(j) => Looks(j)', HasWork(mb)
               PROVE  \E k \in Jobs : Looks(k)'
    BY DEF Looking
  <2>1. PICK k \in Jobs : Looks(k)
    BY DEF FInv, Looking
  <2>2. k # j => Looks(k)'
    BY <2>1 DEF Looks, Others
  <2> QED
    BY <2>1, <2>2
<1> QED
  BY <1>1, <1>2, <1>3, <1>4, Unfenced DEF FInv

\* A request that arrives will look itself or leaves the mailbox as it is.
LEMMA RequestKeeps ==
    ASSUME Calm, IInv, QInv, FInv, Next, NEW j \in Jobs, Request(j)
    PROVE  FInv'
<1>0. /\ job[j] \in Job /\ job \in [Jobs -> Job] /\ ps \in Status
      /\ (job[j].pos \notin RunPos \cup {"raise"} => run[j] = NoRun)
  BY Beside DEF IInv, Typed, JobsTyped
<1>1. /\ row' = row /\ content' = content /\ run' = run /\ job[j].pos = "idle"
  BY DEF Request, ReserveInsert, CommitRetry, StartProcess, TakePipeline, MayStart, At
<1>2. run'[j] = NoRun /\ \A d \in Docs : Waiting(d)' => Waiting(d)
  BY <1>0, <1>1 DEF RunPos, Waiting
<1>3. job[j].pos \notin Holding
  BY <1>1 DEF Holding, RunPos
<1>4. CASE ReserveInsert(j)
  <2>1. Others(j) /\ job'[j].pos = "content" /\ mb' = mb
    BY <1>0, <1>1, <1>4 DEF ReserveInsert, Others, Job
  <2>2. ps'.busy = ps.busy
    BY <1>0, <1>4 DEF ReserveInsert, Register, Status
  <2>3. ~Looks(j)
    BY <1>1 DEF Looks, RunPos
  <2> QED
    BY <1>2, <1>3, <2>1, <2>2, <2>3, AsideKeeps
<1>5. CASE CommitRetry(j) \/ StartProcess(j)
  <2>1. Others(j) /\ job'[j].pos = "drive" /\ ps' = ps
    BY <1>0, <1>1, <1>5 DEF CommitRetry, StartProcess, Start, Others, Job
  <2>2. Looking'
    BY <2>1 DEF Looking, Looks
  <2> QED
    BY <1>2, <1>3, <2>1, <2>2, AsideKeeps
<1>6. CASE TakePipeline(j)
  <2>1. /\ Others(j) /\ job'[j].pos = "body" /\ mb' = mb
        /\ job'[j].kind \in {"admin", "custom_chunks"}
    BY <1>0, <1>1, <1>6 DEF TakePipeline, Start, Others, Job
  <2>2. ~Looks(j)
    BY <1>1 DEF Looks, RunPos
  <2>3. Taken'
    BY <2>1 DEF Taken, Holding
  <2> QED
    BY <1>2, <1>3, <2>1, <2>2, <2>3, AsideKeeps
<1> QED
  BY <1>4, <1>5, <1>6 DEF Request

\* A caller that gives up the slot looks first, or drives the queue.
LEMMA CallerKeeps ==
    ASSUME Calm, IInv, QInv, FInv, Faults = {}, Next, NEW j \in Jobs, CallerStep(j)
    PROVE  FInv'
<1>0. /\ job[j] \in Job /\ job \in [Jobs -> Job] /\ ps \in Status
      /\ (job[j].pos \notin RunPos \cup {"raise"} => run[j] = NoRun)
      /\ row \in [Docs -> RowStatus \cup {None}]
      /\ job[j].pos \in Holding => OwnsBusy(ps, j) /\ ps.busy
  BY Beside DEF IInv, Typed, JobsTyped, Slot
<1>1. CASE WriteContent(j) \/ WriteStatus(j)
  <2>1. job[j].pos \in Writing /\ run' = run /\ mb' = mb /\ ps' = ps
    BY <1>1 DEF WriteContent, WriteStatus, At, Writing
  <2>2. job[j].doc \in Docs /\ row[job[j].doc] = None
    BY <2>1 DEF IInv, Inserting
  <2>3. Others(j) /\ job'[j].pos \in {"status", "leave"}
    BY <1>0, <1>1 DEF WriteContent, WriteStatus, Move, Others, Job
  <2>4. \A d \in Docs : row[d] # None /\ Waiting(d)' => Waiting(d)
    BY <1>0, <1>1, <2>2 DEF WriteContent, WriteStatus, Waiting
  <2>5. job[j].pos \notin Holding /\ ~Looks(j) /\ run'[j] = NoRun
    BY <1>0, <2>1 DEF Holding, RunPos, Looks, Writing
  <2> QED
    BY <2>1, <2>3, <2>4, <2>5, AsideKeeps
<1>2. ~WriteStatusFails(j)
  BY DEF WriteStatusFails
<1>3. CASE LeaveInsert(j) \/ Publish(j) \/ TerminalRelease(j) \/ DriveIfDeferred(j)
  <2>1. /\ job[j].pos \in {"leave", "failed_leave", "driven_leave", "publish", "terminal",
                           "admin_out"}
        /\ row' = row /\ content' = content /\ run' = run
        /\ Others(j) /\ job'[j].pos \in {"publish", "done", "drive"}
        /\ mb' = mb \/ job'[j].pos = "drive"
        /\ job[j].pos = "admin_out" /\ mb.auto_rescan_pending => job'[j].pos = "drive"
    BY <1>0, <1>3 DEF LeaveInsert, Publish, TerminalRelease, DriveIfDeferred, Move, Others,
       Job, At
  <2>2. ps'.busy => ps.busy
    <3>1. ps' \in {ps, Unregister(ps, j), Uncancel(FreeBusy(ps))}
      BY <1>3 DEF LeaveInsert, Publish, TerminalRelease, DriveIfDeferred, IfOwner
    <3> QED
      BY <1>0, <3>1 DEF Unregister, Uncancel, FreeBusy, Status
  <2>3. Looking' \/ (mb' = mb /\ (Looks(j) => Looks(j)'))
    <3>1. CASE job'[j].pos = "drive"
      BY <3>1 DEF Looking, Looks
    <3>2. CASE job'[j].pos # "drive"
      <4>1. mb' = mb /\ ~Looks(j)
        BY <2>1, <3>2 DEF Looks, RunPos
      <4> QED
        BY <4>1
    <3> QED
      BY <3>1, <3>2
  <2>4. job[j].pos \notin Holding /\ run'[j] = NoRun
    BY <1>0, <2>1 DEF Holding, RunPos
  <2> QED
    BY <2>1, <2>2, <2>3, <2>4, AsideKeeps DEF Waiting
<1>4. CASE ReleaseAdmin(j)
  <2>1. /\ job[j].pos = "body" /\ job[j].kind = "admin" /\ mb' = mb
        /\ row' = row /\ content' = content /\ run' = run
        /\ Others(j) /\ job'[j].pos = "admin_out" /\ job'[j].kind = "admin"
    BY <1>0, <1>4 DEF ReleaseAdmin, Move, Others, Job, At
  <2>2. ~ps'.busy
    BY <1>0, <1>4, <2>1 DEF ReleaseAdmin, IfOwner, FreeBusy, Status, Holding
  <2>3. Taken' /\ (Looks(j) => Looks(j)')
    BY <2>1, <2>2 DEF Taken, Looks, RunPos
  <2>4. run'[j] = NoRun
    BY <1>0, <2>1 DEF RunPos
  <2> QED
    BY <2>1, <2>3, <2>4, AsideKeeps DEF Waiting
<1>5. CASE ExitCustomChunks(j)
  <2>1. /\ job[j].pos = "body" /\ mb' = mb
        /\ row' = row /\ content' = content /\ run' = run /\ Others(j)
        /\ \/ HasWork(mb) /\ job'[j].pos = "handoff"
           \/ ~HasWork(mb) /\ job'[j].pos = "terminal" /\ ps' = Uncancel(FreeBusy(ps))
    BY <1>0, <1>5 DEF ExitCustomChunks, IfOwner, Move, Others, Job, At, Holding
  <2>2. job'[j].pos = "handoff" => Taken' /\ Looking'
    BY DEF Taken, Looking, Looks, Holding
  <2>3. ~HasWork(mb) /\ ps' = Uncancel(FreeBusy(ps)) => Taken' /\ Looking'
    BY <1>0, <2>1 DEF Taken, Looking, Uncancel, FreeBusy, Status
  <2>4. run'[j] = NoRun /\ job'[j].pos \notin {"raise", "body"}
    BY <1>0, <2>1 DEF RunPos
  <2>5. Taken' /\ Looking'
    BY <2>1, <2>2, <2>3
  <2> QED
    BY <2>1, <2>4, <2>5, AsideKeeps DEF Waiting
<1> QED
  BY <1>1, <1>2, <1>3, <1>4, <1>5 DEF CallerStep

\* A run that is refused leaves the flag to whoever holds the slot.
LEMMA AcquireKeeps ==
    ASSUME Calm, IInv, QInv, FInv, Next, NEW j \in Jobs, AcquireProcessing(j)
    PROVE  FInv'
<1> DEFINE v == ProcessingVerdict(ps, At(j, "handoff"), FALSE)
           w == Me(j, "processing").worker
<1>0. /\ job[j] \in Job /\ job \in [Jobs -> Job] /\ ps \in Status /\ Mailbox(mb)
      /\ (job[j].pos \notin RunPos \cup {"raise"} => run[j] = NoRun)
      /\ ~ps.scanning_exclusive /\ ~Fenced(ps)
  BY Beside DEF IInv, Typed, JobsTyped, QInv, SInv, Undisturbed, FInv
<1>1. /\ job[j].pos \in {"drive", "handoff"} /\ row' = row /\ content' = content /\ run' = run
      /\ ps' = ProcessingOutcome(ps, v, j, w, FALSE)
      /\ mb' = IF v = "busy" THEN RequestAutoRescan(mb) ELSE mb
      /\ IF v = "acquired" THEN Move(j, "absorb") ELSE Return(j)
  BY DEF AcquireProcessing, At
<1>2. \/ v = "acquired"
      \/ v = "busy" /\ ps.busy /\ job[j].pos = "drive"
  BY <1>0, <1>1 DEF ProcessingVerdict, At
<1> HIDE DEF v, w
<1>3. run'[j] = NoRun
  BY <1>0, <1>1 DEF RunPos
<1>4. CASE v = "acquired"
  <2>1. Others(j) /\ job'[j].pos = "absorb"
    BY <1>0, <1>1, <1>4 DEF Move, Others, Job
  <2>2. Taken' /\ Looking'
    BY <2>1 DEF Taken, Looking, Looks, Holding, RunPos
  <2> QED
    BY <1>1, <1>3, <2>1, <2>2, AsideKeeps DEF Waiting
<1>5. CASE v = "busy" /\ ps.busy /\ job[j].pos = "drive"
  <2>1. Others(j) /\ job'[j].pos \in {"done", "terminal"} /\ mb' = RequestAutoRescan(mb)
    BY <1>0, <1>1, <1>5 DEF Return, Move, Others, Job
  <2>2. ps' = ps /\ mb'.auto_rescan_pending
    BY <1>0, <1>1, <1>5 DEF ProcessingOutcome, RequestAutoRescan, Mailbox
  <2>3. PICK k \in Jobs : job[k].pos \in Holding
    BY <1>5 DEF FInv, Taken
  <2>4. k # j /\ job[j].pos \notin Holding
    BY <1>5, <2>3 DEF Holding, RunPos
  <2>5. job'[k] = job[k]
    BY <2>1, <2>4 DEF Others
  <2>6. Looks(k)'
    BY <2>2, <2>3, <2>5 DEF Looks, Holding, FInv, Bodies
  <2>7. Looking'
    BY <2>6 DEF Looking
  <2> QED
    BY <1>1, <1>3, <2>1, <2>2, <2>4, <2>7, AsideKeeps DEF Waiting
<1> QED
  BY <1>2, <1>4, <1>5

\* The slot goes only when the mailbox is empty.
LEMMA EndKeeps ==
    ASSUME Calm, IInv, QInv, FInv, Next, NEW j \in Jobs, DecideReleased(j) \/ Finalize(j)
    PROVE  FInv'
<1>0. /\ run \in [Jobs -> Run] /\ run[j] \in Run /\ job \in [Jobs -> Job] /\ job[j] \in Job
      /\ job[j].next \in {"done", "terminal"} /\ job[j].pos # "raise" /\ ps \in Status
  BY DEF IInv, Typed, JobsTyped, Job, FInv
<1>1. /\ row' = row /\ content' = content /\ Others(j) /\ run'[j] = NoRun /\ mb' = mb
      /\ job'[j].pos \in {"done", "terminal", "released"}
  <2>1. CASE DecideReleased(j)
    BY <1>0, <2>1 DEF DecideReleased, Return, Move, Others, Job
  <2>2. CASE Finalize(j)
    <3>1. row' = row /\ content' = content /\ run' = [run EXCEPT ![j] = NoRun] /\ Return(j)
          /\ mb' = mb
      BY <1>0, <2>2 DEF Finalize, At
    <3> QED
      BY <1>0, <3>1 DEF Return, Move, Others, Job
  <2> QED
    BY <2>1, <2>2
<1>2. CASE DecideReleased(j)
  <2>1. ~HasWork(mb)
    BY <1>2 DEF DecideReleased, NextStep, HasWork
  <2>2. ~ps'.busy
    BY <1>0, <1>2 DEF DecideReleased, FreeBusy, Status
  <2>3. Taken' /\ Looking'
    BY <1>1, <2>1, <2>2 DEF Taken, Looking
  <2> QED
    BY <1>1, <2>3, AsideKeeps DEF Waiting
<1>3. CASE Finalize(j)
  <2>1. job[j].pos = "released" /\ ps' \in {ps, Uncancel(ps)}
    BY <1>0, <1>3 DEF Finalize, At
  <2>2. ps'.busy = ps.busy
    BY <1>0, <2>1 DEF Uncancel, Status
  <2>3. job[j].pos \notin Holding /\ ~Looks(j)
    BY <2>1 DEF Holding, RunPos, Looks
  <2> QED
    BY <1>1, <2>2, <2>3, AsideKeeps DEF Waiting
<1> QED
  BY <1>2, <1>3

\* Every step leaves somebody who looks.
LEMMA LookingKept ==
    ASSUME Calm, IInv, QInv, Faults = {}, Next
    PROVE  FInv'
<1>0. FInv /\ SInv
  BY DEF QInv
<1>1. ASSUME NEW j \in Jobs, RunStep(j)
      PROVE  FInv'
  <2>1. ~FetchFails(j)
    BY DEF FetchFails
  <2> QED
    BY <1>0, <1>1, <2>1, RunSteps, GoingOnKeeps, AcquireKeeps, EndKeeps
<1>2. ~CancelPipeline /\ ~ForceReset
  BY <1>0 DEF CancelPipeline, ForceReset, FInv
<1> QED
  BY <1>0, <1>1, <1>2, RequestKeeps, CallerKeeps DEF Next

-----------------------------------------------------------------------------
(* The signals: from the beginning on *)

\* In the beginning nobody waits.
LEMMA InitSignals ==
    ASSUME Calm, Init
    PROVE  QInv
<1>1. /\ None # "ACTIVE" /\ "FAILED" # "ACTIVE" /\ None \notin AutoResume
      /\ "FAILED" \notin AutoResume
  BY SchedulerAssumption DEF RowStatus, AutoResume
<1>2. \A d \in Docs : row[d] \in {None, "FAILED"}
  BY DEF Init, Calm
<1>3. content \subseteq Docs
  BY SchedulerAssumption DEF Init
<1>4. \A j \in Jobs : /\ job[j].pos = "idle" /\ run[j].step = "first" /\ ~run[j].blocked
                      /\ run[j].blocking = {}
  BY DEF Init, NoRun
<1>5. \A d \in content : row[d] # "ACTIVE"
  BY <1>1, <1>2, <1>3
<1>6. \A d \in Docs : ~Waiting(d)
  BY <1>1, <1>2 DEF Waiting
<1>7. SInv
  <2>1. Undisturbed
    BY DEF Undisturbed, Init, InitialStatus, EmptyMailbox
  <2>2. \A j \in Jobs : Ordered(j)
    BY <1>4 DEF Ordered, Manual
  <2>3. Batched /\ Settled
    BY <1>4, <1>5 DEF Batched, Settled
  <2> QED
    BY <1>6, <2>1, <2>2, <2>3 DEF SInv
<1>8. FInv
  <2>1. Looking /\ Taken
    BY DEF Looking, Taken, HasWork, HasManualRetry, Init, EmptyMailbox, InitialStatus
  <2>2. Bodies /\ ~Fenced(ps)
    BY <1>4 DEF Bodies, Fenced, Init, InitialStatus
  <2>3. \A j \in Jobs : Advancing(j) /\ job[j].pos # "raise"
    BY <1>4 DEF Advancing
  <2> QED
    BY <2>1, <2>2, <2>3 DEF FInv
<1> QED
  BY <1>7, <1>8 DEF QInv

\* Every step keeps the account, and so does a stutter.
LEMMA NextSignals ==
    ASSUME Calm
    PROVE  IInv /\ QInv /\ [Next]_vars => QInv'
<1> SUFFICES ASSUME IInv, QInv, [Next]_vars
             PROVE  QInv'
  OBVIOUS
<1>1. CASE Next
  BY <1>1, SignalsKept, LookingKept DEF QInv
<1>2. CASE UNCHANGED vars
  <2>1. ps' = ps /\ mb' = mb /\ row' = row /\ content' = content /\ job' = job /\ run' = run
    BY <1>2 DEF vars
  <2>2. \A j \in Jobs : \A d : Ahead(j, d)' <=> Ahead(j, d)
    BY <2>1 DEF Ahead
  <2>3. \A j \in Jobs : \A d : Carries(j, d)' <=> Carries(j, d)
    <3>1. \A j \in Jobs : \A d : Owes(j, d)' <=> Owes(j, d)
      BY <2>1 DEF Owes, In
    <3> QED
      BY <2>1, <2>2, <3>1 DEF Carries
  <2>4. SInv => SInv'
    <3>1. ASSUME NEW d \in Docs, Signalled(d)
          PROVE  Signalled(d)'
      BY <2>1, <2>3, <3>1 DEF Signalled
    <3> QED
      BY <2>1, <3>1 DEF SInv, Undisturbed, Batched, Settled, Ordered, Waiting
  <2>5. FInv => FInv'
    <3>1. ASSUME NEW j \in Jobs, Advancing(j)
          PROVE  Advancing(j)'
      BY <2>1, <2>2, <3>1 DEF Advancing, Waiting
    <3> QED
      BY <2>1, <3>1 DEF FInv, Looking, Looks, Taken, Bodies
  <2> QED
    BY <2>4, <2>5 DEF QInv
<1> QED
  BY <1>1, <1>2

\* What the signals say when every job has ended.
LEMMA QInvMeans ==
    ASSUME IInv, QInv, Quiescent
    PROVE  /\ Owed # {} => HasWork(mb)
           /\ Faults = {} => Owed = {} /\ ~HasWork(mb)
<1>1. \A j \in Jobs : job[j].pos \in {"idle", "done"}
  BY DEF Quiescent
<1>2. \A j \in Jobs : \A d : ~Carries(j, d)
  BY <1>1 DEF Carries, Ahead, Owes
<1>3. ASSUME NEW d \in Owed
      PROVE  HasWork(mb)
  <2>1. d \in Docs /\ Waiting(d)
    BY DEF IInv, Typed, Owed, Waiting
  <2>2. InMailbox(mb, d)
    BY <1>2, <2>1 DEF QInv, SInv, Signalled
  <2>3. ~In(d, <<>>)
    BY DEF In
  <2> QED
    BY <2>2, <2>3 DEF InMailbox, HasWork
<1>4. Faults = {} => ~HasWork(mb)
  BY <1>1 DEF QInv, FInv, Looking, Looks, RunPos
<1> QED
  BY <1>3, <1>4

\* The account of the wake-ups holds in every reachable state.
THEOREM SignalsInvariant ==
    ASSUME Calm
    PROVE  Spec => []QInv
<1>1. Init => QInv
  BY InitSignals
<1>2. IInv /\ QInv /\ [Next]_vars => QInv'
  BY NextSignals
<1> QED
  BY <1>1, <1>2, SchedulerInvariant, PTL DEF Spec

\* Where page reads, status writes, content reads or publishes fail, a document that is
\* left waiting has a wake-up in the mailbox: the run gives back every signal it took and
\* could not act on (_next_scheduling_page, _finalize, the feeder's republication).
THEOREM SignalSurvivesHolds ==
    ASSUME Calm
    PROVE  Spec => []SignalSurvives
<1>1. IInv /\ QInv => SignalSurvives
  BY QInvMeans DEF SignalSurvives
<1> QED
  BY <1>1, SignalsInvariant, SchedulerInvariant, PTL

\* Where nothing fails and all jobs have ended, no document waits and no wake-up is left:
\* a run releases the slot only with an empty mailbox, and whoever finds it taken leaves
\* a flag for a holder who will look (_decide_pipeline_next_step, _exit_action).
THEOREM NothingIsStranded ==
    ASSUME Calm, Faults = {}
    PROVE  Spec => []NoStrandedWork
<1>1. IInv /\ QInv => NoStrandedWork
  BY QInvMeans DEF NoStrandedWork
<1> QED
  BY <1>1, SignalsInvariant, SchedulerInvariant, PTL
=============================================================================
