------------------------- MODULE SharedKnowledge_proofs ------------------------
(***************************************************************************)
(* Proofs about what processes and documents share.                         *)
(*                                                                          *)
(* The keyed locks of lightrag/kg/shared_storage.py: for every number of    *)
(* processes, contexts and keys, two live contexts never hold the same key, *)
(* the reference counts are exact and whoever has left leaves nothing       *)
(* behind.  The inductive invariant has a part for each mechanism: how far  *)
(* a context has come (Progress), the references of _async_lock_count       *)
(* (Counted), the asyncio locks (Gates) and the leases of the               *)
(* KeyedHolderTable (Leases).                                               *)
(*                                                                          *)
(* The cross-process gate of the same file.                                 *)
(*                                                                          *)
(* The entities, relations and chunks of DocumentKnowledge: what a          *)
(* processed document contributed stays, whatever is done to the other      *)
(* documents, fails, is tried again or dies, provided that nobody else      *)
(* works while a purge runs (Theorem ContributionsStay).                    *)
(***************************************************************************)
EXTENDS KeyedLock, FiniteSetTheorems, WellFoundedInduction, TLAPS

-----------------------------------------------------------------------------
(* The inductive invariant *)

\* A context refers to the smallest of its keys, one after the other; it has
\* entered those it refers to, but for the one it is waiting for.  Max has a value
\* because the references are bounded.
InOrder(c) ==
    /\ ctx[c].entered \subseteq ctx[c].refs /\ ctx[c].refs \subseteq ctx[c].keys
    /\ \E b \in Nat : \A k \in ctx[c].refs : k =< b
    /\ \A k \in ctx[c].refs : \A l \in ctx[c].keys \ ctx[c].refs : k < l
    /\ ctx[c].pos \in {"idle", "out"} => ctx[c].refs = {}
    /\ ctx[c].pos \in {"next", "held"} => ctx[c].entered = ctx[c].refs
    /\ ctx[c].pos \in Waiting => /\ ctx[c].refs # {}
                                 /\ ctx[c].entered = ctx[c].refs \ {ThisKey(c)}
    /\ ctx[c].pos \in {"poll", "grant", "steal"} => Multiprocess
    /\ ctx[c].snap # None <=> ctx[c].pos = "steal"

Progress == \A c \in Contexts : InOrder(c)

\* The counts and the generations of the lock objects, of dead processes too.
Counted ==
    \A p \in Procs, k \in Keys :
        /\ IsFiniteSet(Users(p, k))
        /\ table[p][k].count = Cardinality(Users(p, k))
        /\ \A c \in Users(p, k) : ctx[c].gen[k] = table[p][k].gen

\* the context owns the asyncio lock of the key
HasGate(c, k) ==
    \/ k \in ctx[c].entered
    \/ ctx[c].pos \in {"poll", "grant", "steal"} /\ k = ThisKey(c)

\* The asyncio locks that are held are those that contexts own, each its own.
Gates ==
    /\ \A c \in Contexts, k \in Keys : HasGate(c, k) => Gate(c, k) \in locked
    /\ \A c, d \in Contexts, k \in Keys :
          HasGate(c, k) /\ HasGate(d, k) /\ Gate(c, k) = Gate(d, k) => c = d
    /\ \A g \in locked : \E c \in Contexts, k \in Keys : HasGate(c, k) /\ g = Gate(c, k)

Owner(rec) == ctx[rec.lease.context].home

\* what a record of the table says of its owner
Sound(rec, k) ==
    /\ rec.lease.key = k
    /\ rec.owner_pid = proc[Owner(rec)].pid
    /\ rec.start_delta \in {Owner(rec), None}
    /\ proc[Owner(rec)].life # "unborn"

\* Live processes have pids of their own, so whoever is judged dead is dead and
\* stays dead; a live context has the lease of each key it has entered and of no
\* other, and nothing was entered before its process started.
Leases ==
    /\ \A p, q \in Procs :
          proc[p].life = "alive" /\ proc[q].life = "alive" /\ proc[p].pid = proc[q].pid => p = q
    /\ \A k \in Keys : holders[k] # None => Sound(holders[k], k)
    /\ \A c \in Contexts : ctx[c].pos = "steal" => proc[Owner(ctx[c].snap)].life = "dead"
    /\ Multiprocess =>
          \A c \in Contexts : Alive(c) => \A k \in ctx[c].entered :
              holders[k] # None /\ holders[k].lease = [context |-> c, key |-> k]
    /\ \A c \in Contexts, k \in Keys :
          Alive(c) /\ holders[k] # None /\ holders[k].lease.context = c => k \in ctx[c].entered
    /\ \A c \in Contexts : proc[ctx[c].home].life = "unborn" => ctx[c].entered = {}

IInv == TypeOK /\ Progress /\ Counted /\ Gates /\ Leases

-----------------------------------------------------------------------------
(* The smallest and the largest key *)

\* A non-empty set of numbers has a smallest element: the one below which the set
\* is smallest, in the well-founded order of the finite sets of numbers.
LEMMA MinIsIn ==
    ASSUME NEW S, S \subseteq Nat, S # {}
    PROVE  Min(S) \in S /\ \A k \in S : Min(S) =< k
<1> DEFINE UpTo(k) == {l \in S : l =< k}
           T == {UpTo(k) : k \in S}
<1>1. \A k \in S : IsFiniteSet(UpTo(k))
  BY FS_BoundedSetOfNaturals
<1>2. T \subseteq FiniteSubsetsOf(Nat) /\ T # {}
  BY <1>1 DEF FiniteSubsetsOf
<1>3. PICK L \in T : \A M \in T : ~ (<<M, L>> \in StrictSubsetOrdering(Nat))
  BY <1>2, WFMin, FS_StrictSubsetOrderingWellFounded
<1>4. PICK m \in S : L = UpTo(m)
  OBVIOUS
<1>5. ASSUME NEW k \in S, k < m
      PROVE  FALSE
  <2>0. UpTo(k) \in T
    OBVIOUS
  <2>1. UpTo(k) \subseteq UpTo(m) /\ m \in UpTo(m) \ UpTo(k)
    <3>1. k \in Nat /\ m \in Nat /\ \A l \in S : l =< k => l =< m
      BY <1>5
    <3>2. ~ (m =< k) /\ m =< m
      BY <1>5, <3>1
    <3> QED
      BY <3>1, <3>2, Zenon
  <2>2. UpTo(k) \in SUBSET Nat /\ UpTo(m) \in SUBSET Nat /\ UpTo(k) # UpTo(m)
    BY <2>1
  <2> HIDE DEF UpTo, T
  <2>3. <<UpTo(k), UpTo(m)>> \in StrictSubsetOrdering(Nat)
    BY <2>1, <2>2 DEF StrictSubsetOrdering
  <2> QED
    BY <1>3, <1>4, <2>0, <2>3
<1>6. \A k \in S : m =< k
  BY <1>5
<1> QED
  BY <1>6 DEF Min

\* A non-empty bounded set of numbers has a largest element.
LEMMA MaxIsIn ==
    ASSUME NEW S, S \subseteq Nat, S # {}, NEW b \in Nat, \A k \in S : k =< b
    PROVE  Max(S) \in S /\ \A k \in S : k =< Max(S)
<1> DEFINE T == {b - k : k \in S}
<1>1. T \subseteq Nat /\ T # {}
  <2>1. \A k \in S : b - k \in Nat
    OBVIOUS
  <2> QED
    BY <2>1
<1>2. Min(T) \in T /\ \A t \in T : Min(T) =< t
  BY <1>1, MinIsIn
<1>3. PICK m \in S : Min(T) = b - m
  BY <1>2
<1>4. ASSUME NEW k \in S
      PROVE  k =< m
  <2>1. b - k \in T
    OBVIOUS
  <2>2. b - m =< b - k
    BY <1>2, <1>3, <2>1
  <2> QED
    BY <2>2
<1> QED
  BY <1>4 DEF Max

\* Adding a number above all others makes it the largest.
LEMMA MaxOfNew ==
    ASSUME NEW S, S \subseteq Nat, NEW k \in Nat, \A l \in S : l < k
    PROVE  Max(S \cup {k}) = k
<1>1. \A m \in S \cup {k} : (\A l \in S \cup {k} : m >= l) <=> m = k
  OBVIOUS
<1> QED
  BY <1>1 DEF Max

\* What a context has on its way in: the key it refers to next is one of its own,
\* above those it has; the key it refers to last is one of those it has.
LEMMA KeysInOrder ==
    ASSUME KeysAssumption, TypeOK, Progress, NEW c \in Contexts
    PROVE  /\ ctx[c].keys # ctx[c].refs =>
                /\ NextKey(c) \in ctx[c].keys \ ctx[c].refs
                /\ \A l \in ctx[c].keys \ ctx[c].refs : NextKey(c) =< l
                /\ Max(ctx[c].refs \cup {NextKey(c)}) = NextKey(c)
           /\ ctx[c].refs # {} => ThisKey(c) \in ctx[c].refs
<1>1. ctx[c].keys \subseteq Nat /\ ctx[c].refs \subseteq ctx[c].keys
  BY DEF TypeOK, KeysAssumption, Progress, InOrder
<1>2. ctx[c].refs # {} => ThisKey(c) \in ctx[c].refs
  BY <1>1, MaxIsIn DEF Progress, InOrder, ThisKey
<1>3. ASSUME ctx[c].keys # ctx[c].refs
      PROVE  /\ NextKey(c) \in ctx[c].keys \ ctx[c].refs
             /\ \A l \in ctx[c].keys \ ctx[c].refs : NextKey(c) =< l
  BY <1>1, <1>3, MinIsIn DEF NextKey
<1>4. ASSUME ctx[c].keys # ctx[c].refs
      PROVE  Max(ctx[c].refs \cup {NextKey(c)}) = NextKey(c)
  <2>1. \A l \in ctx[c].refs : l < NextKey(c)
    BY <1>3, <1>4 DEF Progress, InOrder
  <2> QED
    BY <1>1, <1>3, <1>4, <2>1, MaxOfNew
<1> QED
  BY <1>2, <1>3, <1>4

-----------------------------------------------------------------------------
(* What a step changes *)

Acts(c) == RefKey(c) \/ TakeGate(c) \/ TryAcquire(c) \/ Grant(c) \/ Cancel(c)
               \/ Exit(c) \/ ReleaseKey(c)

Ctx == [home : Procs, keys : SUBSET Keys, pos : Pos, refs : SUBSET Keys,
        entered : SUBSET Keys, gen : [Keys -> Nat], snap : Record \cup {None}]

\* The step of a context writes its own record only, never its process or its keys.
Own(c) ==
    /\ ctx' \in [Contexts -> Ctx]
    /\ \A d \in Contexts \ {c} : ctx'[d] = ctx[d]
    /\ ctx'[c].home = ctx[c].home /\ ctx'[c].keys = ctx[c].keys
    /\ proc' = proc

\* A step that writes a record of the right type to its own place.
LEMMA Writes ==
    ASSUME TypeOK, NEW c \in Contexts, NEW r \in Ctx,
           ctx' = [ctx EXCEPT ![c] = r], proc' = proc,
           r.home = ctx[c].home, r.keys = ctx[c].keys
    PROVE  Own(c)
<1>1. ctx \in [Contexts -> Ctx]
  BY DEF TypeOK, Ctx
<1> QED
  BY <1>1 DEF Own

\* The record of a context keeps its type, and those of the others stay.
LEMMA OwnStep ==
    ASSUME KeysAssumption, TypeOK, Progress, NEW c \in Contexts, Acts(c)
    PROVE  Own(c)
<1>0. ctx \in [Contexts -> Ctx] /\ ctx[c] \in Ctx
  BY DEF TypeOK, Ctx
<1>1. {"gate", "poll", "grant", "steal", "next", "held", "leave", "out"} \subseteq Pos
  BY DEF Pos, Waiting
<1>2. CASE RefKey(c)
  <2>1. NextKey(c) \in Keys
    BY <1>2, KeysInOrder DEF RefKey, TypeOK
  <2>2. \A p \in Procs, k \in Keys : table[p][k].gen \in Nat /\ table[p][k].gen + 1 \in Nat
    BY DEF TypeOK
  <2>3. PICK g \in Nat :
          ctx' = [ctx EXCEPT ![c].refs = @ \cup {NextKey(c)}, ![c].gen[NextKey(c)] = g,
                             ![c].pos = "gate"]
    BY <1>0, <1>2, <2>1, <2>2 DEF RefKey, Ctx
  <2>4. proc' = proc
    BY <1>2 DEF RefKey
  <2> DEFINE h == [ctx[c].gen EXCEPT ![NextKey(c)] = g]
             r == [ctx[c] EXCEPT !.refs = @ \cup {NextKey(c)}, !.gen = h, !.pos = "gate"]
  <2>5. h \in [Keys -> Nat]
    BY <1>0, <2>1 DEF Ctx
  <2>6. r \in Ctx /\ r.home = ctx[c].home /\ r.keys = ctx[c].keys
    BY <1>0, <1>1, <2>1, <2>5 DEF Ctx
  <2>7. ctx' = [ctx EXCEPT ![c] = r]
    BY <1>0, <2>3
  <2> QED
    BY <2>4, <2>6, <2>7, Writes
<1>3. ASSUME NEW k \in Keys, Entered(c, k), proc' = proc
      PROVE  Own(c)
  <2> DEFINE r == [ctx[c] EXCEPT !.entered = @ \cup {k}, !.snap = None,
                                 !.pos = IF ctx[c].keys = ctx[c].refs THEN "held" ELSE "next"]
  <2>1. r \in Ctx /\ r.home = ctx[c].home /\ r.keys = ctx[c].keys
    BY <1>0, <1>1 DEF Ctx
  <2>2. ctx' = [ctx EXCEPT ![c] = r]
    BY <1>0, <1>3 DEF Entered
  <2> QED
    BY <1>3, <2>1, <2>2, Writes
<1>4. CASE TakeGate(c)
  <2>1. ThisKey(c) \in Keys
    BY <1>4, KeysInOrder DEF TakeGate, At, Progress, InOrder, Waiting, TypeOK
  <2>2. CASE Multiprocess
    <3>1. ctx' = [ctx EXCEPT ![c].pos = "poll"] /\ proc' = proc
      BY <1>4, <2>2 DEF TakeGate
    <3> QED
      BY <1>0, <1>1, <3>1 DEF Ctx, Own
  <2> QED
    BY <1>3, <1>4, <2>1, <2>2 DEF TakeGate
<1>5. CASE TryAcquire(c)
  <2>1. ThisKey(c) \in Keys
    BY <1>5, KeysInOrder DEF TryAcquire, At, Progress, InOrder, Waiting, TypeOK
  <2>2. holders[ThisKey(c)] \in Record \cup {None}
    BY <2>1 DEF TypeOK
  <2>3. \/ ctx' = [ctx EXCEPT ![c].pos = "grant"]
        \/ \E rec \in Record : ctx' = [ctx EXCEPT ![c].pos = "steal", ![c].snap = rec]
    BY <1>5, <2>2 DEF TryAcquire
  <2>4. proc' = proc
    BY <1>5 DEF TryAcquire
  <2>5. CASE ctx' = [ctx EXCEPT ![c].pos = "grant"]
    BY <1>0, <1>1, <2>4, <2>5 DEF Ctx, Own
  <2>6. ASSUME NEW rec \in Record,
               ctx' = [ctx EXCEPT ![c].pos = "steal", ![c].snap = rec]
        PROVE  Own(c)
    BY <1>0, <1>1, <2>4, <2>6 DEF Ctx, Own
  <2> QED
    BY <2>3, <2>5, <2>6
<1>6. CASE Grant(c)
  <2>1. ThisKey(c) \in Keys
    BY <1>6, KeysInOrder DEF Grant, At, Progress, InOrder, Waiting, TypeOK
  <2>2. CASE Entered(c, ThisKey(c))
    BY <1>3, <1>6, <2>1, <2>2 DEF Grant
  <2>3. CASE ctx' = [ctx EXCEPT ![c].pos = "poll", ![c].snap = None]
    BY <1>0, <1>1, <1>6, <2>3 DEF Grant, Ctx, Own
  <2> QED
    BY <1>6, <2>2, <2>3 DEF Grant
<1>7. CASE Cancel(c) \/ Exit(c)
  <2> DEFINE r == [ctx[c] EXCEPT !.pos = "leave"]
  <2>1. r \in Ctx /\ r.home = ctx[c].home /\ r.keys = ctx[c].keys
    BY <1>0, <1>1 DEF Ctx
  <2>2. ctx' = [ctx EXCEPT ![c] = r] /\ proc' = proc
    BY <1>0, <1>7 DEF Cancel, Exit
  <2> QED
    BY <2>1, <2>2, Writes
<1>8. CASE ReleaseKey(c)
  BY <1>0, <1>1, <1>8 DEF ReleaseKey, Ctx, Own
<1> QED
  BY <1>2, <1>4, <1>5, <1>6, <1>7, <1>8 DEF Acts

\* Where a context acts, its key is one of those it has.
LEMMA KeyInUse ==
    ASSUME KeysAssumption, TypeOK, Progress, NEW c \in Contexts
    PROVE  /\ ctx[c].pos \in Waiting => ThisKey(c) \in ctx[c].refs
           /\ ctx[c].refs # {} => ThisKey(c) \in Keys
BY KeysInOrder DEF Progress, InOrder, TypeOK

\* Every step keeps the types.
LEMMA NextTyped ==
    ASSUME KeysAssumption, TypeOK, Progress, Counted, Next
    PROVE  TypeOK'
<1>1. ASSUME NEW c \in Contexts, Acts(c),
             table' \in [Procs -> [Keys -> [gen : Nat, count : Nat]]],
             locked' \subseteq Procs \X Keys \X Nat,
             holders' \in [Keys -> Record \cup {None}]
      PROVE  TypeOK'
  <2>1. ctx' \in [Contexts -> Ctx] /\ proc' = proc
    BY <1>1, OwnStep DEF Own
  <2> QED
    BY <1>1, <2>1 DEF TypeOK, Ctx
<1>2. ASSUME NEW c \in Contexts, RefKey(c)
      PROVE  TypeOK'
  <2>1. NextKey(c) \in Keys /\ ctx[c].home \in Procs
    BY <1>2, KeysInOrder DEF RefKey, TypeOK
  <2>2. PICK e \in [gen : Nat, count : Nat] :
          table' = [table EXCEPT ![ctx[c].home][NextKey(c)] = e]
    <3> DEFINE t == table[ctx[c].home][NextKey(c)]
    <3>1. t \in [gen : Nat, count : Nat]
      BY <2>1 DEF TypeOK
    <3>2. table' = [table EXCEPT ![ctx[c].home][NextKey(c)] =
                      [gen |-> IF t.count = 0 THEN t.gen + 1 ELSE t.gen, count |-> t.count + 1]]
      BY <1>2, <2>1 DEF RefKey, TypeOK
    <3>3. [gen |-> IF t.count = 0 THEN t.gen + 1 ELSE t.gen, count |-> t.count + 1]
            \in [gen : Nat, count : Nat]
      <4> HIDE DEF t
      <4> QED
        BY <3>1
    <3> QED
      BY <3>2, <3>3, Zenon
  <2>3. table' \in [Procs -> [Keys -> [gen : Nat, count : Nat]]]
    BY <2>1, <2>2 DEF TypeOK
  <2> QED
    BY <1>1, <1>2, <2>3 DEF Acts, RefKey, TypeOK
<1>3. ASSUME NEW c \in Contexts, TakeGate(c)
      PROVE  TypeOK'
  <2>1. Gate(c, ThisKey(c)) \in Procs \X Keys \X Nat
    <3>1. ThisKey(c) \in Keys
      BY <1>3, KeysInOrder DEF TakeGate, At, Waiting, Progress, InOrder, TypeOK
    <3>2. ctx[c].home \in Procs /\ ctx[c].gen \in [Keys -> Nat]
      BY DEF TypeOK
    <3> QED
      BY <3>1, <3>2 DEF Gate
  <2> QED
    BY <1>1, <1>3, <2>1 DEF Acts, TakeGate, TypeOK
<1>4. ASSUME NEW c \in Contexts, TryAcquire(c)
      PROVE  TypeOK'
  BY <1>1, <1>4 DEF Acts, TryAcquire, TypeOK
<1>5. ASSUME NEW c \in Contexts, Grant(c)
      PROVE  TypeOK'
  <2>1. ThisKey(c) \in Keys
    BY <1>5, KeysInOrder DEF Grant, At, Waiting, Progress, InOrder, TypeOK
  <2>2. Stamp(c) \subseteq Record
    BY <2>1 DEF Stamp, Record, Lease, StartDelta, TypeOK
  <2>3. holders' \in [Keys -> Record \cup {None}]
    BY <1>5, <2>1, <2>2 DEF Grant, TypeOK
  <2> QED
    BY <1>1, <1>5, <2>3 DEF Acts, Grant, TypeOK
<1>6. ASSUME NEW c \in Contexts, Cancel(c) \/ Exit(c)
      PROVE  TypeOK'
  BY <1>1, <1>6 DEF Acts, Cancel, Exit, TypeOK
<1>7. ASSUME NEW c \in Contexts, ReleaseKey(c)
      PROVE  TypeOK'
  <2> DEFINE p == ctx[c].home
             k == ThisKey(c)
  <2>1. k \in ctx[c].refs /\ k \in Keys /\ p \in Procs
    BY <1>7, KeysInOrder DEF ReleaseKey, TypeOK
  <2>2. table[p][k].count - 1 \in Nat
    <3>1. c \in Users(p, k)
      BY <2>1 DEF Users
    <3>2. IsFiniteSet(Users(p, k)) /\ table[p][k].count = Cardinality(Users(p, k))
      BY <2>1 DEF Counted
    <3>3. Cardinality(Users(p, k)) \in Nat /\ Cardinality(Users(p, k)) # 0
      BY <3>1, <3>2, FS_EmptySet, FS_CardinalityType
    <3> QED
      BY <3>2, <3>3
  <2>3. table' = [table EXCEPT ![p][k].count = @ - 1]
    BY <1>7 DEF ReleaseKey
  <2> HIDE DEF p, k
  <2>4. table' \in [Procs -> [Keys -> [gen : Nat, count : Nat]]]
    <3>0. \A t \in [gen : Nat, count : Nat] :
            t.count - 1 \in Nat => [t EXCEPT !.count = @ - 1] \in [gen : Nat, count : Nat]
      OBVIOUS
    <3>1. [table[p][k] EXCEPT !.count = @ - 1] \in [gen : Nat, count : Nat]
      <4>1. table[p][k] \in [gen : Nat, count : Nat]
        BY <2>1 DEF TypeOK
      <4> QED
        BY <2>2, <3>0, <4>1
    <3>2. table' = [table EXCEPT ![p][k] = [table[p][k] EXCEPT !.count = @ - 1]]
      BY <2>1, <2>3 DEF TypeOK
    <3> QED
      BY <2>1, <3>1, <3>2 DEF TypeOK
  <2>5. locked' \subseteq locked
    BY <1>7 DEF ReleaseKey
  <2>6. holders' \in [Keys -> Record \cup {None}]
    <3>1. holders' = holders \/ holders' = [holders EXCEPT ![k] = None]
      BY <1>7 DEF ReleaseKey, ReleaseLease, k
    <3> QED
      BY <2>1, <3>1 DEF TypeOK
  <2> QED
    BY <1>1, <1>7, <2>4, <2>5, <2>6 DEF Acts, TypeOK
<1>8. ASSUME NEW p \in Procs, Start(p) \/ Die(p)
      PROVE  TypeOK'
  <2>1. UNCHANGED <<ctx, table, locked, holders>>
    BY <1>8 DEF Start, Die
  <2>2. proc' \in [Procs -> [pid : Pids, life : {"unborn", "alive", "dead"}]]
    <3>1. proc \in [Procs -> [pid : Pids, life : {"unborn", "alive", "dead"}]]
      BY DEF TypeOK
    <3>2. CASE Start(p)
      BY <3>1, <3>2 DEF Start
    <3>3. CASE Die(p)
      BY <3>1, <3>3 DEF Die
    <3> QED
      BY <1>8, <3>2, <3>3
  <2> QED
    BY <2>1, <2>2 DEF TypeOK
<1> QED
  BY <1>2, <1>3, <1>4, <1>5, <1>6, <1>7, <1>8 DEF Next, Step

\* Every step keeps the order in which keys are taken and released.
LEMMA NextInOrder ==
    ASSUME KeysAssumption, TypeOK, Progress, Next
    PROVE  Progress'
<1>0. ASSUME NEW c \in Contexts, Acts(c), InOrder(c)'
      PROVE  Progress'
  <2>1. Own(c)
    BY <1>0, OwnStep
  <2>2. \A d \in Contexts \ {c} : InOrder(d)'
    BY <2>1 DEF Own, Progress, InOrder, ThisKey
  <2> QED
    BY <1>0, <2>2 DEF Progress
<1>1. ASSUME NEW c \in Contexts
      PROVE  InOrder(c) /\ ctx \in [Contexts -> Ctx] /\ ctx[c] \in Ctx
  BY DEF Progress, TypeOK, Ctx
<1>2. ASSUME NEW c \in Contexts, RefKey(c)
      PROVE  Progress'
  <2> DEFINE k == NextKey(c)
  <2>1. /\ k \in ctx[c].keys \ ctx[c].refs /\ \A l \in ctx[c].keys \ ctx[c].refs : k =< l
        /\ Max(ctx[c].refs \cup {k}) = k /\ k \in Nat
    BY <1>2, KeysInOrder DEF RefKey, TypeOK, KeysAssumption
  <2>2. /\ ctx[c].pos \in {"idle", "next"} /\ ctx'[c].pos = "gate"
        /\ ctx'[c].refs = ctx[c].refs \cup {k}
        /\ ctx'[c].keys = ctx[c].keys /\ ctx'[c].entered = ctx[c].entered
        /\ ctx'[c].snap = ctx[c].snap
    BY <1>1, <1>2 DEF RefKey, At, Ctx
  <2> HIDE DEF k
  <2>3. ctx[c].keys \subseteq Nat
    BY DEF TypeOK, KeysAssumption
  <2>4. ctx[c].entered = ctx[c].refs /\ ctx[c].snap = None
    BY <1>1, <2>2 DEF InOrder
  <2>5. ThisKey(c)' = k
    BY <2>1, <2>2 DEF ThisKey
  <2>6. \E b \in Nat : \A l \in ctx'[c].refs : l =< b
    <3>1. \A l \in ctx[c].refs : l < k
      BY <1>1, <2>1 DEF InOrder
    <3> QED
      BY <1>1, <2>1, <2>2, <2>3, <3>1 DEF InOrder
  <2>7. \A l \in ctx'[c].refs : \A m \in ctx'[c].keys \ ctx'[c].refs : l < m
    BY <1>1, <2>1, <2>2, <2>3 DEF InOrder
  <2>8. InOrder(c)'
    BY <1>1, <2>1, <2>2, <2>4, <2>5, <2>6, <2>7 DEF InOrder, Waiting
  <2> QED
    BY <1>0, <1>2, <2>8 DEF Acts
<1>3. ASSUME NEW c \in Contexts, ctx[c].pos \in Waiting, Entered(c, ThisKey(c))
      PROVE  InOrder(c)'
  <2>1. ThisKey(c) \in ctx[c].refs
    BY <1>1, <1>3, KeysInOrder DEF InOrder
  <2>2. ctx'[c].entered = ctx[c].entered \cup {ThisKey(c)} /\ ctx'[c].snap = None
        /\ ctx'[c].refs = ctx[c].refs /\ ctx'[c].keys = ctx[c].keys
        /\ ctx'[c].pos \in {"held", "next"}
    BY <1>1, <1>3 DEF Entered, Ctx
  <2>3. ctx'[c].entered = ctx[c].refs
    BY <1>1, <1>3, <2>1, <2>2 DEF InOrder
  <2> QED
    BY <1>1, <2>2, <2>3 DEF InOrder, Waiting
<1>4. ASSUME NEW c \in Contexts, NEW q \in {"poll", "grant", "leave"}, NEW o \in Pos,
             ctx[c].pos = o, o # "steal", o \in {"idle", "out"} => FALSE,
             ctx' = [ctx EXCEPT ![c].pos = q],
             q \in Waiting => Multiprocess /\ o \in Waiting
      PROVE  InOrder(c)'
  <2>1. ctx'[c].entered = ctx[c].entered /\ ctx'[c].snap = ctx[c].snap
        /\ ctx'[c].refs = ctx[c].refs /\ ctx'[c].keys = ctx[c].keys
        /\ ctx'[c].pos = q /\ ThisKey(c)' = ThisKey(c)
    BY <1>1, <1>4 DEF Ctx, ThisKey
  <2> QED
    BY <1>1, <1>4, <2>1 DEF InOrder, Waiting
<1>5. ASSUME NEW c \in Contexts, TakeGate(c)
      PROVE  Progress'
  <2>1. ctx[c].pos = "gate"
    BY <1>5 DEF TakeGate, At
  <2>2. CASE Multiprocess
    <3>1. ctx' = [ctx EXCEPT ![c].pos = "poll"]
      BY <1>5, <2>2 DEF TakeGate
    <3>2. InOrder(c)'
      BY <1>4, <2>1, <2>2, <3>1 DEF Pos, Waiting
    <3> QED
      BY <1>0, <1>5, <3>2 DEF Acts
  <2>3. CASE ~ Multiprocess
    <3>1. Entered(c, ThisKey(c))
      BY <1>5, <2>3 DEF TakeGate
    <3>2. InOrder(c)'
      BY <1>3, <2>1, <3>1 DEF Waiting
    <3> QED
      BY <1>0, <1>5, <3>2 DEF Acts
  <2> QED
    BY <2>2, <2>3
<1>6. ASSUME NEW c \in Contexts, TryAcquire(c)
      PROVE  Progress'
  <2>1. ctx[c].pos = "poll" /\ Multiprocess
    BY <1>1, <1>6 DEF TryAcquire, At, InOrder
  <2>2. CASE ctx' = [ctx EXCEPT ![c].pos = "grant"]
    <3>1. InOrder(c)'
      BY <1>4, <2>1, <2>2 DEF Pos, Waiting
    <3> QED
      BY <1>0, <1>6, <3>1 DEF Acts
  <2>3. ASSUME NEW rec, rec # None, ctx' = [ctx EXCEPT ![c].pos = "steal", ![c].snap = rec]
        PROVE  Progress'
    <3>1. ctx'[c].entered = ctx[c].entered /\ ctx'[c].snap = rec
          /\ ctx'[c].refs = ctx[c].refs /\ ctx'[c].keys = ctx[c].keys
          /\ ctx'[c].pos = "steal" /\ ThisKey(c)' = ThisKey(c)
      BY <1>1, <2>3 DEF Ctx, ThisKey
    <3>2. InOrder(c)'
      BY <1>1, <2>1, <2>3, <3>1 DEF InOrder, Waiting
    <3> QED
      BY <1>0, <1>6, <3>2 DEF Acts
  <2> QED
    BY <1>6, <2>2, <2>3 DEF TryAcquire
<1>7. ASSUME NEW c \in Contexts, Grant(c)
      PROVE  Progress'
  <2>1. ctx[c].pos \in {"grant", "steal"} /\ Multiprocess
    BY <1>1, <1>7 DEF Grant, At, InOrder
  <2>2. CASE Entered(c, ThisKey(c))
    <3>1. InOrder(c)'
      BY <1>3, <2>1, <2>2 DEF Waiting
    <3> QED
      BY <1>0, <1>7, <3>1 DEF Acts
  <2>3. CASE ctx' = [ctx EXCEPT ![c].pos = "poll", ![c].snap = None]
    <3>1. ctx'[c].entered = ctx[c].entered /\ ctx'[c].snap = None
          /\ ctx'[c].refs = ctx[c].refs /\ ctx'[c].keys = ctx[c].keys
          /\ ctx'[c].pos = "poll" /\ ThisKey(c)' = ThisKey(c)
      BY <1>1, <2>3 DEF Ctx, ThisKey
    <3>2. InOrder(c)'
      BY <1>1, <2>1, <3>1 DEF InOrder, Waiting
    <3> QED
      BY <1>0, <1>7, <3>2 DEF Acts
  <2> QED
    BY <1>7, <2>2, <2>3 DEF Grant
<1>8. ASSUME NEW c \in Contexts, Cancel(c) \/ Exit(c)
      PROVE  Progress'
  <2>1. ctx[c].pos \in {"gate", "poll", "held"} /\ ctx' = [ctx EXCEPT ![c].pos = "leave"]
    BY <1>8 DEF Cancel, Exit, At
  <2>2. InOrder(c)'
    BY <1>4, <2>1 DEF Pos, Waiting
  <2> QED
    BY <1>0, <1>8, <2>2 DEF Acts
<1>9. ASSUME NEW c \in Contexts, ReleaseKey(c)
      PROVE  Progress'
  <2> DEFINE k == ThisKey(c)
  <2>1. k \in ctx[c].refs /\ ctx[c].pos = "leave" /\ ctx[c].keys \subseteq Nat
    BY <1>9, KeysInOrder DEF ReleaseKey, At, TypeOK, KeysAssumption
  <2>2. /\ ctx'[c].refs = ctx[c].refs \ {k} /\ ctx'[c].entered = ctx[c].entered \ {k}
        /\ ctx'[c].keys = ctx[c].keys /\ ctx'[c].snap = ctx[c].snap
        /\ ctx'[c].pos = IF ctx[c].refs = {k} THEN "out" ELSE "leave"
    BY <1>1, <1>9 DEF ReleaseKey, Ctx
  <2>3. k = Max(ctx[c].refs) /\ \A l \in ctx[c].refs : l =< k
    BY <1>1, <2>1, MaxIsIn DEF InOrder, ThisKey
  <2> HIDE DEF k
  <2>4. \A l \in ctx'[c].refs : \A m \in ctx'[c].keys \ ctx'[c].refs : l < m
    BY <1>1, <2>1, <2>2, <2>3 DEF InOrder
  <2>5. InOrder(c)'
    BY <1>1, <2>1, <2>2, <2>4 DEF InOrder, Waiting
  <2> QED
    BY <1>0, <1>9, <2>5 DEF Acts
<1>10. ASSUME NEW p \in Procs, Start(p) \/ Die(p)
       PROVE  Progress'
  BY <1>10 DEF Start, Die, Progress, InOrder, ThisKey
<1> QED
  BY <1>2, <1>5, <1>6, <1>7, <1>8, <1>9, <1>10 DEF Next, Step

\* Every step keeps the counts: a reference is counted when a context takes it and
\* uncounted when it gives it back, and a new lock object is made for no user.
LEMMA NextCounted ==
    ASSUME KeysAssumption, TypeOK, Progress, Counted, Next
    PROVE  Counted'
<1>0. ASSUME table' = table, ctx' \in [Contexts -> Ctx],
             \A d \in Contexts : /\ ctx'[d].home = ctx[d].home /\ ctx'[d].refs = ctx[d].refs
                                 /\ ctx'[d].gen = ctx[d].gen
      PROVE  Counted'
  <2>1. ASSUME NEW p \in Procs, NEW k \in Keys
        PROVE  Users(p, k)' = Users(p, k)
    BY <1>0 DEF Users
  <2>2. \A p \in Procs, k \in Keys : \A c \in Users(p, k) : ctx'[c].gen[k] = ctx[c].gen[k]
    BY <1>0 DEF Users
  <2> QED
    BY <1>0, <2>1, <2>2 DEF Counted
<1>1. ASSUME NEW c \in Contexts
      PROVE  ctx \in [Contexts -> Ctx] /\ ctx[c] \in Ctx /\ ctx[c].home \in Procs
  BY DEF TypeOK, Ctx
<1>2. ASSUME NEW c \in Contexts, RefKey(c)
      PROVE  Counted'
  <2>0. PICK p \in Procs, k \in Keys : p = ctx[c].home /\ k = NextKey(c) /\ k \notin ctx[c].refs
    BY <1>1, <1>2, KeysInOrder DEF RefKey, TypeOK
  <2>1. PICK g : g = IF table[p][k].count = 0 THEN table[p][k].gen + 1 ELSE table[p][k].gen
    OBVIOUS
  <2>2. Own(c)
    BY <1>2, OwnStep DEF Acts
  <2>3. /\ ctx'[c].refs = ctx[c].refs \cup {k} /\ ctx'[c].home = p
        /\ ctx'[c].gen[k] = g /\ \A l \in Keys \ {k} : ctx'[c].gen[l] = ctx[c].gen[l]
    BY <1>1, <1>2, <2>0, <2>1 DEF RefKey, Ctx
  <2>4. table' = [table EXCEPT ![p][k] = [gen |-> g, count |-> table[p][k].count + 1]]
    BY <1>2, <2>0, <2>1 DEF RefKey
  <2>5. /\ table'[p][k].gen = g /\ table'[p][k].count = table[p][k].count + 1
        /\ \A q \in Procs, l \in Keys : <<q, l>> # <<p, k>> => table'[q][l] = table[q][l]
    BY <2>4 DEF TypeOK
  <2>6. (table[p][k].count = 0 /\ Users(p, k) = {}) \/ g = table[p][k].gen
    BY <2>1, FS_EmptySet DEF Counted
  <2>7. Users(p, k)' = Users(p, k) \cup {c} /\ c \notin Users(p, k)
    BY <2>0, <2>2, <2>3 DEF Users, Own
  <2>8. \A q \in Procs, l \in Keys : <<q, l>> # <<p, k>> => Users(q, l)' = Users(q, l)
    BY <2>0, <2>2, <2>3 DEF Users, Own
  <2>9. ASSUME NEW q \in Procs, NEW l \in Keys
        PROVE  /\ IsFiniteSet(Users(q, l)') /\ table'[q][l].count = Cardinality(Users(q, l)')
               /\ \A d \in Users(q, l)' : ctx'[d].gen[l] = table'[q][l].gen
    <3>1. IsFiniteSet(Users(q, l)) /\ table[q][l].count = Cardinality(Users(q, l))
          /\ \A d \in Users(q, l) : ctx[d].gen[l] = table[q][l].gen
      BY DEF Counted
    <3>2. CASE <<q, l>> = <<p, k>>
      <4>1. IsFiniteSet(Users(q, l)') /\ Cardinality(Users(q, l)') = Cardinality(Users(q, l)) + 1
        BY <2>7, <3>1, <3>2, FS_AddElement
      <4>2. \A d \in Users(q, l)' : ctx'[d].gen[l] = table'[q][l].gen
        <5>1. \A d \in Users(q, l) : d \in Contexts /\ d # c /\ ctx'[d] = ctx[d]
          BY <2>2, <2>7, <3>2 DEF Own, Users
        <5> QED
          BY <2>3, <2>5, <2>6, <2>7, <3>1, <3>2, <5>1
      <4> QED
        BY <2>5, <3>1, <3>2, <4>1, <4>2
    <3>3. CASE <<q, l>> # <<p, k>>
      <4>1. Users(q, l)' = Users(q, l) /\ table'[q][l] = table[q][l]
        BY <2>5, <2>8, <3>3
      <4>2. \A d \in Users(q, l) : ctx'[d].gen[l] = ctx[d].gen[l]
        <5>1. \A d \in Contexts \ {c} : ctx'[d] = ctx[d]
          BY <2>2 DEF Own
        <5>2. c \in Users(q, l) => l # k
          BY <2>0, <3>3 DEF Users
        <5> QED
          BY <2>3, <5>1, <5>2 DEF Users
      <4> QED
        BY <3>1, <4>1, <4>2
    <3> QED
      BY <3>2, <3>3
  <2> QED
    BY <2>9 DEF Counted
<1>3. ASSUME NEW c \in Contexts, ReleaseKey(c)
      PROVE  Counted'
  <2>0. PICK p \in Procs, k \in Keys : p = ctx[c].home /\ k = ThisKey(c) /\ k \in ctx[c].refs
    BY <1>1, <1>3, KeysInOrder DEF ReleaseKey, TypeOK
  <2>2. Own(c)
    BY <1>3, OwnStep DEF Acts
  <2>3. ctx'[c].refs = ctx[c].refs \ {k} /\ ctx'[c].gen = ctx[c].gen /\ ctx'[c].home = p
    BY <1>1, <1>3, <2>0 DEF ReleaseKey, Ctx
  <2>4. table' = [table EXCEPT ![p][k].count = @ - 1]
    BY <1>3, <2>0 DEF ReleaseKey
  <2>5. /\ table'[p][k].gen = table[p][k].gen /\ table'[p][k].count = table[p][k].count - 1
        /\ \A q \in Procs, l \in Keys : <<q, l>> # <<p, k>> => table'[q][l] = table[q][l]
    BY <2>4 DEF TypeOK
  <2>6. Users(p, k)' = Users(p, k) \ {c} /\ c \in Users(p, k)
    BY <2>0, <2>2, <2>3 DEF Users, Own
  <2>7. \A q \in Procs, l \in Keys : <<q, l>> # <<p, k>> => Users(q, l)' = Users(q, l)
    BY <2>0, <2>2, <2>3 DEF Users, Own
  <2>8. \A d \in Contexts : ctx'[d].gen = ctx[d].gen
    BY <2>2, <2>3 DEF Own
  <2>9. ASSUME NEW q \in Procs, NEW l \in Keys
        PROVE  /\ IsFiniteSet(Users(q, l)') /\ table'[q][l].count = Cardinality(Users(q, l)')
               /\ \A d \in Users(q, l)' : ctx'[d].gen[l] = table'[q][l].gen
    <3>1. IsFiniteSet(Users(q, l)) /\ table[q][l].count = Cardinality(Users(q, l))
          /\ \A d \in Users(q, l) : ctx[d].gen[l] = table[q][l].gen
      BY DEF Counted
    <3>2. CASE <<q, l>> = <<p, k>>
      <4>1. IsFiniteSet(Users(q, l)') /\ Cardinality(Users(q, l)') = Cardinality(Users(q, l)) - 1
        BY <2>6, <3>1, <3>2, FS_RemoveElement
      <4>2. \A d \in Users(q, l)' : d \in Users(q, l) /\ d \in Contexts
        BY <2>6, <3>2 DEF Users
      <4> QED
        BY <2>5, <2>8, <3>1, <3>2, <4>1, <4>2
    <3>3. CASE <<q, l>> # <<p, k>>
      <4>1. \A d \in Users(q, l) : d \in Contexts
        BY DEF Users
      <4> QED
        BY <2>5, <2>7, <2>8, <3>1, <3>3, <4>1
    <3> QED
      BY <3>2, <3>3
  <2> QED
    BY <2>9 DEF Counted
<1>4. ASSUME NEW c \in Contexts, NEW q, NEW s, NEW e,
             \/ ctx' = [ctx EXCEPT ![c].pos = q]
             \/ ctx' = [ctx EXCEPT ![c].pos = q, ![c].snap = s]
             \/ ctx' = [ctx EXCEPT ![c].entered = e, ![c].snap = s, ![c].pos = q]
      PROVE  \A d \in Contexts : /\ ctx'[d].home = ctx[d].home /\ ctx'[d].refs = ctx[d].refs
                                 /\ ctx'[d].gen = ctx[d].gen
  <2>0. SUFFICES ASSUME NEW d \in Contexts
                 PROVE  /\ ctx'[d].home = ctx[d].home /\ ctx'[d].refs = ctx[d].refs
                        /\ ctx'[d].gen = ctx[d].gen
    OBVIOUS
  <2>1. CASE d # c
    BY <1>1, <1>4, <2>1
  <2>2. CASE d = c
    <3>1. \/ ctx'[c] = [ctx[c] EXCEPT !.pos = q]
          \/ ctx'[c] = [ctx[c] EXCEPT !.pos = q, !.snap = s]
          \/ ctx'[c] = [ctx[c] EXCEPT !.entered = e, !.snap = s, !.pos = q]
      BY <1>1, <1>4
    <3> QED
      BY <1>1, <2>2, <3>1 DEF Ctx
  <2> QED
    BY <2>1, <2>2
<1>5. ASSUME NEW c \in Contexts, TakeGate(c) \/ TryAcquire(c) \/ Grant(c) \/ Cancel(c) \/ Exit(c)
      PROVE  Counted'
  <2>1. table' = table /\ ctx' \in [Contexts -> Ctx]
    BY <1>5, OwnStep DEF Acts, Own, TakeGate, TryAcquire, Grant, Cancel, Exit
  <2>2. \E q, s, e :
             \/ ctx' = [ctx EXCEPT ![c].pos = q]
             \/ ctx' = [ctx EXCEPT ![c].pos = q, ![c].snap = s]
             \/ ctx' = [ctx EXCEPT ![c].entered = e, ![c].snap = s, ![c].pos = q]
    <3>1. CASE TakeGate(c)
      BY <3>1 DEF TakeGate, Entered
    <3>2. CASE TryAcquire(c)
      <4>1. \E q, s : \/ ctx' = [ctx EXCEPT ![c].pos = q]
                      \/ ctx' = [ctx EXCEPT ![c].pos = q, ![c].snap = s]
        BY <3>2 DEF TryAcquire
      <4> QED
        BY <4>1
    <3>3. CASE Grant(c)
      <4>1. \/ Entered(c, ThisKey(c))
            \/ ctx' = [ctx EXCEPT ![c].pos = "poll", ![c].snap = None]
        BY <3>3 DEF Grant
      <4> QED
        BY <4>1 DEF Entered
    <3>4. CASE Cancel(c) \/ Exit(c)
      BY <3>4 DEF Cancel, Exit
    <3> QED
      BY <1>5, <3>1, <3>2, <3>3, <3>4
  <2> QED
    BY <1>0, <1>4, <2>1, <2>2
<1>6. ASSUME NEW p \in Procs, Start(p) \/ Die(p)
      PROVE  Counted'
  BY <1>0, <1>6 DEF Start, Die, TypeOK, Ctx
<1> QED
  BY <1>2, <1>3, <1>5, <1>6 DEF Next, Step

\* Who has which asyncio lock, after a step of another context, is who had it.
LEMMA OthersGates ==
    ASSUME NEW c \in Contexts, Own(c), NEW d \in Contexts \ {c}, NEW k \in Keys
    PROVE  (HasGate(d, k)' <=> HasGate(d, k)) /\ Gate(d, k)' = Gate(d, k)
BY DEF Own, HasGate, Gate, ThisKey

\* A step that neither locks nor unlocks keeps the asyncio locks in order.
LEMMA GatesKept ==
    ASSUME Gates, NEW c \in Contexts, Own(c), locked' = locked,
           \A k \in Keys : /\ HasGate(c, k)' <=> HasGate(c, k)
                           /\ HasGate(c, k) => Gate(c, k)' = Gate(c, k)
    PROVE  Gates'
<1>1. \A d \in Contexts, k \in Keys :
         /\ HasGate(d, k)' <=> HasGate(d, k)
         /\ HasGate(d, k) => Gate(d, k)' = Gate(d, k)
  BY OthersGates
<1> QED
  BY <1>1 DEF Gates

\* So does a step that locks what nobody has locked.
LEMMA GateTaken ==
    ASSUME Gates, NEW c \in Contexts, Own(c), NEW k \in Keys,
           Gate(c, k) \notin locked, locked' = locked \cup {Gate(c, k)},
           \A l \in Keys : /\ HasGate(c, l)' <=> HasGate(c, l) \/ l = k
                           /\ Gate(c, l)' = Gate(c, l)
    PROVE  Gates'
<1>1. \A d \in Contexts, l \in Keys :
         /\ HasGate(d, l)' <=> HasGate(d, l) \/ (d = c /\ l = k)
         /\ Gate(d, l)' = Gate(d, l)
  BY OthersGates
<1>2. \A d \in Contexts : HasGate(d, k) => Gate(d, k) # Gate(c, k)
  BY DEF Gates
<1>3. \A d \in Contexts, l \in Keys : HasGate(d, l)' => Gate(d, l)' \in locked'
  BY <1>1 DEF Gates
<1>4. \A d, e \in Contexts, l \in Keys :
         HasGate(d, l)' /\ HasGate(e, l)' /\ Gate(d, l)' = Gate(e, l)' => d = e
  BY <1>1, <1>2 DEF Gates
<1>5. \A g \in locked' : \E d \in Contexts, l \in Keys : HasGate(d, l)' /\ g = Gate(d, l)'
  BY <1>1 DEF Gates
<1> QED
  BY <1>3, <1>4, <1>5 DEF Gates

\* And a step that unlocks what the context itself has locked.
LEMMA GateGiven ==
    ASSUME Gates, NEW c \in Contexts, Own(c), NEW k \in Keys,
           HasGate(c, k), locked' = locked \ {Gate(c, k)},
           \A l \in Keys : /\ HasGate(c, l)' <=> HasGate(c, l) /\ l # k
                           /\ Gate(c, l)' = Gate(c, l)
    PROVE  Gates'
<1>1. \A d \in Contexts, l \in Keys :
         /\ HasGate(d, l)' <=> HasGate(d, l) /\ ~ (d = c /\ l = k)
         /\ Gate(d, l)' = Gate(d, l)
  BY OthersGates
<1>2. \A d \in Contexts, l \in Keys : HasGate(d, l)' => Gate(d, l) # Gate(c, k)
  <2>1. \A d \in Contexts, l \in Keys : Gate(d, l) = Gate(c, k) => l = k
    BY DEF Gate
  <2> QED
    BY <1>1, <2>1 DEF Gates
<1>3. \A d \in Contexts, l \in Keys : HasGate(d, l)' => Gate(d, l)' \in locked'
  BY <1>1, <1>2 DEF Gates
<1>4. \A d, e \in Contexts, l \in Keys :
         HasGate(d, l)' /\ HasGate(e, l)' /\ Gate(d, l)' = Gate(e, l)' => d = e
  BY <1>1 DEF Gates
<1>5. \A g \in locked' : \E d \in Contexts, l \in Keys : HasGate(d, l)' /\ g = Gate(d, l)'
  BY <1>1 DEF Gates
<1> QED
  BY <1>3, <1>4, <1>5 DEF Gates

\* Every step keeps the asyncio locks in order.
LEMMA NextGates ==
    ASSUME KeysAssumption, TypeOK, Progress, Gates, Next
    PROVE  Gates'
<1>1. ASSUME NEW c \in Contexts
      PROVE  InOrder(c) /\ ctx \in [Contexts -> Ctx] /\ ctx[c] \in Ctx
  BY DEF Progress, TypeOK, Ctx
<1>2. ASSUME NEW c \in Contexts, RefKey(c)
      PROVE  Gates'
  <2>1. Own(c) /\ locked' = locked
    BY <1>2, OwnStep DEF Acts, RefKey
  <2>2. NextKey(c) \notin ctx[c].refs
    BY <1>2, KeysInOrder DEF RefKey
  <2>3. /\ ctx[c].pos \in {"idle", "next"} /\ ctx'[c].pos = "gate"
        /\ ctx'[c].entered = ctx[c].entered /\ ctx'[c].home = ctx[c].home
        /\ \A l \in Keys \ {NextKey(c)} : ctx'[c].gen[l] = ctx[c].gen[l]
    <3>1. PICK g : ctx' = [ctx EXCEPT ![c].refs = @ \cup {NextKey(c)},
                                      ![c].gen[NextKey(c)] = g, ![c].pos = "gate"]
      BY <1>2 DEF RefKey
    <3>2. ctx'[c] = [ctx[c] EXCEPT !.refs = @ \cup {NextKey(c)},
                                   !.gen = [@ EXCEPT ![NextKey(c)] = g], !.pos = "gate"]
      BY <1>1, <3>1
    <3>3. ctx[c].pos \in {"idle", "next"}
      BY <1>2 DEF RefKey, At
    <3> QED
      BY <1>1, <3>2, <3>3 DEF Ctx
  <2>4. ASSUME NEW l \in Keys
        PROVE  /\ HasGate(c, l)' <=> l \in ctx[c].entered
               /\ HasGate(c, l) <=> l \in ctx[c].entered
               /\ l \in ctx[c].entered => Gate(c, l)' = Gate(c, l)
    BY <1>1, <2>2, <2>3 DEF HasGate, Gate, InOrder
  <2> QED
    BY <2>1, <2>4, GatesKept
<1>3. ASSUME NEW c \in Contexts, NEW k \in Keys, k = ThisKey(c), Entered(c, k),
             NEW l \in Keys
      PROVE  /\ HasGate(c, l)' <=> l \in ctx[c].entered \/ l = k
             /\ Gate(c, l)' = Gate(c, l)
  <2>1. /\ ctx'[c].entered = ctx[c].entered \cup {k} /\ ctx'[c].pos \in {"held", "next"}
        /\ ctx'[c].home = ctx[c].home /\ ctx'[c].gen = ctx[c].gen
    BY <1>1, <1>3 DEF Entered, Ctx
  <2> QED
    BY <2>1 DEF HasGate, Gate
<1>4. ASSUME NEW c \in Contexts, NEW q, NEW s,
             \/ ctx' = [ctx EXCEPT ![c].pos = q]
             \/ ctx' = [ctx EXCEPT ![c].pos = q, ![c].snap = s],
             NEW l \in Keys
      PROVE  /\ HasGate(c, l)' <=>
                  l \in ctx[c].entered \/ (q \in {"poll", "grant", "steal"} /\ l = ThisKey(c))
             /\ Gate(c, l)' = Gate(c, l)
  <2>1. /\ ctx'[c].entered = ctx[c].entered /\ ctx'[c].pos = q /\ ctx'[c].refs = ctx[c].refs
        /\ ctx'[c].home = ctx[c].home /\ ctx'[c].gen = ctx[c].gen
    BY <1>1, <1>4 DEF Ctx
  <2> QED
    BY <2>1 DEF HasGate, Gate, ThisKey
<1>5. ASSUME NEW c \in Contexts, TakeGate(c)
      PROVE  Gates'
  <2>1. Own(c) /\ ctx[c].pos = "gate"
    BY <1>5, OwnStep DEF Acts, TakeGate, At
  <2>2. PICK k \in Keys : k = ThisKey(c)
    BY <1>1, <2>1, KeysInOrder DEF InOrder, Waiting, Ctx
  <2>3. Gate(c, k) \notin locked /\ locked' = locked \cup {Gate(c, k)}
    BY <1>5, <2>2 DEF TakeGate
  <2>4. ASSUME NEW l \in Keys
        PROVE  (HasGate(c, l)' <=> HasGate(c, l) \/ l = k) /\ Gate(c, l)' = Gate(c, l)
    <3>1. HasGate(c, l) <=> l \in ctx[c].entered
      BY <2>1 DEF HasGate
    <3>2. CASE Multiprocess
      <4>1. ctx' = [ctx EXCEPT ![c].pos = "poll"]
        BY <1>5, <3>2 DEF TakeGate
      <4> QED
        BY <1>4, <2>2, <3>1, <4>1
    <3>3. CASE ~ Multiprocess
      <4>1. Entered(c, k)
        BY <1>5, <2>2, <3>3 DEF TakeGate
      <4> QED
        BY <1>3, <2>2, <3>1, <4>1
    <3> QED
      BY <3>2, <3>3
  <2> QED
    BY <2>1, <2>3, <2>4, GateTaken
<1>6. ASSUME NEW c \in Contexts, TryAcquire(c) \/ Grant(c)
      PROVE  Gates'
  <2>1. Own(c) /\ ctx[c].pos \in {"poll", "grant", "steal"} /\ locked' = locked
    BY <1>6, OwnStep DEF Acts, TryAcquire, Grant, At
  <2>2. PICK k \in Keys : k = ThisKey(c)
    BY <1>1, <2>1, KeysInOrder DEF InOrder, Waiting, Ctx
  <2>3. Entered(c, k) \/ \E q \in {"poll", "grant", "steal"} : \E s :
                              \/ ctx' = [ctx EXCEPT ![c].pos = q]
                              \/ ctx' = [ctx EXCEPT ![c].pos = q, ![c].snap = s]
    <3>1. CASE TryAcquire(c)
      BY <3>1 DEF TryAcquire
    <3>2. CASE Grant(c)
      BY <2>2, <3>2 DEF Grant
    <3> QED
      BY <1>6, <3>1, <3>2
  <2>4. ASSUME NEW l \in Keys
        PROVE  (HasGate(c, l)' <=> HasGate(c, l)) /\ Gate(c, l)' = Gate(c, l)
    <3>1. HasGate(c, l) <=> l \in ctx[c].entered \/ l = k
      BY <2>1, <2>2 DEF HasGate
    <3> QED
      BY <1>3, <1>4, <2>2, <2>3, <3>1
  <2> QED
    BY <2>1, <2>4, GatesKept
<1>7. ASSUME NEW c \in Contexts, Cancel(c) \/ Exit(c)
      PROVE  Gates'
  <2>1. Own(c) /\ ctx[c].pos \in {"gate", "poll", "held"}
        /\ ctx' = [ctx EXCEPT ![c].pos = "leave"]
        /\ locked' = IF ctx[c].pos = "poll" THEN locked \ {Gate(c, ThisKey(c))} ELSE locked
    BY <1>7, OwnStep DEF Acts, Cancel, Exit, At
  <2>2. ASSUME NEW l \in Keys
        PROVE  (HasGate(c, l)' <=> l \in ctx[c].entered) /\ Gate(c, l)' = Gate(c, l)
    <3>1. /\ HasGate(c, l)' <=> l \in ctx[c].entered
                                 \/ ("leave" \in {"poll", "grant", "steal"} /\ l = ThisKey(c))
          /\ Gate(c, l)' = Gate(c, l)
      BY <1>4, <2>1
    <3> QED
      BY <3>1
  <2>3. CASE ctx[c].pos # "poll"
    <3>1. \A l \in Keys : HasGate(c, l) <=> l \in ctx[c].entered
      BY <2>1, <2>3 DEF HasGate
    <3> QED
      BY <2>1, <2>2, <2>3, <3>1, GatesKept
  <2>4. CASE ctx[c].pos = "poll"
    <3>1. PICK k \in Keys : k = ThisKey(c)
      BY <1>1, <2>4, KeysInOrder DEF InOrder, Waiting, Ctx
    <3>2. k \notin ctx[c].entered
      BY <1>1, <2>4, <3>1 DEF InOrder, Waiting
    <3>3. \A l \in Keys : HasGate(c, l) <=> l \in ctx[c].entered \/ l = k
      BY <2>4, <3>1 DEF HasGate
    <3> QED
      BY <2>1, <2>2, <2>4, <3>1, <3>2, <3>3, GateGiven
  <2> QED
    BY <2>3, <2>4
<1>8. ASSUME NEW c \in Contexts, ReleaseKey(c)
      PROVE  Gates'
  <2>1. Own(c) /\ ctx[c].pos = "leave"
    BY <1>8, OwnStep DEF Acts, ReleaseKey, At
  <2>2. PICK k \in Keys : k = ThisKey(c)
    BY <1>1, <1>8, KeysInOrder DEF InOrder, ReleaseKey, Ctx
  <2>3. /\ locked' = IF k \in ctx[c].entered THEN locked \ {Gate(c, k)} ELSE locked
        /\ ctx'[c].entered = ctx[c].entered \ {k} /\ ctx'[c].pos \in {"out", "leave"}
        /\ ctx'[c].home = ctx[c].home /\ ctx'[c].gen = ctx[c].gen
    BY <1>1, <1>8, <2>2 DEF ReleaseKey, Ctx
  <2>4. \A l \in Keys : /\ HasGate(c, l) <=> l \in ctx[c].entered
                        /\ HasGate(c, l)' <=> l \in ctx[c].entered /\ l # k
                        /\ Gate(c, l)' = Gate(c, l)
    BY <2>1, <2>3 DEF HasGate, Gate
  <2>5. CASE k \in ctx[c].entered
    BY <2>1, <2>3, <2>4, <2>5, GateGiven
  <2>6. CASE k \notin ctx[c].entered
    BY <2>1, <2>3, <2>4, <2>6, GatesKept
  <2> QED
    BY <2>5, <2>6
<1>9. ASSUME NEW p \in Procs, Start(p) \/ Die(p)
      PROVE  Gates'
  BY <1>9 DEF Start, Die, Gates, HasGate, Gate, ThisKey
<1> QED
  BY <1>2, <1>5, <1>6, <1>7, <1>8, <1>9 DEF Next, Step

\* In a step of a context every process stays as it is, and every record of the
\* table says what it said.
LEMMA OwnersStay ==
    ASSUME TypeOK, NEW c \in Contexts, Own(c)
    PROVE  /\ \A d \in Contexts : ctx'[d].home = ctx[d].home /\ (Alive(d)' <=> Alive(d))
           /\ \A rec \in Record : Owner(rec)' = Owner(rec)
           /\ \A rec \in Record, k \in Keys : Sound(rec, k) <=> Sound(rec, k)'
<1>1. \A d \in Contexts : ctx'[d].home = ctx[d].home
  BY DEF Own
<1>2. \A rec \in Record : Owner(rec)' = Owner(rec)
  BY <1>1 DEF Owner, Record, Lease
<1> QED
  BY <1>1, <1>2 DEF Own, Alive, Sound

\* Who takes a lease over has looked at the record it takes over.
LEMMA SnapIsRecord ==
    ASSUME TypeOK, Progress, NEW c \in Contexts, ctx[c].pos = "steal"
    PROVE  ctx[c].snap \in Record
BY DEF TypeOK, Progress, InOrder

\* The table of holders stays right when it is not written and nothing is left.
LEMMA LeasesKept ==
    ASSUME TypeOK, Progress, Leases, NEW c \in Contexts, Own(c), holders' = holders, Alive(c),
           ctx[c].entered \subseteq ctx'[c].entered,
           Multiprocess => ctx'[c].entered = ctx[c].entered,
           ctx'[c].pos = "steal" =>
              ctx'[c].snap \in Record /\ proc[Owner(ctx'[c].snap)].life = "dead"
    PROVE  Leases'
<1>0. proc' = proc /\ \A d \in Contexts \ {c} : ctx'[d] = ctx[d]
  BY DEF Own
<1>1. ASSUME NEW k \in Keys, holders'[k] # None
      PROVE  Sound(holders[k], k)'
  <2>1. PICK rec \in Record : rec = holders[k] /\ rec = holders'[k]
    BY <1>1 DEF TypeOK
  <2>2. Sound(rec, k)'
    BY <1>1, <2>1, OwnersStay DEF Leases
  <2> QED
    BY <2>1, <2>2 DEF Sound, Owner
<1>2. ASSUME NEW d \in Contexts, ctx'[d].pos = "steal"
      PROVE  proc'[Owner(ctx[d].snap)'].life = "dead"
  <2>1. PICK rec \in Record : rec = ctx'[d].snap /\ proc[Owner(rec)].life = "dead"
    <3>1. CASE d = c
      BY <1>2, <3>1
    <3>2. CASE d # c
      BY <1>0, <1>2, <3>2, SnapIsRecord DEF Leases
    <3> QED
      BY <3>1, <3>2
  <2>2. Owner(rec)' = Owner(rec)
    BY OwnersStay
  <2> QED
    BY <1>0, <2>1, <2>2 DEF Owner
<1>3. Multiprocess => \A d \in Contexts : Alive(d)' => \A k \in ctx'[d].entered :
              holders'[k] # None /\ holders'[k].lease = [context |-> d, key |-> k]
  BY <1>0, OwnersStay DEF Leases
<1>4. \A d \in Contexts, k \in Keys :
          Alive(d)' /\ holders'[k] # None /\ holders'[k].lease.context = d =>
             k \in ctx'[d].entered
  BY <1>0, OwnersStay DEF Leases
<1>5. \A d \in Contexts : proc'[ctx'[d].home].life = "unborn" => ctx'[d].entered = {}
  BY <1>0, OwnersStay DEF Leases, Alive
<1>6. \A p, q \in Procs :
          proc'[p].life = "alive" /\ proc'[q].life = "alive" /\ proc'[p].pid = proc'[q].pid =>
             p = q
  BY <1>0 DEF Leases
<1> QED
  BY <1>1, <1>2, <1>3, <1>4, <1>5, <1>6 DEF Leases

\* A lease is given for a slot that is empty or whose owner is dead, so nobody alive
\* loses one.
LEMMA LeaseGranted ==
    ASSUME KeysAssumption, TypeOK, Progress, Leases, NEW c \in Contexts, Own(c), Alive(c),
           NEW k \in Keys, NEW r \in Record, holders' = [holders EXCEPT ![k] = r],
           r.lease = [context |-> c, key |-> k], r.owner_pid = proc[ctx[c].home].pid,
           r.start_delta \in {ctx[c].home, None},
           ctx'[c].entered = ctx[c].entered \cup {k}, ctx'[c].pos # "steal",
           holders[k] # None => proc[Owner(holders[k])].life # "alive"
    PROVE  Leases'
<1>0. proc' = proc /\ \A d \in Contexts \ {c} : ctx'[d] = ctx[d]
  BY DEF Own
<1>1. /\ holders'[k] = r /\ \A l \in Keys \ {k} : holders'[l] = holders[l]
      /\ r # None /\ r.lease.context = c /\ r.lease.key = k
  BY DEF TypeOK, KeysAssumption
<1>2. ASSUME NEW l \in Keys, holders'[l] # None
      PROVE  Sound(holders[l], l)'
  <2>1. PICK rec \in Record : rec = holders'[l] /\ (l = k => rec = r) /\
           (l # k => rec = holders[l])
    BY <1>1, <1>2 DEF TypeOK
  <2>2. CASE l = k
    <3>1. Sound(r, k)
      BY <1>1 DEF Sound, Owner, Alive
    <3>2. Sound(rec, l)'
      BY <2>1, <2>2, <3>1, OwnersStay
    <3> QED
      BY <2>1, <3>2 DEF Sound, Owner
  <2>3. CASE l # k
    <3>1. Sound(rec, l)
      BY <1>1, <1>2, <2>1, <2>3 DEF Leases
    <3>2. Sound(rec, l)'
      BY <2>1, <3>1, OwnersStay
    <3> QED
      BY <2>1, <3>2 DEF Sound, Owner
  <2> QED
    BY <2>2, <2>3
<1>3. ASSUME NEW d \in Contexts, ctx'[d].pos = "steal"
      PROVE  proc'[Owner(ctx[d].snap)'].life = "dead"
  <2>1. PICK rec \in Record : rec = ctx'[d].snap /\ proc[Owner(rec)].life = "dead"
    BY <1>0, <1>3, SnapIsRecord DEF Leases
  <2>2. Owner(rec)' = Owner(rec)
    BY OwnersStay
  <2> QED
    BY <1>0, <2>1, <2>2 DEF Owner
<1>4. ASSUME Multiprocess, NEW d \in Contexts, Alive(d)', NEW l \in ctx'[d].entered
      PROVE  holders'[l] # None /\ holders'[l].lease = [context |-> d, key |-> l]
  <2>0. Alive(d) /\ l \in Keys
    BY <1>4, OwnersStay DEF Own, Ctx
  <2>1. CASE d = c /\ l = k
    BY <1>1, <2>1
  <2>2. CASE ~ (d = c /\ l = k)
    <3>1. l \in ctx[d].entered
      BY <1>0, <1>4, <2>2
    <3>2. holders[l] # None /\ holders[l].lease = [context |-> d, key |-> l]
      BY <1>4, <2>0, <3>1 DEF Leases
    <3>3. Owner(holders[l]) = ctx[d].home
      BY <3>2 DEF Owner
    <3>4. proc[Owner(holders[l])].life = "alive"
      BY <2>0, <3>3 DEF Alive
    <3>5. l # k
      BY <3>2, <3>4
    <3> QED
      BY <1>1, <2>0, <3>2, <3>5
  <2> QED
    BY <2>1, <2>2
<1>5. ASSUME NEW d \in Contexts, NEW l \in Keys, Alive(d)', holders'[l] # None,
             holders'[l].lease.context = d
      PROVE  l \in ctx'[d].entered
  <2>1. CASE l = k
    BY <1>1, <1>5, <2>1
  <2>2. CASE l # k
    <3>1. l \in ctx[d].entered
      BY <1>1, <1>5, <2>2, OwnersStay DEF Leases
    <3> QED
      BY <1>0, <3>1
  <2> QED
    BY <2>1, <2>2
<1>6. \A d \in Contexts : proc'[ctx'[d].home].life = "unborn" => ctx'[d].entered = {}
  BY <1>0, OwnersStay DEF Leases, Alive
<1>7. \A p, q \in Procs :
          proc'[p].life = "alive" /\ proc'[q].life = "alive" /\ proc'[p].pid = proc'[q].pid =>
             p = q
  BY <1>0 DEF Leases
<1> QED
  BY <1>2, <1>3, <1>4, <1>5, <1>6, <1>7 DEF Leases

\* A context that gives a key back deletes its own lease of it and no other.
LEMMA LeaseReleased ==
    ASSUME KeysAssumption, TypeOK, Progress, Leases, NEW c \in Contexts, Own(c), Alive(c),
           NEW k \in Keys, ReleaseLease(c, k),
           ctx'[c].entered = ctx[c].entered \ {k}, ctx'[c].pos # "steal"
    PROVE  Leases'
<1>0. proc' = proc /\ \A d \in Contexts \ {c} : ctx'[d] = ctx[d]
  BY DEF Own
<1>1. /\ \A l \in Keys : holders'[l] # None => holders'[l] = holders[l]
      /\ \A l \in Keys : l # k => holders'[l] = holders[l]
      /\ holders'[k] # holders[k] =>
            k \in ctx[c].entered /\ holders[k].lease = [context |-> c, key |-> k]
      /\ holders'[k] # None => ~ (k \in ctx[c].entered
                                   /\ holders[k].lease = [context |-> c, key |-> k])
  BY DEF ReleaseLease, TypeOK
<1>2. ASSUME NEW l \in Keys, holders'[l] # None
      PROVE  Sound(holders[l], l)'
  <2>1. PICK rec \in Record : rec = holders'[l] /\ rec = holders[l]
    BY <1>1, <1>2 DEF TypeOK
  <2>2. Sound(rec, l)'
    BY <1>2, <2>1, OwnersStay DEF Leases
  <2> QED
    BY <2>1, <2>2 DEF Sound, Owner
<1>3. ASSUME NEW d \in Contexts, ctx'[d].pos = "steal"
      PROVE  proc'[Owner(ctx[d].snap)'].life = "dead"
  <2>1. PICK rec \in Record : rec = ctx'[d].snap /\ proc[Owner(rec)].life = "dead"
    BY <1>0, <1>3, SnapIsRecord DEF Leases
  <2>2. Owner(rec)' = Owner(rec)
    BY OwnersStay
  <2> QED
    BY <1>0, <2>1, <2>2 DEF Owner
<1>4. ASSUME Multiprocess, NEW d \in Contexts, Alive(d)', NEW l \in ctx'[d].entered
      PROVE  holders'[l] # None /\ holders'[l].lease = [context |-> d, key |-> l]
  <2>1. Alive(d) /\ l \in Keys /\ l \in ctx[d].entered /\ ~ (d = c /\ l = k)
    BY <1>0, <1>4, OwnersStay DEF Own, Ctx
  <2>2. holders[l] # None /\ holders[l].lease = [context |-> d, key |-> l]
    BY <1>4, <2>1 DEF Leases
  <2>3. holders'[l] = holders[l]
    <3>1. CASE l = k
      <4>1. [context |-> d, key |-> l] # [context |-> c, key |-> k]
        BY <2>1, <3>1
      <4> QED
        BY <1>1, <2>2, <3>1, <4>1
    <3> QED
      BY <1>1, <2>1, <3>1
  <2> QED
    BY <2>2, <2>3
<1>5. ASSUME NEW d \in Contexts, NEW l \in Keys, Alive(d)', holders'[l] # None,
             holders'[l].lease.context = d
      PROVE  l \in ctx'[d].entered
  <2>1. Alive(d) /\ holders[l] = holders'[l] /\ l \in ctx[d].entered
    BY <1>1, <1>5, OwnersStay DEF Leases
  <2>2. CASE d = c /\ l = k
    <3>1. holders[l] \in Record /\ holders[l].lease.key = l
      BY <1>5, <2>1 DEF TypeOK, Leases, Sound
    <3>2. holders[l].lease = [context |-> c, key |-> k]
      BY <1>5, <2>1, <2>2, <3>1 DEF Record, Lease
    <3> QED
      BY <1>1, <1>5, <2>1, <2>2, <3>2
  <2>3. CASE ~ (d = c /\ l = k)
    BY <1>0, <2>1, <2>3
  <2> QED
    BY <2>2, <2>3
<1>6. \A d \in Contexts : proc'[ctx'[d].home].life = "unborn" => ctx'[d].entered = {}
  BY <1>0, OwnersStay DEF Leases, Alive
<1>7. \A p, q \in Procs :
          proc'[p].life = "alive" /\ proc'[q].life = "alive" /\ proc'[p].pid = proc'[q].pid =>
             p = q
  BY <1>0 DEF Leases
<1> QED
  BY <1>2, <1>3, <1>4, <1>5, <1>6, <1>7 DEF Leases

\* A holder that is judged dead is dead: its pid is nobody's, or the process that
\* has the pid was started after the record was made.
LEMMA JudgedDead ==
    ASSUME KeysAssumption, TypeOK, Leases, NEW k \in Keys, holders[k] # None,
           TRUE \in HolderDead(holders[k])
    PROVE  holders[k] \in Record /\ proc[Owner(holders[k])].life = "dead"
<1> DEFINE rec == holders[k]
<1>1. rec \in Record /\ Sound(rec, k) /\ Owner(rec) \in Procs
  <2>1. rec \in Record
    BY DEF TypeOK
  <2>2. Owner(rec) \in Procs
    BY <2>1 DEF TypeOK, Record, Lease, Owner
  <2>3. Sound(rec, k)
    BY DEF Leases
  <2> QED
    BY <2>1, <2>2, <2>3
<1>2. proc[Owner(rec)].life \in {"alive", "dead"}
  BY <1>1 DEF Sound, TypeOK
<1>3. ASSUME proc[Owner(rec)].life = "alive"
      PROVE  FALSE
  <2>1. PidAlive(rec.owner_pid)
    BY <1>1, <1>3 DEF PidAlive, Sound
  <2>2. PICK d \in StartDelta(rec.owner_pid) :
          rec.start_delta # None /\ d # None /\ d # rec.start_delta
    BY <2>1 DEF HolderDead
  <2>3. rec.start_delta = Owner(rec) /\ d \in Procs
        /\ proc[d].pid = rec.owner_pid /\ proc[d].life = "alive"
    BY <1>1, <2>2 DEF StartDelta, Sound
  <2> QED
    BY <1>1, <1>3, <2>2, <2>3 DEF Leases, Sound
<1> QED
  BY <1>1, <1>2, <1>3

\* Every step keeps the table of holders right.
LEMMA NextLeases ==
    ASSUME KeysAssumption, TypeOK, Progress, Leases, Next
    PROVE  Leases'
<1>1. ASSUME NEW c \in Contexts
      PROVE  InOrder(c) /\ ctx \in [Contexts -> Ctx] /\ ctx[c] \in Ctx
  BY DEF Progress, TypeOK, Ctx
<1>2. ASSUME NEW c \in Contexts, RefKey(c)
      PROVE  Leases'
  <2>1. Own(c) /\ holders' = holders /\ Alive(c)
    BY <1>2, OwnStep DEF Acts, RefKey, At
  <2>2. ctx'[c].entered = ctx[c].entered /\ ctx'[c].pos = "gate"
    BY <1>1, <1>2 DEF RefKey, Ctx
  <2> QED
    BY <2>1, <2>2, LeasesKept
<1>3. ASSUME NEW c \in Contexts, TakeGate(c)
      PROVE  Leases'
  <2>1. Own(c) /\ holders' = holders /\ Alive(c)
    BY <1>3, OwnStep DEF Acts, TakeGate, At
  <2>2. CASE Multiprocess
    <3>1. ctx' = [ctx EXCEPT ![c].pos = "poll"]
      BY <1>3, <2>2 DEF TakeGate
    <3>2. ctx'[c].entered = ctx[c].entered /\ ctx'[c].pos = "poll"
      BY <1>1, <3>1 DEF Ctx
    <3> QED
      BY <2>1, <3>2, LeasesKept
  <2>3. CASE ~ Multiprocess
    <3>1. Entered(c, ThisKey(c))
      BY <1>3, <2>3 DEF TakeGate
    <3>2. ctx[c].entered \subseteq ctx'[c].entered /\ ctx'[c].pos \in {"held", "next"}
      BY <1>1, <3>1 DEF Entered, Ctx
    <3> QED
      BY <2>1, <2>3, <3>2, LeasesKept
  <2> QED
    BY <2>2, <2>3
<1>4. ASSUME NEW c \in Contexts, TryAcquire(c)
      PROVE  Leases'
  <2>1. Own(c) /\ holders' = holders /\ Alive(c) /\ ctx[c].pos = "poll"
    BY <1>4, OwnStep DEF Acts, TryAcquire, At
  <2>2. PICK k \in Keys : k = ThisKey(c)
    BY <1>1, <2>1, KeysInOrder DEF InOrder, Waiting, Ctx
  <2>3. CASE ctx' = [ctx EXCEPT ![c].pos = "grant"]
    <3>1. ctx'[c].entered = ctx[c].entered /\ ctx'[c].pos = "grant"
      BY <1>1, <2>3 DEF Ctx
    <3> QED
      BY <2>1, <3>1, LeasesKept
  <2>4. CASE /\ holders[k] # None /\ TRUE \in HolderDead(holders[k])
             /\ ctx' = [ctx EXCEPT ![c].pos = "steal", ![c].snap = holders[k]]
    <3>1. ctx'[c].entered = ctx[c].entered /\ ctx'[c].snap = holders[k]
      BY <1>1, <2>4 DEF Ctx
    <3>2. holders[k] \in Record /\ proc[Owner(holders[k])].life = "dead"
      BY <2>4, JudgedDead
    <3>3. ctx'[c].snap \in Record /\ proc[Owner(ctx'[c].snap)].life = "dead"
      BY <3>1, <3>2
    <3> QED
      BY <2>1, <3>1, <3>3, LeasesKept
  <2> QED
    BY <1>4, <2>2, <2>3, <2>4 DEF TryAcquire
<1>5. ASSUME NEW c \in Contexts, Grant(c)
      PROVE  Leases'
  <2>1. Own(c) /\ Alive(c) /\ ctx[c].pos \in {"grant", "steal"}
    BY <1>5, OwnStep DEF Acts, Grant, At
  <2>2. PICK k \in Keys : k = ThisKey(c)
    BY <1>1, <2>1, KeysInOrder DEF InOrder, Waiting, Ctx
  <2>3. CASE holders' = holders /\ ctx' = [ctx EXCEPT ![c].pos = "poll", ![c].snap = None]
    <3>1. ctx'[c].entered = ctx[c].entered /\ ctx'[c].pos = "poll"
      BY <1>1, <2>3 DEF Ctx
    <3> QED
      BY <2>1, <2>3, <3>1, LeasesKept
  <2>4. CASE /\ IF ctx[c].snap = None THEN holders[k] = None
                ELSE holders[k] # None /\ holders[k].lease = ctx[c].snap.lease
             /\ \E rec \in Stamp(c) : holders' = [holders EXCEPT ![k] = rec]
             /\ Entered(c, k)
    <3>1. PICK r \in Stamp(c) : holders' = [holders EXCEPT ![k] = r]
      BY <2>4
    <3>2. ctx[c].home \in Procs /\ proc[ctx[c].home].life = "alive"
          /\ proc[ctx[c].home].pid \in Pids
      BY <2>1 DEF TypeOK, Alive
    <3>3. PICK d \in StartDelta(proc[ctx[c].home].pid) :
            r = [lease |-> [context |-> c, key |-> k],
                 owner_pid |-> proc[ctx[c].home].pid, start_delta |-> d]
      BY <2>2, <3>1 DEF Stamp
    <3>4. d \in {ctx[c].home, None}
      BY <3>2, <3>3 DEF StartDelta, Leases
    <3>5. /\ r \in Record /\ r.lease = [context |-> c, key |-> k]
          /\ r.owner_pid = proc[ctx[c].home].pid /\ r.start_delta \in {ctx[c].home, None}
      BY <3>2, <3>3, <3>4 DEF Record, Lease
    <3>6. ctx'[c].entered = ctx[c].entered \cup {k} /\ ctx'[c].pos \in {"held", "next"}
      BY <1>1, <2>4 DEF Entered, Ctx
    <3>7. holders[k] # None => proc[Owner(holders[k])].life # "alive"
      <4>1. ASSUME holders[k] # None
            PROVE  ctx[c].pos = "steal" /\ Owner(holders[k]) = Owner(ctx[c].snap)
        BY <1>1, <2>4, <4>1 DEF InOrder, Owner
      <4> QED
        BY <4>1 DEF Leases
    <3> QED
      BY <2>1, <3>1, <3>5, <3>6, <3>7, LeaseGranted
  <2> QED
    BY <1>5, <2>2, <2>3, <2>4 DEF Grant
<1>6. ASSUME NEW c \in Contexts, Cancel(c) \/ Exit(c)
      PROVE  Leases'
  <2>1. Own(c) /\ holders' = holders /\ Alive(c) /\ ctx' = [ctx EXCEPT ![c].pos = "leave"]
    BY <1>6, OwnStep DEF Acts, Cancel, Exit, At
  <2>2. ctx'[c].entered = ctx[c].entered /\ ctx'[c].pos = "leave"
    BY <1>1, <2>1 DEF Ctx
  <2> QED
    BY <2>1, <2>2, LeasesKept
<1>7. ASSUME NEW c \in Contexts, ReleaseKey(c)
      PROVE  Leases'
  <2>1. Own(c) /\ Alive(c)
    BY <1>7, OwnStep DEF Acts, ReleaseKey, At
  <2>2. PICK k \in Keys : k = ThisKey(c)
    BY <1>1, <1>7, KeysInOrder DEF InOrder, ReleaseKey, Ctx
  <2>3. ReleaseLease(c, k)
    BY <1>7, <2>2 DEF ReleaseKey
  <2>4. ctx'[c].entered = ctx[c].entered \ {k} /\ ctx'[c].pos \in {"out", "leave"}
    BY <1>1, <1>7, <2>2 DEF ReleaseKey, Ctx
  <2> QED
    BY <2>1, <2>2, <2>3, <2>4, LeaseReleased
<1>8. ASSUME NEW p \in Procs, Start(p) \/ Die(p)
      PROVE  Leases'
  <2>1. /\ ctx' = ctx /\ holders' = holders
        /\ \A q \in Procs : proc'[q].pid = proc[q].pid
        /\ \A q \in Procs \ {p} : proc'[q] = proc[q]
        /\ \/ proc[p].life = "unborn" /\ ~ PidAlive(proc[p].pid) /\ proc'[p].life = "alive"
           \/ proc[p].life = "alive" /\ proc'[p].life = "dead"
    <3>1. proc \in [Procs -> [pid : Pids, life : {"unborn", "alive", "dead"}]]
      BY DEF TypeOK
    <3>2. CASE Start(p)
      BY <3>1, <3>2 DEF Start
    <3>3. CASE Die(p)
      BY <3>1, <3>3 DEF Die
    <3> QED
      BY <1>8, <3>2, <3>3
  <2>2. \A c \in Contexts : ctx[c].home \in Procs
    BY DEF TypeOK
  <2>3. \A q, r \in Procs :
          proc'[q].life = "alive" /\ proc'[r].life = "alive" /\ proc'[q].pid = proc'[r].pid =>
             q = r
    BY <2>1 DEF PidAlive, Leases
  <2>4. ASSUME NEW k \in Keys, holders'[k] # None
        PROVE  Sound(holders[k], k)'
    <3>1. PICK rec \in Record : rec = holders[k] /\ Owner(rec) \in Procs
      BY <2>1, <2>2, <2>4 DEF TypeOK, Record, Lease, Owner
    <3>2. Sound(rec, k)
      BY <2>1, <2>4, <3>1 DEF Leases
    <3> QED
      BY <2>1, <3>1, <3>2 DEF Sound, Owner
  <2>5. ASSUME NEW c \in Contexts, ctx'[c].pos = "steal"
        PROVE  proc'[Owner(ctx[c].snap)'].life = "dead"
    <3>1. Owner(ctx[c].snap) \in Procs /\ proc[Owner(ctx[c].snap)].life = "dead"
      BY <2>1, <2>2, <2>5, SnapIsRecord DEF Leases, Record, Lease, Owner
    <3> QED
      BY <2>1, <3>1 DEF Owner
  <2>6. \A c \in Contexts : Alive(c)' => ctx[c].entered = {} \/ Alive(c)
    BY <2>1, <2>2 DEF Alive, Leases
  <2>7. \A c \in Contexts, k \in Keys : holders[k] # None /\ holders[k].lease.context = c /\
           Alive(c)'
           => Alive(c)
    <3>1. \A c \in Contexts, k \in Keys : holders[k] # None /\ holders[k].lease.context = c =>
             proc[ctx[c].home].life # "unborn"
      <4>1. \A k \in Keys : holders[k] # None => Sound(holders[k], k)
        BY DEF Leases
      <4> QED
        BY <4>1 DEF Sound, Owner
    <3> QED
      BY <2>1, <2>2, <3>1 DEF Alive
  <2>8. \A c \in Contexts : proc'[ctx'[c].home].life = "unborn" => ctx'[c].entered = {}
    BY <2>1, <2>2 DEF Leases
  <2> QED
    BY <2>1, <2>3, <2>4, <2>5, <2>6, <2>7, <2>8 DEF Leases
<1> QED
  BY <1>2, <1>3, <1>4, <1>5, <1>6, <1>7, <1>8 DEF Next, Step

-----------------------------------------------------------------------------
(* The theorems *)

\* The initial states satisfy the invariant.
LEMMA InitInv ==
    ASSUME KeysAssumption, Init
    PROVE  IInv
<1>1. \A c \in Contexts : /\ ctx[c].home \in Procs /\ ctx[c].keys \in SUBSET Keys
                          /\ ctx[c].pos = "idle" /\ ctx[c].refs = {} /\ ctx[c].entered = {}
                          /\ ctx[c].snap = None /\ ctx[c] \in Ctx
  BY DEF Init, Ctx, Pos, Waiting
<1>2. TypeOK
  <2>1. ctx \in [Contexts -> Ctx]
    BY <1>1 DEF Init
  <2>2. table \in [Procs -> [Keys -> [gen : Nat, count : Nat]]]
    BY DEF Init
  <2>3. holders \in [Keys -> Record \cup {None}] /\ locked \subseteq Procs \X Keys \X Nat
    BY DEF Init
  <2>4. proc \in [Procs -> [pid : Pids, life : {"unborn", "alive", "dead"}]]
    BY DEF Init
  <2> QED
    BY <2>1, <2>2, <2>3, <2>4 DEF TypeOK, Ctx
<1>3. Progress
  BY <1>1 DEF Progress, InOrder, Waiting
<1>4. Counted
  <2>1. \A p \in Procs, k \in Keys : Users(p, k) = {} /\ table[p][k].count = 0
    BY <1>1 DEF Users, Init
  <2> QED
    BY <2>1, FS_EmptySet DEF Counted
<1>5. Gates
  BY <1>1 DEF Gates, HasGate, Init
<1>6. Leases
  <2>1. \A p \in Procs : proc[p].life = "unborn"
    BY DEF Init
  <2>2. \A k \in Keys : holders[k] = None
    BY DEF Init
  <2> QED
    BY <1>1, <2>1, <2>2 DEF Leases, Alive
<1> QED
  BY <1>2, <1>3, <1>4, <1>5, <1>6 DEF IInv

\* Every step keeps the invariant.
LEMMA NextInv ==
    ASSUME KeysAssumption, IInv, [Next]_vars
    PROVE  IInv'
<1>1. CASE Next
  BY <1>1, NextTyped, NextInOrder, NextCounted, NextGates, NextLeases DEF IInv
<1>2. CASE UNCHANGED vars
  <2> USE <1>2 DEF vars, IInv
  <2>1. TypeOK'
    BY DEF TypeOK
  <2>2. Progress'
    BY DEF Progress, InOrder, ThisKey
  <2>3. Counted'
    BY DEF Counted, Users
  <2>4. Gates'
    BY DEF Gates, HasGate, Gate, ThisKey
  <2>5. Leases'
    <3>1. ctx' = ctx /\ holders' = holders /\ proc' = proc
      OBVIOUS
    <3>2. \A k \in Keys : Sound(holders[k], k)' <=> Sound(holders[k], k)
      BY <3>1 DEF Sound, Owner
    <3>3. \A c \in Contexts : /\ Alive(c)' <=> Alive(c)
                              /\ Owner(ctx[c].snap)' = Owner(ctx[c].snap)
      BY <3>1 DEF Alive, Owner
    <3> QED
      BY <3>1, <3>2, <3>3 DEF Leases
  <2> QED
    BY <2>1, <2>2, <2>3, <2>4, <2>5
<1> QED
  BY <1>1, <1>2

\* The invariant holds throughout.
THEOREM InvariantHolds == ASSUME KeysAssumption PROVE Spec => []IInv
<1>1. Init => IInv
  BY InitInv
<1>2. IInv /\ [Next]_vars => IInv'
  BY NextInv
<1> QED
  BY <1>1, <1>2, PTL DEF Spec

\* The variables of _KeyedLockContext, _async_lock_count and the KeyedHolderTable
\* keep their types; a count never becomes negative.
THEOREM TypeCorrect == ASSUME KeysAssumption PROVE Spec => []TypeOK
<1>1. IInv => TypeOK
  BY DEF IInv
<1> QED
  BY <1>1, InvariantHolds, PTL

\* Whoever has entered a key owns the asyncio lock of its process and, between
\* processes, the lease.  In one process two owners would own the same lock object;
\* in two processes the record in the table would name both.
LEMMA ExclusionFollows ==
    ASSUME KeysAssumption, IInv
    PROVE  MutualExclusion
<1> SUFFICES ASSUME NEW c \in Contexts, NEW d \in Contexts, NEW k \in Keys,
                    Holds(c, k), Holds(d, k)
             PROVE  c = d
  BY DEF MutualExclusion
<1>1. CASE Multiprocess
  <2>1. /\ holders[k].lease = [context |-> c, key |-> k]
        /\ holders[k].lease = [context |-> d, key |-> k]
    BY <1>1 DEF IInv, Leases, Holds
  <2>2. c = [context |-> c, key |-> k].context /\ d = [context |-> d, key |-> k].context
    OBVIOUS
  <2> QED
    BY <2>1, <2>2
<1>2. CASE ~ Multiprocess
  <2>1. PICK p \in Procs : Procs = {p}
    BY <1>2 DEF KeysAssumption
  <2>2. ctx[c].home = p /\ ctx[d].home = p
    BY <2>1 DEF IInv, TypeOK
  <2>3. k \in ctx[c].refs /\ k \in ctx[d].refs
    BY DEF IInv, Progress, InOrder, Holds
  <2>4. ctx[c].gen[k] = ctx[d].gen[k]
    <3>1. c \in Users(p, k) /\ d \in Users(p, k)
      BY <2>2, <2>3 DEF Users
    <3> QED
      BY <2>1, <3>1 DEF IInv, Counted
  <2>5. HasGate(c, k) /\ HasGate(d, k) /\ Gate(c, k) = Gate(d, k)
    BY <2>2, <2>4 DEF HasGate, Holds, Gate
  <2> QED
    BY <2>5 DEF IInv, Gates
<1> QED
  BY <1>1, <1>2

\* Two live contexts never hold the same key of get_storage_keyed_lock, in one
\* process or in two, whatever was cancelled, rolled back or taken over.
THEOREM KeysAreExclusive == ASSUME KeysAssumption PROVE Spec => []MutualExclusion
<1>1. IInv => MutualExclusion
  BY ExclusionFollows
<1> QED
  BY <1>1, InvariantHolds, PTL

\* The references that are counted are those of the live processes, too.
LEMMA CountsFollow == IInv => RefCountExact
BY DEF IInv, Counted, RefCountExact

\* _async_lock_count is the number of contexts that refer to the lock, and all of
\* them refer to the object that _async_lock has.
THEOREM CountsAreExact == ASSUME KeysAssumption PROVE Spec => []RefCountExact
<1>1. IInv => RefCountExact
  BY CountsFollow
<1> QED
  BY <1>1, InvariantHolds, PTL

\* Whoever has left, or was cancelled on its way in, leaves neither an asyncio lock
\* nor a lease behind.
LEMMA NothingLeaksFollows ==
    ASSUME KeysAssumption, IInv
    PROVE  NothingLeaks
<1> SUFFICES ASSUME NEW c \in Contexts, Alive(c), ctx[c].pos = "out", NEW k \in Keys
             PROVE  /\ Gate(c, k) \in locked =>
                         \E d \in Contexts \ {c} : Gate(d, k) = Gate(c, k) /\ k \in ctx[d].refs
                    /\ holders[k] # None => holders[k].lease.context # c
  BY DEF NothingLeaks
<1>1. ctx[c].refs = {} /\ ctx[c].entered = {}
  BY DEF IInv, Progress, InOrder
<1>2. ASSUME Gate(c, k) \in locked
      PROVE  \E d \in Contexts \ {c} : Gate(d, k) = Gate(c, k) /\ k \in ctx[d].refs
  <2>1. PICK d \in Contexts, l \in Keys : HasGate(d, l) /\ Gate(c, k) = Gate(d, l)
    BY <1>2 DEF IInv, Gates
  <2>2. l = k
    BY <2>1 DEF Gate
  <2>3. k \in ctx[d].refs
    <3>1. CASE k \in ctx[d].entered
      BY <3>1 DEF IInv, Progress, InOrder
    <3>2. CASE ctx[d].pos \in {"poll", "grant", "steal"} /\ k = ThisKey(d)
      <4>1. ctx[d].refs # {}
        BY <3>2 DEF IInv, Progress, InOrder, Waiting
      <4> QED
        BY <3>2, <4>1, KeysInOrder DEF IInv
    <3> QED
      BY <2>1, <2>2, <3>1, <3>2 DEF HasGate
  <2> QED
    BY <1>1, <2>1, <2>2, <2>3
<1>3. holders[k] # None => holders[k].lease.context # c
  BY <1>1 DEF IInv, Leases
<1> QED
  BY <1>2, <1>3

\* A context of a live process that is out leaves nothing locked and no lease.
THEOREM NothingIsLeft == ASSUME KeysAssumption PROVE Spec => []NothingLeaks
<1>1. IInv => NothingLeaks
  BY NothingLeaksFollows
<1> QED
  BY <1>1, InvariantHolds, PTL
-----------------------------------------------------------------------------
(* The cross-process gate: for every number of processes, any limit and any delays, it
   never records more leases than the limit, and a live owner loses its lease only when
   it was silent for as long as the heartbeat and the grace together, and was looked at
   before. *)

CONSTANTS LeaseIds, Limit, Ttl, Grace, StaleTtl, MaxTime

VARIABLES now, alive, leases, waiters, held, renewed, favored

Slots == INSTANCE GlobalSlots

\* The sets of the gate are counted as those of the locks are.
LEMMA SameCount == \A S : Slots!Cardinality(S) = Cardinality(S) /\
   (Slots!IsFiniteSet(S) <=> IsFiniteSet(S))
  BY DEF Slots!Cardinality, Cardinality, Slots!IsFiniteSet, IsFiniteSet

-----------------------------------------------------------------------------
(* The inductive invariant *)

\* What the gate and the owner of a lease know of each other: the lease has the
\* owner's last heartbeat, it became a suspect only when the heartbeat had expired,
\* and it is gone only when the suspicion had lasted.
Known(l, p) ==
    IF leases[l] = None THEN now - renewed[l] > Ttl + Grace
    ELSE /\ leases[l].pid = p /\ leases[l].updated_at = renewed[l]
         /\ leases[l].suspect_since # None => leases[l].suspect_since - renewed[l] > Ttl

\* Every lease that is held is held by one live process that the gate knows.
Heartbeats ==
    /\ \A p, q \in Procs : \A l \in held[p] \cap held[q] : p = q
    /\ \A p \in Procs \ alive : held[p] = {}
    /\ \A p \in Procs : \A l \in held[p] : Known(l, p)

SlotsInv == Slots!TypeOK /\ Slots!CapIsExact /\ Heartbeats

-----------------------------------------------------------------------------
(* One pass of _reap_gate_state *)

\* A pass keeps the types, adds no lease and forgets no live waiter.
LEMMA ReapTyped ==
    ASSUME Slots!SlotsAssumption, Slots!TypeOK
    PROVE  /\ Slots!ReapedLeases \in [LeaseIds -> Slots!Lease \cup {None}]
           /\ \A l \in LeaseIds : leases[l] = None => Slots!ReapedLeases[l] = None
           /\ Slots!ReapedWaiters \in [Procs -> Slots!Waiter \cup {None}]
<1>1. ASSUME NEW l \in LeaseIds
      PROVE  Slots!Reaped(l) \in Slots!Lease \cup {None} /\
                (leases[l] = None => Slots!Reaped(l) = None)
  <2>1. CASE leases[l] = None
    BY <2>1 DEF Slots!Reaped
  <2>2. CASE leases[l] # None
    <3>1. PICK x \in Slots!Lease : x = leases[l]
      BY <2>2 DEF Slots!TypeOK
    <3>2. [x EXCEPT !.suspect_since = None] \in Slots!Lease
      BY DEF Slots!Lease
    <3>3. [x EXCEPT !.suspect_since = now] \in Slots!Lease
      BY DEF Slots!Lease, Slots!TypeOK
    <3> QED
      BY <2>2, <3>1, <3>2, <3>3 DEF Slots!Reaped
  <2> QED
    BY <2>1, <2>2
<1>2. Slots!ReapedWaiters \in [Procs -> Slots!Waiter \cup {None}]
  BY DEF Slots!ReapedWaiters, Slots!TypeOK
<1> QED
  BY <1>1, <1>2 DEF Slots!ReapedLeases

\* What a pass leaves of the lease of a live owner: it is the owner's still, or the
\* owner was silent for as long as the heartbeat and the grace.
LEMMA ReapKnown ==
    ASSUME Slots!SlotsAssumption, Slots!TypeOK, Heartbeats, NEW p \in alive, NEW l \in held[p]
    PROVE  /\ Slots!ReapedLeases[l] = None => now - renewed[l] > Ttl + Grace
           /\ Slots!ReapedLeases[l] # None =>
                /\ Slots!ReapedLeases[l].pid = p /\ Slots!ReapedLeases[l].updated_at = renewed[l]
                /\ Slots!ReapedLeases[l].suspect_since # None =>
                      Slots!ReapedLeases[l].suspect_since - renewed[l] > Ttl
           /\ leases[l] # None /\ Slots!ReapedLeases[l] = None =>
                leases[l].suspect_since # None /\ now - leases[l].suspect_since > Grace
<1>1. p \in Procs /\ l \in LeaseIds /\ Known(l, p) /\ Slots!ReapedLeases[l] = Slots!Reaped(l)
  BY DEF Slots!TypeOK, Heartbeats, Slots!ReapedLeases
<1>2. now \in Nat /\ renewed[l] \in Nat /\ Ttl \in Nat /\ Grace \in Nat /\ None \notin Slots!Lease
  BY <1>1 DEF Slots!TypeOK, Slots!Time, Slots!SlotsAssumption
<1>3. CASE leases[l] = None
  BY <1>1, <1>3 DEF Known, Slots!Reaped
<1>4. CASE leases[l] # None
  <2>1. PICK x \in Slots!Lease : x = leases[l]
    BY <1>1, <1>4 DEF Slots!TypeOK
  <2>2. /\ x.pid = p /\ x.updated_at = renewed[l]
        /\ x.suspect_since # None => x.suspect_since \in Nat /\ x.suspect_since - renewed[l] > Ttl
    BY <1>1, <1>4, <2>1 DEF Known, Slots!Lease, Slots!Time
  <2>3. /\ [x EXCEPT !.suspect_since = None] = [pid |-> p, updated_at |-> renewed[l],
              suspect_since |-> None]
        /\ [x EXCEPT !.suspect_since = now] = [pid |-> p, updated_at |-> renewed[l],
              suspect_since |-> now]
        /\ [x EXCEPT !.suspect_since = None] \in Slots!Lease
        /\ [x EXCEPT !.suspect_since = now] \in Slots!Lease
    BY <2>2 DEF Slots!Lease, Slots!TypeOK
  <2>4. Slots!Reaped(l) = IF now - renewed[l] <= Ttl
                    THEN [pid |-> p, updated_at |-> renewed[l], suspect_since |-> None]
                    ELSE IF x.suspect_since = None
                    THEN [pid |-> p, updated_at |-> renewed[l], suspect_since |-> now]
                    ELSE IF now - x.suspect_since > Grace THEN None
                    ELSE x
    BY <1>4, <2>1, <2>2, <2>3 DEF Slots!Reaped
  <2>5. CASE now - renewed[l] <= Ttl
    BY <1>1, <1>2, <1>4, <2>3, <2>4, <2>5
  <2>6. CASE now - renewed[l] > Ttl /\ x.suspect_since = None
    BY <1>1, <1>2, <1>4, <2>3, <2>4, <2>6
  <2>7. CASE now - renewed[l] > Ttl /\ x.suspect_since # None
    BY <1>1, <1>2, <1>4, <2>1, <2>2, <2>4, <2>7
  <2> QED
    BY <1>2, <2>5, <2>6, <2>7
<1> QED
  BY <1>3, <1>4

\* Leases that only vanish stay within the limit.
LEMMA FewerInUse ==
    ASSUME Slots!SlotsAssumption, NEW f, NEW g,
           \A l \in LeaseIds : f[l] = None => g[l] = None
    PROVE  Slots!InUse(g) =< Slots!InUse(f) /\ Slots!InUse(g) \in Nat /\ Slots!InUse(f) \in Nat
<1> DEFINE F == {l \in LeaseIds : f[l] # None}
           G == {l \in LeaseIds : g[l] # None}
<1>1. IsFiniteSet(F) /\ G \subseteq F
  BY FS_Subset, SameCount DEF Slots!SlotsAssumption
<1>2. Cardinality(G) =< Cardinality(F) /\ IsFiniteSet(G)
  BY <1>1, FS_Subset
<1> QED
  BY <1>1, <1>2, FS_CardinalityType, SameCount DEF Slots!InUse

\* One more lease is one more in use.
LEMMA OneMoreInUse ==
    ASSUME Slots!SlotsAssumption, NEW f \in [LeaseIds -> Slots!Lease \cup {None}],
           NEW l \in LeaseIds,
           NEW x
    PROVE  Slots!InUse([f EXCEPT ![l] = x]) =< Slots!InUse(f) + 1
<1> DEFINE g == [f EXCEPT ![l] = x]
           F == {k \in LeaseIds : f[k] # None}
           G == {k \in LeaseIds : g[k] # None}
<1>1. IsFiniteSet(F) /\ G \subseteq F \cup {l}
  BY FS_Subset, SameCount DEF Slots!SlotsAssumption
<1>2. IsFiniteSet(F \cup {l}) /\ Cardinality(F \cup {l}) =< Cardinality(F) + 1
  <2>1. IsFiniteSet(F)
    BY <1>1
  <2> HIDE DEF F
  <2>2. /\ IsFiniteSet(F \cup {l})
        /\ Cardinality(F \cup {l}) = Cardinality(F) \/
              Cardinality(F \cup {l}) = Cardinality(F) + 1
    BY <2>1, FS_AddElement, Zenon
  <2>3. Cardinality(F) \in Nat
    BY <2>1, FS_CardinalityType
  <2> QED
    BY <2>2, <2>3
<1>3. Cardinality(G) =< Cardinality(F \cup {l}) /\ IsFiniteSet(G)
  BY <1>1, <1>2, FS_Subset
<1> QED
  BY <1>1, <1>2, <1>3, FS_CardinalityType, SameCount DEF Slots!InUse

-----------------------------------------------------------------------------
(* The steps *)

\* A step that takes a look at the gate and changes nobody's holdings.
LEMMA LookKeeps ==
    ASSUME Slots!SlotsAssumption, SlotsInv, leases' = Slots!ReapedLeases, held' = held,
           renewed' = renewed,
           alive' = alive, now' = now
    PROVE  Slots!CapIsExact' /\ Heartbeats'
<1>1. Slots!CapIsExact'
  <2>1. Slots!InUse(Slots!ReapedLeases) =< Slots!InUse(leases) /\
           Slots!InUse(Slots!ReapedLeases) \in Nat /\ Slots!InUse(leases) \in Nat
    BY ReapTyped, FewerInUse DEF SlotsInv
  <2>2. Slots!InUse(leases)' = Slots!InUse(Slots!ReapedLeases)
    BY DEF Slots!InUse
  <2> QED
    BY <2>1, <2>2 DEF Slots!CapIsExact, SlotsInv, Slots!SlotsAssumption
<1>2. ASSUME NEW p \in Procs, NEW l \in held[p]
      PROVE  Known(l, p)'
  <2>1. p \in alive
    BY <1>2 DEF SlotsInv, Heartbeats
  <2> QED
    BY <2>1, <1>2, ReapKnown DEF SlotsInv, Known
<1> QED
  BY <1>1, <1>2 DEF SlotsInv, Heartbeats

\* Every step of a process keeps the invariant.
LEMMA SlotStepInv ==
    ASSUME Slots!SlotsAssumption, SlotsInv, NEW p \in Procs, Slots!SlotStep(p)
    PROVE  SlotsInv'
<1> USE DEF Slots!gate, Slots!mine
<1>0. /\ Slots!TypeOK /\ Heartbeats /\ now \in Slots!Time /\ None \notin Slots!Time
      /\ None \notin Slots!Lease
      /\ Slots!ReapedLeases \in [LeaseIds -> Slots!Lease \cup {None}]
      /\ Slots!ReapedWaiters \in [Procs -> Slots!Waiter \cup {None}]
  BY ReapTyped DEF SlotsInv, Slots!TypeOK, Slots!SlotsAssumption
<1>1. CASE Slots!Acquire(p)
  <2>1. PICK l \in Slots!FreshLease :
          /\ leases' = [Slots!ReapedLeases EXCEPT
                          ![l] = [pid |-> p, updated_at |-> now, suspect_since |-> None]]
          /\ held' = [held EXCEPT ![p] = @ \cup {l}]
          /\ renewed' = [renewed EXCEPT ![l] = now]
    BY <1>1 DEF Slots!Acquire
  <2>2. /\ p \in alive /\ Slots!InUse(Slots!ReapedLeases) < Limit /\ now' = now /\ alive' = alive
        /\ waiters' = [Slots!ReapedWaiters EXCEPT ![p] = None]
        /\ favored' = [favored EXCEPT ![p] = TRUE]
    BY <1>1 DEF Slots!Acquire
  <2>3. l \in LeaseIds /\ leases[l] = None /\ \A q \in Procs : l \notin held[q]
    BY DEF Slots!FreshLease
  <2>4. [pid |-> p, updated_at |-> now, suspect_since |-> None] \in Slots!Lease
    BY <1>0 DEF Slots!Lease
  <2>5. Slots!TypeOK'
    BY <1>0, <2>1, <2>2, <2>3, <2>4 DEF Slots!TypeOK
  <2>6. Slots!CapIsExact'
    <3>1. Slots!InUse(leases)' = Slots!InUse(leases')
      BY DEF Slots!InUse
    <3>2. Slots!InUse(leases') =< Slots!InUse(Slots!ReapedLeases) + 1
      BY <1>0, <2>1, <2>3, OneMoreInUse
    <3>3. Slots!InUse(leases') \in Nat /\ Slots!InUse(Slots!ReapedLeases) \in Nat
      BY FewerInUse
    <3> QED
      BY <2>2, <3>1, <3>2, <3>3 DEF Slots!CapIsExact, Slots!SlotsAssumption
  <2>7. /\ leases'[l] = [pid |-> p, updated_at |-> now, suspect_since |-> None]
        /\ renewed'[l] = now
        /\ \A k \in LeaseIds \ {l} : leases'[k] = Slots!ReapedLeases[k] /\
              renewed'[k] = renewed[k]
        /\ held'[p] = held[p] \cup {l} /\ \A q \in Procs \ {p} : held'[q] = held[q]
    BY <1>0, <2>1, <2>3 DEF Slots!TypeOK
  <2>8. ASSUME NEW q \in Procs, NEW k \in held'[q]
        PROVE  Known(k, q)'
    <3>1. CASE k = l
      <4>1. q = p
        BY <2>3, <2>7, <2>8, <3>1
      <4> QED
        BY <1>0, <2>4, <2>7, <3>1, <4>1 DEF Known
    <3>2. CASE k # l
      <4>1. k \in held[q] /\ q \in alive /\ k \in LeaseIds
        BY <1>0, <2>7, <2>8, <3>2 DEF Heartbeats, Slots!TypeOK
      <4> QED
        BY <1>0, <2>2, <2>7, <3>2, <4>1, ReapKnown DEF Known
    <3> QED
      BY <3>1, <3>2
  <2>9. Heartbeats'
    BY <1>0, <2>2, <2>3, <2>7, <2>8 DEF Heartbeats
  <2> QED
    BY <2>5, <2>6, <2>9 DEF SlotsInv
<1>2. CASE Slots!AcquireFull(p)
  <2>1. /\ leases' = Slots!ReapedLeases /\ now' = now /\ alive' = alive /\ held' = held
        /\ renewed' = renewed
        /\ waiters' = [Slots!ReapedWaiters EXCEPT
                         ![p] = [wait_start |-> IF @ = None THEN now ELSE @.wait_start,
                                 last_poll |-> now]]
        /\ favored' = [favored EXCEPT ![p] = Slots!IsLongestLiveWaiter(waiters', p)]
    BY <1>2 DEF Slots!AcquireFull
  <2>2. waiters' \in [Procs -> Slots!Waiter \cup {None}]
    <3>1. [wait_start |-> IF Slots!ReapedWaiters[p] = None THEN now
             ELSE Slots!ReapedWaiters[p].wait_start,
           last_poll |-> now] \in Slots!Waiter
      BY <1>0 DEF Slots!Waiter
    <3> QED
      BY <1>0, <2>1, <3>1
  <2>3. Slots!IsLongestLiveWaiter(waiters', p) \in BOOLEAN
    BY DEF Slots!IsLongestLiveWaiter
  <2>4. Slots!TypeOK'
    BY <1>0, <2>1, <2>2, <2>3 DEF Slots!TypeOK
  <2> QED
    BY <2>1, <2>4, LookKeeps DEF SlotsInv
<1>3. CASE Slots!ProbeFull(p) \/ Slots!Reconcile(p)
  <2>1. /\ leases' = Slots!ReapedLeases /\ now' = now /\ alive' = alive /\ held' = held
        /\ renewed' = renewed
        /\ waiters' = Slots!ReapedWaiters /\ favored' = favored
    BY <1>3 DEF Slots!ProbeFull, Slots!Reconcile
  <2>2. Slots!TypeOK'
    BY <1>0, <2>1 DEF Slots!TypeOK
  <2> QED
    BY <2>1, <2>2, LookKeeps DEF SlotsInv
<1>4. CASE Slots!Renew(p)
  <2>1. /\ leases' = [l \in LeaseIds |->
                        IF l \in held[p] /\ leases[l] # None
                        THEN [pid |-> p, updated_at |-> now, suspect_since |-> None]
                           ELSE leases[l]]
        /\ renewed' = [l \in LeaseIds |->
                        IF l \in held[p] /\ leases[l] # None THEN now ELSE renewed[l]]
        /\ now' = now /\ alive' = alive /\ waiters' = waiters /\ held' = held
        /\ favored' = favored
    BY <1>4 DEF Slots!Renew
  <2>2. [pid |-> p, updated_at |-> now, suspect_since |-> None] \in Slots!Lease
    BY <1>0 DEF Slots!Lease
  <2>3. Slots!TypeOK'
    BY <1>0, <2>1, <2>2 DEF Slots!TypeOK
  <2>4. Slots!CapIsExact'
    <3>1. \A l \in LeaseIds : leases[l] = None => leases'[l] = None
      BY <2>1
    <3>2. Slots!InUse(leases') =< Slots!InUse(leases) /\ Slots!InUse(leases') \in Nat /\
             Slots!InUse(leases) \in Nat
      BY <3>1, FewerInUse
    <3>3. Slots!InUse(leases)' = Slots!InUse(leases')
      BY DEF Slots!InUse
    <3> QED
      BY <3>2, <3>3 DEF Slots!CapIsExact, SlotsInv, Slots!SlotsAssumption
  <2>5. ASSUME NEW q \in Procs, NEW l \in held[q]
        PROVE  Known(l, q)'
    <3>1. l \in LeaseIds /\ Known(l, q) /\ (l \in held[p] => p = q)
      BY <1>0 DEF Slots!TypeOK, Heartbeats
    <3>2. CASE l \in held[p] /\ leases[l] # None
      <4>1. leases'[l] = [pid |-> p, updated_at |-> now, suspect_since |-> None] /\
               renewed'[l] = now
        BY <2>1, <3>1, <3>2
      <4> QED
        BY <1>0, <2>2, <3>1, <3>2, <4>1 DEF Known
    <3>3. CASE ~ (l \in held[p] /\ leases[l] # None)
      <4>1. leases'[l] = leases[l] /\ renewed'[l] = renewed[l]
        BY <2>1, <3>1, <3>3
      <4> QED
        BY <2>1, <3>1, <4>1 DEF Known
    <3> QED
      BY <3>2, <3>3
  <2>6. Heartbeats'
    BY <1>0, <2>1, <2>5 DEF Heartbeats
  <2> QED
    BY <2>3, <2>4, <2>6 DEF SlotsInv
<1>5. CASE Slots!ClearWaiter(p)
  <2>1. /\ waiters' = [waiters EXCEPT ![p] = None]
        /\ now' = now /\ alive' = alive /\ leases' = leases
        /\ held' = held /\ renewed' = renewed /\ favored' = favored
    BY <1>5 DEF Slots!ClearWaiter
  <2> QED
    BY <2>1 DEF SlotsInv, Slots!TypeOK, Slots!CapIsExact, Slots!InUse, Heartbeats, Known
<1>6. ASSUME NEW l \in LeaseIds, Slots!Release(p, l)
      PROVE  SlotsInv'
  <2>1. /\ p \in alive /\ l \in held[p] /\ leases' = [leases EXCEPT ![l] = None]
        /\ held' = [held EXCEPT ![p] = @ \ {l}]
        /\ now' = now /\ alive' = alive /\ waiters' = waiters
        /\ renewed' = renewed /\ favored' = favored
    BY <1>6 DEF Slots!Release
  <2>2. Slots!TypeOK'
    BY <1>0, <2>1 DEF Slots!TypeOK
  <2>3. \A k \in LeaseIds : (leases[k] = None => leases'[k] = None) /\
           (k # l => leases'[k] = leases[k])
    BY <1>0, <2>1 DEF Slots!TypeOK
  <2>4. Slots!CapIsExact'
    <3>1. Slots!InUse(leases') =< Slots!InUse(leases) /\ Slots!InUse(leases') \in Nat /\
             Slots!InUse(leases) \in Nat
      BY <2>3, FewerInUse
    <3>2. Slots!InUse(leases)' = Slots!InUse(leases')
      BY DEF Slots!InUse
    <3> QED
      BY <3>1, <3>2 DEF Slots!CapIsExact, SlotsInv, Slots!SlotsAssumption
  <2>5. held'[p] = held[p] \ {l} /\ \A q \in Procs \ {p} : held'[q] = held[q]
    BY <1>0, <2>1 DEF Slots!TypeOK
  <2>6. ASSUME NEW q \in Procs, NEW k \in held'[q]
        PROVE  Known(k, q)'
    <3>1. k \in held[q] /\ k # l /\ k \in LeaseIds
      BY <1>0, <2>1, <2>5, <2>6 DEF Heartbeats, Slots!TypeOK
    <3> QED
      BY <1>0, <2>1, <2>3, <3>1 DEF Heartbeats, Known
  <2>7. Heartbeats'
    BY <1>0, <2>1, <2>5, <2>6 DEF Heartbeats
  <2> QED
    BY <2>2, <2>4, <2>7 DEF SlotsInv
<1> QED
  BY <1>1, <1>2, <1>3, <1>4, <1>5, <1>6 DEF Slots!SlotStep

\* The initial states satisfy the invariant.
LEMMA SlotsInitInv ==
    ASSUME Slots!SlotsAssumption, Slots!Init
    PROVE  SlotsInv
<1>1. Slots!TypeOK
  BY DEF Slots!Init, Slots!TypeOK, Slots!Time, Slots!SlotsAssumption
<1>2. Slots!CapIsExact
  <2>1. {l \in LeaseIds : leases[l] # None} = {}
    BY DEF Slots!Init
  <2> QED
    BY <2>1, FS_EmptySet, SameCount DEF Slots!CapIsExact, Slots!InUse, Slots!SlotsAssumption
<1>3. Heartbeats
  BY DEF Slots!Init, Heartbeats
<1> QED
  BY <1>1, <1>2, <1>3 DEF SlotsInv

\* Every step keeps the invariant.
LEMMA SlotsNextInv ==
    ASSUME Slots!SlotsAssumption, SlotsInv, [Slots!Next]_(Slots!vars)
    PROVE  SlotsInv'
<1> USE DEF Slots!gate, Slots!mine
<1>1. CASE Slots!Tick
  <2>1. /\ now < MaxTime /\ now' = now + 1 /\ alive' = alive /\ leases' = leases
        /\ waiters' = waiters
        /\ held' = held /\ renewed' = renewed /\ favored' = favored
    BY <1>1 DEF Slots!Tick
  <2>2. now' \in Slots!Time /\ now \in Int
    BY <2>1 DEF SlotsInv, Slots!TypeOK, Slots!Time, Slots!SlotsAssumption
  <2>3. Slots!TypeOK' /\ Slots!CapIsExact'
    BY <2>1, <2>2 DEF SlotsInv, Slots!TypeOK, Slots!CapIsExact, Slots!InUse
  <2>4. ASSUME NEW p \in Procs, NEW l \in held[p]
        PROVE  Known(l, p)'
    <3>1. Known(l, p) /\ renewed[l] \in Int /\ Ttl \in Nat /\ Grace \in Nat
      BY DEF SlotsInv, Slots!TypeOK, Heartbeats, Slots!Time, Slots!SlotsAssumption
    <3> QED
      BY <2>1, <2>2, <3>1 DEF Known
  <2>5. Heartbeats'
    BY <2>1, <2>4 DEF SlotsInv, Heartbeats
  <2> QED
    BY <2>3, <2>5 DEF SlotsInv
<1>2. ASSUME NEW p \in Procs, Slots!Die(p)
      PROVE  SlotsInv'
  <2>1. /\ alive' = alive \ {p} /\ held' = [held EXCEPT ![p] = {}]
        /\ now' = now /\ leases' = leases /\ waiters' = waiters
        /\ renewed' = renewed /\ favored' = favored
    BY <1>2 DEF Slots!Die
  <2>2. Slots!TypeOK' /\ Slots!CapIsExact'
    BY <2>1 DEF SlotsInv, Slots!TypeOK, Slots!CapIsExact, Slots!InUse
  <2>3. held'[p] = {} /\ \A q \in Procs \ {p} : held'[q] = held[q]
    BY <2>1 DEF SlotsInv, Slots!TypeOK
  <2>4. Heartbeats'
    BY <2>1, <2>3 DEF SlotsInv, Heartbeats, Known
  <2> QED
    BY <2>2, <2>4 DEF SlotsInv
<1>3. CASE UNCHANGED Slots!vars
  BY <1>3 DEF Slots!vars, SlotsInv, Slots!TypeOK, Slots!CapIsExact, Slots!InUse, Heartbeats, Known
<1> QED
  BY <1>1, <1>2, <1>3, SlotStepInv DEF Slots!Next

-----------------------------------------------------------------------------
(* The theorems *)

\* The invariant holds throughout.
THEOREM SlotsHold == ASSUME Slots!SlotsAssumption PROVE Slots!Spec => []SlotsInv
<1>1. Slots!Init => SlotsInv
  BY SlotsInitInv
<1>2. SlotsInv /\ [Slots!Next]_(Slots!vars) => SlotsInv'
  BY SlotsNextInv
<1> QED
  BY <1>1, <1>2, PTL DEF Slots!Spec

\* The gate, its waiters and what the processes hold keep their types.
THEOREM SlotsTypeCorrect == ASSUME Slots!SlotsAssumption PROVE Slots!Spec => []Slots!TypeOK
<1>1. SlotsInv => Slots!TypeOK
  BY DEF SlotsInv
<1> QED
  BY <1>1, SlotsHold, PTL

\* _acquire_global_slot never records more leases than the limit.
THEOREM CapHolds == ASSUME Slots!SlotsAssumption PROVE Slots!Spec => []Slots!CapIsExact
<1>1. SlotsInv => Slots!CapIsExact
  BY DEF SlotsInv
<1> QED
  BY <1>1, SlotsHold, PTL

\* A lease that its owner still counts on is gone only when the owner was silent for
\* longer than the heartbeat and the grace.
LEMMA StalledFollows == SlotsInv => Slots!StalledLongEnough
BY DEF SlotsInv, Heartbeats, Known, Slots!StalledLongEnough, Slots!TypeOK

\* _reap_gate_state takes no lease from a live owner that renewed it in time.
THEOREM OnlyStalledLose ==
    ASSUME Slots!SlotsAssumption PROVE Slots!Spec => []Slots!StalledLongEnough
<1>1. SlotsInv => Slots!StalledLongEnough
  BY StalledFollows
<1> QED
  BY <1>1, SlotsHold, PTL

\* A step that takes a lease from its owner takes one that was a suspect before.
LEMMA StepSuspects ==
    ASSUME Slots!SlotsAssumption, SlotsInv, [Slots!Next]_(Slots!vars)
    PROVE  Slots!SuspectedFirstStep
<1> USE DEF Slots!gate, Slots!mine
<1>1. SUFFICES ASSUME NEW l \in LeaseIds, NEW p \in alive, l \in held[p], l \in held'[p],
                      leases[l] # None, leases'[l] = None
               PROVE  leases[l].suspect_since # None /\ now - leases[l].suspect_since > Grace
  BY DEF Slots!SuspectedFirstStep
<1>2. Slots!TypeOK /\ Heartbeats /\ p \in Procs
  BY DEF SlotsInv, Slots!TypeOK
<1>3. Slots!ReapedLeases[l] = None =>
         leases[l].suspect_since # None /\ now - leases[l].suspect_since > Grace
  BY <1>1, <1>2, ReapKnown
<1>4. ASSUME NEW q \in Procs, Slots!Acquire(q)
      PROVE  leases'[l] = Slots!ReapedLeases[l]
  <2>1. PICK k \in Slots!FreshLease :
          leases' = [Slots!ReapedLeases EXCEPT
                       ![k] = [pid |-> q, updated_at |-> now, suspect_since |-> None]]
    BY <1>4 DEF Slots!Acquire
  <2>2. k # l
    BY <1>1 DEF Slots!FreshLease
  <2> QED
    BY <1>2, <2>1, <2>2, ReapTyped
<1>5. ASSUME NEW q \in Procs, Slots!AcquireFull(q) \/ Slots!ProbeFull(q) \/ Slots!Reconcile(q)
      PROVE  leases'[l] = Slots!ReapedLeases[l]
  BY <1>5 DEF Slots!AcquireFull, Slots!ProbeFull, Slots!Reconcile
<1>6. ASSUME NEW q \in Procs, Slots!Renew(q)
      PROVE  FALSE
  <2>1. None \notin Slots!Lease /\ q \in Procs /\ now \in Slots!Time
    BY <1>2 DEF Slots!SlotsAssumption, Slots!TypeOK
  <2>2. [pid |-> q, updated_at |-> now, suspect_since |-> None] \in Slots!Lease
    BY <2>1 DEF Slots!Lease
  <2> QED
    BY <1>1, <1>6, <2>1, <2>2 DEF Slots!Renew
<1>7. ASSUME NEW q \in Procs, NEW k \in LeaseIds, Slots!Release(q, k)
      PROVE  FALSE
  <2>1. leases' = [leases EXCEPT ![k] = None] /\ held' = [held EXCEPT ![q] = @ \ {k}] /\
           k \in held[q]
    BY <1>7 DEF Slots!Release
  <2>2. l = k
    BY <1>1, <1>2, <2>1 DEF Slots!TypeOK
  <2>3. p = q
    BY <1>1, <1>2, <2>1, <2>2 DEF Heartbeats
  <2> QED
    BY <1>1, <1>2, <2>1, <2>2, <2>3 DEF Slots!TypeOK
<1>8. ASSUME leases' = leases
      PROVE  FALSE
  BY <1>1, <1>8
<1>9. CASE UNCHANGED Slots!vars \/ Slots!Tick \/ \E q \in Procs : Slots!Die(q) \/
              Slots!ClearWaiter(q)
  BY <1>8, <1>9 DEF Slots!vars, Slots!Tick, Slots!Die, Slots!ClearWaiter
<1> QED
  BY <1>1, <1>3, <1>4, <1>5, <1>6, <1>7, <1>9 DEF Slots!Next, Slots!SlotStep

\* Who is told to back off is told so for a live process that waits longer and polls.
LEMMA StepFavors ==
    ASSUME Slots!SlotsAssumption, SlotsInv
    PROVE  Slots!NoGhostFavoredStep
<1>1. SUFFICES ASSUME NEW p \in Procs, Slots!AcquireFull(p), ~ favored'[p]
               PROVE  \E q \in alive \ {p} : /\ waiters'[q] # None
                                             /\ waiters'[q].wait_start < waiters'[p].wait_start
                                             /\ now - waiters'[q].last_poll <= StaleTtl
  BY DEF Slots!NoGhostFavoredStep
<1>2. /\ Slots!TypeOK /\ now \in Slots!Time /\ None \notin Slots!Waiter
      /\ Slots!ReapedWaiters \in [Procs -> Slots!Waiter \cup {None}]
  BY ReapTyped DEF SlotsInv, Slots!TypeOK, Slots!SlotsAssumption
<1>3. PICK w \in Slots!Waiter : waiters' = [Slots!ReapedWaiters EXCEPT ![p] = w]
  <2>1. [wait_start |-> IF Slots!ReapedWaiters[p] = None THEN now
           ELSE Slots!ReapedWaiters[p].wait_start,
         last_poll |-> now] \in Slots!Waiter
    BY <1>2 DEF Slots!Waiter
  <2> QED
    BY <1>1, <2>1 DEF Slots!AcquireFull
<1>4. waiters'[p] = w /\ w # None /\ \A q \in Procs \ {p} : waiters'[q] = Slots!ReapedWaiters[q]
  BY <1>2, <1>3
<1>5. ~ Slots!IsLongestLiveWaiter(waiters', p)
  <2>1. favored' = [favored EXCEPT ![p] = Slots!IsLongestLiveWaiter(waiters', p)] /\
           favored \in [Procs -> BOOLEAN]
    BY <1>1, <1>2 DEF Slots!AcquireFull, Slots!TypeOK
  <2> QED
    BY <1>1, <2>1, Zenon
<1>6. PICK q \in Procs : waiters'[q] # None /\ ~ (waiters'[p].wait_start <= waiters'[q].wait_start)
  BY <1>4, <1>5 DEF Slots!IsLongestLiveWaiter
<1>7. waiters'[p].wait_start \in Nat
  BY <1>4 DEF Slots!Waiter, Slots!Time
<1>8. q # p
  BY <1>6, <1>7
<1>9. Slots!ReapedWaiters[q] # None /\ waiters'[q] = Slots!ReapedWaiters[q]
  BY <1>4, <1>6, <1>8
<1>10. q \in alive /\ Slots!ReapedWaiters[q] = waiters[q] /\
          ~ (now - waiters[q].last_poll > StaleTtl)
  BY <1>9 DEF Slots!ReapedWaiters
<1>11. waiters[q] \in Slots!Waiter
  BY <1>2, <1>9, <1>10
<1>12. waiters'[q].wait_start \in Nat /\ waiters[q].last_poll \in Nat /\ now \in Nat /\
          StaleTtl \in Nat
  BY <1>2, <1>9, <1>10, <1>11 DEF Slots!Waiter, Slots!Time, Slots!SlotsAssumption
<1> QED
  BY <1>6, <1>7, <1>8, <1>9, <1>10, <1>12

\* Nobody is reclaimed by the first look of _reap_gate_state, and nobody backs off for
\* a ghost.
THEOREM ReapsCarefully ==
    ASSUME Slots!SlotsAssumption
    PROVE  Slots!Spec => [][Slots!SuspectedFirstStep /\ Slots!NoGhostFavoredStep]_(Slots!vars)
<1>1. SlotsInv /\ [Slots!Next]_(Slots!vars) => [Slots!SuspectedFirstStep /\
         Slots!NoGhostFavoredStep]_(Slots!vars)
  BY StepSuspects, StepFavors
<1> QED
  BY <1>1, SlotsHold, PTL DEF Slots!Spec

-----------------------------------------------------------------------------
(* The knowledge of the documents *)

CONSTANTS Docs, Entities, Relations, Ends, Yield, Ready, Deletable, Immediate, Parallel,
          Reprocess, MaxFaults
VARIABLES row, mem, disk, task, faults

Knowledge == INSTANCE DocumentKnowledge

\* The documents are counted as the locks are.
LEMMA SameDocumentCount == \A S : Knowledge!Cardinality(S) = Cardinality(S) /\
   (Knowledge!IsFiniteSet(S) <=> IsFiniteSet(S))
  BY DEF Knowledge!Cardinality, Cardinality, Knowledge!IsFiniteSet, IsFiniteSet

-----------------------------------------------------------------------------
(* Types *)

Adding == {"parse", "chunk", "stage", "anchor", "flush_anchors", "mark", "merge", "commit"}
\* in _purge_kg_contributions
Purging == {"resolve", "analyze", "prune", "cut_edges", "untrack_edges", "cut_incident",
            "cut_nodes", "untrack_nodes", "flush_cut", "rebuild", "flush_rebuilt", "derived",
            "drop_chunks", "flush_chunks", "pending", "drop_names", "drop_pairs",
            "flush_dropped", "complete", "retire", "forget"}
Positions == Adding \cup Purging \cup {"finish"}

SourcesOf == UNION {[some -> SUBSET Knowledge!Chunks] : some \in SUBSET Knowledge!Objects}

Tasks == [at : Positions, for : {"process", "delete"}, wrote : {"pre_graph", "started"},
          journal : Knowledge!Journals \cup {None}, chunks : SUBSET Knowledge!Chunks,
             doomed : SUBSET Knowledge!Objects,
          rest : SourcesOf, todo : SUBSET (Knowledge!Objects \cup {"row", "text"}),
             held : SourcesOf]

Content(s) ==
    /\ DOMAIN s = Knowledge!Stores
    /\ s.text \in SUBSET Knowledge!Chunks /\ s.vdb \in SUBSET Knowledge!Objects
    /\ s.names \in [Docs -> (SUBSET Knowledge!Objects) \cup {None}]
    /\ s.pairs \in [Docs -> (SUBSET Knowledge!Objects) \cup {None}]
    /\ \A d \in Docs : s.names[d] \in {None, Knowledge!NamesOf(d)} /\
          s.pairs[d] \in {None, Knowledge!PairsOf(d)}
    /\ s.track \in [Knowledge!Objects -> (SUBSET Knowledge!Chunks) \cup {None}]
    /\ s.graph \in [Knowledge!Objects -> (SUBSET Knowledge!Chunks) \cup {None}]

Typed ==
    /\ row \in [Docs -> Knowledge!Rows \cup {None}]
    /\ \A d \in Docs : row[d] # None => row[d].chunks \in {{}, Knowledge!ChunksOf(d)}
    /\ Content(mem) /\ Content(disk)
    /\ task \in [Docs -> Tasks \cup {Knowledge!Idle}]
    /\ \A d \in Docs : Knowledge!Working(d) => task[d].chunks \in {{}, Knowledge!ChunksOf(d)}
    /\ faults \in 0 .. MaxFaults

-----------------------------------------------------------------------------
(* The invariant *)

\* No coroutine works beside a purge: either one works at a time, or nothing fails and
\* no document is processed twice, so that only a deletion purges.
PurgesAlone == Parallel = 1 \/ (MaxFaults = 0 /\ ~Reprocess)

\* Where nothing fails and no document is processed twice, no retry purges and a row
\* that waits names no chunks.
Plain(d) ==
    MaxFaults = 0 /\ ~Reprocess =>
        /\ Knowledge!Working(d) /\ task[d].for = "process" => task[d].at \notin Purging
        /\ Knowledge!At(d, "parse") => task[d].chunks = {}
        /\ row[d] # None /\ row[d].status \in Knowledge!Unfinished
               /\ (Knowledge!Working(d) => task[d].for = "delete") => row[d].chunks = {}

\* who works beside d
Peers(d) ==
    \A o \in Docs : o # d /\ Knowledge!Working(o) =>
        Parallel # 1 /\ task[o].for = "process" /\ task[o].at \notin Purging

\* a coroutine that may purge has the workspace to itself
Alone == \A d \in Docs : (Knowledge!Working(d) => Peers(d)) /\ Plain(d)

\* the row of a document that is worked on
RowOfTask(d) ==
    Knowledge!Working(d) =>
        /\ row[d] # None \/ Knowledge!At(d, "finish")
        /\ task[d].for = "process" =>
               /\ row[d] # None /\ row[d].status # "processed"
               /\ task[d].at \notin {"forget", "finish"}
        /\ task[d].for = "delete" =>
               /\ task[d].at \in Purging \cup {"finish"} /\ task[d].at # "retire"
               /\ row[d] # None /\ ~Knowledge!At(d, "resolve") => row[d].journal # None
Rowed == \A d \in Docs : RowOfTask(d)

\* what chunk c of d makes the merge write: its objects and the ends of its relations
Gives(d, c) == Yield[d][c] \cup UNION {Knowledge!EndsOf(y) : y \in Yield[d][c]}

\* c is among the tracked sources of x; x is there, too
Tracked(s, x, c) == s.track[x] # None /\ c \in s.track[x]
Credited(s, x, c) == s.graph[x] # None /\ x \in s.vdb /\ Tracked(s, x, c)

Kept(s, d) ==
    /\ Knowledge!ChunksOf(d) \subseteq s.text
    /\ \A c \in Knowledge!ChunksOf(d) : \A x \in Gives(d, c) : Credited(s, x, c)

Settled(d) == row[d] # None /\ row[d].status = "processed" /\ row[d].journal = None

\* processed documents have everything, in memory and on disk
AllKept == \A d \in Docs : Settled(d) => Kept(mem, d) /\ Kept(disk, d)

\* how far a merge has come
Stored(d) ==
    \/ Knowledge!At(d, "stage") /\ "text" \notin task[d].todo
    \/ task[d].at \in {"anchor", "flush_anchors", "mark", "merge", "commit"}
SoFar(d) ==
    /\ Knowledge!At(d, "stage") => task[d].chunks = Knowledge!ChunksOf(d)
    /\ Stored(d) => Knowledge!ChunksOf(d) \subseteq mem.text
    /\ Knowledge!At(d, "merge") =>
         \A c \in Knowledge!ChunksOf(d) : \A y \in Yield[d][c] :
             /\ y \notin task[d].todo => \A x \in {y} \cup Knowledge!EndsOf(y) : Credited(mem, x,
                   c)
             /\ y \in DOMAIN task[d].held => Tracked(mem, y, c) /\ c \in task[d].held[y]
    /\ Knowledge!At(d, "commit") => Kept(mem, d) /\ Kept(disk, d)
MergeSoFar == \A d \in Docs : SoFar(d)

\* the keyed locks of the merge
LockedApart(d, o) ==
    Knowledge!Working(d) /\ Knowledge!Working(o) =>
        \A x \in DOMAIN task[d].held, y \in DOMAIN task[o].held :
            Knowledge!Keys(x) \cap Knowledge!Keys(y) # {} => d = o /\ x = y
HeldFits(d) ==
    Knowledge!Working(d) =>
        /\ ~Knowledge!At(d, "merge") => DOMAIN task[d].held = {}
        /\ DOMAIN task[d].held \subseteq task[d].todo
Locks == \A d \in Docs : HeldFits(d) /\ \A o \in Docs : LockedApart(d, o)

\* what a purge by d takes, seen from a processed document
Spares(d, t) ==
    \A o \in Docs : o # d /\ Settled(o) =>
        \A c \in Knowledge!ChunksOf(o) : \A x \in Gives(o, c) :
            x \notin t.doomed /\ (x \in DOMAIN t.rest => c \in t.rest[x])

\* where the objects that go are known
Decided == Purging \ {"resolve", "analyze"}

\* a purge takes nothing from a processed document
Spared ==
    \A d \in Docs :
        /\ task[d].at \in {"parse", "resolve"} => task[d].doomed = {} /\ DOMAIN task[d].rest = {}
        /\ task[d].at \in Decided => Spares(d, task[d])

KnowledgeIInv == Typed /\ Alone /\ Rowed /\ AllKept /\ MergeSoFar /\ Locks /\ Spared
-----------------------------------------------------------------------------
(* Lemmas about the types *)

\* A coroutine that is somewhere has its locals.
LEMMA Busy ==
    ASSUME Typed, NEW d \in Docs, Knowledge!Working(d)
    PROVE  task[d] \in Tasks
BY DEF Typed, Knowledge!Working, Knowledge!Idle

\* Moving a coroutine changes its position and nothing else.
LEMMA Moved ==
    ASSUME Typed, NEW d \in Docs, Knowledge!Working(d), NEW to \in Positions,
           Knowledge!Goto(d, to)
    PROVE  /\ task' \in [Docs -> Tasks \cup {Knowledge!Idle}]
           /\ task'[d] \in Tasks /\ task'[d].at = to
           /\ task'[d].for = task[d].for /\ task'[d].wrote = task[d].wrote
           /\ task'[d].journal = task[d].journal /\ task'[d].chunks = task[d].chunks
           /\ task'[d].doomed = task[d].doomed /\ task'[d].rest = task[d].rest
           /\ task'[d].todo = task[d].todo /\ task'[d].held = task[d].held
           /\ \A o \in Docs : o # d => task'[o] = task[o]
<1>1. task[d] \in Tasks /\ task \in [Docs -> Tasks \cup {Knowledge!Idle}]
  BY Busy DEF Typed
<1>2. task' = [task EXCEPT ![d] = [task[d] EXCEPT !.at = to]]
  BY DEF Knowledge!Goto
<1>3. [task[d] EXCEPT !.at = to] \in Tasks
  BY <1>1 DEF Tasks
<1> QED
  BY <1>1, <1>2, <1>3 DEF Tasks

\* A step that writes the tracking.
LEMMA TrackWritten ==
    ASSUME Content(mem), NEW new \in [Knowledge!Objects -> (SUBSET Knowledge!Chunks) \cup {None}],
           mem' = [mem EXCEPT !.track = new]
    PROVE  /\ Content(mem)' /\ mem'.track = new /\ mem'.graph = mem.graph
           /\ mem'.vdb = mem.vdb /\ mem'.text = mem.text
           /\ mem'.names = mem.names /\ mem'.pairs = mem.pairs
BY DEF Content, Knowledge!Stores

\* A step that flushes some stores leaves what is durable typed.
LEMMA FlushedContent ==
    ASSUME Content(mem), Content(disk), NEW some
    PROVE  /\ Content(Knowledge!Flushed(some))
           /\ \A a \in Knowledge!Stores : Knowledge!Flushed(some)[a] = IF a \in some
                 THEN mem[a] ELSE disk[a]
<1>1. \A a \in Knowledge!Stores : Knowledge!Flushed(some)[a] = IF a \in some THEN mem[a]
         ELSE disk[a]
  BY DEF Knowledge!Flushed
<1>2. DOMAIN Knowledge!Flushed(some) = Knowledge!Stores
  BY DEF Knowledge!Flushed
<1> QED
  BY <1>1, <1>2 DEF Content, Knowledge!Stores
-----------------------------------------------------------------------------
(* A step *)

\* A step of one coroutine: what it has to leave true of itself and of the others.
LEMMA KnowledgeStep ==
    ASSUME KnowledgeIInv, NEW d \in Docs, Peers(d),
           task' \in [Docs -> Tasks \cup {Knowledge!Idle}], \A o \in Docs : o # d =>
              task'[o] = task[o],
           Knowledge!Working(d)' => task'[d].chunks \in {{}, Knowledge!ChunksOf(d)},
           Knowledge!Working(d)' /\ (task'[d].for = "delete" \/ task'[d].at \in Purging) =>
               \A o \in Docs : o # d => ~Knowledge!Working(o),
           row' \in [Docs -> Knowledge!Rows \cup {None}], \A o \in Docs : o # d =>
              row'[o] = row[o],
           row'[d] # None => row'[d].chunks \in {{}, Knowledge!ChunksOf(d)},
           Content(mem)', Content(disk)', faults' \in 0 .. MaxFaults,
           Plain(d)', RowOfTask(d)', HeldFits(d)', LockedApart(d, d)',
           \A o \in Docs : o # d => LockedApart(d, o)' /\ LockedApart(o, d)',
           SoFar(d)', \A o \in Docs : o # d /\ Knowledge!Working(o) => SoFar(o)',
           Settled(d)' => Kept(mem, d)' /\ Kept(disk, d)',
           \A o \in Docs : o # d /\ Settled(o) => Kept(mem, o)' /\ Kept(disk, o)',
           task'[d].at \in {"parse", "resolve"} => task'[d].doomed = {} /\
              DOMAIN task'[d].rest = {},
           task'[d].at \in Decided => Spares(d, task'[d])
    PROVE  KnowledgeIInv'
<1>1. \A o \in Docs : o # d => (Knowledge!Working(o)' <=> Knowledge!Working(o)) /\
         (Settled(o)' <=> Settled(o))
  BY DEF Knowledge!Working, Settled
<1>2. Typed'
  <2>1. \A o \in Docs : row'[o] # None => row'[o].chunks \in {{}, Knowledge!ChunksOf(o)}
    BY DEF KnowledgeIInv, Typed
  <2>2. \A o \in Docs : Knowledge!Working(o)' => task'[o].chunks \in {{}, Knowledge!ChunksOf(o)}
    BY <1>1 DEF KnowledgeIInv, Typed
  <2> QED
    BY <2>1, <2>2 DEF Typed
<1>3. Alone'
  <2>1. Peers(d)'
    BY <1>1 DEF Peers
  <2>2. ASSUME NEW o \in Docs, o # d, Knowledge!Working(o) PROVE Peers(o)'
    <3>1. Peers(o) /\ Parallel # 1
      BY <2>2 DEF KnowledgeIInv, Alone, Peers
    <3>2. Knowledge!Working(d)' => task'[d].for = "process" /\ task'[d].at \notin Purging
      <4>1. ASSUME Knowledge!Working(d)' PROVE task'[d] \in Tasks
        BY <4>1 DEF Knowledge!Working, Knowledge!Idle
      <4> QED
        BY <2>2, <4>1 DEF Tasks
    <3> QED
      BY <1>1, <3>1, <3>2 DEF Peers
  <2>3. ASSUME NEW o \in Docs, o # d PROVE Plain(o)'
    <3>1. Plain(o)
      BY DEF KnowledgeIInv, Alone
    <3> QED
      BY <1>1, <2>3, <3>1 DEF Plain, Knowledge!At
  <2> QED
    BY <1>1, <2>1, <2>2, <2>3 DEF Alone
<1>4. Rowed'
  <2>1. ASSUME NEW o \in Docs, o # d PROVE RowOfTask(o)'
    <3>1. RowOfTask(o)
      BY DEF KnowledgeIInv, Rowed
    <3> QED
      BY <1>1, <2>1, <3>1 DEF RowOfTask, Knowledge!At
  <2> QED
    BY <2>1 DEF Rowed
<1>5. AllKept'
  BY <1>1 DEF AllKept
<1>6. MergeSoFar'
  <2>1. ASSUME NEW o \in Docs, ~Knowledge!Working(o)' PROVE SoFar(o)'
    BY <2>1 DEF SoFar, Stored, Knowledge!At, Knowledge!Working
  <2> QED
    BY <1>1, <2>1 DEF MergeSoFar
<1>7. Locks'
  <2>1. ASSUME NEW o \in Docs, o # d
        PROVE  HeldFits(o)' /\ \A p \in Docs : p # d => LockedApart(o, p)'
    <3>1. HeldFits(o) /\ \A p \in Docs : LockedApart(o, p)
      BY DEF KnowledgeIInv, Locks
    <3> QED
      BY <1>1, <2>1, <3>1 DEF HeldFits, LockedApart, Knowledge!At
  <2> QED
    BY <2>1 DEF Locks
<1>8. Spared'
  <2>1. ASSUME NEW o \in Docs, o # d
        PROVE  /\ task'[o].at \in {"parse", "resolve"} =>
                      task'[o].doomed = {} /\ DOMAIN task'[o].rest = {}
               /\ task'[o].at \in Decided => Spares(o, task[o])'
    <3>1. task[o].at \in Decided => Knowledge!Working(o)
      BY DEF Decided, Purging, Knowledge!Working
    <3>2. task[o].at \notin Decided
      BY <2>1, <3>1 DEF Peers, Decided
    <3> QED
      BY <2>1, <3>2 DEF KnowledgeIInv, Spared
  <2>2. task'[d].at \in Decided => Spares(d, task[d])'
    <3>1. Knowledge!ChunksOf(d)' = Knowledge!ChunksOf(d) /\ \A o, c : Gives(o, c)' = Gives(o, c)
      BY DEF Knowledge!ChunksOf, Gives, Knowledge!EndsOf
    <3> QED
      BY <1>1, <3>1 DEF Spares
  <2>3. ASSUME NEW o \in Docs
        PROVE  /\ task'[o].at \in {"parse", "resolve"} =>
                      task'[o].doomed = {} /\ DOMAIN task'[o].rest = {}
               /\ task'[o].at \in Decided => Spares(o, task[o])'
    BY <2>1, <2>2
  <2> QED
    BY <2>3 DEF Spared
<1> QED
  BY <1>2, <1>3, <1>4, <1>5, <1>6, <1>7, <1>8 DEF KnowledgeIInv

-----------------------------------------------------------------------------
(* A step of a purge *)

\* Who purges or deletes is the only one that works.
LEMMA Solo ==
    ASSUME KnowledgeIInv, PurgesAlone, NEW d \in Docs, Knowledge!Working(d),
           task[d].at \in Purging \/ task[d].for = "delete"
    PROVE  /\ Peers(d) /\ \A o \in Docs : o # d => ~Knowledge!Working(o) /\
                 task[o] = Knowledge!Idle
           /\ MaxFaults = 0 /\ ~Reprocess => task[d].for = "delete"
<1>1. Peers(d) /\ Plain(d) /\ task[d].for \in {"process", "delete"}
  BY Busy DEF KnowledgeIInv, Alone, Tasks
<1>2. MaxFaults = 0 /\ ~Reprocess => task[d].for = "delete"
  BY <1>1 DEF Plain
<1>3. \A o \in Docs : o # d => ~Knowledge!Working(o)
  <2>1. CASE Parallel = 1
    BY <1>1, <2>1 DEF Peers
  <2>2. CASE task[d].for = "delete"
    BY <2>2 DEF KnowledgeIInv, Alone, Peers
  <2> QED
    BY <1>2, <2>1, <2>2 DEF PurgesAlone
<1>4. \A o \in Docs : ~Knowledge!Working(o) => task[o] = Knowledge!Idle
  BY DEF KnowledgeIInv, Typed, Tasks, Knowledge!Working, Positions, Adding, Purging
<1> QED
  BY <1>1, <1>2, <1>3, <1>4

\* A step of a purge, or the last step of one, that takes nothing from the processed
\* documents keeps the invariant: nobody else is there to be disturbed.
LEMMA PurgeStep ==
    ASSUME KnowledgeIInv, PurgesAlone, Knowledge!KnowledgeAssumption, NEW d \in Docs,
           task[d].at \in Purging,
           NEW to \in (Purging \ {"resolve"}) \cup {"chunk", "finish"},
           task' \in [Docs -> Tasks \cup {Knowledge!Idle}], task'[d] \in Tasks, task'[d].at = to,
           task'[d].for = task[d].for, task'[d].held = task[d].held,
           task'[d].chunks \in {{}, Knowledge!ChunksOf(d)},
           \A o \in Docs : o # d => task'[o] = task[o],
           Content(mem)', Content(disk)', faults' = faults,
           row' \in [Docs -> Knowledge!Rows \cup {None}], \A o \in Docs : o # d =>
              row'[o] = row[o],
           row'[d] # None => row'[d].chunks \in {{}, Knowledge!ChunksOf(d)},
           to = "finish" \/ row'[d] # None,
           task[d].for = "process" =>
               to \notin {"forget", "finish"} /\ row'[d] # None /\ row'[d].status # "processed",
           task[d].for = "delete" =>
               /\ to \notin {"retire", "chunk"}
               /\ row'[d] # None => /\ row'[d].journal # None
                                    /\ row'[d].status = row[d].status
                                    /\ row'[d].chunks = row[d].chunks,
           \A o \in Docs : o # d /\ Settled(o) => Kept(mem, o)' /\ Kept(disk, o)',
           to \in Decided => Spares(d, task'[d])
    PROVE  KnowledgeIInv'
<1>1. Knowledge!Working(d) /\ task[d] \in Tasks
  BY Busy DEF KnowledgeIInv, Knowledge!Working, Purging
<1>2. Peers(d) /\ \A o \in Docs : o # d => ~Knowledge!Working(o) /\ ~Knowledge!Working(o)'
  BY <1>1, Solo DEF Knowledge!Working
<1>3. task[d].for \in {"process", "delete"} /\ Knowledge!Working(d)'
  BY <1>1 DEF Tasks, Knowledge!Working, Purging
<1>4. ~Settled(d)'
  BY <1>3 DEF Settled
<1>5. Plain(d)'
  <2>1. ASSUME MaxFaults = 0, ~Reprocess PROVE task[d].for = "delete"
    BY <1>1, <2>1, Solo
  <2>2. row[d] # None
    BY <1>1 DEF KnowledgeIInv, Rowed, RowOfTask, Knowledge!At, Purging
  <2>3. Plain(d)
    BY DEF KnowledgeIInv, Alone
  <2>4. ~Knowledge!At(d, "parse")'
    BY DEF Knowledge!At, Purging
  <2> QED
    BY <2>1, <2>2, <2>3, <2>4 DEF Plain
<1>6. RowOfTask(d)'
  BY <1>3 DEF RowOfTask, Knowledge!At
<1>7. SoFar(d)'
  BY DEF SoFar, Stored, Knowledge!At, Purging
<1>8. DOMAIN task'[d].held = {}
  BY <1>1 DEF KnowledgeIInv, Locks, HeldFits, Knowledge!At, Purging
<1>9. HeldFits(d)' /\ LockedApart(d, d)' /\ \A o \in Docs : LockedApart(d, o)' /\
         LockedApart(o, d)'
  BY <1>8 DEF HeldFits, LockedApart
<1>10. to \notin {"parse", "resolve"} /\ faults' \in 0 .. MaxFaults
  BY DEF Purging, KnowledgeIInv, Typed
<1> QED
  BY <1>2, <1>4, <1>5, <1>6, <1>7, <1>9, <1>10, KnowledgeStep

\* What is known at a purge that has decided.
LEMMA Decision ==
    ASSUME KnowledgeIInv, NEW d \in Docs, task[d].at \in Decided
    PROVE  Knowledge!Working(d) /\ Spares(d, task[d])
BY DEF KnowledgeIInv, Spared, Decided, Knowledge!Working, Purging

\* A purge leaves the row of a document that is worked on.
LEMMA PurgedRow ==
    ASSUME KnowledgeIInv, NEW d \in Docs, task[d].at \in Purging
    PROVE  /\ Knowledge!Working(d) /\ task[d] \in Tasks
           /\ task[d].chunks \in {{}, Knowledge!ChunksOf(d)}
           /\ row[d] # None /\ row[d] \in Knowledge!Rows
           /\ row[d].chunks \in {{}, Knowledge!ChunksOf(d)}
           /\ task[d].for = "process" => row[d].status # "processed" /\ task[d].at # "forget"
           /\ task[d].for = "delete" =>
                task[d].at # "retire" /\ (task[d].at # "resolve" => row[d].journal # None)
<1>1. Knowledge!Working(d) /\ task[d] \in Tasks
  BY Busy DEF KnowledgeIInv, Knowledge!Working, Purging
<1>2. row[d] # None
  BY <1>1 DEF KnowledgeIInv, Rowed, RowOfTask, Knowledge!At, Purging
<1> QED
  BY <1>1, <1>2 DEF KnowledgeIInv, Typed, Rowed, RowOfTask, Knowledge!At

\* A step that writes the stores and moves on.
LEMMA PurgeWrite ==
    ASSUME KnowledgeIInv, PurgesAlone, Knowledge!KnowledgeAssumption, NEW d \in Docs,
           task[d].at \in Decided,
           task[d].at \notin {"retire", "forget", "complete"},
           NEW to \in Decided \ {"retire", "forget"}, Knowledge!Goto(d, to),
           Content(mem)', Content(disk)', UNCHANGED <<row, faults>>,
           \A o \in Docs : o # d /\ Settled(o) => Kept(mem, o)' /\ Kept(disk, o)'
    PROVE  KnowledgeIInv'
<1>1. task[d].at \in Purging /\ to \in Positions
  BY DEF Decided, Positions
<1>2. /\ task' \in [Docs -> Tasks \cup {Knowledge!Idle}]
      /\ task'[d] \in Tasks /\ task'[d].at = to
      /\ task'[d].for = task[d].for /\ task'[d].chunks = task[d].chunks
      /\ task'[d].doomed = task[d].doomed /\ task'[d].rest = task[d].rest
      /\ task'[d].held = task[d].held
      /\ \A o \in Docs : o # d => task'[o] = task[o]
  BY <1>1, PurgedRow, Moved DEF KnowledgeIInv
<1>3. Spares(d, task'[d])
  BY <1>2, Decision DEF Spares
<1>4. to \in (Purging \ {"resolve"}) \cup {"chunk", "finish"}
  BY DEF Decided
<1>5. to \notin {"finish", "chunk", "retire", "forget"}
  BY DEF Decided, Purging
<1>6. task[d].at # "resolve"
  BY DEF Decided
<1>7. row' \in [Docs -> Knowledge!Rows \cup {None}]
  BY DEF KnowledgeIInv, Typed
<1> QED
  BY <1>1, <1>2, <1>3, <1>4, <1>5, <1>6, <1>7, PurgedRow, PurgeStep

\* What a chunk gives are objects, and with a relation its ends.
LEMMA Given ==
    ASSUME Knowledge!KnowledgeAssumption, NEW o \in Docs, NEW c \in Knowledge!ChunksOf(o)
    PROVE  /\ c \in Knowledge!Chunks
           /\ \A x \in Gives(o, c) : x \in Knowledge!Objects /\
                 Knowledge!EndsOf(x) \subseteq Gives(o, c)
<1>1. Yield[o][c] \subseteq Knowledge!Objects
  BY DEF Knowledge!KnowledgeAssumption
<1>2. \A x \in Relations : Ends[x] \subseteq Entities
  BY DEF Knowledge!KnowledgeAssumption
<1>3. \A x \in Entities : x \notin Relations
  BY DEF Knowledge!KnowledgeAssumption
<1> QED
  BY <1>1, <1>2, <1>3 DEF Gives, Knowledge!EndsOf, Knowledge!Objects, Knowledge!Chunks

\* d takes neither x nor a relation's end, and leaves c among the sources of x
Passed(d, x, c) ==
    /\ ({x} \cup Knowledge!EndsOf(x)) \cap task[d].doomed = {}
    /\ x \in DOMAIN task[d].rest => c \in task[d].rest[x]

\* A step that writes the stores in memory, and leaves what is not doomed to those who
\* have it.
LEMMA PurgeMem ==
    ASSUME KnowledgeIInv, PurgesAlone, Knowledge!KnowledgeAssumption, NEW d \in Docs,
           task[d].at \in Decided,
           task[d].at \notin {"retire", "forget", "complete"},
           NEW to \in Decided \ {"retire", "forget"}, Knowledge!Goto(d, to),
           Content(mem)', UNCHANGED <<row, disk, faults>>,
           mem.text \ task[d].chunks \subseteq mem'.text,
           \A x \in Knowledge!Objects, c \in Knowledge!Chunks :
               Credited(mem, x, c) /\ Passed(d, x, c) => Credited(mem, x, c)'
    PROVE  KnowledgeIInv'
<1>1. Content(disk)'
  BY DEF KnowledgeIInv, Typed, Content
<1>2. ASSUME NEW o \in Docs, o # d, Settled(o) PROVE Kept(mem, o)' /\ Kept(disk, o)'
  <2>1. Kept(mem, o) /\ Kept(disk, o)
    BY <1>2 DEF KnowledgeIInv, AllKept
  <2>2. Kept(disk, o)'
    BY <2>1 DEF Kept, Credited, Tracked
  <2>3. ASSUME NEW c \in Knowledge!ChunksOf(o), NEW x \in Gives(o, c) PROVE Credited(mem, x, c)'
    <3>1. c \in Knowledge!Chunks /\ x \in Knowledge!Objects /\
             Knowledge!EndsOf(x) \subseteq Gives(o, c)
      BY Given
    <3>2. Passed(d, x, c)
      BY <1>2, <3>1, Decision DEF Spares, Passed
    <3> QED
      BY <2>1, <3>1, <3>2 DEF Kept
  <2>4. Knowledge!ChunksOf(o) \subseteq mem'.text
    <3>1. task[d].chunks \in {{}, Knowledge!ChunksOf(d)}
      BY PurgedRow DEF Decided
    <3>2. Knowledge!ChunksOf(o) \cap Knowledge!ChunksOf(d) = {}
      BY <1>2 DEF Knowledge!KnowledgeAssumption
    <3> QED
      BY <2>1, <3>1, <3>2 DEF Kept
  <2> QED
    BY <2>2, <2>3, <2>4 DEF Kept
<1> QED
  BY <1>1, <1>2, PurgeWrite

\* The sources that survive are sets of chunks.
LEMMA RestTyped ==
    ASSUME NEW t \in Tasks
    PROVE  /\ DOMAIN t.rest \subseteq Knowledge!Objects
           /\ \A x \in DOMAIN t.rest : t.rest[x] \in SUBSET Knowledge!Chunks
           /\ t.doomed \subseteq Knowledge!Objects
BY DEF Tasks, SourcesOf

\* The tracking of the survivors is cut down,
LEMMA PruneInv ==
    ASSUME KnowledgeIInv, PurgesAlone, Knowledge!KnowledgeAssumption, NEW d \in Docs,
           Knowledge!Prune(d)
    PROVE  KnowledgeIInv'
<1> DEFINE new == [x \in Knowledge!Objects |-> IF x \in DOMAIN task[d].rest THEN task[d].rest[x]
                                     ELSE mem.track[x]]
<1>1. task[d].at = "prune" /\ task[d].at \in Decided
  BY DEF Knowledge!Prune, Knowledge!At, Decided, Purging
<1>2. task[d] \in Tasks
  BY <1>1, PurgedRow DEF Decided
<1>3. new \in [Knowledge!Objects -> (SUBSET Knowledge!Chunks) \cup {None}]
  BY <1>2, RestTyped DEF KnowledgeIInv, Typed, Content
<1>4. mem' = [mem EXCEPT !.track = new]
  BY DEF Knowledge!Prune, Knowledge!Write
<1>5. /\ Content(mem)' /\ mem'.track = new /\ mem'.graph = mem.graph
      /\ mem'.vdb = mem.vdb /\ mem'.text = mem.text
  BY <1>3, <1>4, TrackWritten DEF KnowledgeIInv, Typed
<1>6. ASSUME NEW x \in Knowledge!Objects, NEW c \in Knowledge!Chunks, Credited(mem, x, c),
             Passed(d, x, c)
      PROVE  Credited(mem, x, c)'
  <2>1. x \in DOMAIN task[d].rest => task[d].rest[x] # None /\ c \in task[d].rest[x]
    BY <1>2, <1>6, RestTyped DEF Passed, Knowledge!KnowledgeAssumption
  <2> QED
    BY <1>5, <1>6, <2>1 DEF Credited, Tracked
<1>7. UNCHANGED <<row, disk, faults>> /\ Knowledge!Goto(d, "cut_edges")
  BY DEF Knowledge!Prune
<1> HIDE DEF new
<1> QED
  BY <1>1, <1>5, <1>6, <1>7, PurgeMem DEF Decided, Purging

\* What Removed leaves of a field.
LEMMA RemovedTyped ==
    ASSUME Content(mem), NEW gone
    PROVE  /\ [x \in Knowledge!Objects |-> IF x \in gone THEN None ELSE mem["track"][x]]
               \in [Knowledge!Objects -> (SUBSET Knowledge!Chunks) \cup {None}]
           /\ [x \in Knowledge!Objects |-> IF x \in gone THEN None ELSE mem["graph"][x]]
               \in [Knowledge!Objects -> (SUBSET Knowledge!Chunks) \cup {None}]
BY DEF Content

\* the doomed edges leave graph and vectors,
LEMMA CutEdgesInv ==
    ASSUME KnowledgeIInv, PurgesAlone, Knowledge!KnowledgeAssumption, NEW d \in Docs,
           Knowledge!CutEdges(d)
    PROVE  KnowledgeIInv'
<1> DEFINE gone == task[d].doomed \cap Relations
           new == [x \in Knowledge!Objects |-> IF x \in gone THEN None ELSE mem["graph"][x]]
<1>1. task[d].at = "cut_edges" /\ task[d].at \in Decided
  BY DEF Knowledge!CutEdges, Knowledge!At, Decided, Purging
<1>2. mem' = [[mem EXCEPT !["graph"] = new] EXCEPT !.vdb = @ \ gone]
  BY DEF Knowledge!CutEdges, Knowledge!Write, Knowledge!Removed
<1>3. Content(mem) /\ new \in [Knowledge!Objects -> (SUBSET Knowledge!Chunks) \cup {None}]
  BY RemovedTyped DEF KnowledgeIInv, Typed
<1> HIDE DEF new
<1>4. /\ DOMAIN mem' = Knowledge!Stores /\ mem'.graph = new /\ mem'.vdb = mem.vdb \ gone
      /\ mem'.text = mem.text /\ mem'.track = mem.track
      /\ mem'.names = mem.names /\ mem'.pairs = mem.pairs
  BY <1>2, <1>3 DEF Content, Knowledge!Stores
<1>5. Content(mem)'
  BY <1>3, <1>4 DEF Content
<1>6. ASSUME NEW x \in Knowledge!Objects, NEW c \in Knowledge!Chunks, Credited(mem, x, c),
             Passed(d, x, c)
      PROVE  Credited(mem, x, c)'
  BY <1>4, <1>6 DEF Credited, Tracked, Passed, new
<1>7. UNCHANGED <<row, disk, faults>> /\ Knowledge!Goto(d, "untrack_edges")
  BY DEF Knowledge!CutEdges
<1> QED
  BY <1>1, <1>4, <1>5, <1>6, <1>7, PurgeMem DEF Decided, Purging

\* and the tracking;
LEMMA UntrackEdgesInv ==
    ASSUME KnowledgeIInv, PurgesAlone, Knowledge!KnowledgeAssumption, NEW d \in Docs,
           Knowledge!UntrackEdges(d)
    PROVE  KnowledgeIInv'
<1> DEFINE gone == task[d].doomed \cap Relations
           new == [x \in Knowledge!Objects |-> IF x \in gone THEN None ELSE mem["track"][x]]
<1>1. task[d].at = "untrack_edges" /\ task[d].at \in Decided
  BY DEF Knowledge!UntrackEdges, Knowledge!At, Decided, Purging
<1>2. mem' = [mem EXCEPT !["track"] = new]
  BY DEF Knowledge!UntrackEdges, Knowledge!Write, Knowledge!Removed
<1>3. Content(mem) /\ new \in [Knowledge!Objects -> (SUBSET Knowledge!Chunks) \cup {None}]
  BY RemovedTyped DEF KnowledgeIInv, Typed
<1> HIDE DEF new
<1>4. Content(mem)' /\ mem'.track = new /\ mem'.graph = mem.graph
      /\ mem'.vdb = mem.vdb /\ mem'.text = mem.text
  BY <1>2, <1>3, TrackWritten
<1>6. ASSUME NEW x \in Knowledge!Objects, NEW c \in Knowledge!Chunks, Credited(mem, x, c),
             Passed(d, x, c)
      PROVE  Credited(mem, x, c)'
  BY <1>4, <1>6 DEF Credited, Tracked, Passed, new
<1>7. UNCHANGED <<row, disk, faults>> /\ Knowledge!Goto(d, "cut_incident")
  BY DEF Knowledge!UntrackEdges
<1> QED
  BY <1>1, <1>4, <1>6, <1>7, PurgeMem DEF Decided, Purging

\* an edge at a doomed node belongs to nobody who keeps both ends;
LEMMA PassedIncident ==
    ASSUME NEW d \in Docs, NEW x \in Knowledge!Objects, NEW c, Passed(d, x, c)
    PROVE  x \notin Knowledge!Incident(d) /\ x \notin task[d].doomed
BY DEF Passed, Knowledge!Incident, Knowledge!EndsOf

LEMMA CutIncidentInv ==
    ASSUME KnowledgeIInv, PurgesAlone, Knowledge!KnowledgeAssumption, NEW d \in Docs,
           Knowledge!CutIncident(d)
    PROVE  KnowledgeIInv'
<1> DEFINE gone == Knowledge!Incident(d)
           new == [x \in Knowledge!Objects |-> IF x \in gone THEN None ELSE mem["track"][x]]
<1>1. task[d].at = "cut_incident" /\ task[d].at \in Decided
  BY DEF Knowledge!CutIncident, Knowledge!At, Decided, Purging
<1>2. mem' = [[mem EXCEPT !["track"] = new] EXCEPT !.vdb = @ \ gone]
  BY DEF Knowledge!CutIncident, Knowledge!Write, Knowledge!Removed
<1>3. Content(mem) /\ new \in [Knowledge!Objects -> (SUBSET Knowledge!Chunks) \cup {None}]
  BY RemovedTyped DEF KnowledgeIInv, Typed
<1> HIDE DEF new
<1>4. /\ DOMAIN mem' = Knowledge!Stores /\ mem'.track = new /\ mem'.vdb = mem.vdb \ gone
      /\ mem'.text = mem.text /\ mem'.graph = mem.graph
      /\ mem'.names = mem.names /\ mem'.pairs = mem.pairs
  BY <1>2, <1>3 DEF Content, Knowledge!Stores
<1>5. Content(mem)'
  BY <1>3, <1>4 DEF Content
<1>6. ASSUME NEW x \in Knowledge!Objects, NEW c \in Knowledge!Chunks, Credited(mem, x, c),
             Passed(d, x, c)
      PROVE  Credited(mem, x, c)'
  BY <1>4, <1>6, PassedIncident DEF Credited, Tracked, new
<1>7. UNCHANGED <<row, disk, faults>> /\ Knowledge!Goto(d, "cut_nodes")
  BY DEF Knowledge!CutIncident
<1> QED
  BY <1>1, <1>4, <1>5, <1>6, <1>7, PurgeMem DEF Decided, Purging

\* the doomed nodes leave the graph,
LEMMA CutNodesInv ==
    ASSUME KnowledgeIInv, PurgesAlone, Knowledge!KnowledgeAssumption, NEW d \in Docs,
           Knowledge!CutNodes(d)
    PROVE  KnowledgeIInv'
<1> DEFINE gone == (task[d].doomed \cap Entities) \cup Knowledge!Incident(d)
           new == [x \in Knowledge!Objects |-> IF x \in gone THEN None ELSE mem["graph"][x]]
<1>1. task[d].at = "cut_nodes" /\ task[d].at \in Decided
  BY DEF Knowledge!CutNodes, Knowledge!At, Decided, Purging
<1>2. mem' = [mem EXCEPT !["graph"] = new]
  BY DEF Knowledge!CutNodes, Knowledge!Write, Knowledge!Removed
<1>3. Content(mem) /\ new \in [Knowledge!Objects -> (SUBSET Knowledge!Chunks) \cup {None}]
  BY RemovedTyped DEF KnowledgeIInv, Typed
<1> HIDE DEF new
<1>4. /\ DOMAIN mem' = Knowledge!Stores /\ mem'.graph = new /\ mem'.vdb = mem.vdb
      /\ mem'.text = mem.text /\ mem'.track = mem.track
      /\ mem'.names = mem.names /\ mem'.pairs = mem.pairs
  BY <1>2, <1>3 DEF Content, Knowledge!Stores
<1>5. Content(mem)'
  BY <1>3, <1>4 DEF Content
<1>6. ASSUME NEW x \in Knowledge!Objects, NEW c \in Knowledge!Chunks, Credited(mem, x, c),
             Passed(d, x, c)
      PROVE  Credited(mem, x, c)'
  BY <1>4, <1>6, PassedIncident DEF Credited, Tracked, new
<1>7. UNCHANGED <<row, disk, faults>> /\ Knowledge!Goto(d, "untrack_nodes")
  BY DEF Knowledge!CutNodes
<1> QED
  BY <1>1, <1>4, <1>5, <1>6, <1>7, PurgeMem DEF Decided, Purging

\* and tracking and vectors.
LEMMA UntrackNodesInv ==
    ASSUME KnowledgeIInv, PurgesAlone, Knowledge!KnowledgeAssumption, NEW d \in Docs,
           Knowledge!UntrackNodes(d)
    PROVE  KnowledgeIInv'
<1> DEFINE gone == task[d].doomed \cap Entities
           new == [x \in Knowledge!Objects |-> IF x \in gone THEN None ELSE mem["track"][x]]
<1>1. task[d].at = "untrack_nodes" /\ task[d].at \in Decided
  BY DEF Knowledge!UntrackNodes, Knowledge!At, Decided, Purging
<1>2. mem' = [[mem EXCEPT !["track"] = new] EXCEPT !.vdb = @ \ gone]
  BY DEF Knowledge!UntrackNodes, Knowledge!Write, Knowledge!Removed
<1>3. Content(mem) /\ new \in [Knowledge!Objects -> (SUBSET Knowledge!Chunks) \cup {None}]
  BY RemovedTyped DEF KnowledgeIInv, Typed
<1> HIDE DEF new
<1>4. /\ DOMAIN mem' = Knowledge!Stores /\ mem'.track = new /\ mem'.vdb = mem.vdb \ gone
      /\ mem'.text = mem.text /\ mem'.graph = mem.graph
      /\ mem'.names = mem.names /\ mem'.pairs = mem.pairs
  BY <1>2, <1>3 DEF Content, Knowledge!Stores
<1>5. Content(mem)'
  BY <1>3, <1>4 DEF Content
<1>6. ASSUME NEW x \in Knowledge!Objects, NEW c \in Knowledge!Chunks, Credited(mem, x, c),
             Passed(d, x, c)
      PROVE  Credited(mem, x, c)'
  BY <1>4, <1>6 DEF Credited, Tracked, Passed, new
<1>7. UNCHANGED <<row, disk, faults>> /\ Knowledge!Goto(d, "flush_cut")
  BY DEF Knowledge!UntrackNodes
<1> QED
  BY <1>1, <1>4, <1>5, <1>6, <1>7, PurgeMem DEF Decided, Purging

\* What survives may be rebuilt from its chunks.
LEMMA RebuildInv ==
    ASSUME KnowledgeIInv, PurgesAlone, Knowledge!KnowledgeAssumption, NEW d \in Docs,
           Knowledge!Rebuild(d)
    PROVE  KnowledgeIInv'
<1>1. task[d].at = "rebuild" /\ task[d].at \in Decided
  BY DEF Knowledge!Rebuild, Knowledge!At, Decided, Purging
<1>2. task[d] \in Tasks
  BY <1>1, PurgedRow DEF Decided
<1>3. PICK some \in SUBSET {x \in DOMAIN task[d].rest : mem.graph[x] # None} :
          mem' = [mem EXCEPT
               !.track = [x \in Knowledge!Objects |-> IF x \in some THEN task[d].rest[x]
                  ELSE @[x]],
               !.graph = [x \in Knowledge!Objects |-> IF x \in some THEN task[d].rest[x]
                  ELSE @[x]],
               !.vdb = @ \cup some]
  BY DEF Knowledge!Rebuild, Knowledge!Write
<1> DEFINE track == [x \in Knowledge!Objects |-> IF x \in some THEN task[d].rest[x]
                       ELSE mem.track[x]]
           graph == [x \in Knowledge!Objects |-> IF x \in some THEN task[d].rest[x]
              ELSE mem.graph[x]]
<1>4. /\ track \in [Knowledge!Objects -> (SUBSET Knowledge!Chunks) \cup {None}]
      /\ graph \in [Knowledge!Objects -> (SUBSET Knowledge!Chunks) \cup {None}]
      /\ some \subseteq DOMAIN task[d].rest /\ some \subseteq Knowledge!Objects
  BY <1>2, RestTyped DEF KnowledgeIInv, Typed, Content
<1>5. mem' = [mem EXCEPT !.track = track, !.graph = graph, !.vdb = @ \cup some]
  BY <1>3
<1> HIDE DEF track, graph
<1>6. /\ DOMAIN mem' = Knowledge!Stores /\ mem'.track = track /\ mem'.vdb = mem.vdb \cup some
      /\ mem'.text = mem.text /\ mem'.graph = graph
      /\ mem'.names = mem.names /\ mem'.pairs = mem.pairs
  BY <1>5 DEF Content, Knowledge!Stores, KnowledgeIInv, Typed
<1>7. Content(mem)'
  BY <1>4, <1>6 DEF Content, KnowledgeIInv, Typed
<1>8. ASSUME NEW x \in Knowledge!Objects, NEW c \in Knowledge!Chunks, Credited(mem, x, c),
             Passed(d, x, c)
      PROVE  Credited(mem, x, c)'
  <2>1. x \in DOMAIN task[d].rest => task[d].rest[x] # None /\ c \in task[d].rest[x]
    BY <1>2, <1>8, RestTyped DEF Passed, Knowledge!KnowledgeAssumption
  <2> QED
    BY <1>4, <1>6, <1>8, <2>1 DEF Credited, Tracked, track, graph
<1>9. UNCHANGED <<row, disk, faults>> /\ Knowledge!Goto(d, "flush_rebuilt")
  BY DEF Knowledge!Rebuild
<1> QED
  BY <1>1, <1>6, <1>7, <1>8, <1>9, PurgeMem DEF Decided, Purging

\* The chunks of the document itself go.
LEMMA DropChunksInv ==
    ASSUME KnowledgeIInv, PurgesAlone, Knowledge!KnowledgeAssumption, NEW d \in Docs,
           Knowledge!DropChunks(d)
    PROVE  KnowledgeIInv'
<1>1. task[d].at = "drop_chunks" /\ task[d].at \in Decided
  BY DEF Knowledge!DropChunks, Knowledge!At, Decided, Purging
<1>2. /\ DOMAIN mem' = Knowledge!Stores /\ mem'.track = mem.track /\ mem'.vdb = mem.vdb
      /\ mem'.text = mem.text \ task[d].chunks /\ mem'.graph = mem.graph
      /\ mem'.names = mem.names /\ mem'.pairs = mem.pairs
  BY DEF Knowledge!DropChunks, Knowledge!Write, Content, Knowledge!Stores, KnowledgeIInv, Typed
<1>3. Content(mem)'
  BY <1>2 DEF Content, KnowledgeIInv, Typed
<1>4. \A x \in Knowledge!Objects, c \in Knowledge!Chunks : Credited(mem, x, c) =>
         Credited(mem, x, c)'
  BY <1>2 DEF Credited, Tracked
<1>5. UNCHANGED <<row, disk, faults>> /\ Knowledge!Goto(d, "flush_chunks")
  BY DEF Knowledge!DropChunks
<1> QED
  BY <1>1, <1>2, <1>3, <1>4, <1>5, PurgeMem DEF Decided, Purging

\* Its anchors go.
LEMMA DropNamesInv ==
    ASSUME KnowledgeIInv, PurgesAlone, Knowledge!KnowledgeAssumption, NEW d \in Docs,
           Knowledge!DropNames(d)
    PROVE  KnowledgeIInv'
<1>1. task[d].at = "drop_names" /\ task[d].at \in Decided
  BY DEF Knowledge!DropNames, Knowledge!At, Decided, Purging
<1>2. /\ DOMAIN mem' = Knowledge!Stores /\ mem'.track = mem.track /\ mem'.vdb = mem.vdb
      /\ mem'.text = mem.text /\ mem'.graph = mem.graph
      /\ mem'.names = [mem.names EXCEPT ![d] = None] /\ mem'.pairs = mem.pairs
  <2>1. mem' = [mem EXCEPT !.names = [mem.names EXCEPT ![d] = None]]
    BY DEF Knowledge!DropNames, Knowledge!Write
  <2> QED
    BY <2>1 DEF Content, Knowledge!Stores, KnowledgeIInv, Typed
<1>3. Content(mem)'
  BY <1>2 DEF Content, KnowledgeIInv, Typed
<1>4. \A x \in Knowledge!Objects, c \in Knowledge!Chunks : Credited(mem, x, c) =>
         Credited(mem, x, c)'
  BY <1>2 DEF Credited, Tracked
<1>5. UNCHANGED <<row, disk, faults>> /\ Knowledge!Goto(d, "drop_pairs")
  BY DEF Knowledge!DropNames
<1> QED
  BY <1>1, <1>2, <1>3, <1>4, <1>5, PurgeMem DEF Decided, Purging

LEMMA DropPairsInv ==
    ASSUME KnowledgeIInv, PurgesAlone, Knowledge!KnowledgeAssumption, NEW d \in Docs,
           Knowledge!DropPairs(d)
    PROVE  KnowledgeIInv'
<1>1. task[d].at = "drop_pairs" /\ task[d].at \in Decided
  BY DEF Knowledge!DropPairs, Knowledge!At, Decided, Purging
<1>2. /\ DOMAIN mem' = Knowledge!Stores /\ mem'.track = mem.track /\ mem'.vdb = mem.vdb
      /\ mem'.text = mem.text /\ mem'.graph = mem.graph
      /\ mem'.names = mem.names /\ mem'.pairs = [mem.pairs EXCEPT ![d] = None]
  <2>1. mem' = [mem EXCEPT !.pairs = [mem.pairs EXCEPT ![d] = None]]
    BY DEF Knowledge!DropPairs, Knowledge!Write
  <2> QED
    BY <2>1 DEF Content, Knowledge!Stores, KnowledgeIInv, Typed
<1>3. Content(mem)'
  BY <1>2 DEF Content, KnowledgeIInv, Typed
<1>4. \A x \in Knowledge!Objects, c \in Knowledge!Chunks : Credited(mem, x, c) =>
         Credited(mem, x, c)'
  BY <1>2 DEF Credited, Tracked
<1>5. UNCHANGED <<row, disk, faults>> /\ Knowledge!Goto(d, "flush_dropped")
  BY DEF Knowledge!DropPairs
<1> QED
  BY <1>1, <1>2, <1>3, <1>4, <1>5, PurgeMem DEF Decided, Purging

\* What is flushed in part is still there: the stores of memory and of disk both have it.
LEMMA FlushedKept ==
    ASSUME Content(mem), Content(disk), NEW o \in Docs, NEW some, Kept(mem, o), Kept(disk, o)
    PROVE  Kept(Knowledge!Flushed(some), o)
BY FlushedContent DEF Kept, Credited, Tracked, Knowledge!Stores

\* A purge flushes some stores and moves on.
LEMMA PurgeFlush ==
    ASSUME KnowledgeIInv, PurgesAlone, Knowledge!KnowledgeAssumption, NEW d \in Docs,
           NEW from \in Decided,
           from \notin {"retire", "forget", "complete"}, NEW some,
           NEW to \in Decided \ {"retire", "forget"}, Knowledge!Flush(d, some, from, to)
    PROVE  KnowledgeIInv'
<1>1. task[d].at = from /\ Knowledge!Goto(d, to) /\ UNCHANGED <<row, faults>>
  BY DEF Knowledge!Flush, Knowledge!At
<1>2. mem' = mem /\ disk' = Knowledge!Flushed(some)
  BY DEF Knowledge!Flush
<1>3. Content(mem)' /\ Content(disk)'
  BY <1>2, FlushedContent DEF KnowledgeIInv, Typed, Content
<1>4. ASSUME NEW o \in Docs, Settled(o) PROVE Kept(mem, o)' /\ Kept(disk, o)'
  BY <1>2, <1>4, FlushedKept DEF KnowledgeIInv, Typed, AllKept, Kept, Credited, Tracked
<1> QED
  BY <1>1, <1>3, <1>4, PurgeWrite

LEMMA PurgeFlushes ==
    ASSUME KnowledgeIInv, PurgesAlone, Knowledge!KnowledgeAssumption, NEW d \in Docs,
           \/ Knowledge!FlushCut(d) \/ Knowledge!FlushRebuilt(d) \/ Knowledge!FlushChunks(d) \/
                 Knowledge!FlushDropped(d)
    PROVE  KnowledgeIInv'
<1>1. CASE Knowledge!FlushCut(d)
  BY <1>1, PurgeFlush DEF Knowledge!FlushCut, Decided, Purging
<1>2. CASE Knowledge!FlushRebuilt(d)
  BY <1>2, PurgeFlush DEF Knowledge!FlushRebuilt, Decided, Purging
<1>3. CASE Knowledge!FlushChunks(d)
  BY <1>3, PurgeFlush DEF Knowledge!FlushChunks, Decided, Purging
<1>4. CASE Knowledge!FlushDropped(d)
  BY <1>4, PurgeFlush DEF Knowledge!FlushDropped, Decided, Purging
<1> QED
  BY <1>1, <1>2, <1>3, <1>4

\* The row with a new journal.
LEMMA PhaseWritten ==
    ASSUME KnowledgeIInv, Knowledge!KnowledgeAssumption, NEW d \in Docs, task[d].at \in Purging,
           NEW phase \in {"prepared", "derived_committed", "anchors_pending", "completed"},
           Knowledge!WritePhase(d, phase)
    PROVE  /\ row' \in [Docs -> Knowledge!Rows \cup {None}] /\ \A o \in Docs : o # d =>
                 row'[o] = row[o]
           /\ row'[d] # None /\ row'[d].journal # None
           /\ row'[d].status = row[d].status /\ row'[d].chunks = row[d].chunks
<1>1. task[d] \in Tasks /\ row[d] \in Knowledge!Rows /\
         row \in [Docs -> Knowledge!Rows \cup {None}]
  BY PurgedRow DEF KnowledgeIInv, Typed
<1> DEFINE journal == [phase |-> phase, op |-> task[d].chunks]
<1>2. journal \in Knowledge!Journals /\ journal # None
  BY <1>1 DEF Tasks, Knowledge!Journals, Knowledge!KnowledgeAssumption
<1>3. row' = [row EXCEPT ![d] = [row[d] EXCEPT !.journal = journal]]
  BY DEF Knowledge!WritePhase
<1> HIDE DEF journal
<1>4. [row[d] EXCEPT !.journal = journal] \in Knowledge!Rows
  BY <1>1, <1>2 DEF Knowledge!Rows
<1> QED
  BY <1>1, <1>2, <1>3, <1>4 DEF Knowledge!Rows, Knowledge!KnowledgeAssumption

\* A step that leaves a journal in the row and moves on.
LEMMA PurgePhase ==
    ASSUME KnowledgeIInv, PurgesAlone, Knowledge!KnowledgeAssumption, NEW d \in Docs,
           task[d].at \in Purging,
           task[d].at \notin {"retire", "forget"},
           NEW to \in Purging \ {"resolve"}, Knowledge!Goto(d, to), UNCHANGED <<mem, disk,
              faults>>,
           \/ row' = row /\ row[d].journal # None
           \/ \E phase \in {"prepared", "derived_committed", "anchors_pending", "completed"} :
                  Knowledge!WritePhase(d, phase),
           to \in {"retire", "forget"} => to = Knowledge!AfterPurge(d),
           to \in Decided => Spares(d, task[d])
    PROVE  KnowledgeIInv'
<1>1. /\ row' \in [Docs -> Knowledge!Rows \cup {None}] /\ \A o \in Docs : o # d =>
            row'[o] = row[o]
      /\ row'[d] # None /\ row'[d].journal # None
      /\ row'[d].status = row[d].status /\ row'[d].chunks = row[d].chunks
  BY PhaseWritten, PurgedRow DEF KnowledgeIInv, Typed
<1>2. to \in Positions
  BY DEF Positions
<1>3. /\ task' \in [Docs -> Tasks \cup {Knowledge!Idle}]
      /\ task'[d] \in Tasks /\ task'[d].at = to
      /\ task'[d].for = task[d].for /\ task'[d].chunks = task[d].chunks
      /\ task'[d].doomed = task[d].doomed /\ task'[d].rest = task[d].rest
      /\ task'[d].held = task[d].held
      /\ \A o \in Docs : o # d => task'[o] = task[o]
  BY <1>2, PurgedRow, Moved DEF KnowledgeIInv
<1>4. to \in Decided => Spares(d, task'[d])
  BY <1>3 DEF Spares
<1>5. Content(mem)' /\ Content(disk)'
  BY DEF KnowledgeIInv, Typed, Content
<1>6. ASSUME NEW o \in Docs, Settled(o) PROVE Kept(mem, o)' /\ Kept(disk, o)'
  BY <1>6 DEF KnowledgeIInv, AllKept, Kept, Credited, Tracked
<1>7. /\ task[d].for = "process" => to # "forget"
      /\ task[d].for = "delete" => to # "retire"
  BY DEF Knowledge!AfterPurge
<1>8. to \notin {"chunk", "finish"}
  BY DEF Purging
<1> QED
  BY <1>1, <1>3, <1>4, <1>5, <1>6, <1>7, <1>8, PurgedRow, PurgeStep

\* The purge begins, and has nothing in hand.
LEMMA ResolveInv ==
    ASSUME KnowledgeIInv, PurgesAlone, Knowledge!KnowledgeAssumption, NEW d \in Docs,
           Knowledge!Resolve(d)
    PROVE  KnowledgeIInv'
<1> DEFINE to == CASE Knowledge!Reached(Knowledge!Journal(d),
                         "completed") -> Knowledge!AfterPurge(d)
                   [] Knowledge!Reached(Knowledge!Journal(d), "anchors_pending") -> "drop_names"
                   [] Knowledge!Reached(Knowledge!Journal(d),
                      "derived_committed") -> "drop_chunks"
                   [] Knowledge!Proof(d) = "anchors" -> "analyze"
                   [] OTHER -> "flush_cut"
<1>1. task[d].at = "resolve" /\ task[d].at \in Purging
  BY DEF Knowledge!Resolve, Knowledge!At, Purging
<1>2. to \in {Knowledge!AfterPurge(d), "drop_names", "drop_chunks", "analyze", "flush_cut"}
  OBVIOUS
<1>3. Knowledge!Goto(d, to) /\ UNCHANGED <<mem, disk, faults>>
  BY DEF Knowledge!Resolve
<1> HIDE DEF to
<1>4. \/ row' = row /\ row[d].journal # None
      \/ Knowledge!WritePhase(d, "prepared")
  BY DEF Knowledge!Resolve, Knowledge!Journal
<1>5. to \in Purging \ {"resolve"} /\ (to \in {"retire", "forget"} =>
         to = Knowledge!AfterPurge(d))
  BY <1>2 DEF Knowledge!AfterPurge, Purging
<1>6. Spares(d, task[d])
  BY <1>1 DEF KnowledgeIInv, Spared, Spares
<1> QED
  BY <1>1, <1>3, <1>4, <1>5, <1>6, PurgePhase

\* Its phases are written.
LEMMA PhasesInv ==
    ASSUME KnowledgeIInv, PurgesAlone, Knowledge!KnowledgeAssumption, NEW d \in Docs,
           Knowledge!Derived(d) \/ Knowledge!Pending(d) \/ Knowledge!Complete(d)
    PROVE  KnowledgeIInv'
<1>1. CASE Knowledge!Derived(d)
  <2>1. task[d].at = "derived" /\ task[d].at \in Purging /\ Spares(d, task[d])
    BY <1>1, Decision DEF Knowledge!Derived, Knowledge!At, Decided, Purging
  <2> QED
    BY <1>1, <2>1, PurgePhase DEF Knowledge!Derived, Purging
<1>2. CASE Knowledge!Pending(d)
  <2>1. task[d].at = "pending" /\ task[d].at \in Purging /\ Spares(d, task[d])
    BY <1>2, Decision DEF Knowledge!Pending, Knowledge!At, Decided, Purging
  <2> QED
    BY <1>2, <2>1, PurgePhase DEF Knowledge!Pending, Purging
<1>3. CASE Knowledge!Complete(d)
  <2>1. task[d].at = "complete" /\ task[d].at \in Purging /\ Spares(d, task[d])
    BY <1>3, Decision DEF Knowledge!Complete, Knowledge!At, Decided, Purging
  <2>2. Knowledge!AfterPurge(d) \in Purging \ {"resolve"}
    BY DEF Knowledge!AfterPurge, Purging
  <2> QED
    BY <1>3, <2>1, <2>2, PurgePhase DEF Knowledge!Complete
<1> QED
  BY <1>1, <1>2, <1>3

\* The sources that an object has without the chunks of d.
LEMMA KnownTyped ==
    ASSUME KnowledgeIInv, NEW x \in Knowledge!Objects, mem.graph[x] # None
    PROVE  Knowledge!Known(x) \in SUBSET Knowledge!Chunks
BY DEF Knowledge!Known, KnowledgeIInv, Typed, Content

\* What is decided upon the sources spares what other documents gave.
LEMMA AnalyzeInv ==
    ASSUME KnowledgeIInv, PurgesAlone, Knowledge!KnowledgeAssumption, NEW d \in Docs,
           Knowledge!Analyze(d)
    PROVE  KnowledgeIInv'
<1> DEFINE affected == {x \in Knowledge!Anchored(mem, d) : mem.graph[x] # None}
           left(x) == Knowledge!Known(x) \ task[d].chunks
           rest == {x \in affected : left(x) # {} /\
                       (left(x) # Knowledge!Known(x) \/ mem.graph[x] \cap task[d].chunks # {})}
           doomed == {x \in affected : left(x) = {}}
           sources == [x \in rest |-> left(x)]
           new == [task[d] EXCEPT !.at = "prune", !.doomed = doomed, !.rest = sources]
<1>1. task[d].at = "analyze" /\ task[d].at \in Purging
  BY DEF Knowledge!Analyze, Knowledge!At, Purging
<1>2. task[d] \in Tasks /\ task \in [Docs -> Tasks \cup {Knowledge!Idle}]
  BY <1>1, PurgedRow DEF KnowledgeIInv, Typed
<1>3. affected \subseteq Knowledge!Objects /\ doomed \subseteq Knowledge!Objects /\
         rest \subseteq Knowledge!Objects
  BY DEF Knowledge!Anchored
<1>4. sources \in SourcesOf
  <2>1. \A x \in rest : left(x) \in SUBSET Knowledge!Chunks
    BY <1>3, KnownTyped
  <2>2. sources \in [rest -> SUBSET Knowledge!Chunks]
    BY <2>1
  <2> QED
    BY <1>3, <2>2 DEF SourcesOf
<1>5. task' = [task EXCEPT ![d] = new]
  BY DEF Knowledge!Analyze
<1>6. \A o \in Docs : \A c \in Knowledge!ChunksOf(o), x \in Knowledge!Objects :
          o # d /\ Credited(mem, x, c) =>
              x \notin doomed /\ (x \in rest => c \in left(x))
  <2>1. SUFFICES ASSUME NEW o \in Docs, NEW c \in Knowledge!ChunksOf(o),
           NEW x \in Knowledge!Objects, o # d,
                        Credited(mem, x, c)
                 PROVE  c \in left(x)
    OBVIOUS
  <2>2. c \in Knowledge!Known(x)
    BY <2>1 DEF Knowledge!Known, Credited, Tracked
  <2>3. task[d].chunks \in {{}, Knowledge!ChunksOf(d)} /\
           Knowledge!ChunksOf(o) \cap Knowledge!ChunksOf(d) = {}
    BY <1>1, <2>1, PurgedRow DEF Knowledge!KnowledgeAssumption
  <2> QED
    BY <2>2, <2>3
<1>7. DOMAIN sources = rest /\ \A x \in rest : sources[x] = left(x)
  OBVIOUS
<1> HIDE DEF affected, left, rest, doomed, sources
<1>8. /\ new \in Tasks /\ new.at = "prune" /\ new.for = task[d].for /\ new.held = task[d].held
      /\ new.chunks = task[d].chunks /\ new.doomed = doomed /\ new.rest = sources
  BY <1>2, <1>3, <1>4 DEF Tasks, Positions, Purging
<1> HIDE DEF new
<1>9. task' \in [Docs -> Tasks \cup {Knowledge!Idle}] /\ task'[d] = new /\
         \A o \in Docs : o # d => task'[o] = task[o]
  BY <1>2, <1>5, <1>8
<1>10. ASSUME NEW o \in Docs, Settled(o) PROVE Kept(mem, o)' /\ Kept(disk, o)' /\ Kept(mem, o)
  BY <1>10 DEF KnowledgeIInv, AllKept, Kept, Credited, Tracked, Knowledge!Analyze
<1>11. Spares(d, new)
  <2>1. SUFFICES ASSUME NEW o \in Docs, o # d, Settled(o), NEW c \in Knowledge!ChunksOf(o),
           NEW x \in Gives(o, c)
                 PROVE  x \notin doomed /\ (x \in rest => c \in left(x))
    BY <1>7, <1>8 DEF Spares
  <2>2. x \in Knowledge!Objects /\ Credited(mem, x, c)
    BY <1>10, <2>1, Given DEF Kept
  <2> QED
    BY <1>6, <2>1, <2>2
<1>12. Content(mem)' /\ Content(disk)' /\ UNCHANGED <<row, faults>>
  BY DEF KnowledgeIInv, Typed, Content, Knowledge!Analyze
<1>13. row' \in [Docs -> Knowledge!Rows \cup {None}]
  BY <1>12 DEF KnowledgeIInv, Typed
<1> QED
  BY <1>1, <1>8, <1>9, <1>10, <1>11, <1>12, <1>13, PurgedRow, PurgeStep DEF Purging

\* The journal is retired, and the document is processed again.
LEMMA RetireInv ==
    ASSUME KnowledgeIInv, PurgesAlone, Knowledge!KnowledgeAssumption, NEW d \in Docs,
           Knowledge!Retire(d)
    PROVE  KnowledgeIInv'
<1> DEFINE new == [task[d] EXCEPT !.at = "chunk", !.chunks = {}, !.doomed = {}, !.rest = <<>>]
           newrow == [row[d] EXCEPT !.journal = None, !.chunks = {}]
<1>1. task[d].at = "retire" /\ task[d].at \in Purging
  BY DEF Knowledge!Retire, Knowledge!At, Purging
<1>2. /\ task[d] \in Tasks /\ task \in [Docs -> Tasks \cup {Knowledge!Idle}]
      /\ task[d].for \in {"process", "delete"}
      /\ row[d] \in Knowledge!Rows /\ row[d] # None
      /\ row \in [Docs -> Knowledge!Rows \cup {None}]
  BY <1>1, PurgedRow DEF KnowledgeIInv, Typed, Tasks
<1>3. task' = [task EXCEPT ![d] = new] /\ row' = [row EXCEPT ![d] = newrow]
  BY DEF Knowledge!Retire
<1>4. <<>> \in SourcesOf
  <2>1. <<>> \in [{} -> SUBSET Knowledge!Chunks]
    OBVIOUS
  <2> QED
    BY <2>1 DEF SourcesOf
<1>5. new \in Tasks /\ new.at = "chunk" /\ new.for = task[d].for /\ new.held = task[d].held /\
         new.chunks = {}
  BY <1>2, <1>4 DEF Tasks, Positions, Adding
<1>6. newrow \in Knowledge!Rows /\ newrow.chunks = {} /\ newrow.status = row[d].status
  BY <1>2 DEF Knowledge!Rows
<1> HIDE DEF new, newrow
<1>7. newrow # None
  BY <1>6 DEF Knowledge!KnowledgeAssumption
<1>8. /\ task' \in [Docs -> Tasks \cup {Knowledge!Idle}] /\ task'[d] = new
      /\ \A o \in Docs : o # d => task'[o] = task[o] /\ row'[o] = row[o]
      /\ row' \in [Docs -> Knowledge!Rows \cup {None}] /\ row'[d] = newrow
  BY <1>2, <1>3, <1>5, <1>6
<1>9. ASSUME NEW o \in Docs, Settled(o) PROVE Kept(mem, o)' /\ Kept(disk, o)'
  BY <1>9 DEF KnowledgeIInv, AllKept, Kept, Credited, Tracked, Knowledge!Retire
<1>10. Content(mem)' /\ Content(disk)' /\ faults' = faults
  BY DEF KnowledgeIInv, Typed, Content, Knowledge!Retire
<1> QED
  BY <1>1, <1>2, <1>5, <1>6, <1>7, <1>8, <1>9, <1>10, PurgedRow, PurgeStep DEF Decided, Purging

\* The row goes last.
LEMMA ForgetInv ==
    ASSUME KnowledgeIInv, PurgesAlone, Knowledge!KnowledgeAssumption, NEW d \in Docs,
           Knowledge!Forget(d)
    PROVE  KnowledgeIInv'
<1>1. task[d].at = "forget" /\ task[d].at \in Purging
  BY DEF Knowledge!Forget, Knowledge!At, Purging
<1>2. task[d].for = "delete"
  BY <1>1, PurgedRow DEF Tasks
<1>3. /\ task' \in [Docs -> Tasks \cup {Knowledge!Idle}]
      /\ task'[d] \in Tasks /\ task'[d].at = "finish"
      /\ task'[d].for = task[d].for /\ task'[d].chunks = task[d].chunks
      /\ task'[d].held = task[d].held
      /\ \A o \in Docs : o # d => task'[o] = task[o]
  BY <1>1, PurgedRow, Moved DEF KnowledgeIInv, Knowledge!Forget, Positions
<1>4. row' = [row EXCEPT ![d] = None] /\ row \in [Docs -> Knowledge!Rows \cup {None}]
  BY DEF Knowledge!Forget, KnowledgeIInv, Typed
<1>5. ASSUME NEW o \in Docs, Settled(o) PROVE Kept(mem, o)' /\ Kept(disk, o)'
  BY <1>5 DEF KnowledgeIInv, AllKept, Kept, Credited, Tracked, Knowledge!Forget
<1>6. Content(mem)' /\ Content(disk)' /\ faults' = faults
  BY DEF KnowledgeIInv, Typed, Content, Knowledge!Forget
<1> QED
  BY <1>1, <1>2, <1>3, <1>4, <1>5, <1>6, PurgedRow, PurgeStep DEF Decided, Purging

-----------------------------------------------------------------------------
(* The end of a coroutine *)

\* A coroutine ends, and disk may take over what memory has.
LEMMA Leave ==
    ASSUME KnowledgeIInv, Knowledge!KnowledgeAssumption, NEW d \in Docs, Knowledge!Working(d),
           task' = [task EXCEPT ![d] = Knowledge!Idle], mem' = mem, Content(disk)',
           \A o \in Docs : Kept(mem, o) /\ Kept(disk, o) => Kept(disk, o)',
           row' \in [Docs -> Knowledge!Rows \cup {None}], \A o \in Docs : o # d =>
              row'[o] = row[o],
           row'[d] # None => row'[d].chunks \in {{}, Knowledge!ChunksOf(d)},
           faults' \in 0 .. MaxFaults,
           MaxFaults = 0 /\ ~Reprocess /\ row'[d] # None /\
              row'[d].status \in Knowledge!Unfinished =>
               row'[d].chunks = {},
           Settled(d)' => Kept(mem, d) /\ Kept(disk, d)
    PROVE  KnowledgeIInv'
<1>1. /\ task \in [Docs -> Tasks \cup {Knowledge!Idle}]
      /\ task' \in [Docs -> Tasks \cup {Knowledge!Idle}]
      /\ task'[d] = Knowledge!Idle /\ \A o \in Docs : o # d => task'[o] = task[o]
  BY DEF KnowledgeIInv, Typed
<1>2. ~Knowledge!Working(d)' /\ task'[d].at = "idle" /\ "idle" \notin Adding \cup Purging
  BY <1>1 DEF Knowledge!Working, Knowledge!Idle, Adding, Purging
<1>3. Peers(d) /\ Content(mem)'
  BY DEF KnowledgeIInv, Alone, Typed, Content
<1>4. Plain(d)' /\ RowOfTask(d)' /\ HeldFits(d)' /\ LockedApart(d, d)'
  BY <1>2 DEF Plain, RowOfTask, HeldFits, LockedApart, Knowledge!At
<1>5. \A o \in Docs : LockedApart(d, o)' /\ LockedApart(o, d)'
  BY <1>2 DEF LockedApart
<1>6. SoFar(d)'
  BY <1>2 DEF SoFar, Stored, Knowledge!At
<1>7. \A o \in Docs : Kept(mem, o)' <=> Kept(mem, o)
  BY DEF Kept, Credited, Tracked
<1>8. ASSUME NEW o \in Docs, o # d PROVE SoFar(o)'
  <2>1. SoFar(o) /\ (Stored(o)' <=> Stored(o))
    BY <1>1, <1>8 DEF KnowledgeIInv, MergeSoFar, Stored, Knowledge!At
  <2>2. Knowledge!At(o, "commit") => Kept(disk, o)'
    BY <2>1 DEF SoFar
  <2> QED
    BY <1>1, <1>7, <1>8, <2>1, <2>2 DEF SoFar, Knowledge!At, Credited, Tracked
<1>9. ASSUME NEW o \in Docs, o # d, Settled(o) PROVE Kept(mem, o)' /\ Kept(disk, o)'
  BY <1>7, <1>9 DEF KnowledgeIInv, AllKept
<1>10. task'[d].at \notin {"parse", "resolve"} /\ task'[d].at \notin Decided
  BY <1>2 DEF Decided, Purging
<1> QED
  BY <1>1, <1>2, <1>3, <1>4, <1>5, <1>6, <1>7, <1>8, <1>9, <1>10, KnowledgeStep

\* What a flush leaves on disk.
LEMMA FlushKeeps ==
    ASSUME KnowledgeIInv, NEW some, disk' = Knowledge!Flushed(some)
    PROVE  /\ Content(disk)'
           /\ \A o \in Docs : Kept(mem, o) /\ Kept(disk, o) => Kept(disk, o)'
<1>1. Content(Knowledge!Flushed(some))
  BY FlushedContent DEF KnowledgeIInv, Typed
<1>2. Content(disk)'
  BY <1>1 DEF Content
<1>3. ASSUME NEW o \in Docs, Kept(mem, o), Kept(disk, o) PROVE Kept(disk, o)'
  <2>1. Kept(Knowledge!Flushed(some), o)
    BY <1>3, FlushedKept DEF KnowledgeIInv, Typed
  <2> QED
    BY <2>1 DEF Kept, Credited, Tracked
<1> QED
  BY <1>2, <1>3

LEMMA FinishInv ==
    ASSUME KnowledgeIInv, PurgesAlone, Knowledge!KnowledgeAssumption, NEW d \in Docs,
           Knowledge!Finish(d)
    PROVE  KnowledgeIInv'
<1>1. Knowledge!Working(d) /\ Knowledge!At(d, "finish")
  BY DEF Knowledge!Finish, Knowledge!At, Knowledge!Working
<1>2. task[d] \in Tasks /\ RowOfTask(d) /\ Plain(d)
  BY <1>1, Busy DEF KnowledgeIInv, Rowed, Alone
<1>3. task[d].for = "delete"
  BY <1>1, <1>2 DEF RowOfTask, Tasks, Knowledge!At
<1>4. MaxFaults = 0 /\ ~Reprocess /\ row[d] # None /\ row[d].status \in Knowledge!Unfinished =>
         row[d].chunks = {}
  BY <1>1, <1>2, <1>3 DEF Plain
<1>5. Settled(d)' => Kept(mem, d) /\ Kept(disk, d)
  BY DEF Settled, KnowledgeIInv, AllKept, Knowledge!Finish
<1>6. disk' = Knowledge!Flushed(Knowledge!Stores) /\
         task' = [task EXCEPT ![d] = Knowledge!Idle] /\ UNCHANGED <<row, mem, faults>>
  BY DEF Knowledge!Finish
<1>7. /\ row' \in [Docs -> Knowledge!Rows \cup {None}] /\ faults' \in 0 .. MaxFaults
      /\ row'[d] # None => row'[d].chunks \in {{}, Knowledge!ChunksOf(d)}
  BY <1>6 DEF KnowledgeIInv, Typed
<1> QED
  BY <1>1, <1>4, <1>5, <1>6, <1>7, FlushKeeps, Leave

\* An error epilogue keeps the invariant wherever it comes from.
LEMMA GiveUpInv ==
    ASSUME KnowledgeIInv, PurgesAlone, Knowledge!KnowledgeAssumption, NEW d \in Docs,
           Knowledge!Working(d), NEW done,
           Knowledge!GiveUp(d, done), faults' \in 0 .. MaxFaults
    PROVE  KnowledgeIInv'
<1>1. task[d] \in Tasks /\ RowOfTask(d) /\ Plain(d) /\
         row \in [Docs -> Knowledge!Rows \cup {None}]
  BY Busy DEF KnowledgeIInv, Rowed, Alone, Typed
<1>2. mem' = mem /\ task' = [task EXCEPT ![d] = Knowledge!Idle]
  BY DEF Knowledge!GiveUp
<1>3. CASE task[d].for = "process"
  <2> DEFINE chunks == IF Knowledge!At(d, "parse") THEN {} ELSE task[d].chunks
             new == [status |-> "failed", chunks |-> chunks,
                     wrote |-> task[d].wrote, journal |-> task[d].journal]
  <2>1. row' = [row EXCEPT ![d] = new]
    BY <1>3 DEF Knowledge!GiveUp, Knowledge!Transition
  <2>2. chunks \in {{}, Knowledge!ChunksOf(d)}
    BY DEF KnowledgeIInv, Typed
  <2>3. new \in Knowledge!Rows
    BY <1>1, <2>2 DEF Knowledge!Rows, Tasks
  <2>4. new.status = "failed" /\ new.chunks = chunks
    OBVIOUS
  <2> HIDE DEF new, chunks
  <2>5. row' \in [Docs -> Knowledge!Rows \cup {None}] /\ row'[d] = new /\
           \A o \in Docs : o # d => row'[o] = row[o]
    BY <1>1, <2>1, <2>3
  <2>6. ~Settled(d)'
    BY <2>4, <2>5 DEF Settled
  <2>7. disk' = Knowledge!Flushed(done \cup {"text"})
    BY <1>3 DEF Knowledge!GiveUp
  <2>8. row'[d].status \notin Knowledge!Unfinished
    BY <2>4, <2>5 DEF Knowledge!Unfinished
  <2> QED
    BY <1>2, <2>2, <2>4, <2>5, <2>6, <2>7, <2>8, FlushKeeps, Leave
<1>4. CASE task[d].for # "process"
  <2>1. row' = row /\ task[d].for = "delete"
    BY <1>1, <1>4 DEF Knowledge!GiveUp, Tasks
  <2>2. PICK some : disk' = Knowledge!Flushed(some)
    BY <1>4 DEF Knowledge!GiveUp
  <2>3. MaxFaults = 0 /\ ~Reprocess /\ row[d] # None /\ row[d].status \in Knowledge!Unfinished =>
           row[d].chunks = {}
    BY <1>1, <2>1 DEF Plain
  <2>4. Settled(d)' => Kept(mem, d) /\ Kept(disk, d)
    BY <2>1 DEF Settled, KnowledgeIInv, AllKept
  <2>5. row'[d] # None => row'[d].chunks \in {{}, Knowledge!ChunksOf(d)}
    BY <2>1 DEF KnowledgeIInv, Typed
  <2> QED
    BY <1>1, <1>2, <2>1, <2>2, <2>3, <2>4, <2>5, FlushKeeps, Leave
<1> QED
  BY <1>3, <1>4

LEMMA RefuseInv ==
    ASSUME KnowledgeIInv, PurgesAlone, Knowledge!KnowledgeAssumption, NEW d \in Docs,
           Knowledge!Refuse(d)
    PROVE  KnowledgeIInv'
<1>1. Knowledge!Working(d) /\ Knowledge!GiveUp(d, {}) /\ faults' \in 0 .. MaxFaults
  BY DEF Knowledge!Refuse, Knowledge!Refused, Knowledge!At, Knowledge!Working, KnowledgeIInv,
     Typed
<1> QED
  BY <1>1, GiveUpInv

LEMMA FailInv ==
    ASSUME KnowledgeIInv, PurgesAlone, Knowledge!KnowledgeAssumption, NEW d \in Docs,
           Knowledge!Fail(d)
    PROVE  KnowledgeIInv'
<1>1. faults' \in 0 .. MaxFaults
  BY DEF Knowledge!Fail, KnowledgeIInv, Typed, Knowledge!KnowledgeAssumption
<1>2. PICK done \in SUBSET Knowledge!Flushing(d) : Knowledge!GiveUp(d, done)
  BY DEF Knowledge!Fail
<1> QED
  BY <1>1, <1>2, GiveUpInv DEF Knowledge!Fail

\* What a document has merged is in memory and on disk when its row says processed.
LEMMA CommitInv ==
    ASSUME KnowledgeIInv, PurgesAlone, Knowledge!KnowledgeAssumption, NEW d \in Docs,
           Knowledge!Commit(d)
    PROVE  KnowledgeIInv'
<1>1. Knowledge!Working(d) /\ Knowledge!At(d, "commit") /\
         row \in [Docs -> Knowledge!Rows \cup {None}]
  BY DEF Knowledge!Commit, Knowledge!At, Knowledge!Working, KnowledgeIInv, Typed
<1>2. Knowledge!Merged(d) \in Knowledge!Rows /\ Knowledge!Merged(d).status = "processed" /\
         Knowledge!Merged(d).chunks = Knowledge!ChunksOf(d)
  BY DEF Knowledge!Merged, Knowledge!Rows, Knowledge!Chunks
<1>3. row' = [row EXCEPT ![d] = Knowledge!Merged(d)] /\
         task' = [task EXCEPT ![d] = Knowledge!Idle]
      /\ UNCHANGED <<mem, disk, faults>>
  BY DEF Knowledge!Commit
<1>4. Kept(mem, d) /\ Kept(disk, d)
  BY <1>1 DEF KnowledgeIInv, MergeSoFar, SoFar
<1>5. Content(disk)' /\ \A o \in Docs : Kept(disk, o)' <=> Kept(disk, o)
  BY <1>3 DEF KnowledgeIInv, Typed, Content, Kept, Credited, Tracked
<1>6. /\ row' \in [Docs -> Knowledge!Rows \cup {None}] /\ row'[d] = Knowledge!Merged(d)
      /\ \A o \in Docs : o # d => row'[o] = row[o]
  BY <1>1, <1>2, <1>3
<1>7. faults' \in 0 .. MaxFaults /\ row'[d].status \notin Knowledge!Unfinished
  BY <1>2, <1>3, <1>6 DEF KnowledgeIInv, Typed, Knowledge!Unfinished
<1> QED
  BY <1>1, <1>2, <1>3, <1>4, <1>5, <1>6, <1>7, Leave

-----------------------------------------------------------------------------
(* A step of processing *)

\* Who processes a document, and has not come to a purge, works on a row that is there.
LEMMA AddingRow ==
    ASSUME KnowledgeIInv, NEW d \in Docs, task[d].at \in Adding
    PROVE  /\ Knowledge!Working(d) /\ task[d] \in Tasks /\ task[d].for = "process" /\ Peers(d)
           /\ task[d].chunks \in {{}, Knowledge!ChunksOf(d)}
           /\ row[d] \in Knowledge!Rows /\ row[d] # None /\ row[d].status # "processed"
           /\ row[d].chunks \in {{}, Knowledge!ChunksOf(d)}
<1>1. Knowledge!Working(d) /\ task[d] \in Tasks
  BY Busy DEF KnowledgeIInv, Knowledge!Working, Adding
<1>2. RowOfTask(d)
  BY DEF KnowledgeIInv, Rowed
<1>3. task[d].for = "process"
  BY <1>1, <1>2 DEF RowOfTask, Adding, Purging, Tasks
<1>4. row[d] \in Knowledge!Rows /\ row[d] # None /\ row[d].status # "processed"
  BY <1>1, <1>2, <1>3 DEF RowOfTask, KnowledgeIInv, Typed
<1> QED
  BY <1>1, <1>3, <1>4 DEF KnowledgeIInv, Alone, Typed

\* A step that takes nothing away from the stores, and nothing from under the locks of
\* the others.
LEMMA Work ==
    ASSUME KnowledgeIInv, Knowledge!KnowledgeAssumption, NEW d \in Docs, task[d].at \in Adding,
           task' \in [Docs -> Tasks \cup {Knowledge!Idle}], task'[d] \in Tasks,
           \A o \in Docs : o # d => task'[o] = task[o],
           task'[d].at \in Adding \ {"parse"}, task'[d].for = task[d].for,
           task'[d].chunks \in {{}, Knowledge!ChunksOf(d)},
           row' \in [Docs -> Knowledge!Rows \cup {None}], \A o \in Docs : o # d =>
              row'[o] = row[o],
           row'[d] # None, row'[d].chunks \in {{}, Knowledge!ChunksOf(d)},
              row'[d].status # "processed",
           Content(mem)', Content(disk)', faults' = faults,
           mem.text \subseteq mem'.text,
           \A x \in Knowledge!Objects, c \in Knowledge!Chunks : Credited(mem, x, c) =>
              Credited(mem, x, c)',
           \A o \in Docs : o # d => \A x \in DOMAIN task[o].held, c \in Knowledge!Chunks :
               Knowledge!Working(o) /\ Tracked(mem, x, c) => Tracked(mem, x, c)',
           \A o \in Docs : Kept(mem, o) /\ Kept(disk, o) => Kept(disk, o)',
           HeldFits(d)', LockedApart(d, d)',
           \A o \in Docs : o # d => LockedApart(d, o)' /\ LockedApart(o, d)',
           SoFar(d)'
    PROVE  KnowledgeIInv'
<1>1. task[d].for = "process" /\ Peers(d)
  BY AddingRow
<1>2. Knowledge!Working(d)' /\ task'[d].at \notin Purging /\ ~Knowledge!At(d, "parse")'
  BY DEF Knowledge!Working, Knowledge!At, Adding, Purging
<1>3. Plain(d)' /\ RowOfTask(d)' /\ ~Settled(d)'
  BY <1>1, <1>2 DEF Plain, RowOfTask, Settled, Purging, Adding, Knowledge!At
<1>4. ASSUME NEW o \in Docs, Kept(mem, o) PROVE Kept(mem, o)'
  <2>1. \A c \in Knowledge!ChunksOf(o) : \A x \in Gives(o, c) : Credited(mem, x, c)'
    BY <1>4, Given DEF Kept
  <2>2. Knowledge!ChunksOf(o) \subseteq mem'.text
    BY <1>4 DEF Kept
  <2> QED
    BY <2>1, <2>2 DEF Kept
<1>5. ASSUME NEW o \in Docs, o # d, Knowledge!Working(o) PROVE SoFar(o)'
  <2>1. SoFar(o) /\ (Stored(o)' <=> Stored(o)) /\ \A at : Knowledge!At(o, at)' <=>
           Knowledge!At(o, at)
    BY <1>5 DEF KnowledgeIInv, MergeSoFar, Stored, Knowledge!At
  <2>2. Knowledge!At(o, "commit") => Kept(mem, o)' /\ Kept(disk, o)'
    BY <1>4, <2>1 DEF SoFar
  <2>3. ASSUME Knowledge!At(o, "merge"), NEW c \in Knowledge!ChunksOf(o), NEW y \in Yield[o][c]
        PROVE  /\ y \notin task[o].todo => \A x \in {y} \cup Knowledge!EndsOf(y) : Credited(mem,
                     x, c)'
               /\ y \in DOMAIN task[o].held => Tracked(mem, y, c)' /\ c \in task[o].held[y]
    <3>1. {y} \cup Knowledge!EndsOf(y) \subseteq Knowledge!Objects /\ c \in Knowledge!Chunks
      BY <2>3, Given DEF Gives
    <3>2. y \notin task[o].todo => \A x \in {y} \cup Knowledge!EndsOf(y) : Credited(mem, x, c)
      BY <2>1, <2>3 DEF SoFar
    <3>3. y \in DOMAIN task[o].held => Tracked(mem, y, c) /\ c \in task[o].held[y]
      BY <2>1, <2>3 DEF SoFar
    <3> QED
      BY <1>5, <3>1, <3>2, <3>3
  <2> QED
    BY <1>5, <2>1, <2>2, <2>3 DEF SoFar
<1>6. ASSUME NEW o \in Docs, o # d, Settled(o) PROVE Kept(mem, o)' /\ Kept(disk, o)'
  BY <1>4, <1>6 DEF KnowledgeIInv, AllKept
<1>7. faults' \in 0 .. MaxFaults /\ task'[d].at \notin {"parse", "resolve"} /\
         task'[d].at \notin Decided
  BY <1>2 DEF KnowledgeIInv, Typed, Adding, Decided
<1>8. ~(task'[d].for = "delete" \/ task'[d].at \in Purging)
  BY <1>1, <1>2
<1> QED
  BY <1>1, <1>3, <1>5, <1>6, <1>7, <1>8, KnowledgeStep

\* The same of a step that holds no lock.
LEMMA FreeWork ==
    ASSUME KnowledgeIInv, Knowledge!KnowledgeAssumption, NEW d \in Docs, task[d].at \in Adding,
           task' \in [Docs -> Tasks \cup {Knowledge!Idle}], task'[d] \in Tasks,
           \A o \in Docs : o # d => task'[o] = task[o],
           task'[d].at \in Adding \ {"parse"}, task'[d].for = task[d].for,
           task'[d].chunks \in {{}, Knowledge!ChunksOf(d)}, DOMAIN task'[d].held = {},
           row' \in [Docs -> Knowledge!Rows \cup {None}], \A o \in Docs : o # d =>
              row'[o] = row[o],
           row'[d] # None, row'[d].chunks \in {{}, Knowledge!ChunksOf(d)},
              row'[d].status # "processed",
           Content(mem)', Content(disk)', faults' = faults,
           mem.text \subseteq mem'.text, mem'.track = mem.track, mem'.graph = mem.graph,
           mem'.vdb = mem.vdb,
           \A o \in Docs : Kept(mem, o) /\ Kept(disk, o) => Kept(disk, o)',
           SoFar(d)'
    PROVE  KnowledgeIInv'
<1>1. \A x, c : (Credited(mem, x, c) => Credited(mem, x, c)') /\
         (Tracked(mem, x, c) => Tracked(mem, x, c)')
  BY DEF Credited, Tracked
<1>2. HeldFits(d)' /\ LockedApart(d, d)' /\ \A o \in Docs : LockedApart(d, o)' /\
         LockedApart(o, d)'
  BY DEF HeldFits, LockedApart
<1> QED
  BY <1>1, <1>2, Work

\* Outside the merge no lock is held.
LEMMA NoLock ==
    ASSUME KnowledgeIInv, NEW d \in Docs, task[d].at \in Adding, task[d].at # "merge" \/
           task[d].todo = {}
    PROVE  DOMAIN task[d].held = {}
<1>1. HeldFits(d) /\ Knowledge!Working(d)
  BY AddingRow DEF KnowledgeIInv, Locks
<1> QED
  BY <1>1 DEF HeldFits, Knowledge!At

\* A step that only moves a coroutine which holds no lock, writes its texts or anchors,
\* or flushes.
LEMMA FreeMove ==
    ASSUME KnowledgeIInv, Knowledge!KnowledgeAssumption, NEW d \in Docs, task[d].at \in Adding,
           task[d].at # "merge" \/ task[d].todo = {},
           NEW to \in Adding \ {"parse"}, Knowledge!Goto(d, to), UNCHANGED <<row, faults>>,
           Content(mem)', Content(disk)',
           mem.text \subseteq mem'.text, mem'.track = mem.track, mem'.graph = mem.graph,
           mem'.vdb = mem.vdb,
           \A o \in Docs : Kept(mem, o) /\ Kept(disk, o) => Kept(disk, o)',
           SoFar(d)'
    PROVE  KnowledgeIInv'
<1>1. to \in Positions /\ row' \in [Docs -> Knowledge!Rows \cup {None}]
  BY DEF Positions, KnowledgeIInv, Typed
<1>2. /\ task' \in [Docs -> Tasks \cup {Knowledge!Idle}]
      /\ task'[d] \in Tasks /\ task'[d].at = to
      /\ task'[d].for = task[d].for /\ task'[d].chunks = task[d].chunks
      /\ task'[d].held = task[d].held
      /\ \A o \in Docs : o # d => task'[o] = task[o]
  BY <1>1, AddingRow, Moved DEF KnowledgeIInv
<1> QED
  BY <1>1, <1>2, AddingRow, NoLock, FreeWork

\* What stays as it is on disk stays kept.
LEMMA SameDisk ==
    ASSUME KnowledgeIInv, UNCHANGED disk
    PROVE  Content(disk)' /\ \A o \in Docs : Kept(disk, o) => Kept(disk, o)'
BY DEF KnowledgeIInv, Typed, Content, Kept, Credited, Tracked

\* A document that has chunks is purged first, when nobody else works.
LEMMA ParseInv ==
    ASSUME KnowledgeIInv, PurgesAlone, Knowledge!KnowledgeAssumption, NEW d \in Docs,
           Knowledge!Parse(d)
    PROVE  KnowledgeIInv'
<1>1. task[d].at = "parse" /\ task[d].at \in Adding /\ UNCHANGED <<row, mem, disk, faults>>
  BY DEF Knowledge!Parse, Knowledge!At, Adding
<1>2. Content(mem)' /\ mem'.text = mem.text /\ mem'.track = mem.track /\ mem'.graph = mem.graph
      /\ mem'.vdb = mem.vdb
  BY <1>1 DEF KnowledgeIInv, Typed, Content
<1>3. CASE task[d].chunks = {}
  <2>1. Knowledge!Goto(d, "chunk")
    BY <1>3 DEF Knowledge!Parse
  <2>2. task'[d].at = "chunk"
    BY <1>1, <2>1, AddingRow, Moved DEF KnowledgeIInv, Positions, Adding
  <2>3. SoFar(d)'
    BY <2>2 DEF SoFar, Stored, Knowledge!At
  <2> QED
    BY <1>1, <1>2, <2>1, <2>3, SameDisk, FreeMove DEF Adding
<1>4. CASE task[d].chunks # {}
  <2>1. Knowledge!Goto(d, "resolve")
    BY <1>4 DEF Knowledge!Parse
  <2>2. /\ task' \in [Docs -> Tasks \cup {Knowledge!Idle}]
        /\ task'[d] \in Tasks /\ task'[d].at = "resolve"
        /\ task'[d].for = task[d].for /\ task'[d].chunks = task[d].chunks
        /\ task'[d].held = task[d].held
        /\ task'[d].doomed = task[d].doomed /\ task'[d].rest = task[d].rest
        /\ \A o \in Docs : o # d => task'[o] = task[o]
    BY <1>1, <2>1, AddingRow, Moved DEF KnowledgeIInv, Positions, Purging
  <2>3. Plain(d) /\ Peers(d) /\ RowOfTask(d) /\ task[d].for = "process" /\ Knowledge!Working(d)
    BY <1>1, AddingRow DEF KnowledgeIInv, Alone, Rowed
  <2>4. ~(MaxFaults = 0 /\ ~Reprocess) /\ Parallel = 1
    BY <1>1, <1>4, <2>3 DEF Plain, Knowledge!At, PurgesAlone
  <2>5. \A o \in Docs : o # d => ~Knowledge!Working(o)
    BY <2>3, <2>4 DEF Peers
  <2>6. DOMAIN task'[d].held = {}
    BY <1>1, <2>2, NoLock
  <2>7. HeldFits(d)' /\ LockedApart(d, d)' /\ \A o \in Docs : LockedApart(d, o)' /\
           LockedApart(o, d)'
    BY <2>6 DEF HeldFits, LockedApart
  <2>8. SoFar(d)'
    BY <2>2 DEF SoFar, Stored, Knowledge!At
  <2>9. Plain(d)'
    BY <2>4 DEF Plain
  <2>10. RowOfTask(d)' /\ ~Settled(d)'
    BY <1>1, <2>2, <2>3 DEF RowOfTask, Settled, Knowledge!At, Knowledge!Working
  <2>11. ASSUME NEW o \in Docs, Settled(o) PROVE Kept(mem, o)' /\ Kept(disk, o)'
    BY <1>1, <2>11 DEF KnowledgeIInv, AllKept, Kept, Credited, Tracked
  <2>12. task'[d].doomed = {} /\ DOMAIN task'[d].rest = {} /\ task'[d].at \notin Decided
    BY <1>1, <2>2 DEF KnowledgeIInv, Spared, Decided
  <2>13. /\ task'[d].chunks \in {{}, Knowledge!ChunksOf(d)} /\ faults' \in 0 .. MaxFaults
         /\ row' \in [Docs -> Knowledge!Rows \cup {None}]
         /\ row'[d].chunks \in {{}, Knowledge!ChunksOf(d)}
         /\ \A o \in Docs : o # d => row'[o] = row[o]
    BY <1>1, <2>2, AddingRow DEF KnowledgeIInv, Typed
  <2> QED
    BY <1>2, <2>2, <2>3, <2>5, <2>7, <2>8, <2>9, <2>10, <2>11, <2>12, <2>13, <1>1, SameDisk,
       KnowledgeStep
<1> QED
  BY <1>3, <1>4

\* The chunks are known.
LEMMA ChunkInv ==
    ASSUME KnowledgeIInv, PurgesAlone, Knowledge!KnowledgeAssumption, NEW d \in Docs,
           Knowledge!Chunk(d)
    PROVE  KnowledgeIInv'
<1> DEFINE new == [task[d] EXCEPT !.at = "stage", !.chunks = Knowledge!ChunksOf(d),
                     !.todo = {"row", "text"}]
<1>1. task[d].at = "chunk" /\ task[d].at \in Adding /\ UNCHANGED <<row, mem, disk, faults>>
  BY DEF Knowledge!Chunk, Knowledge!At, Adding
<1>2. task[d] \in Tasks /\ task \in [Docs -> Tasks \cup {Knowledge!Idle}]
  BY <1>1, AddingRow DEF KnowledgeIInv, Typed
<1>3. task' = [task EXCEPT ![d] = new]
  BY DEF Knowledge!Chunk
<1>4. /\ new \in Tasks /\ new.at = "stage" /\ new.for = task[d].for
      /\ new.chunks = Knowledge!ChunksOf(d)
      /\ new.todo = {"row", "text"} /\ new.held = task[d].held
  <2>1. Knowledge!ChunksOf(d) \in SUBSET Knowledge!Chunks /\
           {"row", "text"} \in SUBSET (Knowledge!Objects \cup {"row", "text"})
    BY DEF Knowledge!Chunks
  <2>2. "stage" \in Positions
    BY DEF Positions, Adding
  <2>3. new \in Tasks
    BY <1>2, <2>1, <2>2 DEF Tasks
  <2>4. /\ new.at = "stage" /\ new.for = task[d].for /\ new.chunks = Knowledge!ChunksOf(d)
        /\ new.todo = {"row", "text"} /\ new.held = task[d].held
    BY <1>2 DEF Tasks
  <2> QED
    BY <2>3, <2>4
<1> HIDE DEF new
<1>5. task' \in [Docs -> Tasks \cup {Knowledge!Idle}] /\ task'[d] = new /\
         \A o \in Docs : o # d => task'[o] = task[o]
  BY <1>2, <1>3, <1>4
<1>6. SoFar(d)'
  <2>1. Knowledge!ChunksOf(d)' = Knowledge!ChunksOf(d)
    BY DEF Knowledge!ChunksOf
  <2> QED
    BY <1>4, <1>5, <2>1 DEF SoFar, Stored, Knowledge!At
<1>7. Content(mem)' /\ mem'.text = mem.text /\ mem'.track = mem.track /\ mem'.graph = mem.graph
      /\ mem'.vdb = mem.vdb
  BY <1>1 DEF KnowledgeIInv, Typed, Content
<1>8. DOMAIN new.held = {}
  BY <1>1, <1>4, NoLock
<1>9. task'[d].at \in Adding \ {"parse"} /\ row' \in [Docs -> Knowledge!Rows \cup {None}]
  BY <1>1, <1>4, <1>5 DEF Adding, KnowledgeIInv, Typed
<1> QED
  BY <1>1, <1>4, <1>5, <1>6, <1>7, <1>8, <1>9, AddingRow, SameDisk, FreeWork

\* One of the tasks that are gathered is done.
LEMMA StagedTask ==
    ASSUME KnowledgeIInv, NEW d \in Docs, NEW part, Knowledge!Staged(d, part)
    PROVE  /\ task[d].at = "stage" /\ task[d].at \in Adding
           /\ task' \in [Docs -> Tasks \cup {Knowledge!Idle}] /\ task'[d] \in Tasks
           /\ \A o \in Docs : o # d => task'[o] = task[o]
           /\ task'[d].at = "stage" /\ task'[d].for = task[d].for
           /\ task'[d].wrote = task[d].wrote
           /\ task'[d].journal = task[d].journal /\ task'[d].held = task[d].held
           /\ task'[d].todo = task[d].todo \ {part}
           /\ task[d].chunks = Knowledge!ChunksOf(d) /\ task'[d].chunks = Knowledge!ChunksOf(d)
<1> DEFINE new == [task[d] EXCEPT !.todo = @ \ {part}]
<1>1. task[d].at = "stage" /\ task[d].at \in Adding
  BY DEF Knowledge!Staged, Knowledge!At, Adding
<1>2. task[d] \in Tasks /\ task \in [Docs -> Tasks \cup {Knowledge!Idle}]
  BY <1>1, AddingRow DEF KnowledgeIInv, Typed
<1>3. task[d].chunks = Knowledge!ChunksOf(d)
  BY <1>1 DEF KnowledgeIInv, MergeSoFar, SoFar, Knowledge!At
<1>4. task' = [task EXCEPT ![d] = new]
  BY DEF Knowledge!Staged
<1>5. new \in Tasks
  BY <1>2 DEF Tasks
<1> QED
  BY <1>1, <1>2, <1>3, <1>4, <1>5 DEF Tasks

\* The row names the chunks.
LEMMA NameChunksInv ==
    ASSUME KnowledgeIInv, PurgesAlone, Knowledge!KnowledgeAssumption, NEW d \in Docs,
           Knowledge!NameChunks(d)
    PROVE  KnowledgeIInv'
<1> DEFINE new == [status |-> "processing", chunks |-> task[d].chunks,
                   wrote |-> task[d].wrote, journal |-> task[d].journal]
<1>1. /\ task[d].at = "stage" /\ task[d].at \in Adding
      /\ task' \in [Docs -> Tasks \cup {Knowledge!Idle}] /\ task'[d] \in Tasks
      /\ \A o \in Docs : o # d => task'[o] = task[o]
      /\ task'[d].at = "stage" /\ task'[d].for = task[d].for /\ task'[d].held = task[d].held
      /\ task'[d].todo = task[d].todo \ {"row"}
      /\ task[d].chunks = Knowledge!ChunksOf(d) /\ task'[d].chunks = Knowledge!ChunksOf(d)
  BY StagedTask DEF Knowledge!NameChunks
<1>2. row' = [row EXCEPT ![d] = new] /\ UNCHANGED <<mem, disk, faults>>
  BY DEF Knowledge!NameChunks, Knowledge!Transition
<1>3. task[d] \in Tasks /\ row \in [Docs -> Knowledge!Rows \cup {None}]
  BY <1>1, AddingRow DEF KnowledgeIInv, Typed
<1>4. new \in Knowledge!Rows /\ new.status = "processing" /\ new.chunks = Knowledge!ChunksOf(d)
  BY <1>1, <1>3 DEF Knowledge!Rows, Knowledge!Unfinished, Tasks
<1> HIDE DEF new
<1>5. /\ row' \in [Docs -> Knowledge!Rows \cup {None}] /\ row'[d] = new /\ new # None
      /\ \A o \in Docs : o # d => row'[o] = row[o]
  BY <1>2, <1>3, <1>4 DEF Knowledge!KnowledgeAssumption
<1>6. SoFar(d)'
  <2>1. SoFar(d) /\ Knowledge!ChunksOf(d)' = Knowledge!ChunksOf(d)
    BY DEF KnowledgeIInv, MergeSoFar, Knowledge!ChunksOf
  <2> QED
    BY <1>1, <1>2, <2>1 DEF SoFar, Stored, Knowledge!At
<1>7. Content(mem)' /\ mem'.text = mem.text /\ mem'.track = mem.track /\ mem'.graph = mem.graph
      /\ mem'.vdb = mem.vdb
  BY <1>2 DEF KnowledgeIInv, Typed, Content
<1>8. DOMAIN task'[d].held = {} /\ task'[d].at \in Adding \ {"parse"}
  BY <1>1, NoLock DEF Adding
<1> QED
  BY <1>1, <1>2, <1>4, <1>5, <1>6, <1>7, <1>8, SameDisk, FreeWork

\* Their rows are stored.
LEMMA StoreChunksInv ==
    ASSUME KnowledgeIInv, PurgesAlone, Knowledge!KnowledgeAssumption, NEW d \in Docs,
           Knowledge!StoreChunks(d)
    PROVE  KnowledgeIInv'
<1>1. /\ task[d].at = "stage" /\ task[d].at \in Adding
      /\ task' \in [Docs -> Tasks \cup {Knowledge!Idle}] /\ task'[d] \in Tasks
      /\ \A o \in Docs : o # d => task'[o] = task[o]
      /\ task'[d].at = "stage" /\ task'[d].for = task[d].for /\ task'[d].held = task[d].held
      /\ task[d].chunks = Knowledge!ChunksOf(d) /\ task'[d].chunks = Knowledge!ChunksOf(d)
  BY StagedTask DEF Knowledge!StoreChunks
<1>2. UNCHANGED <<row, disk, faults>> /\ mem' = [mem EXCEPT !.text = @ \cup task[d].chunks]
  BY DEF Knowledge!StoreChunks, Knowledge!Write
<1>3. /\ DOMAIN mem' = Knowledge!Stores /\ mem'.text = mem.text \cup Knowledge!ChunksOf(d)
      /\ mem'.track = mem.track /\ mem'.graph = mem.graph /\ mem'.vdb = mem.vdb
      /\ mem'.names = mem.names /\ mem'.pairs = mem.pairs
  BY <1>1, <1>2 DEF KnowledgeIInv, Typed, Content, Knowledge!Stores
<1>4. Content(mem)'
  BY <1>3 DEF KnowledgeIInv, Typed, Content, Knowledge!Chunks
<1>5. SoFar(d)'
  <2>1. Knowledge!ChunksOf(d)' = Knowledge!ChunksOf(d)
    BY DEF Knowledge!ChunksOf
  <2> QED
    BY <1>1, <1>3, <2>1 DEF SoFar, Stored, Knowledge!At
<1>6. DOMAIN task'[d].held = {} /\ task'[d].at \in Adding \ {"parse"} /\
         row' \in [Docs -> Knowledge!Rows \cup {None}]
  BY <1>1, <1>2, NoLock DEF Adding, KnowledgeIInv, Typed
<1> QED
  BY <1>1, <1>2, <1>3, <1>4, <1>5, <1>6, AddingRow, SameDisk, FreeWork

\* The anchors are written,
LEMMA AnchorsInv ==
    ASSUME KnowledgeIInv, PurgesAlone, Knowledge!KnowledgeAssumption, NEW d \in Docs,
           Knowledge!AnchorNames(d) \/ Knowledge!AnchorPairs(d)
    PROVE  KnowledgeIInv'
<1>1. /\ task[d].at \in {"stage", "anchor"} /\ task[d].at \in Adding /\ UNCHANGED <<row, disk,
            faults>>
      /\ task[d].at = "stage" => task[d].todo = {}
  BY DEF Knowledge!AnchorNames, Knowledge!AnchorPairs, Knowledge!At, Adding
<1>2. PICK to \in {"anchor", "flush_anchors"} : Knowledge!Goto(d, to)
  BY DEF Knowledge!AnchorNames, Knowledge!AnchorPairs
<1>3. Knowledge!NamesOf(d) \subseteq Knowledge!Objects /\
         Knowledge!PairsOf(d) \subseteq Knowledge!Objects
  <2>1. Knowledge!Yielded(d) \subseteq Knowledge!Objects
    BY DEF Knowledge!Yielded, Knowledge!Range, Knowledge!KnowledgeAssumption, Knowledge!ChunksOf
  <2> QED
    BY <2>1 DEF Knowledge!NamesOf, Knowledge!PairsOf, Knowledge!KnowledgeAssumption,
       Knowledge!Objects
<1>4. \/ mem' = [mem EXCEPT !.names = [mem.names EXCEPT ![d] = Knowledge!NamesOf(d)]]
      \/ mem' = [mem EXCEPT !.pairs = [mem.pairs EXCEPT ![d] = Knowledge!PairsOf(d)]]
  BY DEF Knowledge!AnchorNames, Knowledge!AnchorPairs, Knowledge!Write
<1>5. /\ DOMAIN mem' = Knowledge!Stores /\ mem'.text = mem.text
      /\ mem'.track = mem.track /\ mem'.graph = mem.graph /\ mem'.vdb = mem.vdb
      /\ \/ mem'.names = [mem.names EXCEPT ![d] = Knowledge!NamesOf(d)] /\ mem'.pairs = mem.pairs
         \/ mem'.names = mem.names /\ mem'.pairs = [mem.pairs EXCEPT ![d] = Knowledge!PairsOf(d)]
  BY <1>4 DEF KnowledgeIInv, Typed, Content, Knowledge!Stores
<1>6. Content(mem)'
  <2>1. Content(mem) /\ \A o \in Docs : Knowledge!NamesOf(o)' = Knowledge!NamesOf(o) /\
           Knowledge!PairsOf(o)' = Knowledge!PairsOf(o)
    BY DEF KnowledgeIInv, Typed, Knowledge!NamesOf, Knowledge!PairsOf, Knowledge!Yielded
  <2> QED
    BY <1>3, <1>5, <2>1 DEF Content
<1>7. SoFar(d)'
  <2>1. SoFar(d) /\ Knowledge!ChunksOf(d)' = Knowledge!ChunksOf(d) /\ Stored(d)
    BY <1>1 DEF KnowledgeIInv, MergeSoFar, Knowledge!ChunksOf, Stored, Knowledge!At
  <2>2. task'[d].at \in {"anchor", "flush_anchors"}
    BY <1>1, <1>2, AddingRow, Moved DEF KnowledgeIInv, Positions, Adding
  <2> QED
    BY <1>5, <2>1, <2>2 DEF SoFar, Knowledge!At
<1> QED
  BY <1>1, <1>2, <1>5, <1>6, <1>7, SameDisk, FreeMove DEF Adding

\* and flushed.
LEMMA FlushAnchorsInv ==
    ASSUME KnowledgeIInv, PurgesAlone, Knowledge!KnowledgeAssumption, NEW d \in Docs,
           Knowledge!FlushAnchors(d)
    PROVE  KnowledgeIInv'
<1>1. /\ task[d].at = "flush_anchors" /\ task[d].at \in Adding /\ Knowledge!Goto(d, "mark")
      /\ disk' = Knowledge!Flushed(Knowledge!Anchors) /\ UNCHANGED <<row, mem, faults>>
  BY DEF Knowledge!FlushAnchors, Knowledge!Flush, Knowledge!At, Adding
<1>2. Content(mem)' /\ mem'.text = mem.text /\ mem'.track = mem.track /\ mem'.graph = mem.graph
      /\ mem'.vdb = mem.vdb
  BY <1>1 DEF KnowledgeIInv, Typed, Content
<1>3. SoFar(d)'
  <2>1. SoFar(d) /\ Knowledge!ChunksOf(d)' = Knowledge!ChunksOf(d) /\ Stored(d)
    BY <1>1 DEF KnowledgeIInv, MergeSoFar, Knowledge!ChunksOf, Stored, Knowledge!At
  <2>2. task'[d].at = "mark"
    BY <1>1, AddingRow, Moved DEF KnowledgeIInv, Positions, Adding
  <2> QED
    BY <1>2, <2>1, <2>2 DEF SoFar, Knowledge!At
<1> QED
  BY <1>1, <1>2, <1>3, FlushKeeps, FreeMove DEF Adding

\* The merge begins: everything is still to do.
LEMMA MarkInv ==
    ASSUME KnowledgeIInv, PurgesAlone, Knowledge!KnowledgeAssumption, NEW d \in Docs,
           Knowledge!Mark(d)
    PROVE  KnowledgeIInv'
<1> DEFINE new == [task[d] EXCEPT !.at = "merge", !.wrote = "started",
                     !.todo = Knowledge!Yielded(d)]
           newrow == [row[d] EXCEPT !.wrote = "started"]
<1>1. task[d].at = "mark" /\ task[d].at \in Adding /\ UNCHANGED <<mem, disk, faults>>
  BY DEF Knowledge!Mark, Knowledge!At, Adding
<1>2. /\ task[d] \in Tasks /\ task \in [Docs -> Tasks \cup {Knowledge!Idle}]
      /\ row[d] \in Knowledge!Rows /\ row \in [Docs -> Knowledge!Rows \cup {None}]
  BY <1>1, AddingRow DEF KnowledgeIInv, Typed
<1>3. task' = [task EXCEPT ![d] = new] /\ row' = [row EXCEPT ![d] = newrow]
  BY DEF Knowledge!Mark
<1>4. Knowledge!Yielded(d) \subseteq Knowledge!Objects /\
         \A c \in Knowledge!ChunksOf(d) : Yield[d][c] \subseteq Knowledge!Yielded(d)
  BY DEF Knowledge!Yielded, Knowledge!Range, Knowledge!KnowledgeAssumption, Knowledge!ChunksOf
<1>5. /\ new \in Tasks /\ new.at = "merge" /\ new.for = task[d].for /\ new.chunks = task[d].chunks
      /\ new.todo = Knowledge!Yielded(d) /\ new.held = task[d].held
  BY <1>2, <1>4 DEF Tasks, Positions, Adding
<1>6. newrow \in Knowledge!Rows /\ newrow.status = row[d].status /\ newrow.chunks = row[d].chunks
  BY <1>2 DEF Knowledge!Rows
<1> HIDE DEF new, newrow
<1>7. /\ task' \in [Docs -> Tasks \cup {Knowledge!Idle}] /\ task'[d] = new
      /\ row' \in [Docs -> Knowledge!Rows \cup {None}] /\ row'[d] = newrow /\ newrow # None
      /\ \A o \in Docs : o # d => task'[o] = task[o] /\ row'[o] = row[o]
  BY <1>2, <1>3, <1>5, <1>6 DEF Knowledge!KnowledgeAssumption
<1>8. DOMAIN new.held = {} /\ task'[d].at \in Adding \ {"parse"}
  BY <1>1, <1>5, <1>7, NoLock DEF Adding
<1>9. Content(mem)' /\ mem'.text = mem.text /\ mem'.track = mem.track /\ mem'.graph = mem.graph
      /\ mem'.vdb = mem.vdb
  BY <1>1 DEF KnowledgeIInv, Typed, Content
<1>10. SoFar(d)'
  <2>1. SoFar(d) /\ Knowledge!ChunksOf(d)' = Knowledge!ChunksOf(d) /\ Stored(d)
    BY <1>1 DEF KnowledgeIInv, MergeSoFar, Knowledge!ChunksOf, Stored, Knowledge!At
  <2>2. \A c \in Knowledge!ChunksOf(d) : \A y \in Yield[d][c] : y \in task'[d].todo /\
           y \notin DOMAIN task'[d].held
    BY <1>4, <1>5, <1>7, <1>8
  <2> QED
    BY <1>5, <1>7, <1>9, <2>1, <2>2 DEF SoFar, Knowledge!At
<1> QED
  BY <1>1, <1>5, <1>6, <1>7, <1>8, <1>9, <1>10, AddingRow, SameDisk, FreeWork

\* When nothing is left to do, the document has everything; the flush makes it durable.
LEMMA FlushMergedInv ==
    ASSUME KnowledgeIInv, PurgesAlone, Knowledge!KnowledgeAssumption, NEW d \in Docs,
           Knowledge!FlushMerged(d)
    PROVE  KnowledgeIInv'
<1>1. /\ task[d].at = "merge" /\ task[d].at \in Adding /\ task[d].todo = {}
      /\ Knowledge!Goto(d, "commit")
      /\ disk' = Knowledge!Flushed(Knowledge!Stores) /\ UNCHANGED <<row, mem, faults>>
  BY DEF Knowledge!FlushMerged, Knowledge!Flush, Knowledge!At, Adding
<1>2. Content(mem)' /\ mem'.text = mem.text /\ mem'.track = mem.track /\ mem'.graph = mem.graph
      /\ mem'.vdb = mem.vdb
  BY <1>1 DEF KnowledgeIInv, Typed, Content
<1>3. Kept(mem, d)
  <2>1. SoFar(d) /\ Stored(d)
    BY <1>1 DEF KnowledgeIInv, MergeSoFar, Stored, Knowledge!At
  <2>2. \A c \in Knowledge!ChunksOf(d) : \A y \in Yield[d][c] : \A x \in {y} \cup Knowledge!EndsOf(y) : Credited(mem, x, c)
    BY <1>1, <2>1 DEF SoFar, Knowledge!At
  <2> QED
    BY <2>1, <2>2 DEF Kept, Gives, SoFar
<1>4. Kept(mem, d)' /\ Kept(disk, d)'
  <2>1. \A a \in Knowledge!Stores : Knowledge!Flushed(Knowledge!Stores)[a] = mem[a]
    BY FlushedContent DEF KnowledgeIInv, Typed
  <2>2. Kept(Knowledge!Flushed(Knowledge!Stores), d)
    BY <1>3, <2>1 DEF Kept, Credited, Tracked, Knowledge!Stores
  <2> QED
    BY <1>1, <1>3, <2>2 DEF Kept, Credited, Tracked
<1>5. SoFar(d)'
  <2>1. task'[d].at = "commit"
    BY <1>1, AddingRow, Moved DEF KnowledgeIInv, Positions, Adding
  <2> QED
    BY <1>4, <2>1 DEF SoFar, Knowledge!At, Kept
<1> QED
  BY <1>1, <1>2, <1>5, FlushKeeps, FreeMove DEF Adding

\* What a merge goes by are chunks, and none that is tracked is missed.
LEMMA MergingTyped ==
    ASSUME KnowledgeIInv, NEW x \in Knowledge!Objects
    PROVE  Knowledge!Merging(x) \in SUBSET Knowledge!Chunks /\ \A c : Tracked(mem, x, c) =>
              c \in Knowledge!Merging(x)
BY DEF Knowledge!Merging, Tracked, KnowledgeIInv, Typed, Content

\* The coroutine locks x and adds its evidence to the tracking.
LEMMA TrackInv ==
    ASSUME KnowledgeIInv, PurgesAlone, Knowledge!KnowledgeAssumption, NEW d \in Docs,
           NEW x \in Knowledge!Objects, Knowledge!Track(d, x)
    PROVE  KnowledgeIInv'
<1> DEFINE full == Knowledge!Merging(x) \cup Knowledge!Evidence(d, x)
           kept == [y \in DOMAIN task[d].held \cup {x} |-> IF y = x THEN full
              ELSE task[d].held[y]]
           new == [task[d] EXCEPT !.held = kept]
           track == [mem.track EXCEPT ![x] = full]
<1>1. /\ task[d].at = "merge" /\ task[d].at \in Adding /\ UNCHANGED <<row, disk, faults>>
      /\ x \in task[d].todo /\ x \notin DOMAIN task[d].held
      /\ \A key \in Knowledge!Keys(x) : ~Knowledge!Locked(key)
  BY DEF Knowledge!Track, Knowledge!At, Adding
<1>2. task[d] \in Tasks /\ task \in [Docs -> Tasks \cup {Knowledge!Idle}] /\ Knowledge!Working(d)
  BY <1>1, AddingRow DEF KnowledgeIInv, Typed
<1>3. full \in SUBSET Knowledge!Chunks /\ full # None
  <2>1. Knowledge!Evidence(d, x) \subseteq Knowledge!Chunks
    BY DEF Knowledge!Evidence, Knowledge!Chunks
  <2> QED
    BY <2>1, MergingTyped DEF Knowledge!KnowledgeAssumption
<1>4. kept \in SourcesOf
  <2>1. DOMAIN task[d].held \subseteq Knowledge!Objects /\
           \A y \in DOMAIN task[d].held : task[d].held[y] \in SUBSET Knowledge!Chunks
    BY <1>2 DEF Tasks, SourcesOf
  <2>2. kept \in [DOMAIN task[d].held \cup {x} -> SUBSET Knowledge!Chunks]
    BY <1>3, <2>1
  <2> QED
    BY <2>1, <2>2 DEF SourcesOf
<1>5. task' = [task EXCEPT ![d] = new] /\ mem' = [mem EXCEPT !.track = track]
  BY DEF Knowledge!Track, Knowledge!Write
<1>6. DOMAIN kept = DOMAIN task[d].held \cup {x} /\ kept[x] = full
      /\ \A y \in DOMAIN task[d].held : y # x => kept[y] = task[d].held[y]
  OBVIOUS
<1>7. /\ track \in [Knowledge!Objects -> (SUBSET Knowledge!Chunks) \cup {None}] /\ track[x] = full
      /\ \A y \in Knowledge!Objects : y # x => track[y] = mem.track[y]
  BY <1>3 DEF KnowledgeIInv, Typed, Content
<1>8. \A c \in Knowledge!ChunksOf(d) : x \in Yield[d][c] => c \in full
  BY DEF Knowledge!Evidence
<1>9. \A c : Tracked(mem, x, c) => c \in full
  BY MergingTyped
<1> HIDE DEF full, kept, track
<1>10. /\ new \in Tasks /\ new.at = "merge" /\ new.for = task[d].for
       /\ new.chunks = task[d].chunks
       /\ new.todo = task[d].todo /\ new.held = kept
  BY <1>1, <1>2, <1>4 DEF Tasks
<1> HIDE DEF new
<1>11. task' \in [Docs -> Tasks \cup {Knowledge!Idle}] /\ task'[d] = new /\
          \A o \in Docs : o # d => task'[o] = task[o]
  BY <1>2, <1>5, <1>10
<1>12. /\ Content(mem)' /\ mem'.track = track /\ mem'.graph = mem.graph
       /\ mem'.vdb = mem.vdb /\ mem'.text = mem.text
  BY <1>5, <1>7, TrackWritten DEF KnowledgeIInv, Typed
<1>13. \A y \in Knowledge!Objects : \A c : Tracked(mem, y, c) => Tracked(mem, y, c)'
  BY <1>3, <1>7, <1>9, <1>12 DEF Tracked
<1>14. \A y \in Knowledge!Objects : \A c : Credited(mem, y, c) => Credited(mem, y, c)'
  BY <1>12, <1>13 DEF Credited
<1>15. HeldFits(d) /\ (\A o \in Docs : LockedApart(d, o) /\ LockedApart(o, d)) /\ SoFar(d)
  BY DEF KnowledgeIInv, Locks, MergeSoFar
<1>16. HeldFits(d)'
  BY <1>1, <1>2, <1>6, <1>10, <1>11, <1>15 DEF HeldFits, Knowledge!At
<1>17. \A o \in Docs : Knowledge!Working(o) => \A y \in DOMAIN task[o].held : Knowledge!Keys(x) \cap Knowledge!Keys(y) = {}
  BY <1>1 DEF Knowledge!Locked
<1>18. LockedApart(d, d)'
  BY <1>2, <1>6, <1>10, <1>11, <1>15, <1>17 DEF LockedApart
<1>19. \A o \in Docs : o # d => LockedApart(d, o)' /\ LockedApart(o, d)'
  <2>1. ASSUME NEW o \in Docs, o # d, Knowledge!Working(o)
        PROVE LockedApart(d, o)' /\ LockedApart(o, d)'
    BY <1>2, <1>6, <1>10, <1>11, <1>15, <1>17, <2>1 DEF LockedApart
  <2>2. \A o \in Docs : o # d /\ ~Knowledge!Working(o) => ~Knowledge!Working(o)'
    BY <1>11 DEF Knowledge!Working
  <2> QED
    BY <2>1, <2>2 DEF LockedApart
<1>20. SoFar(d)'
  <2>1. ASSUME NEW c \in Knowledge!ChunksOf(d), NEW y \in Yield[d][c]
        PROVE  /\ y \notin task'[d].todo => \A z \in {y} \cup Knowledge!EndsOf(y) : Credited(mem,
                     z, c)'
               /\ y \in DOMAIN task'[d].held => Tracked(mem, y, c)' /\ c \in task'[d].held[y]
    <3>1. {y} \cup Knowledge!EndsOf(y) \subseteq Knowledge!Objects /\ c \in Knowledge!Chunks
      BY <2>1, Given DEF Gives
    <3>2. /\ y \notin task[d].todo => \A z \in {y} \cup Knowledge!EndsOf(y) : Credited(mem, z, c)
          /\ y \in DOMAIN task[d].held => Tracked(mem, y, c) /\ c \in task[d].held[y]
      BY <1>1, <1>15, <2>1 DEF SoFar, Knowledge!At
    <3>3. y = x => Tracked(mem, y, c)' /\ c \in full
      BY <1>3, <1>7, <1>8, <1>12, <2>1 DEF Tracked
    <3>4. y \notin task'[d].todo => \A z \in {y} \cup Knowledge!EndsOf(y) : Credited(mem, z, c)'
      BY <1>10, <1>11, <1>14, <3>1, <3>2
    <3>5. y \in DOMAIN task'[d].held => Tracked(mem, y, c)' /\ c \in task'[d].held[y]
      BY <1>6, <1>10, <1>11, <1>13, <3>1, <3>2, <3>3
    <3> QED
      BY <3>4, <3>5
  <2>2. Knowledge!ChunksOf(d) \subseteq mem'.text
    BY <1>1, <1>12, <1>15 DEF SoFar, Stored, Knowledge!At
  <2>3. task'[d].at = "merge" /\ Knowledge!ChunksOf(d)' = Knowledge!ChunksOf(d)
    BY <1>10, <1>11 DEF Knowledge!ChunksOf
  <2> QED
    BY <2>1, <2>2, <2>3 DEF SoFar, Knowledge!At
<1>21. \A o \in Docs : o # d => \A y \in DOMAIN task[o].held, c \in Knowledge!Chunks :
           Knowledge!Working(o) /\ Tracked(mem, y, c) => Tracked(mem, y, c)'
  <2>1. \A o \in Docs : Knowledge!Working(o) => DOMAIN task[o].held \subseteq Knowledge!Objects
    BY Busy DEF KnowledgeIInv, Tasks, SourcesOf
  <2> QED
    BY <1>13, <2>1
<1>22. task'[d].at \in Adding \ {"parse"} /\ row' \in [Docs -> Knowledge!Rows \cup {None}]
  BY <1>1, <1>10, <1>11 DEF Adding, KnowledgeIInv, Typed
<1> QED
  BY <1>1, <1>10, <1>11, <1>12, <1>14, <1>16, <1>18, <1>19, <1>20, <1>21, <1>22, AddingRow,
     SameDisk, Work

\* The object is written, with the ends of a relation, and unlocked.
LEMMA UpsertInv ==
    ASSUME KnowledgeIInv, PurgesAlone, Knowledge!KnowledgeAssumption, NEW d \in Docs,
           NEW x \in Knowledge!Objects, Knowledge!Upsert(d, x)
    PROVE  KnowledgeIInv'
<1> DEFINE full == task[d].held[x]
           end(e) == IF mem.graph[e] = None THEN full ELSE Knowledge!Merging(e) \cup full
           track == [y \in Knowledge!Objects |-> IF y \in Knowledge!EndsOf(x) THEN end(y)
              ELSE mem.track[y]]
           graph == [y \in Knowledge!Objects |-> IF y = x THEN full
                                       ELSE IF y \in Knowledge!EndsOf(x) THEN end(y)
                                          ELSE mem.graph[y]]
           kept == Knowledge!Restrict(task[d].held, DOMAIN task[d].held \ {x})
           new == [task[d] EXCEPT !.todo = @ \ {x}, !.held = kept]
<1>1. /\ task[d].at = "merge" /\ task[d].at \in Adding /\ UNCHANGED <<row, disk, faults>>
      /\ x \in DOMAIN task[d].held
  BY DEF Knowledge!Upsert, Knowledge!At, Adding
<1>2. task[d] \in Tasks /\ task \in [Docs -> Tasks \cup {Knowledge!Idle}] /\ Knowledge!Working(d)
  BY <1>1, AddingRow DEF KnowledgeIInv, Typed
<1>3. DOMAIN task[d].held \subseteq Knowledge!Objects /\
         \A y \in DOMAIN task[d].held : task[d].held[y] \in SUBSET Knowledge!Chunks
  BY <1>2 DEF Tasks, SourcesOf
<1>4. Knowledge!EndsOf(x) \subseteq Entities /\ Knowledge!EndsOf(x) \subseteq Knowledge!Objects /\ x \notin Knowledge!EndsOf(x)
  BY DEF Knowledge!EndsOf, Knowledge!KnowledgeAssumption, Knowledge!Objects
<1>5. \A e \in Knowledge!EndsOf(x) :
          /\ end(e) \in SUBSET Knowledge!Chunks /\ end(e) # None /\ full \subseteq end(e)
          /\ \A c : mem.graph[e] # None /\ Tracked(mem, e, c) => c \in end(e)
  BY <1>1, <1>3, <1>4, MergingTyped DEF Knowledge!KnowledgeAssumption
<1>6. full \in SUBSET Knowledge!Chunks /\ full # None
  BY <1>1, <1>3 DEF Knowledge!KnowledgeAssumption
<1>7. /\ track \in [Knowledge!Objects -> (SUBSET Knowledge!Chunks) \cup {None}]
      /\ graph \in [Knowledge!Objects -> (SUBSET Knowledge!Chunks) \cup {None}]
      /\ \A y \in Knowledge!Objects : track[y] = IF y \in Knowledge!EndsOf(x) THEN end(y)
            ELSE mem.track[y]
      /\ \A y \in Knowledge!Objects : graph[y] = IF y = x THEN full
                                       ELSE IF y \in Knowledge!EndsOf(x) THEN end(y)
                                          ELSE mem.graph[y]
  BY <1>5, <1>6 DEF KnowledgeIInv, Typed, Content
<1>8. kept \in SourcesOf /\ DOMAIN kept = DOMAIN task[d].held \ {x}
      /\ \A y \in DOMAIN kept : kept[y] = task[d].held[y]
  <2>1. kept \in [DOMAIN task[d].held \ {x} -> SUBSET Knowledge!Chunks]
    BY <1>3 DEF Knowledge!Restrict
  <2> QED
    BY <1>3, <2>1 DEF SourcesOf, Knowledge!Restrict
<1>9. /\ task' = [task EXCEPT ![d] = new]
      /\ mem' = [mem EXCEPT !.track = track, !.graph = graph,
            !.vdb = @ \cup {x} \cup Knowledge!EndsOf(x)]
  BY DEF Knowledge!Upsert, Knowledge!Write
<1> HIDE DEF full, end, track, graph, kept
<1>10. /\ new \in Tasks /\ new.at = "merge" /\ new.for = task[d].for
       /\ new.chunks = task[d].chunks
       /\ new.todo = task[d].todo \ {x} /\ new.held = kept
  BY <1>1, <1>2, <1>8 DEF Tasks
<1> HIDE DEF new
<1>11. task' \in [Docs -> Tasks \cup {Knowledge!Idle}] /\ task'[d] = new /\
          \A o \in Docs : o # d => task'[o] = task[o]
  BY <1>2, <1>9, <1>10
<1>12. /\ DOMAIN mem' = Knowledge!Stores /\ mem'.track = track /\ mem'.graph = graph
       /\ mem'.vdb = mem.vdb \cup {x} \cup Knowledge!EndsOf(x) /\ mem'.text = mem.text
       /\ mem'.names = mem.names /\ mem'.pairs = mem.pairs
  BY <1>9 DEF KnowledgeIInv, Typed, Content, Knowledge!Stores
<1>13. Content(mem)'
  BY <1>4, <1>7, <1>12 DEF KnowledgeIInv, Typed, Content
<1>14. \A y \in Knowledge!Objects : \A c : Credited(mem, y, c) => Credited(mem, y, c)'
  BY <1>5, <1>6, <1>7, <1>12 DEF Credited, Tracked
<1>15. HeldFits(d) /\ (\A o \in Docs : LockedApart(d, o) /\ LockedApart(o, d)) /\ SoFar(d)
  BY DEF KnowledgeIInv, Locks, MergeSoFar
<1>16. \A o \in Docs : Knowledge!Working(o) => DOMAIN task[o].held \subseteq Knowledge!Objects
  BY Busy DEF KnowledgeIInv, Tasks, SourcesOf
\* the ends are nobody's: their locks are those of x
<1>17. \A o \in Docs : Knowledge!Working(o) => \A y \in DOMAIN task[o].held : y \notin Knowledge!EndsOf(x)
  <2>1. SUFFICES ASSUME NEW o \in Docs, Knowledge!Working(o), NEW y \in DOMAIN task[o].held,
           y \in Knowledge!EndsOf(x)
                 PROVE  FALSE
    OBVIOUS
  <2>2. y \notin Relations /\ y \in Knowledge!Keys(y) /\ y \in Knowledge!Keys(x)
    BY <1>4, <2>1 DEF Knowledge!Keys, Knowledge!EndsOf, Knowledge!KnowledgeAssumption
  <2>3. y = x
    BY <1>1, <1>2, <1>15, <2>1, <2>2 DEF LockedApart
  <2> QED
    BY <1>4, <2>1, <2>3
<1>18. \A o \in Docs : o # d => \A y \in DOMAIN task[o].held, c \in Knowledge!Chunks :
           Knowledge!Working(o) /\ Tracked(mem, y, c) => Tracked(mem, y, c)'
  BY <1>7, <1>12, <1>16, <1>17 DEF Tracked
<1>19. HeldFits(d)' /\ LockedApart(d, d)' /\ \A o \in Docs : o # d => LockedApart(d, o)' /\
          LockedApart(o, d)'
  BY <1>1, <1>2, <1>8, <1>10, <1>11, <1>15 DEF HeldFits, LockedApart, Knowledge!At,
     Knowledge!Working
<1>20. SoFar(d)'
  <2>1. ASSUME NEW c \in Knowledge!ChunksOf(d), NEW y \in Yield[d][c]
        PROVE  /\ y \notin task'[d].todo => \A z \in {y} \cup Knowledge!EndsOf(y) : Credited(mem,
                     z, c)'
               /\ y \in DOMAIN task'[d].held => Tracked(mem, y, c)' /\ c \in task'[d].held[y]
    <3>1. {y} \cup Knowledge!EndsOf(y) \subseteq Knowledge!Objects /\ c \in Knowledge!Chunks
      BY <2>1, Given DEF Gives
    <3>2. /\ y \notin task[d].todo => \A z \in {y} \cup Knowledge!EndsOf(y) : Credited(mem, z, c)
          /\ y \in DOMAIN task[d].held => Tracked(mem, y, c) /\ c \in task[d].held[y]
      BY <1>1, <1>15, <2>1 DEF SoFar, Knowledge!At
    <3>3. y = x => \A z \in {y} \cup Knowledge!EndsOf(y) : Credited(mem, z, c)'
      <4>1. y = x => Tracked(mem, x, c) /\ c \in full
        BY <1>1, <3>2 DEF full
      <4>2. y = x => Credited(mem, x, c)'
        BY <1>4, <1>6, <1>7, <1>12, <4>1 DEF Credited, Tracked
      <4>3. ASSUME y = x, NEW e \in Knowledge!EndsOf(x) PROVE Credited(mem, e, c)'
        BY <1>4, <1>5, <1>7, <1>12, <4>1, <4>3 DEF Credited, Tracked
      <4> QED
        BY <4>2, <4>3
    <3>4. y \notin task'[d].todo => \A z \in {y} \cup Knowledge!EndsOf(y) : Credited(mem, z, c)'
      BY <1>10, <1>11, <1>14, <3>1, <3>2, <3>3
    <3>5. y \in DOMAIN task'[d].held => Tracked(mem, y, c)' /\ c \in task'[d].held[y]
      <4>1. y \in DOMAIN task[d].held /\ Tracked(mem, y, c) => Tracked(mem, y, c)'
        BY <1>2, <1>7, <1>12, <1>16, <1>17 DEF Tracked
      <4> QED
        BY <1>8, <1>10, <1>11, <3>2, <4>1
    <3> QED
      BY <3>4, <3>5
  <2>2. Knowledge!ChunksOf(d) \subseteq mem'.text
    BY <1>1, <1>12, <1>15 DEF SoFar, Stored, Knowledge!At
  <2>3. task'[d].at = "merge" /\ Knowledge!ChunksOf(d)' = Knowledge!ChunksOf(d)
    BY <1>10, <1>11 DEF Knowledge!ChunksOf
  <2> QED
    BY <2>1, <2>2, <2>3 DEF SoFar, Knowledge!At
<1>21. task'[d].at \in Adding \ {"parse"} /\ row' \in [Docs -> Knowledge!Rows \cup {None}]
  BY <1>1, <1>10, <1>11 DEF Adding, KnowledgeIInv, Typed
<1> QED
  BY <1>1, <1>10, <1>11, <1>12, <1>13, <1>14, <1>18, <1>19, <1>20, <1>21, AddingRow, SameDisk,
     Work

-----------------------------------------------------------------------------
(* The beginning of a coroutine *)

\* A coroutine that has loaded a row.
LEMMA StartedTask ==
    ASSUME KnowledgeIInv, NEW d \in Docs, row[d] # None, NEW for \in {"process", "delete"},
           NEW at \in Positions, task' = [task EXCEPT ![d] = Knowledge!Started(d, for, at)]
    PROVE  /\ task' \in [Docs -> Tasks \cup {Knowledge!Idle}] /\ \A o \in Docs : o # d =>
                 task'[o] = task[o]
           /\ task'[d] \in Tasks /\ task'[d].at = at /\ task'[d].for = for
           /\ task'[d].chunks = row[d].chunks /\ task'[d].chunks \in {{}, Knowledge!ChunksOf(d)}
           /\ task'[d].doomed = {} /\ DOMAIN task'[d].rest = {} /\ DOMAIN task'[d].held = {}
<1>1. row[d] \in Knowledge!Rows /\ row[d].chunks \in {{}, Knowledge!ChunksOf(d)} /\
         task \in [Docs -> Tasks \cup {Knowledge!Idle}]
  BY DEF KnowledgeIInv, Typed
<1>2. <<>> \in SourcesOf /\ DOMAIN <<>> = {}
  <2>1. <<>> \in [{} -> SUBSET Knowledge!Chunks]
    OBVIOUS
  <2> QED
    BY <2>1 DEF SourcesOf
<1> DEFINE new == Knowledge!Started(d, for, at)
<1>3. /\ new \in Tasks /\ new.at = at /\ new.for = for /\ new.chunks = row[d].chunks
      /\ new.doomed = {} /\ DOMAIN new.rest = {} /\ DOMAIN new.held = {}
  BY <1>1, <1>2 DEF Knowledge!Started, Tasks, Knowledge!Rows
<1> HIDE DEF new
<1>4. task' = [task EXCEPT ![d] = new]
  BY DEF new
<1> QED
  BY <1>1, <1>3, <1>4

\* Nothing changes for the others when the stores stay as they are.
LEMMA SameStores ==
    ASSUME KnowledgeIInv, UNCHANGED <<mem, disk>>, NEW d \in Docs,
           \A o \in Docs : o # d => task'[o] = task[o]
    PROVE  /\ Content(mem)' /\ Content(disk)'
           /\ \A o \in Docs : (Kept(mem, o)' <=> Kept(mem, o)) /\
                 (Kept(disk, o)' <=> Kept(disk, o))
           /\ \A o \in Docs : o # d => SoFar(o)'
<1>1. Content(mem)' /\ Content(disk)'
  BY DEF KnowledgeIInv, Typed, Content
<1>2. \A o \in Docs : (Kept(mem, o)' <=> Kept(mem, o)) /\ (Kept(disk, o)' <=> Kept(disk, o))
  BY DEF Kept, Credited, Tracked
<1>3. ASSUME NEW o \in Docs, o # d PROVE SoFar(o)'
  <2>1. SoFar(o)
    BY DEF KnowledgeIInv, MergeSoFar
  <2> QED
    BY <1>2, <1>3, <2>1 DEF SoFar, Stored, Knowledge!At, Credited, Tracked
<1> QED
  BY <1>1, <1>2, <1>3

\* A run takes a document up while other documents are processed.
LEMMA BeginInv ==
    ASSUME KnowledgeIInv, PurgesAlone, Knowledge!KnowledgeAssumption, NEW d \in Docs,
           Knowledge!Begin(d)
    PROVE  KnowledgeIInv'
<1> DEFINE newrow == [row[d] EXCEPT !.status = "parsing", !.chunks = {}]
           busy == {o \in Docs : Knowledge!Working(o)}
<1>1. /\ row[d] # None /\ ~Knowledge!Working(d) /\ UNCHANGED <<mem, disk, faults>>
      /\ row[d].status \in Knowledge!Unfinished \cup (IF Reprocess THEN {"failed"} ELSE {})
      /\ \A o \in Docs : ~Knowledge!Deleting(o)
      /\ Knowledge!Cardinality(busy) < Parallel
      /\ task' = [task EXCEPT ![d] = Knowledge!Started(d, "process", "parse")]
  BY DEF Knowledge!Begin
<1>2. /\ task' \in [Docs -> Tasks \cup {Knowledge!Idle}] /\ \A o \in Docs : o # d =>
            task'[o] = task[o]
      /\ task'[d] \in Tasks /\ task'[d].at = "parse" /\ task'[d].for = "process"
      /\ task'[d].chunks = row[d].chunks /\ task'[d].chunks \in {{}, Knowledge!ChunksOf(d)}
      /\ task'[d].doomed = {} /\ DOMAIN task'[d].rest = {} /\ DOMAIN task'[d].held = {}
  BY <1>1, StartedTask DEF Positions, Adding
<1>3. row[d] \in Knowledge!Rows /\ row \in [Docs -> Knowledge!Rows \cup {None}]
  BY <1>1 DEF KnowledgeIInv, Typed
<1>4. newrow \in Knowledge!Rows /\ newrow.status = "parsing" /\ newrow.chunks = {}
  BY <1>3 DEF Knowledge!Rows, Knowledge!Unfinished
<1>5. row' = [row EXCEPT ![d] = newrow]
  BY DEF Knowledge!Begin
<1> HIDE DEF newrow
<1>6. /\ row' \in [Docs -> Knowledge!Rows \cup {None}] /\ row'[d] = newrow /\ newrow # None
      /\ \A o \in Docs : o # d => row'[o] = row[o]
  BY <1>3, <1>4, <1>5 DEF Knowledge!KnowledgeAssumption
<1>7. Peers(d)
  <2>1. SUFFICES ASSUME NEW o \in Docs, o # d, Knowledge!Working(o)
                 PROVE  Parallel # 1 /\ task[o].for = "process" /\ task[o].at \notin Purging
    BY DEF Peers
  <2>2. Parallel # 1
    <3>1. IsFiniteSet(busy)
      BY FS_Subset, SameDocumentCount DEF Knowledge!KnowledgeAssumption
    <3>2. Knowledge!Cardinality(busy) \in Nat /\ Knowledge!Cardinality(busy) # 0
      BY <2>1, <3>1, FS_CardinalityType, FS_EmptySet, SameDocumentCount
    <3> HIDE DEF busy
    <3> QED
      BY <1>1, <3>2
  <2>3. task[o].for = "process"
    BY <1>1, <2>1, Busy DEF Knowledge!Deleting, KnowledgeIInv, Tasks
  <2>4. task[o].at \notin Purging
    BY <2>1, <2>2, <2>3 DEF PurgesAlone, KnowledgeIInv, Alone, Plain
  <2> QED
    BY <2>2, <2>3, <2>4
<1>8. Plain(d)'
  <2>1. Plain(d)
    BY DEF KnowledgeIInv, Alone
  <2> QED
    BY <1>1, <1>2, <2>1 DEF Plain, Purging, Knowledge!At, Knowledge!Working
<1>9. RowOfTask(d)' /\ ~Settled(d)'
  BY <1>2, <1>4, <1>6 DEF RowOfTask, Settled
<1>10. HeldFits(d)' /\ LockedApart(d, d)' /\ \A o \in Docs : LockedApart(d, o)' /\
          LockedApart(o, d)'
  BY <1>2 DEF HeldFits, LockedApart
<1>11. SoFar(d)'
  BY <1>2 DEF SoFar, Stored, Knowledge!At
<1>12. ASSUME NEW o \in Docs, Settled(o) PROVE Kept(mem, o)' /\ Kept(disk, o)'
  BY <1>1, <1>2, <1>12, SameStores DEF KnowledgeIInv, AllKept
<1>13. /\ faults' \in 0 .. MaxFaults /\ task'[d].at \notin Decided \cup Purging
       /\ row'[d].chunks \in {{}, Knowledge!ChunksOf(d)} /\ task'[d].for # "delete"
  BY <1>1, <1>2, <1>4, <1>6 DEF KnowledgeIInv, Typed, Decided, Purging
<1> QED
  BY <1>1, <1>2, <1>6, <1>7, <1>8, <1>9, <1>10, <1>11, <1>12, <1>13, SameStores, KnowledgeStep

\* A deletion begins alone.
LEMMA BeginDeleteInv ==
    ASSUME KnowledgeIInv, PurgesAlone, Knowledge!KnowledgeAssumption, NEW d \in Docs,
           Knowledge!BeginDelete(d)
    PROVE  KnowledgeIInv'
<1>1. /\ row[d] # None /\ (\A o \in Docs : ~Knowledge!Working(o)) /\ UNCHANGED <<row, mem, disk,
            faults>>
      /\ task' = [task EXCEPT ![d] = Knowledge!Started(d, "delete", "resolve")]
  BY DEF Knowledge!BeginDelete
<1>2. /\ task' \in [Docs -> Tasks \cup {Knowledge!Idle}] /\ \A o \in Docs : o # d =>
            task'[o] = task[o]
      /\ task'[d] \in Tasks /\ task'[d].at = "resolve" /\ task'[d].for = "delete"
      /\ task'[d].chunks = row[d].chunks /\ task'[d].chunks \in {{}, Knowledge!ChunksOf(d)}
      /\ task'[d].doomed = {} /\ DOMAIN task'[d].rest = {} /\ DOMAIN task'[d].held = {}
  BY <1>1, StartedTask DEF Positions, Purging
<1>3. Peers(d) /\ Plain(d)
  BY <1>1 DEF Peers, KnowledgeIInv, Alone
<1>4. Plain(d)'
  BY <1>1, <1>2, <1>3 DEF Plain, Knowledge!At
<1>5. RowOfTask(d)'
  BY <1>1, <1>2 DEF RowOfTask, Purging, Knowledge!At
<1>6. HeldFits(d)' /\ LockedApart(d, d)' /\ \A o \in Docs : LockedApart(d, o)' /\
         LockedApart(o, d)'
  BY <1>2 DEF HeldFits, LockedApart
<1>7. SoFar(d)'
  BY <1>2 DEF SoFar, Stored, Knowledge!At
<1>8. ASSUME NEW o \in Docs, Settled(o) PROVE Kept(mem, o)' /\ Kept(disk, o)'
  BY <1>1, <1>2, <1>8, SameStores DEF KnowledgeIInv, AllKept
<1>9. Settled(d)' => Kept(mem, d)' /\ Kept(disk, d)'
  BY <1>1, <1>8 DEF Settled
<1>10. /\ faults' \in 0 .. MaxFaults /\ row' \in [Docs -> Knowledge!Rows \cup {None}]
       /\ row'[d].chunks \in {{}, Knowledge!ChunksOf(d)} /\ \A o \in Docs : row'[o] = row[o]
       /\ task'[d].at \notin Decided
  BY <1>1, <1>2 DEF KnowledgeIInv, Typed, Decided
<1> QED
  BY <1>1, <1>2, <1>3, <1>4, <1>5, <1>6, <1>7, <1>8, <1>9, <1>10, SameStores, KnowledgeStep

\* What is left after a crash, parts of memory and of disk, has everything.
LEMMA CrashInv ==
    ASSUME KnowledgeIInv, PurgesAlone, Knowledge!KnowledgeAssumption, Knowledge!Crash
    PROVE  KnowledgeIInv'
<1>1. PICK some : disk' = Knowledge!Flushed(some) /\ mem' = disk'
  BY DEF Knowledge!Crash
<1>2. /\ faults < MaxFaults /\ faults' = faults + 1 /\ row' = row
      /\ task' = [d \in Docs |-> Knowledge!Idle]
  BY DEF Knowledge!Crash
<1>3. \A o \in Docs : ~Knowledge!Working(o)' /\ task'[o].at \notin Adding \cup Purging
  BY <1>2 DEF Knowledge!Working, Knowledge!Idle, Adding, Purging
<1>4. Content(disk)' /\ Content(mem)'
  <2>1. Content(disk)'
    BY <1>1, FlushKeeps
  <2> QED
    BY <1>1, <2>1 DEF Content
<1>5. Typed'
  <2>1. faults' \in 0 .. MaxFaults
    BY <1>2 DEF KnowledgeIInv, Typed, Knowledge!KnowledgeAssumption
  <2> QED
    BY <1>2, <1>3, <1>4, <2>1 DEF KnowledgeIInv, Typed
<1>6. MaxFaults # 0
  BY <1>2 DEF KnowledgeIInv, Typed, Knowledge!KnowledgeAssumption
<1>7. Alone' /\ Rowed' /\ Locks'
  BY <1>3, <1>6 DEF Alone, Plain, Rowed, RowOfTask, Locks, HeldFits, LockedApart
<1>8. AllKept'
  <2>1. ASSUME NEW o \in Docs, Settled(o)' PROVE Kept(disk, o)' /\ Kept(mem, o)'
    <3>1. Kept(mem, o) /\ Kept(disk, o)
      BY <1>2, <2>1 DEF Settled, KnowledgeIInv, AllKept
    <3>2. Kept(disk, o)'
      BY <1>1, <3>1, FlushKeeps
    <3> QED
      BY <1>1, <3>2 DEF Kept, Credited, Tracked
  <2> QED
    BY <2>1 DEF AllKept
<1>9. MergeSoFar'
  BY <1>3 DEF MergeSoFar, SoFar, Stored, Knowledge!At, Adding
<1>10. Spared'
  BY <1>3 DEF Spared, Decided, Adding, Purging
<1> QED
  BY <1>5, <1>7, <1>8, <1>9, <1>10 DEF KnowledgeIInv

-----------------------------------------------------------------------------
(* The theorems *)

\* In the beginning the documents that are ready have everything.
LEMMA InitIInv ==
    ASSUME Knowledge!KnowledgeAssumption, Knowledge!Init
    PROVE  KnowledgeIInv
<1>1. /\ row = [d \in Docs |-> IF d \in Ready THEN Knowledge!Merged(d) ELSE Knowledge!Enqueued]
      /\ mem = Knowledge!Filled /\ disk = Knowledge!Filled
      /\ task = [d \in Docs |-> Knowledge!Idle] /\ faults = 0
  BY DEF Knowledge!Init
<1>2. \A d \in Docs : ~Knowledge!Working(d) /\ task[d].at \notin Adding \cup Purging
  BY <1>1 DEF Knowledge!Working, Knowledge!Idle, Adding, Purging
<1>3. \A d \in Docs : Knowledge!Merged(d) \in Knowledge!Rows /\
         Knowledge!Merged(d).status = "processed" /\
            Knowledge!Merged(d).chunks = Knowledge!ChunksOf(d)
  BY DEF Knowledge!Merged, Knowledge!Rows, Knowledge!Chunks
<1>4. Knowledge!Enqueued \in Knowledge!Rows /\ Knowledge!Enqueued.status = "pending" /\
         Knowledge!Enqueued.chunks = {}
  BY DEF Knowledge!Enqueued, Knowledge!Rows, Knowledge!Unfinished
<1>5. \A x : Knowledge!Sources(x) \in SUBSET Knowledge!Chunks /\ Knowledge!Sources(x) # None
  <2>1. \A x : Knowledge!Sources(x) \in SUBSET Knowledge!Chunks
    BY DEF Knowledge!Sources, Knowledge!Evidence, Knowledge!Chunks, Knowledge!KnowledgeAssumption
  <2> QED
    BY <2>1 DEF Knowledge!KnowledgeAssumption
<1>6. \A d \in Docs : Knowledge!NamesOf(d) \in SUBSET Knowledge!Objects /\
         Knowledge!PairsOf(d) \in SUBSET Knowledge!Objects
  <2>1. \A d \in Docs : Knowledge!Yielded(d) \subseteq Knowledge!Objects
    BY DEF Knowledge!Yielded, Knowledge!Range, Knowledge!KnowledgeAssumption, Knowledge!ChunksOf
  <2> QED
    BY <2>1 DEF Knowledge!NamesOf, Knowledge!PairsOf, Knowledge!KnowledgeAssumption,
       Knowledge!Objects
<1>7. /\ DOMAIN Knowledge!Filled = Knowledge!Stores
      /\ Knowledge!Filled.text = UNION {Knowledge!ChunksOf(d) : d \in Ready}
      /\ Knowledge!Filled.names = [d \in Docs |-> IF d \in Ready THEN Knowledge!NamesOf(d)
            ELSE None]
      /\ Knowledge!Filled.pairs = [d \in Docs |-> IF d \in Ready THEN Knowledge!PairsOf(d)
            ELSE None]
      /\ Knowledge!Filled.track = [x \in Knowledge!Objects |-> IF Knowledge!Sources(x) = {}
            THEN None ELSE Knowledge!Sources(x)]
      /\ Knowledge!Filled.graph = [x \in Knowledge!Objects |-> IF Knowledge!Sources(x) = {}
            THEN None ELSE Knowledge!Sources(x)]
      /\ Knowledge!Filled.vdb = {x \in Knowledge!Objects : Knowledge!Sources(x) # {}}
  BY DEF Knowledge!Filled, Knowledge!Stores
<1>8. Content(Knowledge!Filled)
  <2>1. Knowledge!Filled.text \in SUBSET Knowledge!Chunks
    BY <1>7 DEF Knowledge!Chunks, Knowledge!KnowledgeAssumption
  <2> QED
    BY <1>5, <1>6, <1>7, <2>1 DEF Content
<1>9. Typed
  <2>1. row \in [Docs -> Knowledge!Rows \cup {None}]
    BY <1>1, <1>3, <1>4
  <2>2. \A d \in Docs : row[d].chunks \in {{}, Knowledge!ChunksOf(d)}
    BY <1>1, <1>3, <1>4
  <2>3. faults \in 0 .. MaxFaults
    BY <1>1 DEF Knowledge!KnowledgeAssumption
  <2> QED
    BY <1>1, <1>2, <1>8, <2>1, <2>2, <2>3 DEF Typed
<1>10. Alone /\ Rowed /\ Locks
  <2>1. ASSUME NEW d \in Docs PROVE Plain(d)
    <3>1. row[d].status \in Knowledge!Unfinished => row[d].chunks = {}
      BY <1>1, <1>3, <1>4 DEF Knowledge!Unfinished
    <3> QED
      BY <1>2, <3>1 DEF Plain, Knowledge!At, Adding
  <2> QED
    BY <1>2, <2>1 DEF Alone, Rowed, RowOfTask, Locks, HeldFits, LockedApart
<1>11. ASSUME NEW d \in Docs, Settled(d) PROVE Kept(Knowledge!Filled, d)
  <2>1. d \in Ready
    BY <1>1, <1>4, <1>11 DEF Settled
  <2>2. ASSUME NEW c \in Knowledge!ChunksOf(d), NEW x \in Gives(d, c)
        PROVE Credited(Knowledge!Filled, x, c)
    <3>1. x \in Knowledge!Objects
      BY <2>2, Given
    <3>2. c \in Knowledge!Sources(x)
      <4>1. CASE x \in Yield[d][c]
        <5>1. c \in Knowledge!Evidence(d, x)
          BY <4>1 DEF Knowledge!Evidence
        <5> QED
          BY <2>1, <5>1 DEF Knowledge!Sources
      <4>2. CASE x \notin Yield[d][c]
        <5>1. PICK r \in Yield[d][c] : x \in Knowledge!EndsOf(r)
          BY <4>2 DEF Gives
        <5>2. r \in Relations /\ x \in Ends[r] /\ c \in Knowledge!Evidence(d, r)
          BY <5>1 DEF Knowledge!EndsOf, Knowledge!Evidence
        <5> QED
          BY <2>1, <5>2 DEF Knowledge!Sources
      <4> QED
        BY <4>1, <4>2
    <3> QED
      BY <1>5, <1>7, <3>1, <3>2 DEF Credited, Tracked
  <2>3. Knowledge!ChunksOf(d) \subseteq Knowledge!Filled.text
    BY <1>7, <2>1
  <2> QED
    BY <2>2, <2>3 DEF Kept
<1>12. AllKept
  BY <1>1, <1>11 DEF AllKept
<1>13. MergeSoFar
  BY <1>2 DEF MergeSoFar, SoFar, Stored, Knowledge!At, Adding
<1>14. Spared
  BY <1>2 DEF Spared, Decided, Adding, Purging
<1> QED
  BY <1>9, <1>10, <1>12, <1>13, <1>14 DEF KnowledgeIInv

\* Every step keeps the invariant.
LEMMA NextIInv ==
    ASSUME KnowledgeIInv, PurgesAlone, Knowledge!KnowledgeAssumption,
           [Knowledge!Next]_(Knowledge!vars)
    PROVE  KnowledgeIInv'
<1>1. ASSUME NEW d \in Docs, Knowledge!Purge(d) PROVE KnowledgeIInv'
  BY <1>1, ResolveInv, RefuseInv, AnalyzeInv, PruneInv, CutEdgesInv, UntrackEdgesInv,
     CutIncidentInv, CutNodesInv, UntrackNodesInv, PurgeFlushes, RebuildInv, PhasesInv,
     DropChunksInv, DropNamesInv, DropPairsInv, RetireInv, ForgetInv,
        FinishInv DEF Knowledge!Purge
<1>2. ASSUME NEW d \in Docs, Knowledge!Process(d) PROVE KnowledgeIInv'
  BY <1>2, ParseInv, ChunkInv, NameChunksInv, StoreChunksInv, AnchorsInv, FlushAnchorsInv,
     MarkInv, TrackInv, UpsertInv, FlushMergedInv, CommitInv DEF Knowledge!Process
<1>3. ASSUME UNCHANGED Knowledge!vars PROVE KnowledgeIInv'
  BY <1>3 DEF Knowledge!vars, KnowledgeIInv, Typed, Content, Alone, Peers, Plain, Rowed,
     RowOfTask, AllKept, Kept,
     Credited, Tracked, Settled, MergeSoFar, SoFar, Stored, Locks, HeldFits, LockedApart,
     Spared, Spares, Knowledge!Working, Knowledge!At
<1> QED
  BY <1>1, <1>2, <1>3, BeginInv, BeginDeleteInv, FailInv, CrashInv DEF Knowledge!Next

\* What the invariant says of the properties.
LEMMA IInvMeans ==
    ASSUME Knowledge!KnowledgeAssumption, KnowledgeIInv
    PROVE  Knowledge!TypeOK /\ Knowledge!ContributionsKept
<1>1. Knowledge!TypeOK
  BY DEF Knowledge!TypeOK, KnowledgeIInv, Typed, Content
<1>2. Knowledge!ContributionsKept
  <2>1. SUFFICES ASSUME NEW d \in Docs, Settled(d), NEW s \in {mem, disk}
                 PROVE  /\ Knowledge!ChunksOf(d) \subseteq s.text
                        /\ \A x \in Knowledge!Yielded(d) :
                               /\ s.graph[x] # None /\ x \in s.vdb
                               /\ s.track[x] # None
                               /\ Knowledge!Evidence(d, x) \subseteq s.track[x]
    BY DEF Knowledge!ContributionsKept, Settled
  <2>2. Kept(s, d)
    BY <2>1 DEF KnowledgeIInv, AllKept
  <2>3. ASSUME NEW x \in Knowledge!Yielded(d)
        PROVE  /\ s.graph[x] # None /\ x \in s.vdb
               /\ s.track[x] # None /\ Knowledge!Evidence(d, x) \subseteq s.track[x]
    <3>1. \A c \in Knowledge!ChunksOf(d) : x \in Yield[d][c] => Credited(s, x, c)
      BY <2>2 DEF Kept, Gives
    <3>2. PICK c \in Knowledge!ChunksOf(d) : x \in Yield[d][c]
      BY <2>3 DEF Knowledge!Yielded, Knowledge!Range, Knowledge!ChunksOf
    <3> QED
      BY <3>1, <3>2 DEF Credited, Tracked, Knowledge!Evidence
  <2> QED
    BY <2>2, <2>3 DEF Kept
<1> QED
  BY <1>1, <1>2

\* The invariant holds throughout.
THEOREM KnowledgeInvariantHolds == ASSUME Knowledge!KnowledgeAssumption, PurgesAlone PROVE
   Knowledge!Spec => []KnowledgeIInv
<1>1. Knowledge!Init => KnowledgeIInv
  BY InitIInv
<1>2. KnowledgeIInv /\ [Knowledge!Next]_(Knowledge!vars) => KnowledgeIInv'
  BY NextIInv
<1> QED
  BY <1>1, <1>2, PTL DEF Knowledge!Spec

\* The rows, the stores and the locals of the coroutines keep their types: a row names
\* all the chunks of its document or none, an anchor is whole or absent, a tracked source
\* is a chunk.
THEOREM KnowledgeTypeCorrect == ASSUME Knowledge!KnowledgeAssumption, PurgesAlone PROVE
   Knowledge!Spec => []Knowledge!TypeOK
<1>1. KnowledgeIInv => Knowledge!TypeOK
  BY IInvMeans
<1> QED
  BY <1>1, KnowledgeInvariantHolds, PTL

\* adelete_by_doc_id, _purge_kg_contributions and merge_nodes_and_edges: what a
\* processed document contributed stays in memory and on disk, attributed to its
\* chunks, whatever is merged, retried, deleted, fails or dies beside it, provided that
\* nobody works beside a purge.
THEOREM ContributionsStay ==
    ASSUME Knowledge!KnowledgeAssumption, PurgesAlone
    PROVE Knowledge!Spec => []Knowledge!ContributionsKept
<1>1. KnowledgeIInv => Knowledge!ContributionsKept
  BY IInvMeans
<1> QED
  BY <1>1, KnowledgeInvariantHolds, PTL
================================================================================
