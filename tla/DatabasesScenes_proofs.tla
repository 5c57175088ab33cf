------------------------ MODULE DatabasesScenes_proofs ------------------------
(***************************************************************************)
(* The properties of MCDatabases about the shared PostgreSQL client, the    *)
(* vector storage on it and the migrations of Milvus: the theorems of       *)
(* Databases_proofs, applied to the scenes in which the components move.    *)
(* In the others they rest.                                                 *)
(***************************************************************************)
EXTENDS MCDatabases, TLAPS

\* the proofs, about the first scene of each component
First == INSTANCE Databases_proofs WITH
    Entities <- {e1, e2}, Tasks <- {t1, t2}, Clients <- {w1}, Writer <- w1,
    ClientOf <- t1 :> w1 @@ t2 :> w1, MaxVersion <- 2, MaxFaults <- 1, Kinds <- {"down"},
    Calls <- {"upsert", "commit", "delete_entity", "get_by_id", "get_vectors", "crash"},
    Users <- Triple, Attempts <- 3, PoolSize <- 2, ClientCalls <- 1, MaxPools <- 5,
    MaxBlips <- 1, MaxOutages <- 0, Signatures <- [x \in Triple |-> 1], ClientFaults <- {},
    MilvusRows <- Twins, Versions <- 3, Retries <- 1, MaxFailures <- 2, MaxWrites <- 1,
    Beginnings <- {"fresh", "current"}, Failures <- {"down", "lost", "death"},
    failures <- faults

\* and about the second
Second == INSTANCE Databases_proofs WITH
    Entities <- {e1, e2}, Tasks <- {t1, t3}, Clients <- {w1, w2}, Writer <- w1,
    ClientOf <- t1 :> w1 @@ t3 :> w2, MaxVersion <- 2, MaxFaults <- 1,
    Kinds <- {"down", "lost"},
    Calls <- {"upsert", "delete", "commit", "finalize", "get_by_id", "delete_entity",
              "drop", "drop_pending"},
    Users <- {a, b}, Attempts <- 2, PoolSize <- 2, ClientCalls <- 2, MaxPools <- 4,
    MaxBlips <- 1, MaxOutages <- 1, Signatures <- a :> 1 @@ b :> 2,
    ClientFaults <- {"timeout", "reject"},
    MilvusRows <- Twins, Versions <- 3, Retries <- 1, MaxFailures <- 3, MaxWrites <- 1,
    Beginnings <- {"fresh", "current", "legacy", "both"}, Failures <- {"death"},
    failures <- faults

-----------------------------------------------------------------------------
(* The scene of the tasks of one worker *)

\* The invariant of the scene.
PgInv == First!IInv /\ First!Reads /\ First!Opens

\* The assumptions of the proofs are those of the scene.
LEMMA PgAssumed == First!PgVectorAssumption /\ First!FinalizesAlone
BY DatabaseAssumptions
   DEF Pg!PgVectorAssumption, First!PgVectorAssumption, Pg!Free, First!Free, Pg!IsFiniteSet,
       First!IsFiniteSet, Pg!FinalizesAlone, First!FinalizesAlone

\* Where it starts,
LEMMA PgInit == Pg!Init => PgInv
<1>1. Pg!Init => First!Init
  BY DEF Pg!Init, First!Init, Pg!Nothing, First!Nothing, Pg!NoRow, First!NoRow, Pg!Free,
         First!Free, Pg!Idle, First!Idle
<1> QED
  BY <1>1, PgAssumed, First!Beginning, First!OpensBegin, First!ReadsBegin DEF PgInv

\* how it goes on,
LEMMA PgSteps == Pg!Next => First!Next
BY DEF Pg!Next, First!Next, Pg!Begin, First!Begin, Pg!Continue, First!Continue, Pg!Observe,
       First!Observe, Pg!drop_pending_index_ops, First!drop_pending_index_ops, Pg!flush,
       First!flush, Pg!drop, First!drop, Pg!delete_entity, First!delete_entity, Pg!get_by_id,
       First!get_by_id, Pg!get_vectors_by_ids, First!get_vectors_by_ids, Pg!upsert,
       First!upsert, Pg!delete, First!delete, Pg!Embed, First!Embed, Pg!UpsertBatch,
       First!UpsertBatch, Pg!UpsertsDone, First!UpsertsDone, Pg!DeleteBatch, First!DeleteBatch,
       Pg!FlushEnds, First!FlushEnds, Pg!Release, First!Release, Pg!EraseRows, First!EraseRows,
       Pg!PrunePending, First!PrunePending, Pg!QueryRow, First!QueryRow, Pg!CacheVector,
       First!CacheVector, Pg!QueryVector, First!QueryVector, Pg!Return, First!Return,
       Pg!DropRows, First!DropRows, Pg!initialize, First!initialize, Pg!Crash, First!Crash,
       Pg!Answer, First!Answer,
       Pg!AnswerAbsent, First!AnswerAbsent,
       Pg!Prune, First!Prune, Pg!Flushed, First!Flushed, Pg!FlushRaises, First!FlushRaises,
       Pg!FaultWith, First!FaultWith, Pg!Fault, First!Fault, Pg!At, First!At, Pg!Go, First!Go,
       Pg!Enter, First!Enter, Pg!Do, First!Do, Pg!View, First!View, Pg!Matching,
       First!Matching, Pg!Nothing, First!Nothing, Pg!NoRow, First!NoRow, Pg!Free, First!Free,
       Pg!Idle, First!Idle, Pg!Without, First!Without, Pg!Restrict, First!Restrict, Pg!Over,
       First!Over, Pg!buffers, First!buffers

-----------------------------------------------------------------------------
(* The scene of finalize, drop and a second worker *)

\* The invariant of the scene.
PgCloseInv == Second!IInv /\ Second!Opens

\* The assumptions of the proofs are those of the scene.
LEMMA PgCloseAssumed == Second!PgVectorAssumption /\ Second!FinalizesAlone
BY DatabaseAssumptions
   DEF PgClose!PgVectorAssumption, Second!PgVectorAssumption, PgClose!Free, Second!Free,
       PgClose!IsFiniteSet, Second!IsFiniteSet, PgClose!FinalizesAlone, Second!FinalizesAlone

\* Where it starts,
LEMMA PgCloseInit == PgClose!Init => PgCloseInv
<1>1. PgClose!Init => Second!Init
  BY DEF PgClose!Init, Second!Init, PgClose!Nothing, Second!Nothing, PgClose!NoRow,
         Second!NoRow, PgClose!Free, Second!Free, PgClose!Idle, Second!Idle
<1> QED
  BY <1>1, PgCloseAssumed, Second!Beginning, Second!OpensBegin DEF PgCloseInv

\* how it goes on,
LEMMA PgCloseSteps == PgClose!Next => Second!Next
BY DEF PgClose!Next, Second!Next, PgClose!Begin, Second!Begin, PgClose!Continue,
       Second!Continue, PgClose!Observe, Second!Observe, PgClose!drop_pending_index_ops,
       Second!drop_pending_index_ops, PgClose!flush, Second!flush, PgClose!drop, Second!drop,
       PgClose!delete_entity, Second!delete_entity, PgClose!get_by_id, Second!get_by_id,
       PgClose!get_vectors_by_ids, Second!get_vectors_by_ids, PgClose!upsert, Second!upsert,
       PgClose!delete, Second!delete, PgClose!Embed, Second!Embed, PgClose!UpsertBatch,
       Second!UpsertBatch, PgClose!UpsertsDone, Second!UpsertsDone, PgClose!DeleteBatch,
       Second!DeleteBatch, PgClose!FlushEnds, Second!FlushEnds, PgClose!Release,
       Second!Release, PgClose!EraseRows, Second!EraseRows, PgClose!PrunePending,
       Second!PrunePending, PgClose!QueryRow, Second!QueryRow, PgClose!CacheVector,
       Second!CacheVector, PgClose!QueryVector, Second!QueryVector, PgClose!Return,
       Second!Return, PgClose!DropRows, Second!DropRows, PgClose!initialize, Second!initialize,
       PgClose!Crash, Second!Crash, PgClose!Answer, Second!Answer,
       PgClose!AnswerAbsent, Second!AnswerAbsent, PgClose!Prune, Second!Prune,
       PgClose!Flushed, Second!Flushed, PgClose!FlushRaises, Second!FlushRaises, PgClose!FaultWith,
       Second!FaultWith, PgClose!Fault, Second!Fault, PgClose!At, Second!At, PgClose!Go,
       Second!Go, PgClose!Enter, Second!Enter, PgClose!Do, Second!Do, PgClose!View,
       Second!View, PgClose!Matching, Second!Matching, PgClose!Nothing, Second!Nothing,
       PgClose!NoRow, Second!NoRow, PgClose!Free, Second!Free, PgClose!Idle, Second!Idle,
       PgClose!Without, Second!Without, PgClose!Restrict, Second!Restrict, PgClose!Over,
       Second!Over, PgClose!buffers, Second!buffers


-----------------------------------------------------------------------------
(* Steps and promises *)

\* A step of a scene, or of another one, keeps its invariant.
LEMMA PgNext == PgInv /\ (Pg!Next \/ UNCHANGED <<vectors, faults>>) => PgInv'
<1>1. UNCHANGED <<vectors, faults>> => UNCHANGED First!vars
  BY DEF vectors, First!vars
<1>2. PgInv /\ UNCHANGED First!vars => PgInv'
  <2>1. First!IInv /\ UNCHANGED First!vars => First!IInv'
    BY First!StutterKeeps
  <2>2. First!Opens /\ UNCHANGED First!vars => First!Opens'
    BY DEF First!Opens, First!vars
  <2>3. First!Reads /\ UNCHANGED First!vars => First!Reads'
    BY DEF First!Reads, First!vars
  <2> QED
    BY <2>1, <2>2, <2>3 DEF PgInv
<1>3. PgInv /\ First!Next => PgInv'
  <2>1. First!IInv /\ First!Next => First!IInv'
    BY PgAssumed, First!StepKeeps
  <2>2. First!IInv /\ First!IInv' /\ First!Opens /\ First!Next => First!Opens'
    BY PgAssumed, First!OpensStep
  <2>3. First!IInv /\ First!IInv' /\ First!Reads /\ First!Next => First!Reads'
    BY PgAssumed, First!ReadsStep
  <2> QED
    BY <2>1, <2>2, <2>3 DEF PgInv
<1> QED
  BY <1>1, <1>2, <1>3, PgSteps

LEMMA PgCloseNext == PgCloseInv /\ (PgClose!Next \/ UNCHANGED <<vectors, faults>>) => PgCloseInv'
<1>1. UNCHANGED <<vectors, faults>> => UNCHANGED Second!vars
  BY DEF vectors, Second!vars
<1>2. PgCloseInv /\ UNCHANGED Second!vars => PgCloseInv'
  <2>1. Second!IInv /\ UNCHANGED Second!vars => Second!IInv'
    BY Second!StutterKeeps
  <2>2. Second!Opens /\ UNCHANGED Second!vars => Second!Opens'
    BY DEF Second!Opens, Second!vars
  <2> QED
    BY <2>1, <2>2 DEF PgCloseInv
<1>3. PgCloseInv /\ Second!Next => PgCloseInv'
  <2>1. Second!IInv /\ Second!Next => Second!IInv'
    BY PgCloseAssumed, Second!StepKeeps
  <2>2. Second!IInv /\ Second!IInv' /\ Second!Opens /\ Second!Next => Second!Opens'
    BY PgCloseAssumed, Second!OpensStep
  <2> QED
    BY <2>1, <2>2 DEF PgCloseInv
<1> QED
  BY <1>1, <1>2, <1>3, PgCloseSteps

\* What the invariants say of the states.
LEMMA PgPromises == PgInv => /\ Pg!TypeOK /\ Pg!VectorsMatch
                             /\ Pg!ReadsAreCurrent /\ Pg!ErasedStayErased
<1>1. PgInv => /\ First!TypeOK /\ First!VectorsMatch
               /\ First!ReadsAreCurrent /\ First!ErasedStayErased
  BY PgAssumed, First!Follows DEF PgInv
<1>2. First!TypeOK => Pg!TypeOK
  BY DEF Pg!TypeOK, First!TypeOK, Pg!Free, First!Free
<1>3. First!VectorsMatch => Pg!VectorsMatch
  BY DEF Pg!VectorsMatch, First!VectorsMatch
<1>4. First!ReadsAreCurrent => Pg!ReadsAreCurrent
  BY DEF Pg!ReadsAreCurrent, First!ReadsAreCurrent, Pg!At, First!At
<1>5. First!ErasedStayErased => Pg!ErasedStayErased
  BY DEF Pg!ErasedStayErased, First!ErasedStayErased
<1> QED
  BY <1>1, <1>2, <1>3, <1>4, <1>5

LEMMA PgClosePromises == PgCloseInv => PgClose!TypeOK
<1>1. PgCloseInv => Second!TypeOK
  BY PgCloseAssumed, Second!Follows DEF PgCloseInv
<1>2. Second!TypeOK => PgClose!TypeOK
  BY DEF PgClose!TypeOK, Second!TypeOK, PgClose!Free, Second!Free
<1> QED
  BY <1>1, <1>2

\* What they say of the steps: both scenes promise the same of the same variables.
LEMMA PgKeeps ==
    PgInv /\ Pg!Next =>
        Pg!Promise!PromiseNext \/ UNCHANGED Pg!Promise!promiseVars
<1>1. PgInv /\ Pg!Next => First!Promised
  BY PgAssumed, PgSteps, First!PromiseStep DEF PgInv
<1>2. First!Promised => Pg!Promise!PromiseNext \/ UNCHANGED Pg!Promise!promiseVars
  BY DEF First!Promised, Pg!Promise!PromiseNext, First!Promise!PromiseNext,
         Pg!Promise!promiseVars, First!Promise!promiseVars, Pg!Promise!Wipe,
         First!Promise!Wipe, Pg!Promise!Commit, First!Promise!Commit, Pg!Promise!Abandon,
         First!Promise!Abandon, Pg!Promise!Persist, First!Promise!Persist, Pg!Promise!Settle,
         First!Promise!Settle, Pg!Promise!Erase, First!Promise!Erase, Pg!Promise!Forget,
         First!Promise!Forget, Pg!Promise!Buffer, First!Promise!Buffer, Pg!Promise!Nothing,
         First!Promise!Nothing, Pg!Promise!Without, First!Promise!Without, Pg!Promise!Restrict,
         First!Promise!Restrict, Pg!Promise!Over, First!Promise!Over, Pg!Contents,
         First!Contents, Pg!Buffered, First!Buffered, Pg!Nothing, First!Nothing
<1> QED
  BY <1>1, <1>2

LEMMA PgCloseKeeps ==
    PgCloseInv /\ PgClose!Next =>
        Pg!Promise!PromiseNext \/ UNCHANGED Pg!Promise!promiseVars
<1>1. PgCloseInv /\ PgClose!Next => Second!Promised
  BY PgCloseAssumed, PgCloseSteps, Second!PromiseStep DEF PgCloseInv
<1>2. Second!Promised => Pg!Promise!PromiseNext \/ UNCHANGED Pg!Promise!promiseVars
  BY DEF Second!Promised, Pg!Promise!PromiseNext, Second!Promise!PromiseNext,
         Pg!Promise!promiseVars, Second!Promise!promiseVars, Pg!Promise!Wipe,
         Second!Promise!Wipe, Pg!Promise!Commit, Second!Promise!Commit, Pg!Promise!Abandon,
         Second!Promise!Abandon, Pg!Promise!Persist, Second!Promise!Persist, Pg!Promise!Settle,
         Second!Promise!Settle, Pg!Promise!Erase, Second!Promise!Erase, Pg!Promise!Forget,
         Second!Promise!Forget, Pg!Promise!Buffer, Second!Promise!Buffer, Pg!Promise!Nothing,
         Second!Promise!Nothing, Pg!Promise!Without, Second!Promise!Without,
         Pg!Promise!Restrict, Second!Promise!Restrict, Pg!Promise!Over, Second!Promise!Over,
         Pg!Contents, Second!Contents, Pg!Buffered, Second!Buffered, Pg!Nothing,
         Second!Nothing
<1> QED
  BY <1>1, <1>2

LEMMA PgBegins == Pg!Init => Pg!Promise!PromiseInit
<1>1. Pg!Init => First!Promise!PromiseInit
  <2>1. Pg!Init => First!Init
    BY DEF Pg!Init, First!Init, Pg!Nothing, First!Nothing, Pg!NoRow, First!NoRow, Pg!Free,
           First!Free, Pg!Idle, First!Idle
  <2> QED
    BY <2>1, PgAssumed, First!PromiseBegins
<1>2. First!Promise!PromiseInit => Pg!Promise!PromiseInit
  BY DEF Pg!Promise!PromiseInit, First!Promise!PromiseInit, Pg!Promise!Nothing,
         First!Promise!Nothing, Pg!Contents, First!Contents, Pg!Buffered, First!Buffered,
         Pg!Nothing, First!Nothing
<1> QED
  BY <1>1, <1>2

LEMMA PgCloseBegins == PgClose!Init => Pg!Promise!PromiseInit
<1>1. PgClose!Init => Second!Promise!PromiseInit
  <2>1. PgClose!Init => Second!Init
    BY DEF PgClose!Init, Second!Init, PgClose!Nothing, Second!Nothing, PgClose!NoRow,
           Second!NoRow, PgClose!Free, Second!Free, PgClose!Idle, Second!Idle
  <2> QED
    BY <2>1, PgCloseAssumed, Second!PromiseBegins
<1>2. Second!Promise!PromiseInit => Pg!Promise!PromiseInit
  BY DEF Pg!Promise!PromiseInit, Second!Promise!PromiseInit, Pg!Promise!Nothing,
         Second!Promise!Nothing, Pg!Contents, Second!Contents, Pg!Buffered, Second!Buffered,
         Pg!Nothing, Second!Nothing
<1> QED
  BY <1>1, <1>2

-----------------------------------------------------------------------------
(* Milvus: connections break, processes die *)

\* The assumptions of the proofs are those of the scene.
LEMMA MilvusAssumed ==
    First!Migration!MigrationAssumption /\ First!Outages /\ First!FewFaults /\ First!NothingOlder
<1>1. First!Migration!MigrationAssumption
  BY DatabaseAssumptions
     DEF Milvus!MigrationAssumption, First!Migration!MigrationAssumption, Milvus!IsFiniteSet,
         First!Migration!IsFiniteSet, Milvus!Kinds, First!Migration!Kinds
<1>2. First!Outages /\ First!FewFaults /\ First!NothingOlder
  BY DEF First!Outages, First!FewFaults, First!NothingOlder, First!DeathsOnly
<1> QED
  BY <1>1, <1>2

\* Where it starts,
LEMMA MilvusInit == Milvus!Init => First!MigrationIInv
<1>1. Milvus!Init => First!Migration!Init
  BY DEF Milvus!Init, First!Migration!Init, Milvus!Off, First!Migration!Off, Milvus!Names,
         First!Migration!Names, Milvus!Made, First!Migration!Made, Milvus!Absent,
         First!Migration!Absent
<1> QED
  BY <1>1, MilvusAssumed, First!MigrationInitInv

\* how it goes on,
LEMMA MilvusNext ==
    First!MigrationIInv /\ (Milvus!Next \/ UNCHANGED <<migration, faults>>) =>
       First!MigrationIInv'
<1>1. Milvus!Next => First!Migration!Next
  BY DEF Milvus!Next, First!Migration!Next, Milvus!Program, First!Migration!Program,
         Milvus!Write, First!Migration!Write, Milvus!Drop, First!Migration!Drop,
         Milvus!Restart, First!Migration!Restart, Milvus!Death, First!Migration!Death,
         Milvus!Boot, First!Migration!Boot, Milvus!Attempt, First!Migration!Attempt,
         Milvus!Fill, First!Migration!Fill, Milvus!Copy, First!Migration!Copy, Milvus!Vacate,
         First!Migration!Vacate, Milvus!RenameSource, First!Migration!RenameSource,
         Milvus!DropSource, First!Migration!DropSource, Milvus!Promote,
         First!Migration!Promote, Milvus!Recover, First!Migration!Recover, Milvus!Load,
         First!Migration!Load, Milvus!Repair, First!Migration!Repair, Milvus!Create,
         First!Migration!Create, Milvus!Index, First!Migration!Index, Milvus!ForceCreate,
         First!Migration!ForceCreate, Milvus!Recreate, First!Migration!Recreate, Milvus!Call,
         First!Migration!Call, Milvus!Rename, First!Migration!Rename, Milvus!Renamed,
         First!Migration!Renamed, Milvus!Raised, First!Migration!Raised, Milvus!AttemptFails,
         First!Migration!AttemptFails, Milvus!InsteadDrop, First!Migration!InsteadDrop,
         Milvus!NotRuntimeError, First!Migration!NotRuntimeError, Milvus!DropFails,
         First!Migration!DropFails, Milvus!Source, First!Migration!Source, Milvus!Has,
         First!Migration!Has, Milvus!Made, First!Migration!Made, Milvus!Absent,
         First!Migration!Absent, Milvus!Off, First!Migration!Off, Milvus!outside,
         First!Migration!outside, Milvus!Names, First!Migration!Names
<1>2. UNCHANGED <<migration, faults>> => UNCHANGED First!Migration!vars
  BY DEF migration, First!Migration!vars
<1>3. First!MigrationIInv /\ [First!Migration!Next]_(First!Migration!vars) => First!MigrationIInv'
  BY MilvusAssumed, First!MigrationNextInv
<1> QED
  BY <1>1, <1>2, <1>3

\* and what it says.
LEMMA MilvusPromises ==
    First!MigrationIInv => Milvus!TypeOK /\ Milvus!ServedIsStored /\ Milvus!WholeSomewhere
<1>1. First!MigrationIInv => First!Migration!TypeOK /\ First!Migration!ServedIsStored /\
         First!Migration!WholeSomewhere
  BY First!MigrationFollows
<1>2. First!Migration!TypeOK => Milvus!TypeOK
  BY DEF Milvus!TypeOK, First!Migration!TypeOK, Milvus!Collection, First!Migration!Collection,
         Milvus!Names, First!Migration!Names, Milvus!Absent, First!Migration!Absent
<1>3. First!Migration!ServedIsStored => Milvus!ServedIsStored
  BY DEF Milvus!ServedIsStored, First!Migration!ServedIsStored
<1>4. First!Migration!WholeSomewhere => Milvus!WholeSomewhere
  BY DEF Milvus!WholeSomewhere, First!Migration!WholeSomewhere, Milvus!Has,
         First!Migration!Has, Milvus!Names, First!Migration!Names
<1> QED
  BY <1>1, <1>2, <1>3, <1>4

-----------------------------------------------------------------------------
(* Milvus: processes die, also beside an older collection *)

\* The assumptions of the proofs are those of the scene.
LEMMA MilvusDeathsAssumed ==
    Second!Migration!MigrationAssumption /\ Second!Outages /\ Second!FewFaults /\
       Second!NothingOlder
<1>1. Second!Migration!MigrationAssumption
  BY DatabaseAssumptions
     DEF MilvusDeaths!MigrationAssumption, Second!Migration!MigrationAssumption,
         MilvusDeaths!IsFiniteSet, Second!Migration!IsFiniteSet, MilvusDeaths!Kinds,
         Second!Migration!Kinds
<1>2. Second!Outages /\ Second!FewFaults /\ Second!NothingOlder
  BY DEF Second!Outages, Second!FewFaults, Second!NothingOlder, Second!DeathsOnly
<1> QED
  BY <1>1, <1>2

\* Where it starts,
LEMMA MilvusDeathsInit == MilvusDeaths!Init => Second!MigrationIInv
<1>1. MilvusDeaths!Init => Second!Migration!Init
  BY DEF MilvusDeaths!Init, Second!Migration!Init, MilvusDeaths!Off, Second!Migration!Off,
         MilvusDeaths!Names, Second!Migration!Names, MilvusDeaths!Made, Second!Migration!Made,
         MilvusDeaths!Absent, Second!Migration!Absent
<1> QED
  BY <1>1, MilvusDeathsAssumed, Second!MigrationInitInv

\* how it goes on,
LEMMA MilvusDeathsNext ==
    Second!MigrationIInv /\ (MilvusDeaths!Next \/ UNCHANGED <<migration, faults>>) =>
       Second!MigrationIInv'
<1>1. MilvusDeaths!Next => Second!Migration!Next
  BY DEF MilvusDeaths!Next, Second!Migration!Next, MilvusDeaths!Program,
         Second!Migration!Program, MilvusDeaths!Write, Second!Migration!Write,
         MilvusDeaths!Drop, Second!Migration!Drop, MilvusDeaths!Restart,
         Second!Migration!Restart, MilvusDeaths!Death, Second!Migration!Death,
         MilvusDeaths!Boot, Second!Migration!Boot, MilvusDeaths!Attempt,
         Second!Migration!Attempt, MilvusDeaths!Fill, Second!Migration!Fill, MilvusDeaths!Copy,
         Second!Migration!Copy, MilvusDeaths!Vacate, Second!Migration!Vacate,
         MilvusDeaths!RenameSource, Second!Migration!RenameSource, MilvusDeaths!DropSource,
         Second!Migration!DropSource, MilvusDeaths!Promote, Second!Migration!Promote,
         MilvusDeaths!Recover, Second!Migration!Recover, MilvusDeaths!Load,
         Second!Migration!Load, MilvusDeaths!Repair, Second!Migration!Repair,
         MilvusDeaths!Create, Second!Migration!Create, MilvusDeaths!Index,
         Second!Migration!Index, MilvusDeaths!ForceCreate, Second!Migration!ForceCreate,
         MilvusDeaths!Recreate, Second!Migration!Recreate, MilvusDeaths!Call,
         Second!Migration!Call, MilvusDeaths!Rename, Second!Migration!Rename,
         MilvusDeaths!Renamed, Second!Migration!Renamed, MilvusDeaths!Raised,
         Second!Migration!Raised, MilvusDeaths!AttemptFails, Second!Migration!AttemptFails,
         MilvusDeaths!InsteadDrop, Second!Migration!InsteadDrop, MilvusDeaths!NotRuntimeError,
         Second!Migration!NotRuntimeError, MilvusDeaths!DropFails, Second!Migration!DropFails,
         MilvusDeaths!Source, Second!Migration!Source, MilvusDeaths!Has, Second!Migration!Has,
         MilvusDeaths!Made, Second!Migration!Made, MilvusDeaths!Absent,
         Second!Migration!Absent, MilvusDeaths!Off, Second!Migration!Off, MilvusDeaths!outside,
         Second!Migration!outside, MilvusDeaths!Names, Second!Migration!Names
<1>2. UNCHANGED <<migration, faults>> => UNCHANGED Second!Migration!vars
  BY DEF migration, Second!Migration!vars
<1>3. Second!MigrationIInv /\ [Second!Migration!Next]_(Second!Migration!vars) =>
         Second!MigrationIInv'
  BY MilvusDeathsAssumed, Second!MigrationNextInv
<1> QED
  BY <1>1, <1>2, <1>3

\* and what it says.
LEMMA MilvusDeathsPromises ==
    Second!MigrationIInv => MilvusDeaths!TypeOK /\ MilvusDeaths!ServedIsStored /\
       MilvusDeaths!WholeSomewhere
<1>1. Second!MigrationIInv => Second!Migration!TypeOK /\ Second!Migration!ServedIsStored /\
         Second!Migration!WholeSomewhere
  BY Second!MigrationFollows
<1>2. Second!Migration!TypeOK => MilvusDeaths!TypeOK
  BY DEF MilvusDeaths!TypeOK, Second!Migration!TypeOK, MilvusDeaths!Collection,
         Second!Migration!Collection, MilvusDeaths!Names, Second!Migration!Names,
         MilvusDeaths!Absent, Second!Migration!Absent
<1>3. Second!Migration!ServedIsStored => MilvusDeaths!ServedIsStored
  BY DEF MilvusDeaths!ServedIsStored, Second!Migration!ServedIsStored
<1>4. Second!Migration!WholeSomewhere => MilvusDeaths!WholeSomewhere
  BY DEF MilvusDeaths!WholeSomewhere, Second!Migration!WholeSomewhere, MilvusDeaths!Has,
         Second!Migration!Has, MilvusDeaths!Names, Second!Migration!Names
<1> QED
  BY <1>1, <1>2, <1>3, <1>4

-----------------------------------------------------------------------------
(* The pool: three storages whose connections break once *)

\* The assumption of the proofs is that of the scene.
LEMMA PoolAssumed == First!Client!ClientAssumption
BY DatabaseAssumptions
   DEF Pool!ClientAssumption, First!Client!ClientAssumption, Pool!IsFiniteSet,
       First!Client!IsFiniteSet

\* Where it starts,
LEMMA PoolInit == Pool!Init => First!ClientIInv
<1>1. Pool!Init => First!Client!Init
  BY DEF Pool!Init, First!Client!Init, Pool!Dbs, First!Client!Dbs, Pool!Pools,
         First!Client!Pools, Pool!Null, First!Client!Null, Pool!Cardinality,
         First!Client!Cardinality
<1> QED
  BY <1>1, PoolAssumed, First!InitInv

\* how it goes on,
LEMMA PoolNext ==
    First!ClientIInv /\ (Pool!Next \/ UNCHANGED client) => First!ClientIInv'
<1>1. Pool!Next => First!Client!Next
  BY DEF Pool!Next, First!Client!Next, Pool!Step, First!Client!Step, Pool!Initialize,
         First!Client!Initialize, Pool!GetClient, First!Client!GetClient, Pool!Leave,
         First!Client!Leave, Pool!ReleaseClient, First!Client!ReleaseClient, Pool!Released,
         First!Client!Released, Pool!Call, First!Client!Call, Pool!EnsurePool,
         First!Client!EnsurePool, Pool!CreatePool, First!Client!CreatePool, Pool!CreateFails,
         First!Client!CreateFails, Pool!ResetPool, First!Client!ResetPool, Pool!PoolClosed,
         First!Client!PoolClosed, Pool!Acquire, First!Client!Acquire, Pool!ConfigureAge,
         First!Client!ConfigureAge, Pool!Operate, First!Client!Operate, Pool!GoOn,
         First!Client!GoOn, Pool!Blip, First!Client!Blip, Pool!Outage, First!Client!Outage,
         Pool!Recover, First!Client!Recover, Pool!Break, First!Client!Break, Pool!Queue,
         First!Client!Queue, Pool!Returned, First!Client!Returned, Pool!Raised,
         First!Client!Raised, Pool!BeforeSleep, First!Client!BeforeSleep, Pool!Transient,
         First!Client!Transient, Pool!AfterReset, First!Client!AfterReset, Pool!Holds,
         First!Client!Holds, Pool!Using, First!Client!Using, Pool!Db, First!Client!Db,
         Pool!Unused, First!Client!Unused, Pool!Dbs, First!Client!Dbs, Pool!Pools,
         First!Client!Pools, Pool!Null, First!Client!Null, Pool!Cardinality,
         First!Client!Cardinality
<1>2. UNCHANGED client => UNCHANGED First!Client!vars
  BY DEF client, First!Client!vars
<1>3. First!ClientIInv /\ [First!Client!Next]_(First!Client!vars) => First!ClientIInv'
  BY PoolAssumed, First!NextInv
<1> QED
  BY <1>1, <1>2, <1>3

\* and what it says.
LEMMA PoolPromises ==
    First!ClientIInv => Pool!TypeOK /\ Pool!UsersAreCounted /\ Pool!EnsuredGraphExists
<1>1. First!ClientIInv => First!Client!TypeOK /\ First!Client!UsersAreCounted /\
         First!Client!EnsuredGraphExists
  BY PoolAssumed, First!ClientFollows
<1>2. First!Client!TypeOK => Pool!TypeOK
  BY DEF Pool!TypeOK, First!Client!TypeOK, Pool!Dbs, First!Client!Dbs, Pool!Pools,
         First!Client!Pools, Pool!Null, First!Client!Null, Pool!Steps, First!Client!Steps,
         Pool!Cardinality, First!Client!Cardinality
<1>3. First!Client!UsersAreCounted => Pool!UsersAreCounted
  BY DEF Pool!UsersAreCounted, First!Client!UsersAreCounted, Pool!Members,
         First!Client!Members, Pool!Db, First!Client!Db, Pool!Null, First!Client!Null,
         Pool!Cardinality, First!Client!Cardinality
<1>4. First!Client!EnsuredGraphExists => Pool!EnsuredGraphExists
  BY DEF Pool!EnsuredGraphExists, First!Client!EnsuredGraphExists, Pool!Dbs, First!Client!Dbs,
         Pool!Cardinality, First!Client!Cardinality
<1> QED
  BY <1>1, <1>2, <1>3, <1>4

-----------------------------------------------------------------------------
(* The pool: other settings, closes that time out, an outage *)

\* The assumption of the proofs is that of the scene.
LEMMA PoolFaultsAssumed == Second!Client!ClientAssumption
BY DatabaseAssumptions
   DEF PoolFaults!ClientAssumption, Second!Client!ClientAssumption, PoolFaults!IsFiniteSet,
       Second!Client!IsFiniteSet

\* Where it starts,
LEMMA PoolFaultsInit == PoolFaults!Init => Second!ClientIInv
<1>1. PoolFaults!Init => Second!Client!Init
  BY DEF PoolFaults!Init, Second!Client!Init, PoolFaults!Dbs, Second!Client!Dbs,
         PoolFaults!Pools, Second!Client!Pools, PoolFaults!Null, Second!Client!Null,
         PoolFaults!Cardinality, Second!Client!Cardinality
<1> QED
  BY <1>1, PoolFaultsAssumed, Second!InitInv

\* how it goes on,
LEMMA PoolFaultsNext ==
    Second!ClientIInv /\ (PoolFaults!Next \/ UNCHANGED client) => Second!ClientIInv'
<1>1. PoolFaults!Next => Second!Client!Next
  BY DEF PoolFaults!Next, Second!Client!Next, PoolFaults!Step, Second!Client!Step,
         PoolFaults!Initialize, Second!Client!Initialize, PoolFaults!GetClient,
         Second!Client!GetClient, PoolFaults!Leave, Second!Client!Leave,
         PoolFaults!ReleaseClient, Second!Client!ReleaseClient, PoolFaults!Released,
         Second!Client!Released, PoolFaults!Call, Second!Client!Call, PoolFaults!EnsurePool,
         Second!Client!EnsurePool, PoolFaults!CreatePool, Second!Client!CreatePool,
         PoolFaults!CreateFails, Second!Client!CreateFails, PoolFaults!ResetPool,
         Second!Client!ResetPool, PoolFaults!PoolClosed, Second!Client!PoolClosed,
         PoolFaults!Acquire, Second!Client!Acquire, PoolFaults!ConfigureAge,
         Second!Client!ConfigureAge, PoolFaults!Operate, Second!Client!Operate,
         PoolFaults!GoOn, Second!Client!GoOn, PoolFaults!Blip, Second!Client!Blip,
         PoolFaults!Outage, Second!Client!Outage, PoolFaults!Recover, Second!Client!Recover,
         PoolFaults!Break, Second!Client!Break, PoolFaults!Queue, Second!Client!Queue,
         PoolFaults!Returned, Second!Client!Returned, PoolFaults!Raised, Second!Client!Raised,
         PoolFaults!BeforeSleep, Second!Client!BeforeSleep, PoolFaults!Transient,
         Second!Client!Transient, PoolFaults!AfterReset, Second!Client!AfterReset,
         PoolFaults!Holds, Second!Client!Holds, PoolFaults!Using, Second!Client!Using,
         PoolFaults!Db, Second!Client!Db, PoolFaults!Unused, Second!Client!Unused,
         PoolFaults!Dbs, Second!Client!Dbs, PoolFaults!Pools, Second!Client!Pools,
         PoolFaults!Null, Second!Client!Null, PoolFaults!Cardinality,
         Second!Client!Cardinality
<1>2. UNCHANGED client => UNCHANGED Second!Client!vars
  BY DEF client, Second!Client!vars
<1>3. Second!ClientIInv /\ [Second!Client!Next]_(Second!Client!vars) => Second!ClientIInv'
  BY PoolFaultsAssumed, Second!NextInv
<1> QED
  BY <1>1, <1>2, <1>3

\* and what it says.
LEMMA PoolFaultsPromises ==
    Second!ClientIInv => PoolFaults!TypeOK /\ PoolFaults!UsersAreCounted /\
       PoolFaults!EnsuredGraphExists
<1>1. Second!ClientIInv => Second!Client!TypeOK /\ Second!Client!UsersAreCounted /\
         Second!Client!EnsuredGraphExists
  BY PoolFaultsAssumed, Second!ClientFollows
<1>2. Second!Client!TypeOK => PoolFaults!TypeOK
  BY DEF PoolFaults!TypeOK, Second!Client!TypeOK, PoolFaults!Dbs, Second!Client!Dbs,
         PoolFaults!Pools, Second!Client!Pools, PoolFaults!Null, Second!Client!Null,
         PoolFaults!Steps, Second!Client!Steps, PoolFaults!Cardinality,
         Second!Client!Cardinality
<1>3. Second!Client!UsersAreCounted => PoolFaults!UsersAreCounted
  BY DEF PoolFaults!UsersAreCounted, Second!Client!UsersAreCounted, PoolFaults!Members,
         Second!Client!Members, PoolFaults!Db, Second!Client!Db, PoolFaults!Null,
         Second!Client!Null, PoolFaults!Cardinality, Second!Client!Cardinality
<1>4. Second!Client!EnsuredGraphExists => PoolFaults!EnsuredGraphExists
  BY DEF PoolFaults!EnsuredGraphExists, Second!Client!EnsuredGraphExists, PoolFaults!Dbs,
         Second!Client!Dbs, PoolFaults!Cardinality, Second!Client!Cardinality
<1> QED
  BY <1>1, <1>2, <1>3, <1>4

-----------------------------------------------------------------------------
(* The run's properties *)

\* In every scene the invariant of its component holds; the scene never changes.
SceneInv ==
    /\ scene = "pg" => PgInv
    /\ scene = "pg_close" => PgCloseInv
    /\ scene = "milvus" => First!MigrationIInv
    /\ scene = "milvus_deaths" => Second!MigrationIInv
    /\ scene = "pool" => First!ClientIInv
    /\ scene = "pool_faults" => Second!ClientIInv

\* The invariant holds in every state of a run, whatever its scenes.
LEMMA SceneInvHolds == Spec => []SceneInv
<1>1. Init => SceneInv
  BY PgInit, PgCloseInit, MilvusInit, MilvusDeathsInit, PoolInit, PoolFaultsInit
     DEF Init, SceneInv
<1>2. SceneInv /\ [Next]_vars => SceneInv'
  <2>1. ASSUME SceneInv, Next
        PROVE  SceneInv'
    <3>1. /\ scene' = scene
          /\ scene = "pg" => Pg!Next
          /\ scene = "pg_close" => PgClose!Next
          /\ scene = "milvus" => Milvus!Next
          /\ scene = "milvus_deaths" => MilvusDeaths!Next
          /\ scene = "pool" => Pool!Next
          /\ scene = "pool_faults" => PoolFaults!Next
      BY <2>1 DEF Next
    <3> QED
      BY <2>1, <3>1, PgNext, PgCloseNext, MilvusNext, MilvusDeathsNext, PoolNext,
         PoolFaultsNext
         DEF SceneInv
  <2>2. ASSUME SceneInv, UNCHANGED vars
        PROVE  SceneInv'
    <3>1. /\ scene' = scene /\ UNCHANGED client
          /\ UNCHANGED <<vectors, faults>> /\ UNCHANGED <<migration, faults>>
      BY <2>2 DEF vars
    <3> QED
      BY <2>2, <3>1, PgNext, PgCloseNext, MilvusNext, MilvusDeathsNext, PoolNext,
         PoolFaultsNext
         DEF SceneInv
  <2> QED
    BY <2>1, <2>2
<1> QED
  BY <1>1, <1>2, PTL DEF Spec

\* ClientManager counts the storages that share its PostgreSQLDB and hands the same one
\* to all of them: none has its pool closed by the release of another.
THEOREM PoolsCounted == Spec => []PoolsAreCounted
<1>1. SceneInv => PoolsAreCounted
  BY PoolPromises, PoolFaultsPromises DEF SceneInv, PoolsAreCounted
<1> QED
  BY <1>1, SceneInvHolds, PTL

\* _ensure_age_graph skips the check only for a graph that exists.
THEOREM GraphEnsured == Spec => []EnsuredGraphExists
<1>1. SceneInv => EnsuredGraphExists
  BY PoolPromises, PoolFaultsPromises DEF SceneInv, EnsuredGraphExists
<1> QED
  BY <1>1, SceneInvHolds, PTL

\* A row of PGVectorStorage and a pending document never have the embedding of another
\* content.
THEOREM VectorsFit == Spec => []VectorsMatch
<1>1. SceneInv => VectorsMatch
  BY PgPromises, PgClosePromises DEF SceneInv, VectorsMatch
<1> QED
  BY <1>1, SceneInvHolds, PTL

\* get_by_id and get_vectors_by_ids answer with what the row was while they asked, unless
\* they answer that it is absent without having found out.
THEOREM ReadsCurrent == Spec => []ReadsAreCurrent
<1>1. SceneInv => ReadsAreCurrent
  BY PgPromises DEF SceneInv, ReadsAreCurrent
<1> QED
  BY <1>1, SceneInvHolds, PTL

\* In both scenes of the migration of Milvus, with few faults or with deaths alone, a
\* collection that is served has the rows that the application stored, and until the copy
\* has its name one collection is whole.
THEOREM RowsSurvived == Spec => []RowsSurvive
<1>1. SceneInv => RowsSurvive
  BY MilvusPromises, MilvusDeathsPromises DEF SceneInv, RowsSurvive
<1> QED
  BY <1>1, SceneInvHolds, PTL

\* The rows that delete_entity erased do not come back from a buffer.
THEOREM ErasedForGood == Spec => []ErasedStayErased
<1>1. SceneInv => ErasedStayErased
  BY PgPromises DEF SceneInv, ErasedStayErased
<1> QED
  BY <1>1, SceneInvHolds, PTL

\* PGVectorStorage drops no buffered write silently, and a flush that succeeds has put
\* all of them on the server: every step is one of VectorStorePromise, or says nothing.
THEOREM PromiseKept == Spec => KeepsPromise
<1>1. Init => Pg!Promise!PromiseInit
  BY PgBegins, PgCloseBegins DEF Init
<1>2. SceneInv /\ [Next]_vars => [Pg!Promise!PromiseNext]_(Pg!Promise!promiseVars)
  <2>1. UNCHANGED vectors => UNCHANGED Pg!Promise!promiseVars
    BY DEF vectors, Pg!Promise!promiseVars, Pg!Contents, Pg!Buffered
  <2>2. ASSUME SceneInv, Next
        PROVE  Pg!Promise!PromiseNext \/ UNCHANGED Pg!Promise!promiseVars
    <3>1. \/ UNCHANGED vectors
          \/ scene = "pg" /\ Pg!Next
          \/ scene = "pg_close" /\ PgClose!Next
      BY <2>2 DEF Next
    <3> QED
      BY <2>1, <2>2, <3>1, PgKeeps, PgCloseKeeps DEF SceneInv
  <2>3. UNCHANGED vars => UNCHANGED vectors
    BY DEF vars
  <2> QED
    BY <2>1, <2>2, <2>3
<1> QED
  BY <1>1, <1>2, SceneInvHolds, PTL DEF Spec, KeepsPromise, Pg!Promise!PromiseSpec
=============================================================================
