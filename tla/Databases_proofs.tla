--------------------------- MODULE Databases_proofs ---------------------------
(***************************************************************************)
(* Proofs about the storages that keep their rows on a server.              *)
(*                                                                          *)
(* PgVectorStore: the invariant of the buffers and tasks is inductive, a    *)
(* vector always belongs to its content, and the buffered storage           *)
(* implements VectorStorePromise, call by call.                             *)
(*                                                                          *)
(* PostgresClient: ClientManager counts the storages that share its         *)
(* PostgreSQLDB, whatever the pool, its retries and the server do, and the  *)
(* graph that _ensured_age_graphs remembers exists.                         *)
(*                                                                          *)
(* MilvusMigration: no migration, however often it is interrupted, loses a  *)
(* row or brings one back.                                                  *)
(***************************************************************************)
EXTENDS PgVectorStore, Sequences, FiniteSetTheorems, TLAPS

\* Types: versions count upserts,
Version == 0..MaxVersion
\* where a task holds the lock of the flush, and where it may be,
Holding == {"embedding", "upserting", "deleting", "erasing", "pruning", "dropping"}
Position == Holding \cup {"idle", "releasing", "reading", "vector", "caching", "answered"}
\* why it flushes or has no answer, and what is said of a flush,
Why == {"", "commit", "finalize", "absent"}
Saying == {"nothing", "committed", "abandoned"}
\* a call, a buffered document, a buffer.
Call == [at : Position, ids : SUBSET Ids, want : Version, got : Version, why : Why]
Doc == [c : Version \ {0}, v : Version]

Buffer == UNION {[S -> Doc] : S \in SUBSET Ids}

\* The variables have their types.
Types ==
    /\ row \in [Ids -> [c : Version, v : Version]]
    /\ docs \in [Clients -> Buffer]
    /\ dels \in [Clients -> SUBSET Ids]
    /\ db \in [Clients -> BOOLEAN] /\ lock \in Tasks \cup {Free}
    /\ task \in [Tasks -> Call]
    /\ erasing \in [Clients -> SUBSET Ids] /\ gone \in SUBSET Ids
    /\ said \in [Clients -> Saying]
    /\ version \in Version

\* No row is pending as an upsert and a delete; a vector is that of its content.  Only the
\* worker that writes has anything in its buffers.
Buffers ==
    /\ \A c \in Clients : /\ DOMAIN docs[c] \cap dels[c] = {}
                          /\ \A i \in DOMAIN docs[c] : docs[c][i].v \in {0, docs[c][i].c}
    /\ \A c \in Clients \ {Writer} : DOMAIN docs[c] = {} /\ dels[c] = {} /\ erasing[c] = {}

\* One task at a time is between the awaits of a flush, a deletion or a drop.
Locks ==
    /\ \A t \in Tasks : task[t].at \in Holding => lock = t /\ ClientOf[t] = Writer
    /\ erasing[Writer] # {} => lock # Free /\ task[lock].at = "pruning"

\* What a flush has done so far is on the server, and what it did not is still in its
\* batches; the buffers do not change under it.
Flushes ==
    \A t \in Tasks :
        /\ task[t].at \in {"upserting", "deleting"} =>
              \A i \in DOMAIN docs[Writer] : docs[Writer][i].v = docs[Writer][i].c
        /\ task[t].at = "upserting" =>
              /\ task[t].ids \subseteq DOMAIN docs[Writer]
              /\ \A i \in DOMAIN docs[Writer] \ task[t].ids : row[i].c = docs[Writer][i].c
        /\ task[t].at = "deleting" =>
              /\ task[t].ids \subseteq dels[Writer]
              /\ \A i \in DOMAIN docs[Writer] : row[i].c = docs[Writer][i].c
              /\ \A i \in dels[Writer] \ task[t].ids : row[i].c = 0
        /\ task[t].at = "pruning" =>
              /\ erasing[Writer] = task[t].ids
              /\ \A i \in task[t].ids : row[i].c = 0
        /\ task[t].at = "dropping" => DOMAIN docs[Writer] = {} /\ dels[Writer] = {}

\* A row has the embedding of its content.
Rows == \A i \in Ids : row[i].v = row[i].c

\* The inductive invariant.
IInv == Types /\ Buffers /\ Locks /\ Flushes /\ Rows /\ ErasedStayErased

USE DEF Free
-----------------------------------------------------------------------------
(* Buffers, and who holds the lock *)

\* Buffers are functions from rows to documents.
LEMMA BufferIntro ==
    ASSUME NEW S \in SUBSET Ids, NEW f \in [S -> Doc]
    PROVE  f \in Buffer
  BY DEF Buffer

\* A buffer has rows and documents.
LEMMA BufferElim ==
    ASSUME NEW f \in Buffer
    PROVE  /\ DOMAIN f \in SUBSET Ids /\ f \in [DOMAIN f -> Doc]
           /\ \A i \in DOMAIN f : /\ f[i] \in Doc /\ f[i].c \in Version \ {0}
                                  /\ f[i].v \in Version
  BY DEF Buffer, Doc

\* The only empty buffer is Nothing.
LEMMA Emptied ==
    /\ Nothing \in Buffer /\ DOMAIN Nothing = {}
    /\ \A f : DOMAIN f = {} /\ f \in Buffer => f = Nothing
  <1>1. Nothing \in [{} -> Doc] /\ DOMAIN Nothing = {}
    BY DEF Nothing
  <1>2. ASSUME NEW f \in Buffer, DOMAIN f = {} PROVE f = Nothing
    BY <1>2, BufferElim DEF Nothing
  <1> QED
    BY <1>1, <1>2, BufferIntro

\* What a buffer has when rows are taken out of it,
LEMMA CutBuffer ==
    ASSUME NEW f \in Buffer, NEW S
    PROVE  /\ Without(f, S) \in Buffer
           /\ DOMAIN Without(f, S) = DOMAIN f \ S
           /\ \A i \in DOMAIN f \ S : Without(f, S)[i] = f[i]
  <1>1. Without(f, S) \in [DOMAIN f \ S -> Doc]
    BY BufferElim DEF Without, Restrict
  <1>2. DOMAIN f \ S \in SUBSET Ids
    BY BufferElim
  <1> QED
    BY <1>1, <1>2, BufferIntro DEF Without, Restrict

\* and when documents are put over it.
LEMMA OverBuffer ==
    ASSUME NEW f \in Buffer, NEW w \in Buffer
    PROVE  /\ Over(w, f) \in Buffer
           /\ DOMAIN Over(w, f) = DOMAIN w \cup DOMAIN f
           /\ \A i \in DOMAIN w : Over(w, f)[i] = w[i]
           /\ \A i \in DOMAIN f \ DOMAIN w : Over(w, f)[i] = f[i]
  <1>1. Over(w, f) \in [DOMAIN w \cup DOMAIN f -> Doc]
    BY BufferElim DEF Over
  <1>2. DOMAIN w \cup DOMAIN f \in SUBSET Ids
    BY BufferElim
  <1> QED
    BY <1>1, <1>2, BufferIntro DEF Over

\* The types, value by value.
LEMMA TypesHold ==
    ASSUME PgVectorAssumption, Types
    PROVE  /\ \A c \in Clients : /\ docs[c] \in Buffer /\ dels[c] \in SUBSET Ids
                                  /\ erasing[c] \in SUBSET Ids /\ db[c] \in BOOLEAN
                                  /\ DOMAIN docs[c] \in SUBSET Ids
                                  /\ \A i \in DOMAIN docs[c] : /\ docs[c][i].c \in Version \ {0}
                                                               /\ docs[c][i].v \in Version
           /\ \A t \in Tasks : ClientOf[t] \in Clients /\ task[t] \in Call
           /\ \A i \in Ids : row[i].c \in Version /\ row[i].v \in Version
  BY BufferElim DEF Types, PgVectorAssumption

\* When the lock is free nobody is between two awaits of an operation that has it,
LEMMA NobodyHolds ==
    ASSUME PgVectorAssumption, Locks, lock = Free
    PROVE  erasing[Writer] = {} /\ \A s \in Tasks : task[s].at \notin Holding
  BY DEF PgVectorAssumption, Locks

\* and whoever is, has the lock alone.
LEMMA OneHolds ==
    ASSUME PgVectorAssumption, Locks, NEW t \in Tasks, task[t].at \in Holding
    PROVE  /\ lock = t /\ ClientOf[t] = Writer /\ t # Free
           /\ \A s \in Tasks \ {t} : task[s].at \notin Holding
           /\ task[t].at # "pruning" => erasing[Writer] = {}
  BY DEF PgVectorAssumption, Locks

\* When nobody holds the lock there is nothing to say of a flush.
LEMMA StaysFree ==
    ASSUME erasing'[Writer] = {}, \A s \in Tasks : task'[s].at \notin Holding
    PROVE  Locks' /\ Flushes'
  BY DEF Locks, Flushes, Holding

\* upsert buffers its documents without a vector and takes back pending deletes.
LEMMA TheUpsert ==
    ASSUME PgVectorAssumption, IInv, NEW t \in Tasks, NEW S \in SUBSET Ids, upsert(t, S)
    PROVE  IInv'
  <1> DEFINE w == [i \in S |-> [c |-> version + 1, v |-> 0]]
  <1>1. version + 1 \in Version \ {0} /\ w \in Buffer /\ DOMAIN w = S
    <2>1. version + 1 \in Version \ {0} /\ 0 \in Version
      BY DEF PgVectorAssumption, IInv, Types, upsert, Version
    <2> QED
      BY <2>1, BufferIntro DEF Doc
  <1>2. /\ docs' = [docs EXCEPT ![Writer] = Over(w, @)]
        /\ dels' = [dels EXCEPT ![Writer] = @ \ S] /\ version' = version + 1 /\ gone' = gone \ S
        /\ UNCHANGED <<row, db, lock, task, said, erasing>> /\ lock = Free /\ Writer \in Clients
    BY DEF upsert, Enter, PgVectorAssumption
  <1> HIDE DEF w
  <1>3. Types'
    <2>1. docs' \in [Clients -> Buffer]
      BY <1>1, <1>2, OverBuffer, TypesHold DEF IInv, Types
    <2>2. gone' \in SUBSET Ids /\ version' \in Version /\ dels' \in [Clients -> SUBSET Ids]
      BY <1>1, <1>2 DEF IInv, Types
    <2> QED
      BY <1>2, <2>1, <2>2 DEF IInv, Types
  <1>4. /\ DOMAIN docs'[Writer] = S \cup DOMAIN docs[Writer]
        /\ \A i \in S : docs'[Writer][i].v = 0
        /\ \A i \in DOMAIN docs[Writer] \ S : docs'[Writer][i] = docs[Writer][i]
        /\ \A c \in Clients \ {Writer} : docs'[c] = docs[c]
    <2>1. docs[Writer] \in Buffer /\ \A i \in S : w[i].v = 0
      BY <1>2, TypesHold DEF IInv, w
    <2>2. docs'[Writer] = Over(w, docs[Writer]) /\ \A c \in Clients \ {Writer} : docs'[c] = docs[c]
      BY <1>2 DEF IInv, Types
    <2>3. /\ DOMAIN Over(w, docs[Writer]) = S \cup DOMAIN docs[Writer]
          /\ \A i \in S : Over(w, docs[Writer])[i] = w[i]
          /\ \A i \in DOMAIN docs[Writer] \ S : Over(w, docs[Writer])[i] = docs[Writer][i]
      BY Zenon, <1>1, <2>1, OverBuffer
    <2> QED
      BY <2>1, <2>2, <2>3
  <1>5. dels'[Writer] = dels[Writer] \ S /\ \A c \in Clients \ {Writer} : dels'[c] = dels[c]
    BY <1>2 DEF IInv, Types
  <1>6. Buffers'
    <2>1. ASSUME NEW c \in Clients
          PROVE  /\ DOMAIN docs'[c] \cap dels'[c] = {}
                 /\ \A i \in DOMAIN docs'[c] : docs'[c][i].v \in {0, docs'[c][i].c}
      BY <1>4, <1>5 DEF IInv, Buffers
    <2> QED
      BY <1>2, <1>4, <1>5, <2>1 DEF IInv, Buffers
  <1>7. Locks' /\ Flushes'
    BY <1>2, NobodyHolds, StaysFree DEF IInv
  <1>8. Rows' /\ ErasedStayErased'
    BY <1>2, <1>4 DEF IInv, Rows, ErasedStayErased
  <1> QED
    BY <1>3, <1>6, <1>7, <1>8 DEF IInv

\* The buffers of one client are replaced.
LEMMA NewBuffers ==
    ASSUME PgVectorAssumption, IInv, NEW c \in Clients, NEW d \in Buffer, NEW x \in SUBSET Ids,
           docs' = [docs EXCEPT ![c] = d], dels' = [dels EXCEPT ![c] = x],
           DOMAIN d \cap x = {}, \A i \in DOMAIN d : d[i].v \in {0, d[i].c},
           DOMAIN d \subseteq DOMAIN docs[c], c # Writer => x = {},
           \A e \in Clients \ {Writer} : erasing'[e] = {}
    PROVE  /\ docs' \in [Clients -> Buffer] /\ dels' \in [Clients -> SUBSET Ids]
           /\ docs'[c] = d /\ dels'[c] = x
           /\ \A e \in Clients \ {c} : docs'[e] = docs[e] /\ dels'[e] = dels[e]
           /\ DOMAIN docs'[Writer] \subseteq DOMAIN docs[Writer]
           /\ Buffers'
  <1>1. /\ docs' \in [Clients -> Buffer] /\ dels' \in [Clients -> SUBSET Ids]
        /\ docs'[c] = d /\ dels'[c] = x
        /\ \A e \in Clients \ {c} : docs'[e] = docs[e] /\ dels'[e] = dels[e]
    BY DEF IInv, Types
  <1>2. Buffers'
    BY <1>1 DEF IInv, Buffers
  <1> QED
    BY <1>1, <1>2 DEF PgVectorAssumption

\* A step that clears them.
LEMMA NoBuffers ==
    ASSUME PgVectorAssumption, IInv, NEW c \in Clients,
           docs' = [docs EXCEPT ![c] = Nothing], dels' = [dels EXCEPT ![c] = {}],
           \A e \in Clients \ {Writer} : erasing'[e] = {}
    PROVE  /\ docs' \in [Clients -> Buffer] /\ dels' \in [Clients -> SUBSET Ids]
           /\ docs'[c] = Nothing /\ dels'[c] = {}
           /\ \A e \in Clients \ {c} : docs'[e] = docs[e] /\ dels'[e] = dels[e]
           /\ DOMAIN docs'[Writer] \subseteq DOMAIN docs[Writer]
           /\ Buffers'
  <1>1. PICK d \in Buffer, x \in SUBSET Ids : d = Nothing /\ x = {} /\ DOMAIN d = {}
    BY Emptied
  <1>2. /\ docs' = [docs EXCEPT ![c] = d] /\ dels' = [dels EXCEPT ![c] = x]
        /\ DOMAIN d \cap x = {} /\ DOMAIN d \subseteq DOMAIN docs[c] /\ x = {}
        /\ \A i \in DOMAIN d : d[i].v \in {0, d[i].c}
    BY <1>1
  <1> QED
    BY <1>1, <1>2, NewBuffers

\* A task takes a step, and the others do not.
LEMMA Moved ==
    ASSUME PgVectorAssumption, IInv, NEW t \in Tasks, NEW q \in Call, Go(t, q)
    PROVE  /\ task' \in [Tasks -> Call] /\ task'[t] = q
           /\ \A s \in Tasks \ {t} : task'[s] = task[s]
  BY DEF IInv, Types, Go

\* A step of a task that does not hold the lock, and changes no buffer and no row.
LEMMA Bystander ==
    ASSUME PgVectorAssumption, IInv, NEW t \in Tasks, NEW q \in Call, Go(t, q),
           task[t].at \notin Holding, q.at \notin Holding,
           UNCHANGED <<row, buffers, lock, erasing, gone, version>>,
           db' \in [Clients -> BOOLEAN], said' \in [Clients -> Saying]
    PROVE  IInv'
  <1>1. Types'
    BY Moved DEF IInv, Types, buffers
  <1>2. Buffers' /\ Rows' /\ ErasedStayErased'
    BY DEF IInv, Buffers, Rows, ErasedStayErased, buffers
  <1>3. \A s \in Tasks : task'[s].at \in Holding => s # t /\ task'[s] = task[s]
    BY Moved
  <1>4. Locks'
    <2>1. erasing[Writer] # {} => lock \in Tasks \ {t} /\ task[lock].at = "pruning"
      BY DEF IInv, Types, Locks, Holding
    <2> QED
      BY <1>3, <2>1, Moved DEF IInv, Locks
  <1>5. Flushes'
    BY <1>3 DEF IInv, Flushes, Holding, buffers
  <1> QED
    BY <1>1, <1>2, <1>4, <1>5 DEF IInv

\* The task that holds the lock gives it back.
LEMMA LetsGo ==
    ASSUME PgVectorAssumption, IInv, NEW t \in Tasks, task[t].at \in Holding,
           NEW q \in Call, Go(t, q), q.at \notin Holding, lock' = Free,
           erasing'[Writer] = {}, Types', Buffers', Rows', ErasedStayErased'
    PROVE  IInv'
  <1>1. \A s \in Tasks : task'[s].at \notin Holding
    BY Moved, OneHolds DEF IInv
  <1> QED
    BY <1>1, StaysFree DEF IInv

\* The task that holds the lock keeps it.
LEMMA GoesOn ==
    ASSUME PgVectorAssumption, IInv, NEW t \in Tasks, task[t].at \in Holding,
           NEW q \in Call, Go(t, q), q.at \in Holding, lock' = lock,
           erasing'[Writer] = {} \/ q.at = "pruning"
    PROVE  /\ Locks' /\ lock' = t /\ ClientOf[t] = Writer
           /\ \A s \in Tasks \ {t} : task'[s].at \notin Holding
           /\ task'[t] = q
  <1>1. lock = t /\ ClientOf[t] = Writer /\ t # Free
    BY OneHolds DEF IInv
  <1>2. \A s \in Tasks \ {t} : task'[s].at \notin Holding
    BY Moved, OneHolds DEF IInv
  <1> QED
    BY <1>1, <1>2, Moved DEF Locks
-----------------------------------------------------------------------------
(* The operations keep the invariant *)

\* delete forgets buffered documents and buffers the deletes.
LEMMA TheDelete ==
    ASSUME PgVectorAssumption, IInv, NEW t \in Tasks, NEW S \in SUBSET Ids, delete(t, S)
    PROVE  IInv'
  <1> DEFINE d == Without(docs[Writer], S)
  <1>1. /\ docs' = [docs EXCEPT ![Writer] = d] /\ dels' = [dels EXCEPT ![Writer] = dels[Writer] \cup S]
        /\ UNCHANGED <<row, db, lock, task, said, erasing, gone, version>>
        /\ lock = Free /\ Writer \in Clients
    BY DEF delete, Enter, PgVectorAssumption
  <1>2. /\ docs[Writer] \in Buffer /\ d \in Buffer /\ DOMAIN d = DOMAIN docs[Writer] \ S
        /\ \A i \in DOMAIN d : d[i] = docs[Writer][i]
        /\ dels[Writer] \cup S \in SUBSET Ids
    <2>1. docs[Writer] \in Buffer /\ dels[Writer] \in SUBSET Ids
      BY <1>1, TypesHold DEF IInv
    <2>2. d \in Buffer /\ DOMAIN d = DOMAIN docs[Writer] \ S
      BY <2>1, CutBuffer
    <2>3. \A i \in DOMAIN docs[Writer] \ S : d[i] = docs[Writer][i]
      BY <2>1, CutBuffer
    <2> QED
      BY <2>1, <2>2, <2>3
  <1> HIDE DEF d
  <1>3. /\ docs' \in [Clients -> Buffer] /\ dels' \in [Clients -> SUBSET Ids] /\ Buffers'
        /\ DOMAIN docs'[Writer] \subseteq DOMAIN docs[Writer]
    <2>1. DOMAIN d \cap (dels[Writer] \cup S) = {} /\ \A i \in DOMAIN d : d[i].v \in {0, d[i].c}
      BY <1>1, <1>2 DEF IInv, Buffers
    <2>2. \A e \in Clients \ {Writer} : erasing'[e] = {}
      BY <1>1 DEF IInv, Buffers
    <2> QED
      BY <1>1, <1>2, <2>1, <2>2, NewBuffers
  <1>4. Types' /\ Rows' /\ ErasedStayErased'
    BY <1>1, <1>3 DEF IInv, Types, Rows, ErasedStayErased
  <1>5. Locks' /\ Flushes'
    BY <1>1, NobodyHolds, StaysFree DEF IInv
  <1> QED
    BY <1>3, <1>4, <1>5 DEF IInv

\* drop_pending_index_ops empties both buffers.
LEMMA TheGivingUp ==
    ASSUME PgVectorAssumption, IInv, NEW t \in Tasks, drop_pending_index_ops(t)
    PROVE  IInv'
  <1>1. /\ docs' = [docs EXCEPT ![Writer] = Nothing] /\ dels' = [dels EXCEPT ![Writer] = {}]
        /\ said' = [said EXCEPT ![Writer] = "abandoned"]
        /\ UNCHANGED <<row, db, lock, task, erasing, gone, version>>
        /\ lock = Free /\ Writer \in Clients
    BY DEF drop_pending_index_ops, Enter, PgVectorAssumption
  <1>2. /\ docs' \in [Clients -> Buffer] /\ dels' \in [Clients -> SUBSET Ids] /\ Buffers'
        /\ DOMAIN docs'[Writer] \subseteq DOMAIN docs[Writer]
    <2>1. \A e \in Clients \ {Writer} : erasing'[e] = {}
      BY <1>1 DEF IInv, Buffers
    <2> QED
      BY <1>1, <2>1, NoBuffers
  <1>3. said' \in [Clients -> Saying]
    BY <1>1 DEF IInv, Types, Saying
  <1>4. Types' /\ Rows' /\ ErasedStayErased'
    BY <1>1, <1>2, <1>3 DEF IInv, Types, Rows, ErasedStayErased
  <1>5. Locks' /\ Flushes'
    BY <1>1, NobodyHolds, StaysFree DEF IInv
  <1> QED
    BY <1>2, <1>4, <1>5 DEF IInv

\* Where a task goes when it does not need the lock.
LEMMA Calls0 ==
    ASSUME PgVectorAssumption
    PROVE  /\ Idle \in Call /\ Idle.at \notin Holding
           /\ [Idle EXCEPT !.at = "releasing"] \in Call
           /\ [Idle EXCEPT !.at = "releasing"].at \notin Holding
           /\ 0 \in Version
  <1>1. 0 \in Version
    BY DEF PgVectorAssumption, Version
  <1> QED
    BY <1>1 DEF Idle, Call, Position, Holding, Why

\* A flush that fails lets the lock go, and keeps its buffers.
LEMMA TheFailure ==
    ASSUME PgVectorAssumption, IInv, NEW t \in Tasks, task[t].at \in Holding, FlushRaises(t),
           erasing[Writer] = {}, UNCHANGED <<db, erasing, gone, version>>,
           row' \in [Ids -> [c : Version, v : Version]], Rows', \A i \in gone : row'[i].c = 0
    PROVE  IInv'
  <1> DEFINE q == IF task[t].why = "finalize" THEN [Idle EXCEPT !.at = "releasing"] ELSE Idle
  <1>1. docs' = docs /\ dels' = dels /\ lock' = Free /\ Go(t, q)
    BY DEF FlushRaises, Flushed
  <1>2. said' = said
    BY DEF FlushRaises, Flushed, IInv, Types
  <1>3. q \in Call /\ q.at \notin Holding
    BY Calls0
  <1> HIDE DEF q
  <1>4. Types'
    BY <1>1, <1>2, <1>3, Moved DEF IInv, Types
  <1>5. Buffers' /\ ErasedStayErased'
    BY <1>1 DEF IInv, Buffers, ErasedStayErased
  <1> QED
    BY <1>1, <1>3, <1>4, <1>5, LetsGo

\* A flush takes the lock, unless there is nothing to write.
LEMMA TheFlush ==
    ASSUME PgVectorAssumption, IInv, NEW t \in Tasks, NEW why \in {"commit", "finalize"},
           flush(t, why)
    PROVE  IInv'
  <1> DEFINE q == IF why = "finalize" THEN [Idle EXCEPT !.at = "releasing"] ELSE Idle
             r == [Idle EXCEPT !.at = "embedding", !.why = why]
  <1>1. /\ lock = Free /\ ClientOf[t] = Writer /\ task[t] .at = "idle"
        /\ UNCHANGED <<row, buffers, db, erasing, gone, version>>
    BY DEF flush, Enter, Do
  <1>2. CASE lock' = lock /\ said' = [said EXCEPT ![Writer] = "committed"] /\ Go(t, q)
    <2>1. q \in Call /\ q.at \notin Holding
      BY Calls0
    <2> HIDE DEF q
    <2>2. said' \in [Clients -> Saying] /\ db' \in [Clients -> BOOLEAN]
      BY <1>1, <1>2 DEF IInv, Types, Saying
    <2>3. task[t].at \notin Holding
      BY <1>1 DEF Holding
    <2> QED
      BY <1>1, <1>2, <2>1, <2>2, <2>3, Bystander
  <1>3. CASE lock' = t /\ said' = said /\ Go(t, r)
    <2>1. r \in Call /\ r.at = "embedding"
      BY Calls0 DEF Idle, Call, Position, Holding, Why
    <2> HIDE DEF r
    <2>2. Types'
      BY <1>1, <1>3, <2>1, Moved DEF IInv, Types, buffers
    <2>3. Buffers' /\ Rows' /\ ErasedStayErased'
      BY <1>1 DEF IInv, Buffers, Rows, ErasedStayErased, buffers
    <2>4. erasing'[Writer] = {} /\ \A s \in Tasks \ {t} : task'[s].at \notin Holding
      BY <1>1, <1>3, <2>1, Moved, NobodyHolds DEF IInv
    <2>5. Locks' /\ Flushes'
      BY <1>1, <1>3, <2>1, <2>4, Moved DEF Locks, Flushes, Holding
    <2> QED
      BY <2>2, <2>3, <2>5 DEF IInv
  <1> QED
    BY <1>1, <1>2, <1>3 DEF flush

\* Embedding gives every pending document the vector of its own content.
LEMMA TheEmbedding ==
    ASSUME PgVectorAssumption, IInv, NEW t \in Tasks, Embed(t)
    PROVE  IInv'
  <1> DEFINE r == [task[t] EXCEPT !.at = "upserting", !.ids = DOMAIN docs[Writer]]
             d == [i \in DOMAIN docs[Writer] |->
                     [docs[Writer][i] EXCEPT !.v = IF @ = 0 THEN docs[Writer][i].c ELSE @]]
  <1>1. /\ task[t].at = "embedding" /\ UNCHANGED <<row, db, erasing, gone, version>>
        /\ lock = t /\ ClientOf[t] = Writer /\ erasing[Writer] = {} /\ Writer \in Clients
        /\ task[t] \in Call /\ docs[Writer] \in Buffer /\ dels[Writer] \in SUBSET Ids
    BY OneHolds, TypesHold DEF Embed, At, Holding, IInv, PgVectorAssumption
  <1>2. CASE /\ docs' = [docs EXCEPT ![Writer] = d] /\ Go(t, r)
             /\ UNCHANGED <<dels, said, lock>>
    <2>1. r \in Call /\ r.at = "upserting" /\ r.ids = DOMAIN docs[Writer]
      BY <1>1, BufferElim DEF Call, Position, Holding
    <2>2. /\ \A i \in DOMAIN docs[Writer] : /\ d[i] \in Doc /\ d[i].c = docs[Writer][i].c
                                           /\ d[i].v = d[i].c
          /\ DOMAIN d = DOMAIN docs[Writer]
      <3>1. ASSUME NEW i \in DOMAIN docs[Writer]
            PROVE  d[i] \in Doc /\ d[i].c = docs[Writer][i].c /\ d[i].v = d[i].c
        <4>1. docs[Writer][i] \in Doc /\ docs[Writer][i].v \in {0, docs[Writer][i].c}
          BY <1>1, BufferElim DEF IInv, Buffers
        <4> QED
          BY <4>1 DEF Doc
      <3> QED
        BY <3>1
    <2>3. d \in Buffer
      <3>1. d \in [DOMAIN docs[Writer] -> Doc] /\ DOMAIN docs[Writer] \in SUBSET Ids
        BY <1>1, <2>2, BufferElim
      <3> QED
        BY <3>1, BufferIntro
    <2> HIDE DEF d, r
    <2>4. /\ docs' \in [Clients -> Buffer] /\ Buffers' /\ docs'[Writer] = d
          /\ DOMAIN docs'[Writer] \subseteq DOMAIN docs[Writer]
      <3>1. dels' = [dels EXCEPT ![Writer] = dels[Writer]]
        BY <1>2 DEF IInv, Types
      <3>2. DOMAIN d \cap dels[Writer] = {} /\ \A e \in Clients \ {Writer} : erasing'[e] = {}
        BY <1>1, <2>2 DEF IInv, Buffers
      <3> QED
        <4>1. DOMAIN d \subseteq DOMAIN docs[Writer] /\ \A i \in DOMAIN d : d[i].v \in {0, d[i].c}
          BY <2>2
        <4>2. PICK x \in SUBSET Ids : x = dels[Writer]
          BY <1>1
        <4> QED
          BY <1>1, <1>2, <2>3, <3>1, <3>2, <4>1, <4>2, NewBuffers
    <2>5. Types'
      BY <1>1, <1>2, <2>1, <2>4, Moved DEF IInv, Types
    <2>6. Rows' /\ ErasedStayErased'
      BY <1>1, <2>4 DEF IInv, Rows, ErasedStayErased
    <2>7. /\ Locks' /\ \A s \in Tasks \ {t} : task'[s].at \notin Holding
          /\ task'[t] = r
      BY <1>1, <1>2, <2>1, GoesOn DEF Holding
    <2>8. Flushes'
      BY <2>1, <2>2, <2>4, <2>7 DEF Flushes, Holding
    <2> QED
      BY <2>4, <2>5, <2>6, <2>7, <2>8 DEF IInv
  <1>3. CASE FlushRaises(t)
    <2>1. /\ row' \in [Ids -> [c : Version, v : Version]] /\ Rows'
          /\ \A i \in gone : row'[i].c = 0
      BY <1>1 DEF IInv, Types, Rows, ErasedStayErased
    <2> QED
      BY <1>1, <1>3, <2>1, TheFailure DEF Holding
  <1> QED
    BY <1>1, <1>2, <1>3 DEF Embed

\* One batch of upserts: a transaction that is done, or not, or only its answer is lost.
LEMMA TheUpsertBatch ==
    ASSUME PgVectorAssumption, IInv, NEW t \in Tasks, UpsertBatch(t)
    PROVE  IInv'
  <1>1. /\ task[t].at = "upserting" /\ UNCHANGED <<db, erasing, gone, version>>
        /\ lock = t /\ ClientOf[t] = Writer /\ erasing[Writer] = {} /\ Writer \in Clients
        /\ task[t] \in Call /\ docs[Writer] \in Buffer
        /\ task[t].ids \subseteq DOMAIN docs[Writer]
    BY OneHolds, TypesHold DEF UpsertBatch, At, Holding, IInv, PgVectorAssumption, Flushes
  <1>2. PICK S \in SUBSET task[t].ids :
          LET put == [i \in Ids |-> IF i \in S THEN docs[ClientOf[t]][i] ELSE row[i]]
          IN  \/ /\ row' = put /\ Go(t, [task[t] EXCEPT !.ids = @ \ S])
                 /\ UNCHANGED <<buffers, said, lock, faults>>
              \/ (row' = row \/ row' = put) /\ FlushRaises(t)
    BY <1>1 DEF UpsertBatch, FaultWith
  <1> DEFINE put == [i \in Ids |-> IF i \in S THEN docs[Writer][i] ELSE row[i]]
             r == [task[t] EXCEPT !.ids = @ \ S]
  <1>3. /\ put \in [Ids -> [c : Version, v : Version]]
        /\ \A i \in Ids : put[i].v = put[i].c
        /\ \A i \in gone : put[i].c = 0
        /\ \A i \in S : put[i].c = docs[Writer][i].c
        /\ \A i \in Ids \ S : put[i] = row[i]
    <2>1. \A i \in S : /\ docs[Writer][i] \in [c : Version, v : Version]
                       /\ docs[Writer][i].v = docs[Writer][i].c
      BY <1>1, BufferElim DEF Doc, IInv, Flushes
    <2>2. \A i \in Ids : row[i] \in [c : Version, v : Version] /\ row[i].v = row[i].c
      BY DEF IInv, Types, Rows
    <2>3. S \cap gone = {} /\ gone \subseteq Ids /\ S \subseteq Ids /\
             \A i \in gone : row[i].c = 0
      BY <1>1, BufferElim DEF IInv, ErasedStayErased, Types
    <2> QED
      BY <2>1, <2>2, <2>3
  <1> HIDE DEF put
  <1>4. \/ row' = put /\ Go(t, r) /\ UNCHANGED <<buffers, said, lock>>
        \/ (row' = row \/ row' = put) /\ FlushRaises(t)
    BY <1>1, <1>2 DEF put
  <1>5. CASE row' = put /\ Go(t, r) /\ UNCHANGED <<buffers, said, lock>>
    <2>1. r \in Call /\ r.at = "upserting" /\ r.ids = task[t].ids \ S
      BY <1>1 DEF Call, Position, Holding
    <2> HIDE DEF r
    <2>2. Types' /\ Rows'
      BY <1>1, <1>3, <1>5, <2>1, Moved DEF IInv, Types, Rows, buffers
    <2>3. Buffers' /\ ErasedStayErased'
      BY <1>1, <1>3, <1>5 DEF IInv, Buffers, ErasedStayErased, buffers
    <2>4. Locks' /\ (\A s \in Tasks \ {t} : task'[s].at \notin Holding) /\ task'[t] = r
      BY <1>1, <1>5, <2>1, GoesOn DEF Holding
    <2>5. Flushes'
      <3>1. \A i \in DOMAIN docs[Writer] : docs[Writer][i].v = docs[Writer][i].c
        BY <1>1 DEF IInv, Flushes
      <3>2. ASSUME NEW i \in DOMAIN docs[Writer] \ r.ids PROVE row'[i].c = docs[Writer][i].c
        <4>1. i \in Ids
          BY <1>1, BufferElim
        <4>2. i \in S \/ i \notin task[t].ids
          BY <2>1
        <4> QED
          BY <1>1, <1>3, <1>5, <4>1, <4>2 DEF IInv, Flushes
      <3> QED
        BY <1>1, <1>5, <2>1, <2>4, <3>1, <3>2 DEF Flushes, Holding, buffers
    <2> QED
      BY <2>2, <2>3, <2>4, <2>5 DEF IInv
  <1>6. CASE (row' = row \/ row' = put) /\ FlushRaises(t)
    <2>1. /\ row' \in [Ids -> [c : Version, v : Version]] /\ Rows'
          /\ \A i \in gone : row'[i].c = 0
      BY <1>3, <1>6 DEF IInv, Types, Rows, ErasedStayErased
    <2> QED
      BY <1>1, <1>6, <2>1, TheFailure DEF Holding
  <1> QED
    BY <1>4, <1>5, <1>6

\* After the last batch of upserts every buffered document is on the server.
LEMMA TheDeletions ==
    ASSUME PgVectorAssumption, IInv, NEW t \in Tasks, UpsertsDone(t)
    PROVE  IInv'
  <1> DEFINE r == [task[t] EXCEPT !.at = "deleting", !.ids = dels[Writer]]
  <1>1. /\ task[t].at = "upserting" /\ task[t].ids = {} /\ Go(t, r)
        /\ UNCHANGED <<row, buffers, db, lock, said, erasing, gone, version>>
        /\ lock = t /\ ClientOf[t] = Writer /\ erasing[Writer] = {} /\ Writer \in Clients
        /\ task[t] \in Call /\ dels[Writer] \in SUBSET Ids
    BY OneHolds, TypesHold DEF UpsertsDone, At, Holding, IInv, PgVectorAssumption
  <1>2. r \in Call /\ r.at = "deleting" /\ r.ids = dels[Writer]
    BY <1>1 DEF Call, Position, Holding
  <1> HIDE DEF r
  <1>3. Types'
    BY <1>1, <1>2, Moved DEF IInv, Types, buffers
  <1>4. Buffers' /\ Rows' /\ ErasedStayErased'
    BY <1>1 DEF IInv, Buffers, Rows, ErasedStayErased, buffers
  <1>5. Locks' /\ (\A s \in Tasks \ {t} : task'[s].at \notin Holding) /\ task'[t] = r
    BY <1>1, <1>2, GoesOn DEF Holding
  <1>6. \A i \in DOMAIN docs[Writer] : /\ docs[Writer][i].v = docs[Writer][i].c
                                      /\ row[i].c = docs[Writer][i].c
    BY <1>1 DEF IInv, Flushes
  <1>7. Flushes'
    BY <1>1, <1>2, <1>5, <1>6 DEF Flushes, Holding, buffers
  <1> QED
    BY <1>3, <1>4, <1>5, <1>7 DEF IInv

\* A batch of deletes.
LEMMA TheDeleteBatch ==
    ASSUME PgVectorAssumption, IInv, NEW t \in Tasks, DeleteBatch(t)
    PROVE  IInv'
  <1>1. /\ task[t].at = "deleting" /\ UNCHANGED <<db, erasing, gone, version>>
        /\ lock = t /\ ClientOf[t] = Writer /\ erasing[Writer] = {} /\ Writer \in Clients
        /\ task[t] \in Call /\ dels[Writer] \in SUBSET Ids
        /\ DOMAIN docs[Writer] \in SUBSET Ids
        /\ task[t].ids \subseteq dels[Writer] /\ DOMAIN docs[Writer] \cap dels[Writer] = {}
    BY OneHolds, TypesHold
       DEF DeleteBatch, At, Holding, IInv, PgVectorAssumption, Flushes, Buffers
  <1>2. PICK S \in SUBSET task[t].ids :
          LET cut == [i \in Ids |-> IF i \in S THEN NoRow ELSE row[i]]
          IN  \/ /\ row' = cut /\ Go(t, [task[t] EXCEPT !.ids = @ \ S])
                 /\ UNCHANGED <<buffers, said, lock, faults>>
              \/ (row' = row \/ row' = cut) /\ FlushRaises(t)
    BY <1>1 DEF DeleteBatch, FaultWith
  <1> DEFINE cut == [i \in Ids |-> IF i \in S THEN NoRow ELSE row[i]]
             r == [task[t] EXCEPT !.ids = @ \ S]
  <1>3. /\ cut \in [Ids -> [c : Version, v : Version]]
        /\ \A i \in Ids : cut[i].v = cut[i].c
        /\ \A i \in gone : cut[i].c = 0
        /\ \A i \in S : cut[i].c = 0
        /\ \A i \in Ids \ S : cut[i] = row[i]
    <2>1. \A i \in Ids : row[i] \in [c : Version, v : Version] /\ row[i].v = row[i].c
      BY DEF IInv, Types, Rows
    <2>2. gone \subseteq Ids /\ S \subseteq Ids /\ \A i \in gone : row[i].c = 0
      BY <1>1 DEF IInv, ErasedStayErased, Types
    <2> QED
      BY <2>1, <2>2, Calls0 DEF NoRow
  <1> HIDE DEF cut
  <1>4. \/ row' = cut /\ Go(t, r) /\ UNCHANGED <<buffers, said, lock>>
        \/ (row' = row \/ row' = cut) /\ FlushRaises(t)
    BY <1>2 DEF cut
  <1>5. CASE row' = cut /\ Go(t, r) /\ UNCHANGED <<buffers, said, lock>>
    <2>1. r \in Call /\ r.at = "deleting" /\ r.ids = task[t].ids \ S
      BY <1>1 DEF Call, Position, Holding
    <2> HIDE DEF r
    <2>2. Types' /\ Rows'
      BY <1>1, <1>3, <1>5, <2>1, Moved DEF IInv, Types, Rows, buffers
    <2>3. Buffers' /\ ErasedStayErased'
      BY <1>1, <1>3, <1>5 DEF IInv, Buffers, ErasedStayErased, buffers
    <2>4. Locks' /\ (\A s \in Tasks \ {t} : task'[s].at \notin Holding) /\ task'[t] = r
      BY <1>1, <1>5, <2>1, GoesOn DEF Holding
    <2>5. /\ \A i \in DOMAIN docs[Writer] : /\ docs[Writer][i].v = docs[Writer][i].c
                                           /\ row'[i].c = docs[Writer][i].c
          /\ \A i \in dels[Writer] \ r.ids : row'[i].c = 0
      <3>1. ASSUME NEW i \in DOMAIN docs[Writer]
            PROVE  docs[Writer][i].v = docs[Writer][i].c /\ row'[i].c = docs[Writer][i].c
        <4>1. i \in Ids \ S
          BY <1>1
        <4> QED
          BY <1>1, <1>3, <1>5, <4>1 DEF IInv, Flushes
      <3>2. ASSUME NEW i \in dels[Writer] \ r.ids PROVE row'[i].c = 0
        <4>1. i \in Ids /\ (i \in S \/ i \notin task[t].ids)
          BY <1>1, <2>1
        <4> QED
          BY <1>1, <1>3, <1>5, <4>1 DEF IInv, Flushes
      <3> QED
        BY <3>1, <3>2
    <2>6. Flushes'
      BY <1>1, <1>5, <2>1, <2>4, <2>5 DEF Flushes, Holding, buffers
    <2> QED
      BY <2>2, <2>3, <2>4, <2>6 DEF IInv
  <1>6. CASE (row' = row \/ row' = cut) /\ FlushRaises(t)
    <2>1. /\ row' \in [Ids -> [c : Version, v : Version]] /\ Rows'
          /\ \A i \in gone : row'[i].c = 0
      BY <1>3, <1>6 DEF IInv, Types, Rows, ErasedStayErased
    <2> QED
      BY <1>1, <1>6, <2>1, TheFailure DEF Holding
  <1> QED
    BY <1>4, <1>5, <1>6

\* A flush that succeeds clears the buffers.
LEMMA TheEnd ==
    ASSUME PgVectorAssumption, IInv, NEW t \in Tasks, FlushEnds(t)
    PROVE  IInv'
  <1> DEFINE q == IF task[t].why = "finalize" THEN [Idle EXCEPT !.at = "releasing"] ELSE Idle
  <1>1. /\ task[t].at = "deleting" /\ UNCHANGED <<row, db, erasing, gone, version>>
        /\ ClientOf[t] = Writer /\ erasing[Writer] = {} /\ Writer \in Clients
        /\ docs' = [docs EXCEPT ![Writer] = Nothing] /\ dels' = [dels EXCEPT ![Writer] = {}]
        /\ said' = [said EXCEPT ![Writer] = "committed"] /\ lock' = Free /\ Go(t, q)
    BY OneHolds DEF FlushEnds, Flushed, At, Holding, IInv, PgVectorAssumption
  <1>2. q \in Call /\ q.at \notin Holding
    BY Calls0
  <1> HIDE DEF q
  <1>3. /\ docs' \in [Clients -> Buffer] /\ dels' \in [Clients -> SUBSET Ids] /\ Buffers'
        /\ DOMAIN docs'[Writer] \subseteq DOMAIN docs[Writer]
    <2>1. \A e \in Clients \ {Writer} : erasing'[e] = {}
      BY <1>1 DEF IInv, Buffers
    <2> QED
      BY <1>1, <2>1, NoBuffers
  <1>4. said' \in [Clients -> Saying]
    BY <1>1 DEF IInv, Types, Saying
  <1>5. Types' /\ Rows' /\ ErasedStayErased'
    BY <1>1, <1>2, <1>3, <1>4, Moved DEF IInv, Types, Rows, ErasedStayErased
  <1> QED
    BY <1>1, <1>2, <1>3, <1>5, LetsGo DEF Holding

\* The end of finalize gives the client back.
LEMMA TheRelease ==
    ASSUME PgVectorAssumption, IInv, NEW t \in Tasks, Release(t)
    PROVE  IInv'
  <1>1. /\ task[t].at \notin Holding /\ Go(t, Idle)
        /\ UNCHANGED <<row, buffers, lock, erasing, gone, version>>
    BY DEF Release, At, Holding
  <1>2. db' \in [Clients -> BOOLEAN] /\ said' \in [Clients -> Saying]
    BY TypesHold DEF Release, IInv, Types, Saying
  <1> QED
    BY <1>1, <1>2, Calls0, Bystander

\* delete_entity begins: with a client on the server, without one in the buffers.
LEMMA TheErasing ==
    ASSUME PgVectorAssumption, IInv, NEW t \in Tasks, NEW e \in Entities, delete_entity(t, e)
    PROVE  IInv'
  <1> DEFINE M == Matching(e)
             r == [Idle EXCEPT !.at = "erasing", !.ids = M]
  <1>1. /\ lock = Free /\ ClientOf[t] = Writer /\ task[t].at = "idle" /\ Writer \in Clients
        /\ UNCHANGED <<row, db, said, erasing, gone, version>> /\ M \in SUBSET Ids
        /\ \/ lock' = t /\ UNCHANGED buffers /\ Go(t, r)
           \/ UNCHANGED <<lock, task>> /\ Prune(Writer, M)
    BY DEF delete_entity, Enter, Do, Matching, PgVectorAssumption
  <1> HIDE DEF M
  <1>2. CASE lock' = t /\ UNCHANGED buffers /\ Go(t, r)
    <2>1. r \in Call /\ r.at = "erasing"
      BY <1>1, Calls0 DEF Idle, Call, Position, Holding, Why
    <2> HIDE DEF r
    <2>2. Types'
      BY <1>1, <1>2, <2>1, Moved DEF IInv, Types, buffers
    <2>3. Buffers' /\ Rows' /\ ErasedStayErased'
      BY <1>1, <1>2 DEF IInv, Buffers, Rows, ErasedStayErased, buffers
    <2>4. erasing'[Writer] = {} /\ \A s \in Tasks \ {t} : task'[s].at \notin Holding
      BY <1>1, <1>2, <2>1, Moved, NobodyHolds DEF IInv
    <2>5. Locks' /\ Flushes'
      BY <1>1, <1>2, <2>1, <2>4, Moved DEF Locks, Flushes, Holding
    <2> QED
      BY <2>2, <2>3, <2>5 DEF IInv
  <1>3. CASE UNCHANGED <<lock, task>> /\ Prune(Writer, M)
    <2> DEFINE d == Without(docs[Writer], M)
    <2>1. /\ docs[Writer] \in Buffer /\ dels[Writer] \in SUBSET Ids
      BY <1>1, TypesHold DEF IInv
    <2>7. PICK x \in SUBSET dels[Writer] :
             docs' = [docs EXCEPT ![Writer] = d] /\ dels' = [dels EXCEPT ![Writer] = x]
      BY <1>3 DEF Prune
    <2>2. /\ d \in Buffer /\ DOMAIN d = DOMAIN docs[Writer] \ M
          /\ \A i \in DOMAIN docs[Writer] \ M : d[i] = docs[Writer][i]
      BY <2>1, CutBuffer
    <2> HIDE DEF d
    <2>3. x \in SUBSET Ids /\ DOMAIN d \cap x = {} /\ \A i \in DOMAIN d : d[i].v \in {0, d[i].c}
      BY <1>1, <2>1, <2>2, <2>7 DEF IInv, Buffers
    <2>4. /\ docs' \in [Clients -> Buffer] /\ dels' \in [Clients -> SUBSET Ids] /\ Buffers'
          /\ DOMAIN docs'[Writer] \subseteq DOMAIN docs[Writer]
      <3>1. \A c \in Clients \ {Writer} : erasing'[c] = {}
        BY <1>1 DEF IInv, Buffers
      <3>2. docs' = [docs EXCEPT ![Writer] = d] /\ dels' = [dels EXCEPT ![Writer] = x]
        BY <2>7
      <3>3. DOMAIN d \subseteq DOMAIN docs[Writer]
        BY <2>2
      <3> QED
        BY <1>1, <2>2, <2>3, <3>1, <3>2, <3>3, NewBuffers
    <2>5. Types' /\ Rows' /\ ErasedStayErased'
      BY <1>1, <1>3, <2>4 DEF IInv, Types, Rows, ErasedStayErased
    <2>6. Locks' /\ Flushes'
      BY <1>1, <1>3, NobodyHolds, StaysFree DEF IInv
    <2> QED
      BY <2>4, <2>5, <2>6 DEF IInv
  <1> QED
    BY <1>1, <1>2, <1>3

\* The rows of an entity are deleted on the server,
LEMMA TheErasure ==
    ASSUME PgVectorAssumption, IInv, NEW t \in Tasks, EraseRows(t)
    PROVE  IInv'
  <1> DEFINE cut == [i \in Ids |-> IF i \in task[t].ids THEN NoRow ELSE row[i]]
             r == [task[t] EXCEPT !.at = "pruning"]
  <1>1. /\ task[t].at = "erasing" /\ UNCHANGED <<buffers, db, said, gone, version>>
        /\ lock = t /\ ClientOf[t] = Writer /\ erasing[Writer] = {} /\ Writer \in Clients
        /\ task[t] \in Call
    BY OneHolds, TypesHold DEF EraseRows, At, Holding, IInv, PgVectorAssumption
  <1>2. \/ /\ row' = cut /\ erasing' = [erasing EXCEPT ![Writer] = task[t].ids]
           /\ Go(t, r) /\ UNCHANGED lock
        \/ (row' = row \/ row' = cut) /\ lock' = Free /\ Go(t, Idle) /\ UNCHANGED erasing
    BY <1>1 DEF EraseRows, FaultWith
  <1>3. /\ cut \in [Ids -> [c : Version, v : Version]]
        /\ \A i \in Ids : cut[i].v = cut[i].c
        /\ \A i \in gone : cut[i].c = 0
        /\ \A i \in task[t].ids : cut[i].c = 0
    <2>1. \A i \in Ids : row[i] \in [c : Version, v : Version] /\ row[i].v = row[i].c
      BY DEF IInv, Types, Rows
    <2>2. gone \subseteq Ids /\ task[t].ids \subseteq Ids /\ \A i \in gone : row[i].c = 0
      BY <1>1 DEF IInv, ErasedStayErased, Types, Call
    <2> QED
      BY <2>1, <2>2, Calls0 DEF NoRow
  <1> HIDE DEF cut
  <1>4. CASE /\ row' = cut /\ erasing' = [erasing EXCEPT ![Writer] = task[t].ids]
             /\ Go(t, r) /\ UNCHANGED lock
    <2>1. r \in Call /\ r.at = "pruning" /\ r.ids = task[t].ids /\ task[t].ids \in SUBSET Ids
      BY <1>1 DEF Call, Position, Holding
    <2> HIDE DEF r
    <2>2. /\ erasing' \in [Clients -> SUBSET Ids] /\ erasing'[Writer] = task[t].ids
          /\ \A c \in Clients \ {Writer} : erasing'[c] = {}
      BY <1>1, <1>4, <2>1 DEF IInv, Types, Buffers
    <2>3. Types' /\ Rows'
      BY <1>1, <1>3, <1>4, <2>1, <2>2, Moved DEF IInv, Types, Rows, buffers
    <2>4. Buffers' /\ ErasedStayErased'
      BY <1>1, <1>3, <1>4, <2>2 DEF IInv, Buffers, ErasedStayErased, buffers
    <2>5. Locks' /\ (\A s \in Tasks \ {t} : task'[s].at \notin Holding) /\ task'[t] = r
      BY <1>1, <1>4, <2>1, GoesOn DEF Holding
    <2>6. Flushes'
      BY <1>1, <1>3, <1>4, <2>1, <2>2, <2>5 DEF Flushes, Holding
    <2> QED
      BY <2>3, <2>4, <2>5, <2>6 DEF IInv
  <1>5. CASE (row' = row \/ row' = cut) /\ lock' = Free /\ Go(t, Idle) /\ UNCHANGED erasing
    <2>1. Types' /\ Rows'
      BY <1>1, <1>3, <1>5, Calls0, Moved DEF IInv, Types, Rows, buffers
    <2>2. Buffers' /\ ErasedStayErased'
      BY <1>1, <1>3, <1>5 DEF IInv, Buffers, ErasedStayErased, buffers
    <2> QED
      BY <1>1, <1>5, <2>1, <2>2, Calls0, LetsGo DEF Holding
  <1> QED
    BY <1>2, <1>4, <1>5

\* then from the buffers.
LEMMA ThePruning ==
    ASSUME PgVectorAssumption, IInv, NEW t \in Tasks, PrunePending(t)
    PROVE  IInv'
  <1> DEFINE M == task[t].ids
             d == Without(docs[Writer], M)
  <1>0. /\ task[t].at = "pruning" /\ ClientOf[t] = Writer /\ Writer \in Clients
        /\ UNCHANGED <<row, db, said, version>> /\ lock' = Free /\ Go(t, Idle)
        /\ Prune(Writer, M)
        /\ gone' = gone \cup M /\ erasing' = [erasing EXCEPT ![Writer] = {}]
    BY OneHolds DEF PrunePending, At, Holding, IInv, PgVectorAssumption
  <1> PICK x \in SUBSET dels[Writer] :
           docs' = [docs EXCEPT ![Writer] = d] /\ dels' = [dels EXCEPT ![Writer] = x]
    BY <1>0 DEF Prune
  <1>1. /\ task[t].at = "pruning" /\ ClientOf[t] = Writer /\ Writer \in Clients
        /\ UNCHANGED <<row, db, said, version>> /\ lock' = Free /\ Go(t, Idle)
        /\ docs' = [docs EXCEPT ![Writer] = d] /\ dels' = [dels EXCEPT ![Writer] = x]
        /\ gone' = gone \cup M /\ erasing' = [erasing EXCEPT ![Writer] = {}]
    BY <1>0
  <1>2. docs[Writer] \in Buffer /\ dels[Writer] \in SUBSET Ids /\ M \in SUBSET Ids
    BY <1>1, TypesHold DEF IInv, Call
  <1>3. \A i \in M : row[i].c = 0
    BY <1>1 DEF IInv, Flushes
  <1> HIDE DEF M
  <1>4. /\ d \in Buffer /\ DOMAIN d = DOMAIN docs[Writer] \ M
        /\ \A i \in DOMAIN docs[Writer] \ M : d[i] = docs[Writer][i]
    BY <1>2, CutBuffer
  <1> HIDE DEF d
  <1>5. x \in SUBSET Ids /\ DOMAIN d \cap x = {} /\ \A i \in DOMAIN d : d[i].v \in {0, d[i].c}
    BY <1>1, <1>2, <1>4 DEF IInv, Buffers
  <1>6. /\ erasing' \in [Clients -> SUBSET Ids] /\ erasing'[Writer] = {}
        /\ \A c \in Clients \ {Writer} : erasing'[c] = {}
    BY <1>1 DEF IInv, Types, Buffers
  <1>7. /\ docs' \in [Clients -> Buffer] /\ dels' \in [Clients -> SUBSET Ids] /\ Buffers'
        /\ DOMAIN docs'[Writer] = DOMAIN docs[Writer] \ M
    <2>1. DOMAIN d \subseteq DOMAIN docs[Writer] /\ (Writer # Writer => x = {})
      BY <1>4
    <2>2. /\ docs' \in [Clients -> Buffer] /\ dels' \in [Clients -> SUBSET Ids] /\ Buffers'
          /\ docs'[Writer] = d
      <3>1. /\ docs' = [docs EXCEPT ![Writer] = d] /\ dels' = [dels EXCEPT ![Writer] = x]
            /\ Writer \in Clients /\ \A e \in Clients \ {Writer} : erasing'[e] = {}
        BY <1>1, <1>6
      <3> QED
        BY <1>4, <1>5, <2>1, <3>1, NewBuffers
    <2> QED
      BY <1>4, <2>2
  <1>8. Types' /\ Rows'
    <2>1. task' \in [Tasks -> Call]
      BY <1>1, Calls0, Moved DEF IInv, Types
    <2>2. lock' \in Tasks \cup {Free} /\ gone' \in SUBSET Ids
      BY <1>1, <1>2 DEF IInv, Types
    <2> QED
      BY <1>1, <1>6, <1>7, <2>1, <2>2 DEF IInv, Types, Rows
  <1>9. ErasedStayErased'
    BY <1>1, <1>3, <1>7 DEF IInv, ErasedStayErased
  <1> QED
    BY <1>1, <1>6, <1>7, <1>8, <1>9, Calls0, LetsGo DEF Holding
-----------------------------------------------------------------------------
\* A read that is answered without a row.
LEMMA AbsentAnswer ==
    ASSUME PgVectorAssumption, IInv, NEW t \in Tasks, AnswerAbsent(t)
    PROVE  \E q \in Call : /\ Go(t, q) /\ q.at = "answered" /\ q.why = "absent"
                           /\ task'[t] = q
  <1> DEFINE q == [Idle EXCEPT !.at = "answered", !.ids = task[t].ids, !.why = "absent"]
  <1>1. task[t] \in Call
    BY TypesHold DEF IInv
  <1>2. q \in Call /\ q.at = "answered" /\ q.why = "absent"
    BY <1>1, Calls0 DEF Idle, Call, Position, Holding, Why
  <1>3. Go(t, q) /\ task'[t] = q
    BY DEF AnswerAbsent, Go, IInv, Types
  <1> QED
    BY <1>2, <1>3

\* The reads change nothing but the task that reads, and a vector that is kept.
LEMMA TheReads ==
    ASSUME PgVectorAssumption, IInv, NEW t \in Tasks,
           \/ \E i \in Ids : get_by_id(t, i) \/ get_vectors_by_ids(t, i)
           \/ QueryRow(t) \/ QueryVector(t) \/ Return(t)
    PROVE  IInv'
  <1>1. /\ UNCHANGED <<row, buffers, db, lock, said, erasing, gone, version>>
        /\ task[t].at \notin Holding /\ ClientOf[t] \in Clients /\ task[t] \in Call
    BY TypesHold DEF get_by_id, get_vectors_by_ids, QueryRow, QueryVector, Return, Enter, Do, At,
       Holding, IInv
  <1>2. \E q \in Call : Go(t, q) /\ q.at \notin Holding
    <2>1. ASSUME NEW i \in Ids, NEW l \in {"answered", "reading", "caching", "vector"},
                 NEW v \in Version, NEW w \in Version
          PROVE  /\ [Idle EXCEPT !.at = l, !.got = v, !.ids = {i}] \in Call
                 /\ [Idle EXCEPT !.at = l, !.ids = {i}, !.got = v] \in Call
                 /\ [Idle EXCEPT !.at = l, !.ids = {i}, !.want = v] \in Call
                 /\ [Idle EXCEPT !.at = l, !.ids = {i}] \in Call
      BY Calls0 DEF Idle, Call, Position, Holding, Why
    <2>2. CASE \E i \in Ids : get_by_id(t, i)
      <3>1. PICK i \in Ids : get_by_id(t, i)
        BY <2>2
      <3>2. View(ClientOf[t], i) \in Version
        BY <1>1, Calls0, TypesHold DEF View, IInv
      <3>3. \/ Go(t, [Idle EXCEPT !.at = "answered", !.got = View(ClientOf[t], i), !.ids = {i}])
            \/ Go(t, [Idle EXCEPT !.at = "reading", !.ids = {i}])
        BY <3>1 DEF get_by_id
      <3>4. /\ [Idle EXCEPT !.at = "answered", !.got = View(ClientOf[t], i),
                  !.ids = {i}].at = "answered"
            /\ [Idle EXCEPT !.at = "reading", !.ids = {i}].at = "reading"
        BY DEF Idle
      <3> QED
        BY <2>1, <3>2, <3>3, <3>4 DEF Holding
    <2>3. CASE \E i \in Ids : get_vectors_by_ids(t, i)
      <3>1. PICK i \in Ids : get_vectors_by_ids(t, i)
        BY <2>3
      <3> DEFINE c == ClientOf[t]
                 v == docs[c][i].v
                 w == docs[c][i].c
      <3>2. i \in DOMAIN docs[c] => v \in Version /\ w \in Version
        BY <1>1, TypesHold DEF IInv
      <3>3. \/ Go(t, [Idle EXCEPT !.at = "answered", !.ids = {i}])
            \/ i \in DOMAIN docs[c] /\ Go(t, [Idle EXCEPT !.at = "caching", !.ids = {i},
                  !.want = w])
            \/ i \in DOMAIN docs[c] /\ Go(t, [Idle EXCEPT !.at = "answered", !.ids = {i},
                  !.got = v])
            \/ Go(t, [Idle EXCEPT !.at = "vector", !.ids = {i}])
        BY <3>1 DEF get_vectors_by_ids
      <3> HIDE DEF v, w
      <3>4. /\ [Idle EXCEPT !.at = "caching", !.ids = {i}, !.want = w].at = "caching"
            /\ [Idle EXCEPT !.at = "answered", !.ids = {i}, !.got = v].at = "answered"
            /\ [Idle EXCEPT !.at = "vector", !.ids = {i}].at = "vector"
            /\ [Idle EXCEPT !.at = "answered", !.ids = {i}].at = "answered"
        BY DEF Idle
      <3> QED
        BY <2>1, <3>2, <3>3, <3>4, Calls0 DEF Holding
    <2>4. CASE QueryRow(t) \/ QueryVector(t)
      <3>1. AnswerAbsent(t) \/ \E v \in Version : Answer(t, v)
        <4>1. \A i \in task[t].ids : i \in Ids /\ row[i].c \in Version /\ row[i].v \in Version
          BY <1>1, TypesHold DEF Call, IInv
        <4> QED
          BY <2>4, <4>1 DEF QueryRow, QueryVector
      <3>2. ASSUME NEW v \in Version, Answer(t, v)
            PROVE  \E q \in Call : Go(t, q) /\ q.at \notin Holding
        <4> DEFINE q == [Idle EXCEPT !.at = "answered", !.want = task[t].want, !.got = v,
                                     !.ids = task[t].ids]
        <4>1. q \in Call /\ q.at = "answered" /\ Go(t, q)
          BY <1>1, <3>2, Calls0 DEF Answer, Idle, Call, Position, Holding, Why
        <4> QED
          BY <4>1 DEF Holding
      <3> QED
        BY <3>1, <3>2, AbsentAnswer DEF Holding
    <2>5. CASE Return(t)
      BY <2>5, Calls0 DEF Return
    <2> QED
      BY <2>2, <2>3, <2>4, <2>5
  <1>3. db' \in [Clients -> BOOLEAN] /\ said' \in [Clients -> Saying]
    BY <1>1 DEF IInv, Types
  <1> QED
    BY <1>1, <1>2, <1>3, Bystander

\* get_vectors_by_ids keeps the vector that it computed when the document is the same.
LEMMA TheCaching ==
    ASSUME PgVectorAssumption, IInv, NEW t \in Tasks, CacheVector(t)
    PROVE  IInv'
  <1>1. /\ UNCHANGED <<row, dels, db, lock, said, erasing, gone, version>>
        /\ task[t].at \notin Holding /\ ClientOf[t] \in Clients /\ task[t] \in Call
        /\ docs[ClientOf[t]] \in Buffer
    BY TypesHold DEF CacheVector, At, Holding, IInv
  <1>2. db' \in [Clients -> BOOLEAN] /\ said' \in [Clients -> Saying]
    BY <1>1 DEF IInv, Types
  <1>3. CASE (Go(t, Idle) \/ AnswerAbsent(t)) /\ UNCHANGED docs
    <2>1. \E q \in Call : Go(t, q) /\ q.at \notin Holding
      BY <1>3, Calls0, AbsentAnswer DEF Holding
    <2> QED
      BY <1>1, <1>2, <1>3, <2>1, Bystander DEF buffers
  <1>4. CASE lock = Free /\ \E i \in task[t].ids :
               /\ i \in DOMAIN docs[ClientOf[t]] /\ docs[ClientOf[t]][i].c = task[t].want
               /\ docs' = [docs EXCEPT ![ClientOf[t]][i].v = task[t].want]
               /\ Answer(t, task[t].want)
    <2>1. PICK i \in task[t].ids :
               /\ i \in DOMAIN docs[ClientOf[t]] /\ docs[ClientOf[t]][i].c = task[t].want
               /\ docs' = [docs EXCEPT ![ClientOf[t]][i].v = task[t].want]
               /\ Answer(t, task[t].want)
      BY <1>4
    <2> DEFINE c == ClientOf[t]
               d == [docs[c] EXCEPT ![i] = [docs[c][i] EXCEPT !.v = task[t].want]]
               q == [Idle EXCEPT !.at = "answered", !.want = task[t].want, !.got = task[t].want,
                                 !.ids = task[t].ids]
    <2>2. q \in Call /\ q.at = "answered" /\ Go(t, q) /\ q.at \notin Holding
      BY <1>1, <2>1, Calls0 DEF Answer, Idle, Call, Position, Holding, Why
    <2>3. /\ d \in Buffer /\ DOMAIN d = DOMAIN docs[c]
          /\ \A j \in DOMAIN d : d[j].v \in {0, d[j].c}
      <3>1. /\ docs[c] \in [DOMAIN docs[c] -> Doc] /\ DOMAIN docs[c] \in SUBSET Ids
            /\ docs[c][i] \in Doc /\ task[t].want \in Version
            /\ \A j \in DOMAIN docs[c] : docs[c][j].v \in {0, docs[c][j].c}
        BY <1>1, <2>1, BufferElim DEF Call, IInv, Buffers
      <3>2. /\ [docs[c][i] EXCEPT !.v = task[t].want] \in Doc
            /\ [docs[c][i] EXCEPT !.v = task[t].want].v = task[t].want
            /\ [docs[c][i] EXCEPT !.v = task[t].want].c = docs[c][i].c
        BY <3>1 DEF Doc
      <3>3. d \in [DOMAIN docs[c] -> Doc]
        BY <3>1, <3>2
      <3> QED
        BY <2>1, <3>1, <3>2, <3>3, BufferIntro
    <2>4. docs' = [docs EXCEPT ![c] = d]
      BY <2>1
    <2> HIDE DEF d, q
    <2>5. /\ docs' \in [Clients -> Buffer] /\ Buffers' /\ docs'[c] = d
          /\ DOMAIN docs'[Writer] \subseteq DOMAIN docs[Writer]
      <3>1. dels' = [dels EXCEPT ![c] = dels[c]] /\ dels[c] \in SUBSET Ids
        BY <1>1, TypesHold DEF IInv, Types
      <3>2. /\ DOMAIN d \cap dels[c] = {} /\ \A e \in Clients \ {Writer} : erasing'[e] = {}
            /\ c # Writer => dels[c] = {}
        BY <1>1, <2>3 DEF IInv, Buffers
      <3>3. PICK x \in SUBSET Ids : x = dels[c]
        BY <3>1
      <3>4. DOMAIN d \subseteq DOMAIN docs[c]
        BY <2>3
      <3> QED
        BY <1>1, <2>3, <2>4, <3>1, <3>2, <3>3, <3>4, NewBuffers
    <2>6. Types' /\ Rows' /\ ErasedStayErased'
      BY <1>1, <2>2, <2>5, Moved DEF IInv, Types, Rows, ErasedStayErased
    <2>7. erasing'[Writer] = {} /\ \A s \in Tasks : task'[s].at \notin Holding
      BY <1>1, <1>4, <2>2, Moved, NobodyHolds DEF IInv
    <2> QED
      BY <2>5, <2>6, <2>7, StaysFree DEF IInv
  <1> QED
    BY <1>3, <1>4 DEF CacheVector
-----------------------------------------------------------------------------
(* Drops, initialization and crashes *)

\* drop empties the buffers first,
LEMMA TheDrop ==
    ASSUME PgVectorAssumption, IInv, NEW t \in Tasks, drop(t)
    PROVE  IInv'
  <1> DEFINE r == [Idle EXCEPT !.at = "dropping"]
  <1>1. /\ lock = Free /\ lock' = t /\ ClientOf[t] = Writer /\ Writer \in Clients /\ Go(t, r)
        /\ docs' = [docs EXCEPT ![Writer] = Nothing] /\ dels' = [dels EXCEPT ![Writer] = {}]
        /\ said' = [said EXCEPT ![Writer] = "abandoned"]
        /\ UNCHANGED <<row, db, erasing, gone, version>>
    BY DEF drop, Enter, PgVectorAssumption
  <1>2. r \in Call /\ r.at = "dropping"
    BY Calls0 DEF Idle, Call, Position, Holding, Why
  <1> HIDE DEF r
  <1>3. /\ docs' \in [Clients -> Buffer] /\ dels' \in [Clients -> SUBSET Ids] /\ Buffers'
        /\ DOMAIN docs'[Writer] \subseteq DOMAIN docs[Writer]
        /\ DOMAIN docs'[Writer] = {} /\ dels'[Writer] = {}
    <2>1. \A e \in Clients \ {Writer} : erasing'[e] = {}
      BY <1>1 DEF IInv, Buffers
    <2> QED
      BY <1>1, <2>1, NoBuffers, Emptied
  <1>4. said' \in [Clients -> Saying]
    BY <1>1 DEF IInv, Types, Saying
  <1>5. Types' /\ Rows' /\ ErasedStayErased'
    BY <1>1, <1>2, <1>3, <1>4, Moved DEF IInv, Types, Rows, ErasedStayErased
  <1>6. erasing'[Writer] = {} /\ \A s \in Tasks \ {t} : task'[s].at \notin Holding
    BY <1>1, <1>2, Moved, NobodyHolds DEF IInv
  <1>7. Locks' /\ Flushes'
    BY <1>1, <1>2, <1>3, <1>6, Moved DEF Locks, Flushes, Holding
  <1> QED
    BY <1>3, <1>5, <1>7 DEF IInv

\* then the table.
LEMMA TheWipe ==
    ASSUME PgVectorAssumption, IInv, NEW t \in Tasks, DropRows(t)
    PROVE  IInv'
  <1> DEFINE none == [i \in Ids |-> NoRow]
  <1>1. /\ task[t].at = "dropping" /\ lock' = Free /\ Go(t, Idle)
        /\ UNCHANGED <<buffers, db, said, erasing, gone, version>>
        /\ erasing[Writer] = {}
    BY OneHolds DEF DropRows, At, Holding, IInv
  <1>2. row' = row \/ row' = none
    BY DEF DropRows, FaultWith
  <1>3. /\ row' \in [Ids -> [c : Version, v : Version]] /\ Rows' /\ \A i \in gone : row'[i].c = 0
    BY <1>2, Calls0 DEF NoRow, IInv, Types, Rows, ErasedStayErased
  <1> HIDE DEF none
  <1>4. Types'
    BY <1>1, <1>3, Calls0, Moved DEF IInv, Types, buffers
  <1>5. Buffers' /\ ErasedStayErased'
    BY <1>1, <1>3 DEF IInv, Buffers, ErasedStayErased, buffers
  <1> QED
    BY <1>1, <1>3, <1>4, <1>5, Calls0, LetsGo DEF Holding

\* initialize opens a client again.
LEMMA TheOpening ==
    ASSUME PgVectorAssumption, IInv, NEW c \in Clients, initialize(c)
    PROVE  IInv'
  <1>1. /\ UNCHANGED <<row, buffers, lock, task, said, erasing, gone, version>>
        /\ db' \in [Clients -> BOOLEAN]
    BY DEF initialize, IInv, Types
  <1> QED
    BY <1>1 DEF IInv, Types, Buffers, Locks, Flushes, Rows, ErasedStayErased, buffers

\* A worker that dies loses its buffers and its lock.
LEMMA TheCrash ==
    ASSUME PgVectorAssumption, IInv, NEW c \in Clients, Crash(c)
    PROVE  IInv'
  <1>1. /\ docs' = [docs EXCEPT ![c] = Nothing] /\ dels' = [dels EXCEPT ![c] = {}]
        /\ said' = [said EXCEPT ![c] = "abandoned"] /\ erasing' = [erasing EXCEPT ![c] = {}]
        /\ task' = [t \in Tasks |-> IF ClientOf[t] = c THEN Idle ELSE task[t]]
        /\ lock' = IF lock # Free /\ ClientOf[lock] = c THEN Free ELSE lock
        /\ db' = [db EXCEPT ![c] = TRUE] /\ UNCHANGED <<row, gone, version>>
    BY DEF Crash
  <1>2. /\ erasing' \in [Clients -> SUBSET Ids] /\ erasing'[c] = {}
        /\ \A e \in Clients \ {c} : erasing'[e] = erasing[e]
        /\ \A e \in Clients \ {Writer} : erasing'[e] = {}
    BY <1>1 DEF IInv, Types, Buffers
  <1>3. /\ docs' \in [Clients -> Buffer] /\ dels' \in [Clients -> SUBSET Ids] /\ Buffers'
        /\ DOMAIN docs'[Writer] \subseteq DOMAIN docs[Writer]
        /\ \A e \in Clients \ {c} : docs'[e] = docs[e] /\ dels'[e] = dels[e]
    BY <1>1, <1>2, NoBuffers
  <1>4. /\ task' \in [Tasks -> Call]
        /\ \A t \in Tasks : task'[t] = IF ClientOf[t] = c THEN Idle ELSE task[t]
    BY <1>1, Calls0 DEF IInv, Types
  <1>5. said' \in [Clients -> Saying] /\ db' \in [Clients -> BOOLEAN] /\
           lock' \in Tasks \cup {Free}
    BY <1>1 DEF IInv, Types, Saying
  <1>6. Types' /\ Rows' /\ ErasedStayErased'
    BY <1>1, <1>2, <1>3, <1>4, <1>5 DEF IInv, Types, Rows, ErasedStayErased
  <1>7. CASE c = Writer
    <2>1. erasing'[Writer] = {} /\ \A s \in Tasks : task'[s].at \notin Holding
      BY <1>2, <1>4, <1>7, Calls0 DEF IInv, Locks, PgVectorAssumption
    <2> QED
      BY <1>3, <1>6, <2>1, StaysFree DEF IInv
  <1>8. CASE c # Writer
    <2>1. \A s \in Tasks : task'[s].at \in Holding => task'[s] = task[s]
      BY <1>4, Calls0
    <2>2. /\ docs'[Writer] = docs[Writer] /\ dels'[Writer] = dels[Writer]
          /\ erasing'[Writer] = erasing[Writer]
      BY <1>2, <1>3, <1>8 DEF PgVectorAssumption
    <2>3. \A s \in Tasks : task[s].at \in Holding => lock' = lock /\ task'[s] = task[s]
      BY <1>1, <1>4, <1>8 DEF IInv, Locks
    <2>4. erasing[Writer] # {} => lock \in Tasks /\ task[lock].at = "pruning"
      BY DEF IInv, Locks, Types
    <2>5. Locks'
      BY <2>1, <2>2, <2>3, <2>4 DEF IInv, Locks, Holding
    <2>6. Flushes'
      BY <1>1, <2>1, <2>2 DEF IInv, Flushes, Holding
    <2> QED
      BY <1>3, <1>6, <2>5, <2>6 DEF IInv
  <1> QED
    BY <1>7, <1>8
-----------------------------------------------------------------------------
(* The invariant of the specification *)

\* The invariant holds where the storage begins,
LEMMA Beginning ==
    ASSUME PgVectorAssumption, Init
    PROVE  IInv
  <1>1. Nothing \in Buffer /\ DOMAIN Nothing = {}
    BY Emptied
  <1>2. NoRow \in [c : Version, v : Version] /\ NoRow.c = 0 /\ NoRow.v = 0
    BY Calls0 DEF NoRow
  <1>3. Types
    BY <1>1, <1>2, Calls0 DEF Init, Types, Saying
  <1>4. \A t \in Tasks : task[t].at = "idle"
    BY DEF Init, Idle
  <1>5. Buffers /\ Rows /\ ErasedStayErased
    BY <1>1, <1>2 DEF Init, Buffers, Rows, ErasedStayErased
  <1>6. Locks /\ Flushes
    BY <1>4 DEF Init, Locks, Flushes, Holding, PgVectorAssumption
  <1> QED
    BY <1>3, <1>5, <1>6 DEF IInv

\* every step of every operation keeps it,
LEMMA StepKeeps ==
    ASSUME PgVectorAssumption, IInv, Next
    PROVE  IInv'
  <1>1. ASSUME NEW t \in Tasks, Begin(t) PROVE IInv'
    BY <1>1, TheUpsert, TheDelete, TheGivingUp, TheFlush, TheErasing, TheReads, TheDrop DEF Begin
  <1>2. ASSUME NEW t \in Tasks, Continue(t) PROVE IInv'
    BY <1>2, TheEmbedding, TheUpsertBatch, TheDeletions, TheDeleteBatch, TheEnd, TheRelease,
       TheErasure, ThePruning, TheReads, TheCaching, TheWipe DEF Continue
  <1>3. ASSUME NEW c \in Clients, initialize(c) \/ Crash(c) PROVE IInv'
    BY <1>3, TheOpening, TheCrash
  <1> QED
    BY <1>1, <1>2, <1>3 DEF Next

\* and so does a step of something else.
LEMMA StutterKeeps ==
    ASSUME IInv, UNCHANGED vars
    PROVE  IInv'
  BY DEF IInv, Types, Buffers, Locks, Flushes, Rows, ErasedStayErased, vars

\* Where a task reads, and what it may be told so far.
Reading == {"reading", "vector", "caching", "answered"}
Reads ==
    \A t \in Tasks :
        /\ task[t].at \in {"reading", "vector"} => \A i \in task[t].ids : row[i].c \in seen[t]
        /\ task[t].at = "caching" => task[t].want \in seen[t]
        /\ task[t].at = "answered" /\ task[t].why # "absent" => task[t].got \in seen[t]

\* What the invariants say of a state.
LEMMA Follows ==
    ASSUME PgVectorAssumption, IInv
    PROVE  /\ TypeOK /\ VectorsMatch /\ ErasedStayErased
           /\ Reads => ReadsAreCurrent
  <1>1. TypeOK
    BY TypesHold DEF TypeOK, IInv, Types, Buffers, Version
  <1>2. VectorsMatch /\ ErasedStayErased
    BY DEF IInv, VectorsMatch, Rows, Buffers
  <1>3. Reads => ReadsAreCurrent
    BY DEF Reads, ReadsAreCurrent, At
  <1> QED
    BY <1>1, <1>2, <1>3

\* The invariant of PGVectorStorage: buffers, lock, flushes and rows fit together.
THEOREM InvariantHolds == ASSUME PgVectorAssumption PROVE Spec => []IInv
  <1>1. IInv /\ [Next]_vars => IInv'
    BY StepKeeps, StutterKeeps
  <1>2. Init => IInv
    BY Beginning
  <1> QED
    BY <1>1, <1>2, PTL DEF Spec

\* The variables have their types, and a row is never pending as an upsert and as a
\* delete (PGVectorStorage.upsert and delete take each other back).
THEOREM TypeCorrect == ASSUME PgVectorAssumption PROVE Spec => []TypeOK
  <1>1. IInv => TypeOK
    BY Follows
  <1> QED
    BY <1>1, InvariantHolds, PTL

\* A row and a pending document never have the embedding of another content, although
\* get_vectors_by_ids embeds without the lock and a flush writes in several batches.
THEOREM VectorsAlwaysMatch == ASSUME PgVectorAssumption PROVE Spec => []VectorsMatch
  <1>1. IInv => VectorsMatch
    BY Follows
  <1> QED
    BY <1>1, InvariantHolds, PTL

\* The rows that delete_entity erased, pending ones too, stay erased until they are
\* upserted again: _prune_pending leaves nothing that a later flush could write.
THEOREM ErasuresLast == ASSUME PgVectorAssumption PROVE Spec => []ErasedStayErased
  <1>1. IInv => ErasedStayErased
    BY DEF IInv
  <1> QED
    BY <1>1, InvariantHolds, PTL
-----------------------------------------------------------------------------
(* Reads *)

\* A client sees the rows that change on the server change: a row that is put there or
\* deleted was in the buffers before.
LEMMA RowsAreSeen ==
    ASSUME PgVectorAssumption, "lost" \notin Kinds, IInv, IInv', Next,
           NEW c \in Clients, NEW i \in Ids
    PROVE  row'[i].c = row[i].c \/ View(c, i)' = row'[i].c
  <1>1. CASE c # Writer
    BY <1>1 DEF View, IInv, Buffers
  <1>2. CASE c = Writer
    <2>1. ASSUME NEW t \in Tasks, UpsertBatch(t)
          PROVE row'[i].c = row[i].c \/ View(c, i)' = row'[i].c
      <3>1. /\ ClientOf[t] = Writer /\ UNCHANGED erasing /\ erasing[Writer] = {}
            /\ task[t].ids \subseteq DOMAIN docs[Writer]
            /\ DOMAIN docs[Writer] \cap dels[Writer] = {}
        BY <1>2, <2>1, OneHolds DEF UpsertBatch, At, Holding, IInv, Flushes, Buffers
      <3>2. \/ row' = row
            \/ UNCHANGED buffers /\ \E S \in SUBSET task[t].ids :
                  row' = [j \in Ids |-> IF j \in S THEN docs[ClientOf[t]][j] ELSE row[j]]
        BY <2>1 DEF UpsertBatch, FaultWith
      <3> QED
        BY <1>2, <3>1, <3>2 DEF View, buffers
    <2>2. ASSUME NEW t \in Tasks, DeleteBatch(t)
          PROVE row'[i].c = row[i].c \/ View(c, i)' = row'[i].c
      <3>1. task[t].ids \subseteq dels[Writer]
        BY <1>2, <2>2, OneHolds DEF DeleteBatch, At, Holding, IInv, Flushes
      <3>2. \/ row' = row
            \/ UNCHANGED buffers /\ \E S \in SUBSET task[t].ids :
                  row' = [j \in Ids |-> IF j \in S THEN NoRow ELSE row[j]]
        BY <2>2 DEF DeleteBatch, FaultWith
      <3> QED
        BY <1>2, <3>1, <3>2 DEF View, buffers, NoRow
    <2>3. ASSUME NEW t \in Tasks, EraseRows(t)
          PROVE row'[i].c = row[i].c \/ View(c, i)' = row'[i].c
      <3>1. ClientOf[t] = Writer
        BY <1>2, <2>3, OneHolds DEF EraseRows, At, Holding, IInv
      <3>2. \/ row' = row
            \/ /\ row' = [j \in Ids |-> IF j \in task[t].ids THEN NoRow ELSE row[j]]
               /\ erasing' = [erasing EXCEPT ![Writer] = task[t].ids]
        BY <2>3, <3>1 DEF EraseRows, FaultWith
      <3> QED
        BY <1>2, <3>2 DEF View, NoRow, IInv, Types
    <2>4. ASSUME NEW t \in Tasks, DropRows(t)
          PROVE row'[i].c = row[i].c \/ View(c, i)' = row'[i].c
      <3>1. /\ DOMAIN docs[Writer] = {} /\ dels[Writer] = {} /\ erasing[Writer] = {}
            /\ UNCHANGED <<buffers, erasing>>
        BY <2>4, OneHolds DEF DropRows, At, Holding, IInv, Flushes
      <3> QED
        BY <1>2, <3>1 DEF View, buffers
    <2>5. \/ row' = row
          \/ \E t \in Tasks : UpsertBatch(t) \/ DeleteBatch(t) \/ EraseRows(t) \/ DropRows(t)
      <3>1. ASSUME NEW t \in Tasks, Begin(t) PROVE row' = row
        BY <3>1 DEF Begin, drop_pending_index_ops, flush, drop, delete_entity, get_by_id,
           get_vectors_by_ids, upsert, delete
      <3>2. ASSUME NEW t \in Tasks, Continue(t)
            PROVE  \/ row' = row
                   \/ UpsertBatch(t) \/ DeleteBatch(t) \/ EraseRows(t) \/ DropRows(t)
        BY <3>2 DEF Continue, Embed, UpsertsDone, FlushEnds, Release, PrunePending, QueryRow,
           CacheVector, QueryVector, Return
      <3>3. ASSUME NEW e \in Clients, initialize(e) \/ Crash(e) PROVE row' = row
        BY <3>3 DEF initialize, Crash
      <3> QED
        BY <3>1, <3>2, <3>3 DEF Next
    <2> QED
      BY <2>1, <2>2, <2>3, <2>4, <2>5
  <1> QED
    BY <1>1, <1>2

\* A task that reads is where it was, or began to read, or got an answer.
LEMMA ReadingSteps ==
    ASSUME PgVectorAssumption, IInv, Next, NEW t \in Tasks, task'[t].at \in Reading
    PROVE  \/ task'[t] = task[t]
           \/ \E i \in Ids : get_by_id(t, i) \/ get_vectors_by_ids(t, i)
           \/ QueryRow(t) \/ QueryVector(t) \/ CacheVector(t)
  <1>1. ASSUME NEW s \in Tasks, NEW q, Go(s, q), q.at \notin Reading
        PROVE  s # t /\ task'[t] = task[t]
    BY <1>1 DEF Go, IInv, Types
  <1>2. ASSUME NEW s \in Tasks, NEW q, Go(s, q), s # t
        PROVE  task'[t] = task[t]
    BY <1>2 DEF Go, IInv, Types
  <1>3. Idle.at \notin Reading /\ [Idle EXCEPT !.at = "releasing"].at \notin Reading
    BY DEF Idle, Reading
  <1>4. ASSUME NEW s \in Tasks, FlushRaises(s) \/ FlushEnds(s)
        PROVE  task'[t] = task[t]
    BY <1>1, <1>3, <1>4 DEF FlushRaises, FlushEnds, Flushed
  <1>5. ASSUME NEW s \in Tasks, Begin(s)
        PROVE  task'[t] = task[t] \/ \E i \in Ids : get_by_id(t, i) \/ get_vectors_by_ids(t, i)
    <2>1. CASE \E S \in SUBSET Ids : upsert(s, S) \/ delete(s, S)
      BY <2>1 DEF upsert, delete
    <2>2. CASE drop_pending_index_ops(s)
      BY <2>2 DEF drop_pending_index_ops
    <2>3. CASE \E why \in {"commit", "finalize"} : flush(s, why)
      <3>1. PICK why \in {"commit", "finalize"} : flush(s, why)
        BY <2>3
      <3>2. [Idle EXCEPT !.at = "embedding", !.why = why].at \notin Reading
        BY DEF Idle, Reading
      <3>3. \/ Go(s, Idle) \/ Go(s, [Idle EXCEPT !.at = "releasing"])
            \/ Go(s, [Idle EXCEPT !.at = "embedding", !.why = why])
        BY <3>1 DEF flush
      <3> QED
        BY <1>1, <1>3, <3>2, <3>3
    <2>4. CASE drop(s)
      <3>1. [Idle EXCEPT !.at = "dropping"].at \notin Reading
        BY DEF Idle, Reading
      <3> QED
        BY <1>1, <2>4, <3>1 DEF drop
    <2>5. CASE \E e \in Entities : delete_entity(s, e)
      <3>1. PICK e \in Entities : delete_entity(s, e)
        BY <2>5
      <3>2. [Idle EXCEPT !.at = "erasing", !.ids = Matching(e)].at \notin Reading
        BY DEF Idle, Reading
      <3>3. Go(s, [Idle EXCEPT !.at = "erasing", !.ids = Matching(e)]) \/ task' = task
        BY <3>1 DEF delete_entity
      <3> QED
        BY <1>1, <3>2, <3>3
    <2>6. CASE \E i \in Ids : get_by_id(s, i) \/ get_vectors_by_ids(s, i)
      <3>1. \E q : Go(s, q)
        BY <2>6 DEF get_by_id, get_vectors_by_ids
      <3> QED
        BY <1>2, <2>6, <3>1
    <2> QED
      BY <1>5, <2>1, <2>2, <2>3, <2>4, <2>5, <2>6 DEF Begin
  <1>6. ASSUME NEW s \in Tasks, Continue(s)
        PROVE  task'[t] = task[t] \/ QueryRow(t) \/ QueryVector(t) \/ CacheVector(t)
    <2>1. task[s] \in Call
      BY TypesHold DEF IInv
    <2>2. CASE Embed(s)
      <3>1. [task[s] EXCEPT !.at = "upserting", !.ids = DOMAIN docs[ClientOf[s]]].at \notin Reading
        BY <2>1 DEF Call, Reading
      <3> QED
        BY <1>1, <1>4, <2>2, <3>1 DEF Embed
    <2>3. CASE UpsertBatch(s) \/ DeleteBatch(s)
      <3>1. ASSUME NEW S PROVE [task[s] EXCEPT !.ids = @ \ S].at = task[s].at
        BY <2>1 DEF Call
      <3>2. /\ task[s].at \notin Reading
            /\ FlushRaises(s) \/ \E S : Go(s, [task[s] EXCEPT !.ids = @ \ S])
        BY <2>3 DEF UpsertBatch, DeleteBatch, At, Reading
      <3> QED
        BY <1>1, <1>4, <3>1, <3>2
    <2>4. CASE UpsertsDone(s)
      <3>1. [task[s] EXCEPT !.at = "deleting", !.ids = dels[ClientOf[s]]].at \notin Reading
        BY <2>1 DEF Call, Reading
      <3> QED
        BY <1>1, <2>4, <3>1 DEF UpsertsDone
    <2>5. CASE FlushEnds(s) \/ Release(s) \/ PrunePending(s) \/ DropRows(s) \/ Return(s)
      BY <1>1, <1>3, <1>4, <2>5 DEF Release, PrunePending, DropRows, Return
    <2>6. CASE EraseRows(s)
      <3>1. [task[s] EXCEPT !.at = "pruning"].at \notin Reading
        BY <2>1 DEF Call, Reading
      <3> QED
        BY <1>1, <1>3, <2>6, <3>1 DEF EraseRows
    <2>7. CASE QueryRow(s) \/ QueryVector(s) \/ CacheVector(s)
      <3>1. \E q : Go(s, q)
        BY <2>7 DEF QueryRow, QueryVector, CacheVector, Answer, AnswerAbsent
      <3> QED
        BY <1>2, <2>7, <3>1
    <2> QED
      BY <1>6, <2>2, <2>3, <2>4, <2>5, <2>6, <2>7 DEF Continue
  <1>7. ASSUME NEW c \in Clients, initialize(c) \/ Crash(c)
        PROVE  task'[t] = task[t]
    BY <1>3, <1>7 DEF initialize, Crash
  <1> QED
    BY <1>5, <1>6, <1>7 DEF Next

\* Every step keeps what a task that reads may be told among what was true meanwhile.
LEMMA ReadsStep ==
    ASSUME PgVectorAssumption, "lost" \notin Kinds, IInv, IInv', Reads, Next
    PROVE  Reads'
  <1> SUFFICES ASSUME NEW t \in Tasks, task'[t].at \in Reading
               PROVE  /\ task'[t].at \in {"reading", "vector"} =>
                            \A i \in task'[t].ids : row'[i].c \in seen'[t]
                      /\ task'[t].at = "caching" => task'[t].want \in seen'[t]
                      /\ task'[t].at = "answered" /\ task'[t].why # "absent" =>
                            task'[t].got \in seen'[t]
    BY DEF Reads, Reading
  <1> DEFINE c == ClientOf[t]
  <1>1. seen'[t] = seen[t] \cup {View(c, i)' : i \in task'[t].ids}
    BY DEF Next, Observe, Reading
  <1>2. /\ c \in Clients /\ task[t] \in Call /\ task'[t] \in Call
        /\ DOMAIN docs[c] \cap dels[c] = {}
        /\ \A i \in DOMAIN docs[c] : docs[c][i].v \in {0, docs[c][i].c}
    BY TypesHold DEF IInv, Types, Buffers
  <1>3. ASSUME NEW i \in task'[t].ids
        PROVE  View(c, i)' \in seen'[t] /\ i \in Ids
    BY <1>1, <1>2 DEF Call
  <1>4. CASE task'[t] = task[t]
    <2>1. ASSUME NEW i \in task'[t].ids, row[i].c \in seen[t] PROVE row'[i].c \in seen'[t]
      BY <1>1, <1>2, <1>3, <2>1, RowsAreSeen
    <2> QED
      BY <1>1, <1>4, <2>1 DEF Reads
  <1>5. ASSUME NEW i \in Ids, get_by_id(t, i) \/ get_vectors_by_ids(t, i)
        PROVE  /\ erasing[c] = {} /\ UNCHANGED <<row, docs, dels, erasing>>
               /\ View(c, i)' = View(c, i)
    <2>1. lock = Free /\ UNCHANGED <<row, docs, dels, erasing>>
      BY <1>5 DEF get_by_id, get_vectors_by_ids, Enter, buffers
    <2>2. erasing[c] = {}
      BY <1>2, <2>1, NobodyHolds DEF IInv, Buffers
    <2> QED
      BY <2>1, <2>2 DEF View
  <1>6. CASE \E i \in Ids : get_by_id(t, i)
    <2>1. PICK i \in Ids : get_by_id(t, i)
      BY <1>6
    <2> DEFINE q == [Idle EXCEPT !.at = "answered", !.got = View(c, i), !.ids = {i}]
               r == [Idle EXCEPT !.at = "reading", !.ids = {i}]
    <2>2. /\ q.at = "answered" /\ q.got = View(c, i) /\ q.ids = {i}
          /\ r.at = "reading" /\ r.ids = {i}
      BY DEF Idle
    <2>3. \/ task'[t] = q
          \/ task'[t] = r /\ i \notin dels[c] /\ i \notin DOMAIN docs[c]
      BY <2>1 DEF get_by_id, Go, IInv, Types
    <2> HIDE DEF q, r
    <2>4. CASE task'[t] = q
      BY <1>3, <1>5, <2>1, <2>2, <2>4
    <2>5. CASE task'[t] = r /\ i \notin dels[c] /\ i \notin DOMAIN docs[c]
      <3>1. View(c, i) = row[i].c
        BY <1>5, <2>1, <2>5 DEF View
      <3> QED
        BY <1>3, <1>5, <2>1, <2>2, <2>5, <3>1
    <2> QED
      BY <2>3, <2>4, <2>5
  <1>7. CASE \E i \in Ids : get_vectors_by_ids(t, i)
    <2>1. PICK i \in Ids : get_vectors_by_ids(t, i)
      BY <1>7
    <2> DEFINE p == [Idle EXCEPT !.at = "caching", !.ids = {i}, !.want = docs[c][i].c]
               q == [Idle EXCEPT !.at = "answered", !.ids = {i}, !.got = docs[c][i].v]
               r == [Idle EXCEPT !.at = "vector", !.ids = {i}]
               o == [Idle EXCEPT !.at = "answered", !.ids = {i}]
    <2>2. /\ p.at = "caching" /\ p.ids = {i} /\ p.want = docs[c][i].c
          /\ q.at = "answered" /\ q.ids = {i} /\ q.got = docs[c][i].v
          /\ r.at = "vector" /\ r.ids = {i}
          /\ o.at = "answered" /\ o.ids = {i} /\ o.got = 0
      BY DEF Idle
    <2>3. \/ i \in dels[c] /\ task'[t] = o
          \/ /\ i \notin dels[c]
             /\ \/ i \in DOMAIN docs[c] /\ task'[t] = p
                \/ i \in DOMAIN docs[c] /\ docs[c][i].v # 0 /\ task'[t] = q
                \/ i \notin DOMAIN docs[c] /\ task'[t] = r
      BY <2>1 DEF get_vectors_by_ids, Go, IInv, Types
    <2> HIDE DEF o, p, q, r
    <2>4. View(c, i) = IF i \in dels[c] THEN 0
                       ELSE IF i \in DOMAIN docs[c] THEN docs[c][i].c ELSE row[i].c
      BY <1>5, <2>1 DEF View
    <2>5. View(c, i) \in seen'[t] /\ row' = row
      BY <1>3, <1>5, <2>1, <2>2, <2>3
    <2> QED
      BY <1>2, <2>2, <2>3, <2>4, <2>5
  <1>8. ASSUME NEW g, Answer(t, g), g \in seen[t]
        PROVE  task'[t].at = "answered" /\ task'[t].got \in seen'[t]
    <2> DEFINE q == [Idle EXCEPT !.at = "answered", !.want = task[t].want, !.got = g,
                                 !.ids = task[t].ids]
    <2>1. q.at = "answered" /\ q.got = g
      BY DEF Idle
    <2>2. task'[t] = q
      BY <1>8 DEF Answer, Go, IInv, Types
    <2> QED
      BY <1>1, <1>8, <2>1, <2>2
  <1>9. CASE QueryRow(t) \/ QueryVector(t) \/ CacheVector(t)
    <2>1. ~Go(t, Idle)
      <3>1. Go(t, Idle) => task'[t] = Idle
        BY DEF Go, IInv, Types
      <3>2. Idle.at \notin Reading
        BY DEF Idle, Reading
      <3> QED
        BY <3>1, <3>2
    <2>2. \A i \in task[t].ids : row[i].v = row[i].c
      BY <1>2 DEF IInv, Rows, Call
    <2>3. AnswerAbsent(t) \/ \E g \in seen[t] : Answer(t, g)
      BY <1>9, <2>1, <2>2 DEF QueryRow, QueryVector, CacheVector, At, Reads
    <2>4. CASE AnswerAbsent(t)
      BY <2>4, AbsentAnswer
    <2> QED
      BY <1>8, <2>3, <2>4
  <1> QED
    BY <1>4, <1>6, <1>7, <1>9, ReadingSteps

\* Nobody reads in the beginning.
LEMMA ReadsBegin == Init => Reads
  <1>1. Init => \A t \in Tasks : task[t] = Idle
    BY DEF Init
  <1>2. Idle.at = "idle"
    BY DEF Idle
  <1> QED
    BY <1>1, <1>2 DEF Reads

\* get_by_id and get_vectors_by_ids answer with what the row was at some moment of the
\* call, unless they answer without having found out ("absent": the query failed, or the
\* document was replaced while it was embedded), and when the server loses no answers; a
\* delete by name whose answer is lost may hide a newer document that is still buffered.
THEOREM ReadsStayCurrent ==
    ASSUME PgVectorAssumption, "lost" \notin Kinds
    PROVE  Spec => []ReadsAreCurrent
  <1>1. Init => Reads
    BY ReadsBegin
  <1>2. IInv /\ IInv' /\ Reads /\ [Next]_vars => Reads'
    <2>1. ASSUME Reads, UNCHANGED vars PROVE Reads'
      BY <2>1 DEF Reads, vars
    <2> QED
      BY <2>1, ReadsStep
  <1>3. Reads => ReadsAreCurrent
    BY DEF Reads, ReadsAreCurrent, At
  <1> QED
    BY <1>1, <1>2, <1>3, InvariantHolds, PTL DEF Spec
-----------------------------------------------------------------------------
(* The promise *)

\* Whoever holds the lock has a client; only finalize releases it.
Opens ==
    \A t \in Tasks :
        /\ task[t].at \in Holding => db[Writer]
        /\ task[t].at = "releasing" \/ task[t].why = "finalize" =>
              "finalize" \in Calls /\ ClientOf[t] = Writer

\* The steps of the abstract storage, from what they do to its variables: a write is
\* buffered,
LEMMA PromisedBuffer ==
    ASSUME NEW S \in SUBSET Ids, NEW w \in [S -> 0..MaxVersion],
           Buffered' = Over(w, Buffered), Contents' = Contents,
           erasing'[Writer] = erasing[Writer], said'[Writer] = said[Writer]
    PROVE  Promise!PromiseNext
  <1>1. Promise!Buffer(Writer, w)
    BY DEF Promise!Buffer, Promise!Over, Over
  <1> QED
    BY <1>1 DEF Promise!PromiseNext

\* some of the buffered writes reach the server,
LEMMA PromisedPersist ==
    ASSUME NEW S \in SUBSET Ids, S \subseteq DOMAIN Buffered,
           Contents' = [i \in Ids |-> IF i \in S THEN Buffered[i] ELSE Contents[i]],
           Buffered' = Buffered, erasing'[Writer] = erasing[Writer], said'[Writer] = said[Writer]
    PROVE  Promise!PromiseNext
  <1>1. Promise!Persist(Writer, S)
    BY DEF Promise!Persist
  <1> QED
    BY <1>1 DEF Promise!PromiseNext

\* a commit succeeds,
LEMMA PromisedCommit ==
    ASSUME \A i \in DOMAIN Buffered : Contents[i] = Buffered[i], Buffered' = Nothing,
           said'[Writer] = "committed", Contents' = Contents, erasing'[Writer] = erasing[Writer]
    PROVE  Promise!PromiseNext
  <1>1. Promise!Commit(Writer)
    BY DEF Promise!Commit, Promise!Nothing, Nothing
  <1> QED
    BY <1>1 DEF Promise!PromiseNext

\* rows are erased on the server,
LEMMA PromisedErase ==
    ASSUME NEW S \in SUBSET Ids,
           Contents' = [i \in Ids |-> IF i \in S THEN 0 ELSE Contents[i]],
           erasing'[Writer] \in {S, {}}, Buffered' = Buffered, said'[Writer] = said[Writer]
    PROVE  Promise!PromiseNext
  <1>1. Promise!Erase(Writer, S)
    BY DEF Promise!Erase
  <1> QED
    BY <1>1 DEF Promise!PromiseNext

\* and forgotten in the buffer,
LEMMA PromisedForget ==
    ASSUME NEW S \in SUBSET Ids, S \subseteq erasing[Writer], Contents' = Contents,
           Buffered' = Without(Buffered, S), erasing'[Writer] = {}, said'[Writer] = said[Writer]
    PROVE  Promise!PromiseNext
  <1>1. Promise!Forget(Writer, S)
    BY DEF Promise!Forget, Promise!Without, Promise!Restrict, Without, Restrict
  <1> QED
    BY <1>1 DEF Promise!PromiseNext

\* the buffer is given up,
LEMMA PromisedAbandon ==
    ASSUME Contents' = Contents, Buffered' = Nothing, erasing'[Writer] = {},
           said'[Writer] = "abandoned"
    PROVE  Promise!PromiseNext
  <1>1. Promise!Abandon(Writer)
    BY DEF Promise!Abandon, Promise!Nothing, Nothing
  <1> QED
    BY <1>1 DEF Promise!PromiseNext

\* all rows go,
LEMMA PromisedWipe ==
    ASSUME Contents' = [i \in Ids |-> 0], Buffered' = Buffered,
           erasing'[Writer] = erasing[Writer], said'[Writer] = said[Writer]
    PROVE  Promise!PromiseNext
  BY DEF Promise!PromiseNext, Promise!Wipe

\* or nothing happens.
LEMMA PromisedNothing ==
    ASSUME Contents' = Contents, Buffered' = Buffered,
           erasing'[Writer] = erasing[Writer], said'[Writer] = said[Writer]
    PROVE  UNCHANGED Promise!promiseVars
  BY DEF Promise!promiseVars

\* A step that the promise allows.
Promised == Promise!PromiseNext \/ UNCHANGED Promise!promiseVars

\* The buffered writes stay when only vectors are added,
LEMMA SameBuffers ==
    ASSUME db'[Writer] = db[Writer], DOMAIN docs'[Writer] = DOMAIN docs[Writer],
           \A i \in DOMAIN docs[Writer] : docs'[Writer][i].c = docs[Writer][i].c,
           dels'[Writer] = dels[Writer]
    PROVE  Buffered' = Buffered
  BY DEF Buffered

\* count for nothing when there is no client to write them with,
LEMMA ClosedBuffers ==
    /\ ~db[Writer] => Buffered = Nothing
    /\ ~db'[Writer] => Buffered' = Nothing
  BY DEF Buffered

\* are none when both buffers are empty,
LEMMA EmptyBuffers ==
    /\ DOMAIN docs[Writer] = {} /\ dels[Writer] = {} => Buffered = Nothing
    /\ DOMAIN docs'[Writer] = {} /\ dels'[Writer] = {} => Buffered' = Nothing
  BY DEF Buffered, Nothing

\* and are otherwise those of both buffers.
LEMMA OpenBuffers ==
    db[Writer] =>
        /\ DOMAIN Buffered = DOMAIN docs[Writer] \cup dels[Writer]
        /\ \A i \in DOMAIN docs[Writer] : Buffered[i] = docs[Writer][i].c
        /\ \A i \in dels[Writer] \ DOMAIN docs[Writer] : Buffered[i] = 0
  BY DEF Buffered

\* A step that does nothing that the promise speaks of.
LEMMA Quiet ==
    ASSUME row' = row, db'[Writer] = db[Writer], docs'[Writer] = docs[Writer],
           dels'[Writer] = dels[Writer], erasing'[Writer] = erasing[Writer],
           said'[Writer] = said[Writer]
    PROVE  Promised
  <1>1. Buffered' = Buffered /\ Contents' = Contents
    BY DEF Buffered, Contents
  <1> QED
    BY <1>1, PromisedNothing DEF Promised

\* Operation by operation: upsert buffers versions,
LEMMA PromiseOfUpsert ==
    ASSUME PgVectorAssumption, IInv, NEW t \in Tasks, NEW S \in SUBSET Ids, upsert(t, S)
    PROVE  Promised
  <1> DEFINE w == [i \in S |-> [c |-> version + 1, v |-> 0]]
             u == [i \in S |-> version + 1]
  <1>1. /\ docs'[Writer] = Over(w, docs[Writer]) /\ dels'[Writer] = dels[Writer] \ S
        /\ row' = row /\ db' = db /\ erasing' = erasing /\ said' = said
        /\ version + 1 \in 0..MaxVersion
    BY DEF upsert, Enter, PgVectorAssumption, IInv, Types, Version
  <1>2. Contents' = Contents
    BY <1>1 DEF Contents
  <1>3. CASE db[Writer]
    <2>1. /\ DOMAIN docs'[Writer] = S \cup DOMAIN docs[Writer]
          /\ \A i \in S : docs'[Writer][i].c = version + 1
          /\ \A i \in DOMAIN docs[Writer] \ S : docs'[Writer][i] = docs[Writer][i]
      BY <1>1 DEF Over
    <2>2. Buffered' = Over(u, Buffered)
      BY <1>1, <1>3, <2>1 DEF Buffered, Over
    <2>3. u \in [S -> 0..MaxVersion]
      BY <1>1
    <2> HIDE DEF u
    <2> QED
      BY <1>1, <1>2, <2>2, <2>3, PromisedBuffer DEF Promised
  <1>4. CASE ~db[Writer]
    BY <1>1, <1>2, <1>4, ClosedBuffers, PromisedNothing DEF Promised
  <1> QED
    BY <1>3, <1>4

\* delete buffers removals,
LEMMA PromiseOfDelete ==
    ASSUME PgVectorAssumption, IInv, NEW t \in Tasks, NEW S \in SUBSET Ids, delete(t, S)
    PROVE  Promised
  <1> DEFINE u == [i \in S |-> 0]
  <1>1. /\ docs'[Writer] = Without(docs[Writer], S) /\ dels'[Writer] = dels[Writer] \cup S
        /\ row' = row /\ db' = db /\ erasing' = erasing /\ said' = said
    BY DEF delete, Enter, PgVectorAssumption, IInv, Types
  <1>2. Contents' = Contents
    BY <1>1 DEF Contents
  <1>3. CASE db[Writer]
    <2>1. /\ DOMAIN docs'[Writer] = DOMAIN docs[Writer] \ S
          /\ \A i \in DOMAIN docs[Writer] \ S : docs'[Writer][i] = docs[Writer][i]
      BY <1>1 DEF Without, Restrict
    <2>2. Buffered' = Over(u, Buffered)
      BY <1>1, <1>3, <2>1 DEF Buffered, Over
    <2>3. u \in [S -> 0..MaxVersion]
      BY DEF PgVectorAssumption
    <2> HIDE DEF u
    <2> QED
      BY <1>1, <1>2, <2>2, <2>3, PromisedBuffer DEF Promised
  <1>4. CASE ~db[Writer]
    BY <1>1, <1>2, <1>4, ClosedBuffers, PromisedNothing DEF Promised
  <1> QED
    BY <1>3, <1>4

\* drop and drop_pending_index_ops give up, and say so,
LEMMA PromiseOfGivingUp ==
    ASSUME PgVectorAssumption, IInv, NEW t \in Tasks, drop_pending_index_ops(t) \/ drop(t)
    PROVE  Promised
  <1>1. /\ docs'[Writer] = Nothing /\ dels'[Writer] = {} /\ said'[Writer] = "abandoned"
        /\ row' = row /\ erasing' = erasing /\ lock = Free
    BY DEF drop_pending_index_ops, drop, Enter, PgVectorAssumption, IInv, Types
  <1>2. Contents' = Contents /\ Buffered' = Nothing
    BY <1>1, EmptyBuffers, Emptied DEF Contents
  <1>3. erasing'[Writer] = {}
    BY <1>1, NobodyHolds DEF IInv
  <1> QED
    BY <1>1, <1>2, <1>3, PromisedAbandon DEF Promised

\* a flush that finds nothing to write commits,
LEMMA PromiseOfFlush ==
    ASSUME PgVectorAssumption, IInv, NEW t \in Tasks, NEW why, flush(t, why)
    PROVE  Promised
  <1>1. /\ row' = row /\ docs' = docs /\ dels' = dels /\ db' = db /\ erasing' = erasing
        /\ \/ said' = said
           \/ /\ said'[Writer] = "committed"
              /\ docs[Writer] = Nothing /\ dels[Writer] = {}
    BY DEF flush, Enter, buffers, PgVectorAssumption, IInv, Types
  <1>2. CASE said' = said
    BY <1>1, <1>2, Quiet
  <1>3. CASE said'[Writer] = "committed" /\ docs[Writer] = Nothing /\ dels[Writer] = {}
    <2>1. Buffered = Nothing /\ Buffered' = Nothing /\ Contents' = Contents
      BY <1>1, <1>3, EmptyBuffers, Emptied DEF Contents
    <2>2. \A i \in DOMAIN Buffered : Contents[i] = Buffered[i]
      BY <2>1, Emptied
    <2> QED
      BY <1>1, <1>3, <2>1, <2>2, PromisedCommit DEF Promised
  <1> QED
    BY <1>1, <1>2, <1>3

\* The batches of a flush, and its end.
LEMMA PromiseOfEmbedding ==
    ASSUME PgVectorAssumption, IInv, NEW t \in Tasks, Embed(t)
    PROVE  Promised
  <1>1. /\ row' = row /\ db' = db /\ erasing' = erasing /\ ClientOf[t] = Writer
        /\ Writer \in Clients /\ docs[Writer] \in Buffer
    BY OneHolds, TypesHold DEF Embed, At, Holding, IInv, PgVectorAssumption
  <1>2. CASE FlushRaises(t)
    BY <1>1, <1>2, Quiet DEF FlushRaises, Flushed, IInv, Types
  <1>3. CASE /\ docs' = [docs EXCEPT ![Writer] =
                    [i \in DOMAIN @ |->
                        [docs[Writer][i] EXCEPT !.v = IF @ = 0 THEN docs[Writer][i].c ELSE @]]]
             /\ dels' = dels /\ said' = said
    <2>1. /\ DOMAIN docs'[Writer] = DOMAIN docs[Writer]
          /\ \A i \in DOMAIN docs[Writer] : docs'[Writer][i].c = docs[Writer][i].c
      BY <1>1, <1>3, BufferElim DEF IInv, Types, Doc
    <2>2. Buffered' = Buffered
      BY <1>1, <1>3, <2>1, SameBuffers
    <2>3. Contents' = Contents
      BY <1>1 DEF Contents
    <2> QED
      BY <1>1, <1>3, <2>2, <2>3, PromisedNothing DEF Promised
  <1> QED
    BY <1>1, <1>2, <1>3 DEF Embed

\* a batch persists buffered writes, and may do so although it fails,
LEMMA PromiseOfUpsertBatch ==
    ASSUME PgVectorAssumption, IInv, Opens, NEW t \in Tasks, UpsertBatch(t)
    PROVE  Promised
  <1>1. /\ db' = db /\ erasing' = erasing /\ ClientOf[t] = Writer /\ db[Writer]
        /\ task[t].ids \subseteq DOMAIN docs[Writer] /\ DOMAIN docs[Writer] \in SUBSET Ids
        /\ docs' = docs /\ dels' = dels /\ said' = said
    <2>1. task[t].at = "upserting"
      BY DEF UpsertBatch, At
    <2>2. ClientOf[t] = Writer /\ Writer \in Clients
      BY <2>1, OneHolds DEF Holding, IInv, PgVectorAssumption
    <2>3. docs' = docs /\ dels' = dels /\ said' = said /\ db' = db /\ erasing' = erasing
      BY DEF UpsertBatch, FlushRaises, Flushed, buffers, IInv, Types
    <2>4. db[Writer] /\ task[t].ids \subseteq DOMAIN docs[Writer]
      BY <2>1 DEF Opens, Holding, IInv, Flushes
    <2> QED
      BY <2>2, <2>3, <2>4, TypesHold DEF IInv
  <1>2. \/ row' = row
        \/ \E S \in SUBSET task[t].ids :
              row' = [i \in Ids |-> IF i \in S THEN docs[ClientOf[t]][i] ELSE row[i]]
    BY DEF UpsertBatch, FaultWith
  <1>3. CASE row' = row
    BY <1>1, <1>3, Quiet
  <1>4. ASSUME NEW S \in SUBSET task[t].ids,
               row' = [i \in Ids |-> IF i \in S THEN docs[ClientOf[t]][i] ELSE row[i]]
        PROVE  Promised
    <2>1. S \in SUBSET Ids /\ S \subseteq DOMAIN docs[Writer] /\ S \subseteq DOMAIN Buffered
      BY <1>1, OpenBuffers
    <2>2. Contents' = [i \in Ids |-> IF i \in S THEN Buffered[i] ELSE Contents[i]]
      BY <1>1, <1>4, <2>1, OpenBuffers DEF Contents
    <2>3. Buffered' = Buffered
      BY <1>1, SameBuffers
    <2> QED
      BY <1>1, <2>1, <2>2, <2>3, PromisedPersist DEF Promised
  <1> QED
    BY <1>2, <1>3, <1>4

\* as may a batch of removals,
LEMMA PromiseOfDeleteBatch ==
    ASSUME PgVectorAssumption, IInv, Opens, NEW t \in Tasks, DeleteBatch(t)
    PROVE  Promised
  <1>1. /\ db' = db /\ erasing' = erasing /\ db[Writer]
        /\ task[t].ids \subseteq dels[Writer] /\ dels[Writer] \in SUBSET Ids
        /\ DOMAIN docs[Writer] \cap dels[Writer] = {}
        /\ docs' = docs /\ dels' = dels /\ said' = said
    <2>1. task[t].at = "deleting"
      BY DEF DeleteBatch, At
    <2>2. ClientOf[t] = Writer /\ Writer \in Clients
      BY <2>1, OneHolds DEF Holding, IInv, PgVectorAssumption
    <2>3. docs' = docs /\ dels' = dels /\ said' = said /\ db' = db /\ erasing' = erasing
      BY DEF DeleteBatch, FlushRaises, Flushed, buffers, IInv, Types
    <2>4. /\ db[Writer] /\ task[t].ids \subseteq dels[Writer]
          /\ DOMAIN docs[Writer] \cap dels[Writer] = {}
      BY <2>1, <2>2 DEF Opens, Holding, IInv, Flushes, Buffers
    <2> QED
      BY <2>2, <2>3, <2>4, TypesHold DEF IInv
  <1>2. \/ row' = row
        \/ \E S \in SUBSET task[t].ids :
              row' = [i \in Ids |-> IF i \in S THEN NoRow ELSE row[i]]
    BY DEF DeleteBatch, FaultWith
  <1>3. CASE row' = row
    BY <1>1, <1>3, Quiet
  <1>4. ASSUME NEW S \in SUBSET task[t].ids,
               row' = [i \in Ids |-> IF i \in S THEN NoRow ELSE row[i]]
        PROVE  Promised
    <2>1. S \in SUBSET Ids /\ S \subseteq dels[Writer] \ DOMAIN docs[Writer] /\
             S \subseteq DOMAIN Buffered
      BY <1>1, OpenBuffers
    <2>2. Contents' = [i \in Ids |-> IF i \in S THEN Buffered[i] ELSE Contents[i]]
      BY <1>1, <1>4, <2>1, OpenBuffers DEF Contents, NoRow
    <2>3. Buffered' = Buffered
      BY <1>1, SameBuffers
    <2> QED
      BY <1>1, <2>1, <2>2, <2>3, PromisedPersist DEF Promised
  <1> QED
    BY <1>2, <1>3, <1>4

\* the end of a flush commits, for every buffered write is on the server,
LEMMA PromiseOfEnd ==
    ASSUME PgVectorAssumption, IInv, Opens, NEW t \in Tasks, FlushEnds(t)
    PROVE  Promised
  <1>1. task[t].at = "deleting" /\ task[t].ids = {}
    BY DEF FlushEnds, At
  <1>2. ClientOf[t] = Writer /\ Writer \in Clients /\ db[Writer]
    BY <1>1, OneHolds DEF Holding, IInv, PgVectorAssumption, Opens
  <1>3. /\ docs'[Writer] = Nothing /\ dels'[Writer] = {} /\ said'[Writer] = "committed"
        /\ row' = row /\ erasing' = erasing
    BY <1>2 DEF FlushEnds, Flushed, IInv, Types
  <1>4. /\ \A i \in DOMAIN docs[Writer] : row[i].c = docs[Writer][i].c
        /\ \A i \in dels[Writer] : row[i].c = 0
        /\ DOMAIN docs[Writer] \in SUBSET Ids /\ dels[Writer] \in SUBSET Ids
    BY <1>1, <1>2, TypesHold DEF IInv, Flushes
  <1>5. \A i \in DOMAIN Buffered : Contents[i] = Buffered[i]
    BY <1>2, <1>4, OpenBuffers DEF Contents
  <1>6. Contents' = Contents /\ Buffered' = Nothing
    BY <1>3, EmptyBuffers, Emptied DEF Contents
  <1> QED
    BY <1>3, <1>5, <1>6, PromisedCommit DEF Promised

\* finalize that leaves buffered writes behind gives them up, and says so,
LEMMA PromiseOfRelease ==
    ASSUME PgVectorAssumption, FinalizesAlone, IInv, Opens, NEW t \in Tasks, Release(t)
    PROVE  Promised
  <1>1. /\ task[t].at = "releasing" /\ ClientOf[t] = Writer /\ "finalize" \in Calls
        /\ Writer \in Clients
    BY DEF Release, At, Opens, PgVectorAssumption
  <1>2. /\ row' = row /\ docs' = docs /\ dels' = dels /\ erasing' = erasing
        /\ ~db'[Writer]
        /\ said'[Writer] = IF docs[Writer] # Nothing \/ dels[Writer] # {}
                           THEN "abandoned" ELSE said[Writer]
    BY <1>1 DEF Release, buffers, IInv, Types
  <1>3. erasing[Writer] = {}
    <2>1. SUFFICES ASSUME erasing[Writer] # {} PROVE FALSE
      OBVIOUS
    <2>2. lock \in Tasks /\ task[lock].at = "pruning"
      BY <2>1 DEF IInv, Locks, Types
    <2>3. ClientOf[lock] = Writer
      BY <2>2, OneHolds DEF Holding, IInv
    <2> QED
      BY <1>1, <2>2, <2>3 DEF FinalizesAlone
  <1>4. Contents' = Contents /\ Buffered' = Nothing
    BY <1>2, ClosedBuffers DEF Contents
  <1>5. CASE docs[Writer] # Nothing \/ dels[Writer] # {}
    BY <1>2, <1>3, <1>4, <1>5, PromisedAbandon DEF Promised
  <1>6. CASE docs[Writer] = Nothing /\ dels[Writer] = {}
    <2>1. Buffered = Nothing
      BY <1>6, EmptyBuffers, Emptied
    <2> QED
      BY <1>2, <1>4, <1>6, <2>1, PromisedNothing DEF Promised
  <1> QED
    BY <1>5, <1>6

\* delete_entity without a client buffers nothing,
LEMMA PromiseOfErasing ==
    ASSUME PgVectorAssumption, IInv, NEW t \in Tasks, NEW e \in Entities, delete_entity(t, e)
    PROVE  Promised
  <1>1. /\ row' = row /\ db' = db /\ erasing' = erasing /\ said' = said
        /\ (docs' = docs /\ dels' = dels) \/ ~db[Writer]
    BY DEF delete_entity, Enter, buffers
  <1>2. CASE docs' = docs /\ dels' = dels
    BY <1>1, <1>2, Quiet
  <1>3. CASE ~db[Writer]
    <2>1. Buffered' = Buffered /\ Contents' = Contents
      BY <1>1, <1>3, ClosedBuffers DEF Contents
    <2> QED
      BY <1>1, <2>1, PromisedNothing DEF Promised
  <1> QED
    BY <1>1, <1>2, <1>3

\* with one it erases,
LEMMA PromiseOfErasure ==
    ASSUME PgVectorAssumption, IInv, NEW t \in Tasks, EraseRows(t)
    PROVE  Promised
  <1>1. /\ task[t].at = "erasing" /\ ClientOf[t] = Writer /\ erasing[Writer] = {}
        /\ Writer \in Clients /\ task[t].ids \in SUBSET Ids
        /\ docs' = docs /\ dels' = dels /\ db' = db /\ said' = said
    BY OneHolds, TypesHold DEF EraseRows, At, Holding, IInv, PgVectorAssumption, Call, buffers
  <1>2. \/ row' = row /\ erasing' = erasing
        \/ /\ row' = [i \in Ids |-> IF i \in task[t].ids THEN NoRow ELSE row[i]]
           /\ erasing'[Writer] \in {task[t].ids, {}}
    BY <1>1 DEF EraseRows, FaultWith, IInv, Types
  <1>3. CASE row' = row /\ erasing' = erasing
    BY <1>1, <1>3, Quiet
  <1>4. CASE /\ row' = [i \in Ids |-> IF i \in task[t].ids THEN NoRow ELSE row[i]]
             /\ erasing'[Writer] \in {task[t].ids, {}}
    <2>1. Contents' = [i \in Ids |-> IF i \in task[t].ids THEN 0 ELSE Contents[i]]
      BY <1>4 DEF Contents, NoRow
    <2>2. Buffered' = Buffered
      BY <1>1, SameBuffers
    <2> QED
      BY <1>1, <1>4, <2>1, <2>2, PromisedErase DEF Promised
  <1> QED
    BY <1>2, <1>3, <1>4

\* and forgets what it erased,
LEMMA PromiseOfPruning ==
    ASSUME PgVectorAssumption, IInv, Opens, NEW t \in Tasks, PrunePending(t)
    PROVE  Promised
  <1> DEFINE S == task[t].ids
  <1>1. task[t].at = "pruning"
    BY DEF PrunePending, At
  <1>2. ClientOf[t] = Writer /\ Writer \in Clients /\ db[Writer] /\ erasing[Writer] = S
    BY <1>1, OneHolds DEF Holding, IInv, PgVectorAssumption, Opens, Flushes
  <1>3. /\ docs'[Writer] = Without(docs[Writer], S)
        /\ dels'[Writer] \subseteq dels[Writer] /\ dels[Writer] \ S \subseteq dels'[Writer]
        /\ erasing'[Writer] = {} /\ row' = row /\ db' = db /\ said' = said
    BY <1>2 DEF PrunePending, Prune, IInv, Types
  <1>4. S \in SUBSET Ids /\ DOMAIN docs[Writer] \cap dels[Writer] = {}
    BY <1>2, TypesHold DEF IInv, Call, Buffers
  <1>5. /\ DOMAIN docs'[Writer] = DOMAIN docs[Writer] \ S
        /\ \A i \in DOMAIN docs[Writer] \ S : docs'[Writer][i] = docs[Writer][i]
    BY <1>3 DEF Without, Restrict
  <1> HIDE DEF S
  <1> DEFINE T == S \ dels'[Writer]
  <1>8. DOMAIN Buffered' = DOMAIN Buffered \ T
    BY <1>2, <1>3, <1>4, <1>5 DEF Buffered
  <1>9. \A i \in DOMAIN Buffered' : Buffered'[i] = Buffered[i]
    BY <1>2, <1>3, <1>4, <1>5 DEF Buffered
  <1>6. Buffered' = Without(Buffered, T)
    BY <1>2, <1>3, <1>8, <1>9 DEF Buffered, Without, Restrict
  <1>7. Contents' = Contents
    BY <1>3 DEF Contents
  <1> QED
    BY <1>2, <1>3, <1>4, <1>6, <1>7, PromisedForget DEF Promised

\* reads do nothing,
LEMMA PromiseOfReads ==
    ASSUME PgVectorAssumption, IInv, NEW t \in Tasks,
           \/ \E i \in Ids : get_by_id(t, i) \/ get_vectors_by_ids(t, i)
           \/ QueryRow(t) \/ QueryVector(t) \/ Return(t) \/ UpsertsDone(t)
    PROVE  Promised
  <1>1. UNCHANGED <<row, docs, dels, db, said, erasing>>
    BY DEF get_by_id, get_vectors_by_ids, QueryRow, QueryVector, Return, UpsertsDone, buffers
  <1> QED
    BY <1>1, Quiet

\* nor does a vector that is kept,
LEMMA PromiseOfCaching ==
    ASSUME PgVectorAssumption, IInv, NEW t \in Tasks, CacheVector(t)
    PROVE  Promised
  <1> DEFINE c == ClientOf[t]
  <1>1. UNCHANGED <<row, dels, db, said, erasing>> /\ c \in Clients /\ Writer \in Clients
    BY DEF CacheVector, PgVectorAssumption
  <1>2. CASE docs' = docs
    BY <1>1, <1>2, Quiet
  <1>3. CASE \E i \in DOMAIN docs[c] : docs' = [docs EXCEPT ![c][i].v = task[t].want]
    <2>1. PICK i \in DOMAIN docs[c] : docs' = [docs EXCEPT ![c][i].v = task[t].want]
      BY <1>3
    <2>2. docs[c] \in [DOMAIN docs[c] -> Doc]
      BY <1>1, TypesHold, BufferElim DEF IInv
    <2> DEFINE p == [docs[c][i] EXCEPT !.v = task[t].want]
               d == [docs[c] EXCEPT ![i] = p]
    <2>3. p.c = docs[c][i].c
      BY <2>1, <2>2 DEF Doc
    <2>4. docs' = [docs EXCEPT ![c] = d]
      BY <2>1
    <2> HIDE DEF p
    <2>5. DOMAIN d = DOMAIN docs[c] /\ \A j \in DOMAIN docs[c] : d[j].c = docs[c][j].c
      BY <2>1, <2>2, <2>3
    <2> HIDE DEF d
    <2>6. /\ DOMAIN docs'[Writer] = DOMAIN docs[Writer]
          /\ \A j \in DOMAIN docs[Writer] : docs'[Writer][j].c = docs[Writer][j].c
      BY <1>1, <2>4, <2>5 DEF IInv, Types
    <2>7. Buffered' = Buffered /\ Contents' = Contents
      BY <1>1, <2>6, SameBuffers DEF Contents
    <2> QED
      BY <1>1, <2>7, PromisedNothing DEF Promised
  <1> QED
    BY <1>2, <1>3 DEF CacheVector

\* drop wipes,
LEMMA PromiseOfWipe ==
    ASSUME PgVectorAssumption, IInv, NEW t \in Tasks, DropRows(t)
    PROVE  Promised
  <1>1. /\ UNCHANGED <<docs, dels, db, said, erasing>>
        /\ row' = row \/ row' = [i \in Ids |-> NoRow]
    BY DEF DropRows, FaultWith, buffers
  <1>2. CASE row' = row
    BY <1>1, <1>2, Quiet
  <1>3. CASE row' = [i \in Ids |-> NoRow]
    <2>1. Contents' = [i \in Ids |-> 0] /\ Buffered' = Buffered
      BY <1>1, <1>3, SameBuffers DEF Contents, NoRow
    <2> QED
      BY <1>1, <2>1, PromisedWipe DEF Promised
  <1> QED
    BY <1>1, <1>2, <1>3

\* initialize after finalize shows the buffers again,
LEMMA PromiseOfOpening ==
    ASSUME PgVectorAssumption, IInv, NEW c \in Clients, initialize(c)
    PROVE  Promised
  <1>1. /\ UNCHANGED <<row, docs, dels, said, erasing>> /\ ~db[c]
        /\ db' = [db EXCEPT ![c] = TRUE] /\ Writer \in Clients
    BY DEF initialize, buffers, PgVectorAssumption
  <1>2. CASE c # Writer
    <2>1. db'[Writer] = db[Writer]
      BY <1>1, <1>2 DEF IInv, Types
    <2> QED
      BY <1>1, <2>1, Quiet
  <1>3. CASE c = Writer
    <2> DEFINE u == [i \in DOMAIN docs[Writer] \cup dels[Writer] |->
                       IF i \in DOMAIN docs[Writer] THEN docs[Writer][i].c ELSE 0]
    <2>1. Buffered = Nothing /\ Buffered' = u
      BY <1>1, <1>3 DEF Buffered, IInv, Types
    <2>2. u \in [DOMAIN docs[Writer] \cup dels[Writer] -> 0..MaxVersion]
      BY <1>1, TypesHold, Calls0 DEF IInv, Version
    <2>3. DOMAIN docs[Writer] \cup dels[Writer] \in SUBSET Ids
      BY <1>1, TypesHold DEF IInv
    <2>4. DOMAIN u = DOMAIN docs[Writer] \cup dels[Writer]
      OBVIOUS
    <2> HIDE DEF u
    <2>5. Over(u, Nothing) = u
      BY <2>2, Emptied DEF Over
    <2>6. Contents' = Contents
      BY <1>1 DEF Contents
    <2> QED
      BY <1>1, <2>1, <2>2, <2>3, <2>5, <2>6, PromisedBuffer DEF Promised
  <1> QED
    BY <1>2, <1>3

\* and a worker that dies gives up what it had buffered.
LEMMA PromiseOfCrash ==
    ASSUME PgVectorAssumption, IInv, NEW c \in Clients, Crash(c)
    PROVE  Promised
  <1>1. /\ docs' = [docs EXCEPT ![c] = Nothing] /\ dels' = [dels EXCEPT ![c] = {}]
        /\ said' = [said EXCEPT ![c] = "abandoned"] /\ erasing' = [erasing EXCEPT ![c] = {}]
        /\ db' = [db EXCEPT ![c] = TRUE] /\ row' = row /\ Writer \in Clients
    BY DEF Crash, PgVectorAssumption
  <1>2. CASE c # Writer
    <2>1. /\ db'[Writer] = db[Writer] /\ docs'[Writer] = docs[Writer]
          /\ dels'[Writer] = dels[Writer] /\ erasing'[Writer] = erasing[Writer]
          /\ said'[Writer] = said[Writer]
      BY <1>1, <1>2 DEF IInv, Types
    <2> QED
      BY <1>1, <2>1, Quiet
  <1>3. CASE c = Writer
    <2>1. /\ docs'[Writer] = Nothing /\ dels'[Writer] = {} /\ erasing'[Writer] = {}
          /\ said'[Writer] = "abandoned"
      BY <1>1, <1>3 DEF IInv, Types
    <2>2. Contents' = Contents /\ Buffered' = Nothing
      BY <1>1, <2>1, EmptyBuffers, Emptied DEF Contents
    <2> QED
      BY <2>1, <2>2, PromisedAbandon DEF Promised
  <1> QED
    BY <1>2, <1>3

\* Every step of the storage is a step of the promise, or says nothing.
LEMMA PromiseStep ==
    ASSUME PgVectorAssumption, FinalizesAlone, IInv, Opens, Next
    PROVE  Promised
  <1>1. ASSUME NEW t \in Tasks, Begin(t) PROVE Promised
    BY <1>1, PromiseOfUpsert, PromiseOfDelete, PromiseOfGivingUp, PromiseOfFlush,
       PromiseOfErasing, PromiseOfReads DEF Begin
  <1>2. ASSUME NEW t \in Tasks, Continue(t) PROVE Promised
    BY <1>2, PromiseOfEmbedding, PromiseOfUpsertBatch, PromiseOfDeleteBatch, PromiseOfEnd,
       PromiseOfRelease, PromiseOfErasure, PromiseOfPruning, PromiseOfReads, PromiseOfCaching,
       PromiseOfWipe DEF Continue
  <1>3. ASSUME NEW c \in Clients, initialize(c) \/ Crash(c) PROVE Promised
    BY <1>3, PromiseOfOpening, PromiseOfCrash
  <1> QED
    BY <1>1, <1>2, <1>3 DEF Next

\* A step keeps Opens: a flush or an erasure begins with a client, and only the release at
\* the end of finalize takes it away, when nothing else is in progress.
LEMMA OpensWhen ==
    ASSUME PgVectorAssumption, FinalizesAlone, IInv, IInv', Opens, NEW t \in Tasks,
           NEW q \in Call, Go(t, q), q.at \in Holding => db[Writer],
           q.at = "releasing" \/ q.why = "finalize" =>
              "finalize" \in Calls /\ ClientOf[t] = Writer,
           db' = db \/ Release(t)
    PROVE  Opens'
  <1>1. ASSUME NEW s \in Tasks, task'[s].at \in Holding PROVE db'[Writer]
    <2>1. CASE db' = db
      BY <1>1, <2>1, Moved DEF Opens
    <2>2. CASE Release(t)
      <3>1. ClientOf[t] = Writer /\ "finalize" \in Calls /\ task'[t] = Idle
        BY <2>2 DEF Release, At, Opens, Go, IInv, Types
      <3>2. ClientOf[s] = Writer
        BY <1>1 DEF IInv, Locks
      <3>3. s = t
        BY <3>1, <3>2 DEF FinalizesAlone
      <3> QED
        BY <1>1, <3>1, <3>3, Calls0
    <2> QED
      BY <2>1, <2>2
  <1>2. ASSUME NEW s \in Tasks, task'[s].at = "releasing" \/ task'[s].why = "finalize"
        PROVE  "finalize" \in Calls /\ ClientOf[s] = Writer
    BY <1>2, Moved DEF Opens
  <1> QED
    BY <1>1, <1>2 DEF Opens

\* Every step keeps Opens.
LEMMA OpensStep ==
    ASSUME PgVectorAssumption, FinalizesAlone, IInv, IInv', Opens, Next
    PROVE  Opens'
  <1>1. ASSUME NEW t \in Tasks
        PROVE  /\ task[t] \in Call
               /\ task[t].why = "finalize" => "finalize" \in Calls /\ ClientOf[t] = Writer
               /\ task[t].at \in Holding => db[Writer]
    BY TypesHold DEF IInv, Opens
  <1>2. /\ Idle \in Call /\ Idle.at \notin Holding /\ Idle.at # "releasing" /\ Idle.why = ""
        /\ [Idle EXCEPT !.at = "releasing"] \in Call
        /\ [Idle EXCEPT !.at = "releasing"].at \notin Holding
        /\ [Idle EXCEPT !.at = "releasing"].why = ""
    BY Calls0 DEF Idle
  <1>3. ASSUME NEW t \in Tasks, Go(t, Idle), db' = db \/ Release(t) PROVE Opens'
    BY <1>2, <1>3, OpensWhen
  <1>4. ASSUME UNCHANGED <<task, db>> PROVE Opens'
    BY <1>4 DEF Opens
  <1>5. ASSUME NEW t \in Tasks, FlushRaises(t) \/ FlushEnds(t), db' = db PROVE Opens'
    <2>1. \/ Go(t, Idle)
          \/ task[t].why = "finalize" /\ Go(t, [Idle EXCEPT !.at = "releasing"])
      BY <1>5 DEF FlushRaises, FlushEnds, Flushed
    <2> QED
      BY <1>1, <1>2, <1>3, <1>5, <2>1, OpensWhen
  <1>6. ASSUME NEW t \in Tasks, NEW l \in Position \ {"releasing"}, NEW S \in SUBSET Ids,
               task[t].at \in Holding, db' = db,
               \/ Go(t, [task[t] EXCEPT !.at = l]) \/ Go(t, [task[t] EXCEPT !.ids = S])
               \/ Go(t, [task[t] EXCEPT !.at = l, !.ids = S])
        PROVE  Opens'
    <2>1. PICK q : /\ Go(t, q)
                   /\ q \in {[task[t] EXCEPT !.at = l], [task[t] EXCEPT !.ids = S],
                             [task[t] EXCEPT !.at = l, !.ids = S]}
      BY <1>6
    <2>2. q \in Call /\ q.why = task[t].why /\ q.at \in {l, task[t].at}
      BY <1>1, <2>1 DEF Call
    <2> QED
      BY <1>1, <1>6, <2>1, <2>2, OpensWhen DEF Holding
  <1>7. ASSUME NEW t \in Tasks, Begin(t) PROVE Opens'
    <2>1. CASE \E S \in SUBSET Ids : upsert(t, S) \/ delete(t, S)
      BY <1>4, <2>1 DEF upsert, delete
    <2>2. CASE drop_pending_index_ops(t)
      BY <1>4, <2>2 DEF drop_pending_index_ops
    <2>3. ASSUME NEW why \in {"commit", "finalize"}, flush(t, why) PROVE Opens'
      <3>1. db' = db /\ ClientOf[t] = Writer /\ db[Writer] /\ why \in Calls
        BY <2>3 DEF flush, Enter, Do
      <3>2. \/ Go(t, Idle)
            \/ why = "finalize" /\ Go(t, [Idle EXCEPT !.at = "releasing"])
            \/ Go(t, [Idle EXCEPT !.at = "embedding", !.why = why])
        BY <2>3 DEF flush
      <3>3. /\ [Idle EXCEPT !.at = "embedding", !.why = why] \in Call
            /\ [Idle EXCEPT !.at = "embedding", !.why = why].at = "embedding"
            /\ [Idle EXCEPT !.at = "embedding", !.why = why].why = why
        BY Calls0 DEF Idle, Call, Position, Holding, Why
      <3> QED
        BY <1>2, <1>3, <3>1, <3>2, <3>3, OpensWhen
    <2>4. CASE drop(t)
      <3>1. db' = db /\ ClientOf[t] = Writer /\ db[Writer]
        BY <2>4 DEF drop
      <3>2. /\ [Idle EXCEPT !.at = "dropping"] \in Call
            /\ [Idle EXCEPT !.at = "dropping"].why = ""
            /\ [Idle EXCEPT !.at = "dropping"].at = "dropping"
        BY Calls0 DEF Idle, Call, Position, Holding, Why
      <3>3. Go(t, [Idle EXCEPT !.at = "dropping"])
        BY <2>4 DEF drop
      <3> QED
        BY <3>1, <3>2, <3>3, OpensWhen
    <2>5. ASSUME NEW e \in Entities, delete_entity(t, e) PROVE Opens'
      <3> DEFINE q == [Idle EXCEPT !.at = "erasing", !.ids = Matching(e)]
      <3>1. /\ db' = db /\ ClientOf[t] = Writer /\ Matching(e) \in SUBSET Ids
            /\ task' = task \/ (db[Writer] /\ Go(t, q))
        <4>1. Matching(e) \in SUBSET Ids
          BY DEF Matching
        <4> QED
          BY <2>5, <4>1 DEF delete_entity
      <3>2. q \in Call /\ q.why = "" /\ q.at = "erasing"
        BY <3>1, Calls0 DEF Idle, Call, Position, Holding, Why
      <3> HIDE DEF q
      <3> QED
        BY <1>4, <3>1, <3>2, OpensWhen
    <2>6. CASE \E i \in Ids : get_by_id(t, i) \/ get_vectors_by_ids(t, i)
      <3>1. task[t].at \notin Holding /\ UNCHANGED db
        BY <2>6 DEF get_by_id, get_vectors_by_ids, Enter, Do, Holding
      <3>2. \E q : Go(t, q) /\ q.why = "" /\ q.at \in Reading
        <4>3. ASSUME NEW i \in Ids, get_by_id(t, i)
              PROVE  \E q : Go(t, q) /\ q.why = "" /\ q.at \in Reading
          <5> DEFINE p == [Idle EXCEPT !.at = "answered", !.got = View(ClientOf[t], i),
                             !.ids = {i}]
                     r == [Idle EXCEPT !.at = "reading", !.ids = {i}]
          <5>1. Go(t, p) \/ Go(t, r)
            BY <4>3 DEF get_by_id
          <5>2. p.why = "" /\ p.at = "answered" /\ r.why = "" /\ r.at = "reading"
            BY DEF Idle
          <5> HIDE DEF p, r
          <5> QED
            BY <5>1, <5>2 DEF Reading
        <4>4. ASSUME NEW i \in Ids, get_vectors_by_ids(t, i)
              PROVE  \E q : Go(t, q) /\ q.why = "" /\ q.at \in Reading
          <5> DEFINE d == docs[ClientOf[t]][i]
                     o == [Idle EXCEPT !.at = "caching", !.ids = {i}, !.want = d.c]
                     p == [Idle EXCEPT !.at = "answered", !.ids = {i}, !.got = d.v]
                     r == [Idle EXCEPT !.at = "vector", !.ids = {i}]
                     n == [Idle EXCEPT !.at = "answered", !.ids = {i}]
          <5>1. Go(t, n) \/ Go(t, o) \/ Go(t, p) \/ Go(t, r)
            BY <4>4 DEF get_vectors_by_ids
          <5>2. /\ o.why = "" /\ o.at = "caching" /\ p.why = "" /\ p.at = "answered"
                /\ r.why = "" /\ r.at = "vector" /\ n.why = "" /\ n.at = "answered"
            BY DEF Idle
          <5> HIDE DEF n, o, p, r
          <5> QED
            BY <5>1, <5>2 DEF Reading
        <4> QED
          BY <2>6, <4>3, <4>4
      <3>3. PICK q : Go(t, q) /\ q.why = "" /\ q.at \in Reading
        BY <3>2
      <3>4. q \in Call
        BY <3>3, TypesHold DEF Go, IInv, Types
      <3> QED
        BY <3>1, <3>3, <3>4, OpensWhen DEF Reading, Holding
    <2> QED
      BY <1>7, <2>1, <2>2, <2>3, <2>4, <2>5, <2>6 DEF Begin
  <1>8. ASSUME NEW t \in Tasks, Continue(t) PROVE Opens'
    <2>1. task[t].ids \in SUBSET Ids
      BY <1>1 DEF Call
    <2>2. CASE Embed(t)
      <3>1. /\ task[t].at \in Holding /\ db' = db /\ DOMAIN docs[ClientOf[t]] \in SUBSET Ids
            /\ \/ FlushRaises(t)
               \/ Go(t, [task[t] EXCEPT !.at = "upserting", !.ids = DOMAIN docs[ClientOf[t]]])
        BY <2>2, TypesHold DEF Embed, At, Holding, IInv
      <3> QED
        BY <1>5, <1>6, <3>1 DEF Position, Holding
    <2>3. CASE UpsertBatch(t) \/ DeleteBatch(t)
      <3>1. /\ task[t].at \in Holding /\ db' = db
            /\ \/ FlushRaises(t)
               \/ \E S \in SUBSET task[t].ids : Go(t, [task[t] EXCEPT !.ids = @ \ S])
        BY <2>3 DEF UpsertBatch, DeleteBatch, At, Holding
      <3>2. ASSUME NEW S PROVE [task[t] EXCEPT !.ids = @ \ S] = [task[t] EXCEPT !.ids = task[t].ids \ S]
        OBVIOUS
      <3>3. "idle" \in Position \ {"releasing"}
        BY DEF Position
      <3>4. ASSUME NEW S, Go(t, [task[t] EXCEPT !.ids = task[t].ids \ S]) PROVE Opens'
        <4>1. PICK X \in SUBSET Ids : X = task[t].ids \ S
          BY <2>1
        <4> QED
          BY <1>6, <3>1, <3>3, <3>4, <4>1
      <3> QED
        BY <1>5, <3>1, <3>2, <3>4
    <2>4. CASE UpsertsDone(t)
      <3>1. /\ task[t].at \in Holding /\ db' = db /\ dels[ClientOf[t]] \in SUBSET Ids
            /\ Go(t, [task[t] EXCEPT !.at = "deleting", !.ids = dels[ClientOf[t]]])
        BY <2>4, TypesHold DEF UpsertsDone, At, Holding, IInv
      <3> QED
        BY <1>6, <3>1 DEF Position, Holding
    <2>5. CASE FlushEnds(t)
      BY <1>5, <2>5 DEF FlushEnds
    <2>6. CASE Release(t) \/ PrunePending(t) \/ DropRows(t) \/ Return(t)
      BY <1>3, <2>6 DEF Release, PrunePending, DropRows, Return
    <2>7. CASE EraseRows(t)
      <3>1. /\ task[t].at \in Holding /\ db' = db
            /\ Go(t, Idle) \/ Go(t, [task[t] EXCEPT !.at = "pruning"])
        BY <2>7 DEF EraseRows, At, Holding
      <3> QED
        BY <1>3, <1>6, <3>1 DEF Position, Holding
    <2>8. CASE QueryRow(t) \/ QueryVector(t) \/ CacheVector(t)
      <3>1. db' = db /\ (Go(t, Idle) \/ AnswerAbsent(t) \/ \E g : Answer(t, g))
        BY <2>8 DEF QueryRow, QueryVector, CacheVector
      <3>3. ASSUME AnswerAbsent(t) PROVE Opens'
        BY <3>1, <3>3, AbsentAnswer, OpensWhen DEF Holding
      <3>2. ASSUME NEW g, Answer(t, g) PROVE Opens'
        <4> DEFINE q == [Idle EXCEPT !.at = "answered", !.want = task[t].want, !.got = g,
                                     !.ids = task[t].ids]
        <4>1. Go(t, q) /\ q.why = "" /\ q.at = "answered"
          BY <3>2 DEF Answer, Idle
        <4> HIDE DEF q
        <4>2. task'[t] = q /\ task'[t] \in Call
          BY <4>1, TypesHold DEF Go, IInv, Types
        <4> QED
          BY <3>1, <4>1, <4>2, OpensWhen DEF Holding
      <3> QED
        BY <1>3, <3>1, <3>2, <3>3
    <2> QED
      BY <1>8, <2>2, <2>3, <2>4, <2>5, <2>6, <2>7, <2>8 DEF Continue
  <1>9. ASSUME NEW c \in Clients, initialize(c) \/ Crash(c) PROVE Opens'
    <2>1. /\ db' = [db EXCEPT ![c] = TRUE]
          /\ \A t \in Tasks : task'[t] \in {task[t], Idle}
      BY <1>9 DEF initialize, Crash
    <2>2. db[Writer] => db'[Writer]
      BY <2>1 DEF IInv, Types, PgVectorAssumption
    <2>3. Idle.why # "finalize"
      BY <1>2
    <2> QED
      BY <1>2, <2>1, <2>2, <2>3 DEF Opens
  <1> QED
    BY <1>7, <1>8, <1>9 DEF Next

\* The client is there in the beginning, and nobody holds anything.
LEMMA OpensBegin == Init => Opens
  <1>1. Init => \A t \in Tasks : task[t] = Idle
    BY DEF Init
  <1>2. Idle.at \notin Holding /\ Idle.at # "releasing" /\ Idle.why # "finalize"
    BY DEF Idle, Holding
  <1> QED
    BY <1>1, <1>2 DEF Opens

\* The promise begins where the storage begins.
LEMMA PromiseBegins ==
    ASSUME PgVectorAssumption, Init
    PROVE  Promise!PromiseInit
  <1>1. /\ row = [i \in Ids |-> NoRow] /\ docs[Writer] = Nothing /\ dels[Writer] = {}
        /\ erasing[Writer] = {} /\ said[Writer] = "nothing"
    BY DEF Init, PgVectorAssumption
  <1>2. Contents = [i \in Ids |-> 0] /\ Buffered = Nothing
    BY <1>1, EmptyBuffers, Emptied DEF Contents, NoRow
  <1> QED
    BY <1>1, <1>2 DEF Promise!PromiseInit, Promise!Nothing, Nothing

\* PGVectorStorage implements VectorStorePromise: no buffered write is dropped silently,
\* and a flush that returns has put all of them on the server.  finalize is assumed to be
\* called when the worker has no other call in progress: it releases the client after its
\* own flush gave the lock back, and a flush that began in between would lose its client.
THEOREM PromiseIsKept ==
    ASSUME PgVectorAssumption, FinalizesAlone
    PROVE  Spec => KeepsPromise
  <1>1. Init => Opens
    BY OpensBegin
  <1>2. IInv /\ IInv' /\ Opens /\ [Next]_vars => Opens'
    <2>1. ASSUME Opens, UNCHANGED vars PROVE Opens'
      BY <2>1 DEF Opens, vars
    <2> QED
      BY <2>1, OpensStep
  <1>3. Init => Promise!PromiseInit
    BY PromiseBegins
  <1>4. IInv /\ Opens /\ [Next]_vars => [Promise!PromiseNext]_(Promise!promiseVars)
    <2>1. ASSUME UNCHANGED vars PROVE Promised
      BY <2>1, Quiet DEF vars
    <2> QED
      BY <2>1, PromiseStep DEF Promised
  <1> QED
    BY <1>1, <1>2, <1>3, <1>4, InvariantHolds, PTL DEF Spec, KeepsPromise, Promise!PromiseSpec

-----------------------------------------------------------------------------
(* The client *)

CONSTANTS Users, Attempts, PoolSize, ClientCalls, MaxPools, MaxBlips, MaxOutages, Signatures,
          ClientFaults
VARIABLES inst, mgr, pool, reconnect, ensured, pools, u, server

\* the PostgreSQLDB that the storages share, and its ClientManager
Client == INSTANCE PostgresClient WITH Calls <- ClientCalls, Faults <- ClientFaults

\* The client counts as everybody does.
LEMMA SameCount ==
    \A S : Client!Cardinality(S) = Cardinality(S) /\ (Client!IsFiniteSet(S) <=> IsFiniteSet(S))
BY DEF Client!Cardinality, Cardinality, Client!IsFiniteSet, IsFiniteSet

-----------------------------------------------------------------------------
(* The inductive invariant *)

\* What a user, the manager and the server remember.
User == [at : Client!Steps, db : Client!Dbs \cup {Client!Null}, tables : BOOLEAN,
          ensure : BOOLEAN, inner : BOOLEAN,
         attempt : 1..Attempts, creation : 1..Attempts, pool : Client!Pools \cup {Client!Null},
         conn : BOOLEAN, broken : BOOLEAN, done : Nat]

Instances == [db : Client!Dbs \cup {Client!Null}, ref : Nat,
          sig : {Signatures[x] : x \in Users} \cup {Client!Null}]

Server == [up : BOOLEAN, graph : BOOLEAN, blips : Nat, outages : Nat]

\* The variables have their types; without an object there are no settings.
ClientTypes ==
    /\ inst \in Instances /\ mgr \in Seq(Users) /\ server \in Server
    /\ pool \in [Client!Dbs -> Client!Pools \cup {Client!Null}]
    /\ pools \in [Client!Pools -> {"open", "closing", "closed"}]
    /\ ensured \in [Client!Dbs -> BOOLEAN] /\ u \in [Users -> User]
    /\ inst.db = Client!Null => inst.sig = Client!Null

\* Without a database object, and between its attempts.
Apart == {"out", "getting", "refused"}
Inside == {"creating", "resetting", "closing", "ensuring", "waiting", "configuring", "running"}

\* A user has a database object from get_client to release_client; one that checks the
\* tables is in initdb or in a call, and only a call has a connection.
Placed(v) ==
    /\ v.at \in Apart => v.db = Client!Null
    /\ v.at \notin Apart \cup {"failed"} => v.db # Client!Null
    /\ v.tables => v.at \in Inside
    /\ v.conn => v.at \in {"configuring", "running"}

\* The users that the reference count is about.
Counts(v) == v.db # Client!Null /\ ~v.tables /\ v.at # "draining"
Counted == {x \in Users : Counts(u[x])}

\* Who builds the shared object, or closes it, holds the lock of the manager; until the
\* first is done the manager has none, and while the last closes it, nobody else has it.
Managed ==
    \A x \in Users :
        /\ u[x].tables => Client!Holds(mgr, x) /\ inst.db = Client!Null
        /\ u[x].at = "draining" => Client!Holds(mgr, x) /\ inst.ref = 0 /\ inst.db = u[x].db

\* The manager has the object of every counted user, and counts them.
Shared ==
    /\ \A x \in Counted : inst.db = u[x].db
    /\ inst.ref = Cardinality(Counted)

\* The inductive invariant.
ClientIInv == ClientTypes /\ (\A x \in Users : Placed(u[x])) /\ Managed /\ Shared /\
          Client!EnsuredGraphExists

\* What a step does to the pools, the graph and the server.
Frame ==
    /\ pool' \in [Client!Dbs -> Client!Pools \cup {Client!Null}]
    /\ pools' \in [Client!Pools -> {"open", "closing", "closed"}]
    /\ ensured' \in [Client!Dbs -> BOOLEAN] /\ server' \in Server
    /\ Client!EnsuredGraphExists'

-----------------------------------------------------------------------------
(* Updates *)

\* The counted users are finitely many.
LEMMA CountedFinite ==
    ASSUME Client!ClientAssumption
    PROVE  IsFiniteSet(Counted) /\ Cardinality(Counted) \in Nat
  <1>1. IsFiniteSet(Users) /\ Counted \subseteq Users
    BY SameCount DEF Client!ClientAssumption, Counted
  <1> QED BY <1>1, FS_Subset, FS_CardinalityType

\* Nobody has the object.
LEMMA InitInv ==
    ASSUME Client!ClientAssumption, Client!Init
    PROVE  ClientIInv
  <1>1. /\ inst = [db |-> Client!Null, ref |-> 0, sig |-> Client!Null] /\ mgr = << >>
        /\ pool = [d \in Client!Dbs |-> Client!Null] /\ ensured = [d \in Client!Dbs |-> FALSE]
        /\ pools = [i \in Client!Pools |-> "closed"]
        /\ server = [up |-> TRUE, graph |-> FALSE, blips |-> 0, outages |-> 0]
    BY DEF Client!Init
  <1>2. \A x \in Users : /\ u[x] \in User /\ u[x].at = "out" /\ u[x].db = Client!Null
                         /\ ~u[x].tables /\ ~u[x].conn
    BY DEF Client!Init, User, Client!Steps, Client!ClientAssumption
  <1>3. u \in [Users -> User]
    BY <1>2 DEF Client!Init
  <1>4. inst \in Instances /\ server \in Server
    BY <1>1 DEF Instances, Server
  <1>5. ClientTypes
    BY <1>1, <1>3, <1>4 DEF ClientTypes
  <1>6. \A x \in Users : Placed(u[x])
    BY <1>2 DEF Placed, Apart
  <1>7. Managed
    BY <1>2 DEF Managed
  <1>8. Counted = {}
    BY <1>2 DEF Counted, Counts
  <1>9. Shared
    BY <1>1, <1>8, FS_EmptySet DEF Shared
  <1>10. Client!EnsuredGraphExists
    BY <1>1 DEF Client!EnsuredGraphExists
  <1> QED BY <1>5, <1>6, <1>7, <1>9, <1>10 DEF ClientIInv

\* Users that move without getting or giving up an object; others may queue.
LEMMA QuietInv ==
    ASSUME Client!ClientAssumption, ClientIInv, Frame, UNCHANGED inst,
           mgr' = mgr \/ \E x \in Users : mgr' = Append(mgr, x),
           u' \in [Users -> User], \A x \in Users : Placed(u'[x]),
           \A x \in Users : /\ u'[x].db = u[x].db /\ (u'[x].tables <=> u[x].tables)
                            /\ u'[x].at = "draining" <=> u[x].at = "draining"
    PROVE  ClientIInv'
  <1>1. /\ mgr \in Seq(Users) /\ mgr' \in Seq(Users)
        /\ \A x \in Users : Client!Holds(mgr, x) => Client!Holds(mgr', x)
    <2>1. mgr \in Seq(Users)
      BY DEF ClientIInv, ClientTypes
    <2>2. ASSUME NEW y \in Users, mgr' = Append(mgr, y)
          PROVE  mgr' \in Seq(Users) /\ \A x \in Users : Client!Holds(mgr, x) =>
                    Client!Holds(mgr', x)
      <3>1. mgr' \in Seq(Users) /\ mgr' # << >>
        BY <2>1, <2>2
      <3>2. mgr # << >> => Head(mgr') = Head(mgr)
        BY <2>1, <2>2
      <3> QED BY <3>1, <3>2 DEF Client!Holds
    <2> QED BY <2>1, <2>2 DEF Client!Holds
  <1>2. ClientTypes'
    BY <1>1 DEF ClientIInv, ClientTypes, Frame
  <1>3. Managed'
    BY <1>1 DEF ClientIInv, Managed
  <1>4. Counted' = Counted
    BY DEF Counted, Counts
  <1>5. Shared'
    BY <1>4 DEF ClientIInv, Shared, Counted
  <1> QED BY <1>2, <1>3, <1>5 DEF ClientIInv, Frame

\* One user that does.
LEMMA QuietStep ==
    ASSUME Client!ClientAssumption, ClientIInv, Frame, UNCHANGED inst, NEW x \in Users,
           NEW v \in User,
           mgr' = mgr \/ mgr' = Append(mgr, x), u' = [u EXCEPT ![x] = v], Placed(v),
           v.db = u[x].db, v.tables <=> u[x].tables, v.at # "draining", u[x].at # "draining"
    PROVE  ClientIInv'
  <1>1. u \in [Users -> User] /\ \A y \in Users : Placed(u[y])
    BY DEF ClientIInv, ClientTypes
  <1>2. /\ u' \in [Users -> User] /\ u'[x] = v /\ \A y \in Users : y # x => u'[y] = u[y]
    BY <1>1
  <1> QED BY <1>1, <1>2, QuietInv

\* An exception leaves get_client: the lock is free, the object was never shared.
LEMMA Left ==
    ASSUME Client!ClientAssumption, ClientIInv, Frame, UNCHANGED inst, NEW x \in Users,
           NEW v \in User,
           u[x].tables, mgr' = Tail(mgr), u' = [u EXCEPT ![x] = v],
           v.at = "failed", v.db = Client!Null, ~v.tables, ~v.conn
    PROVE  ClientIInv'
  <1>1. u \in [Users -> User] /\ mgr \in Seq(Users) /\ Client!Holds(mgr, x)
    BY DEF ClientIInv, ClientTypes, Managed
  <1>2. /\ u' \in [Users -> User] /\ u'[x] = v /\ \A y \in Users : y # x => u'[y] = u[y]
    BY <1>1
  <1>3. mgr' \in Seq(Users)
    BY <1>1 DEF Client!Holds
  <1>4. ClientTypes'
    BY <1>2, <1>3 DEF ClientIInv, ClientTypes, Frame
  <1>5. \A y \in Users : Placed(u[y])'
    BY <1>2 DEF ClientIInv, Placed, Apart
  <1>6. \A y \in Users : y # x => ~u[y].tables /\ u[y].at # "draining"
    BY <1>1 DEF ClientIInv, Managed, Client!Holds
  <1>7. Managed'
    BY <1>2, <1>6 DEF Managed
  <1>8. Counted' = Counted
    BY <1>2 DEF Counted, Counts
  <1>9. Shared'
    BY <1>2, <1>8 DEF ClientIInv, Shared, Counted, Counts
  <1> QED BY <1>4, <1>5, <1>7, <1>9 DEF ClientIInv, Frame

\* An exception ends a call, of get_client or of a storage.
LEMMA RaisedInv ==
    ASSUME Client!ClientAssumption, ClientIInv, Frame, UNCHANGED inst, NEW x \in Users,
           NEW w \in User,
           u[x].at \in Inside, w.db = u[x].db, w.tables <=> u[x].tables, Client!Raised(x, w)
    PROVE  ClientIInv'
  <1> DEFINE v == [w EXCEPT !.attempt = 1, !.creation = 1, !.pool = Client!Null, !.conn = FALSE,
                            !.broken = FALSE]
  <1>1. 1 \in 1..Attempts
    BY DEF Client!ClientAssumption
  <1>0. v \in User /\ v.db = u[x].db /\ (v.tables <=> w.tables) /\ ~v.conn
    <2>1. v \in User
      BY <1>1 DEF User
    <2>2. v.db = w.db
      BY DEF User
    <2>3. v.tables <=> w.tables
      BY DEF User
    <2>4. ~v.conn
      BY DEF User
    <2> QED BY <2>1, <2>2, <2>3, <2>4
  <1>2. CASE w.tables
    <2> DEFINE r == [v EXCEPT !.tables = FALSE, !.at = "failed", !.db = Client!Null]
    <2>1. mgr' = Tail(mgr) /\ u' = [u EXCEPT ![x] = r]
      BY <1>2 DEF Client!Raised
    <2> HIDE DEF v
    <2>2. r \in User
      BY <1>0 DEF User, Client!Steps
    <2>3. r.at = "failed" /\ r.db = Client!Null
      BY <1>0 DEF User
    <2>4. ~r.tables
      BY <1>0 DEF User
    <2>5. ~r.conn
      BY <1>0 DEF User
    <2> HIDE DEF r
    <2> QED BY <1>2, <2>1, <2>2, <2>3, <2>4, <2>5, Left
  <1>3. CASE ~w.tables
    <2> DEFINE r == [v EXCEPT !.at = "failed", !.done = @ + 1]
    <2>1. mgr' = mgr /\ u' = [u EXCEPT ![x] = r]
      BY <1>3 DEF Client!Raised
    <2> HIDE DEF v
    <2>2. r \in User
      <3> DEFINE n == [v EXCEPT !.at = "failed"]
      <3>1. n \in User
        BY <1>0 DEF User, Client!Steps
      <3>2. r = [n EXCEPT !.done = @ + 1]
        BY <1>0 DEF User
      <3> HIDE DEF n, r
      <3> QED BY <3>1, <3>2 DEF User
    <2>3. r.at = "failed" /\ r.db = u[x].db
      BY <1>0 DEF User
    <2>4. ~r.tables
      BY <1>0, <1>3 DEF User
    <2>5. ~r.conn
      BY <1>0 DEF User
    <2>6. Placed(r)
      BY <2>3, <2>4, <2>5 DEF Placed, Apart
    <2>7. u[x].at # "draining"
      BY DEF Inside
    <2> HIDE DEF r
    <2> QED BY <1>3, <2>1, <2>2, <2>3, <2>4, <2>6, <2>7, QuietStep
  <1> QED BY <1>2, <1>3

\* What the invariant says of one user.
LEMMA UserFacts ==
    ASSUME Client!ClientAssumption, ClientIInv, NEW x \in Users
    PROVE  /\ u \in [Users -> User] /\ u[x] \in User /\ Placed(u[x])
           /\ u[x].at \in {"creating", "resetting", "closing", "ensuring", "waiting"} =>
                 ~u[x].conn
           /\ u[x].at \in Inside => u[x].db \in Client!Dbs /\ u[x].at # "draining"
           /\ u[x].attempt \in 1..Attempts /\ Attempts \in Nat /\ 1 \in 1..Attempts
  <1>1. u \in [Users -> User] /\ Placed(u[x]) /\ Attempts \in Nat \ {0}
    BY DEF ClientIInv, ClientTypes, Client!ClientAssumption
  <1>2. u[x] \in User
    BY <1>1
  <1>3. u[x].db \in Client!Dbs \cup {Client!Null} /\ u[x].attempt \in 1..Attempts
    BY <1>2 DEF User
  <1> QED BY <1>1, <1>2, <1>3 DEF Placed, Inside, Apart

\* A call goes on.
LEMMA InsideStep ==
    ASSUME Client!ClientAssumption, ClientIInv, Frame, UNCHANGED inst, NEW x \in Users,
           NEW v \in User,
           mgr' = mgr, u' = [u EXCEPT ![x] = v], u[x].at \in Inside, v.at \in Inside,
           v.db = u[x].db, v.tables <=> u[x].tables,
           v.conn => v.at \in {"configuring", "running"}
    PROVE  ClientIInv'
  <1>1. u[x].db # Client!Null
    BY DEF ClientIInv, Placed, Inside, Apart
  <1>2. Placed(v) /\ v.at # "draining" /\ u[x].at # "draining"
    BY <1>1 DEF Placed, Inside, Apart
  <1> QED BY <1>2, QuietStep

\* A transient exception ends an attempt.
LEMMA TransientInv ==
    ASSUME Client!ClientAssumption, ClientIInv, Frame, UNCHANGED inst, NEW x \in Users,
           u[x].at \in {"waiting", "configuring", "running"}, Client!Transient(x)
    PROVE  ClientIInv'
  <1> DEFINE w == [u[x] EXCEPT !.conn = FALSE, !.broken = FALSE, !.pool = Client!Null,
                     !.inner = FALSE]
  <1>1. \/ /\ w.attempt < Attempts /\ mgr' = mgr
           /\ u' = [u EXCEPT ![x] = [[w EXCEPT !.attempt = @ + 1] EXCEPT !.at = "resetting"]]
        \/ Client!Raised(x, w)
    BY DEF Client!Transient, Client!BeforeSleep
  <1>2. u[x] \in User /\ Attempts \in Nat
    BY UserFacts
  <1>3a. w \in User
    BY <1>2 DEF User, Client!Steps
  <1>3b. w.db = u[x].db
    BY <1>2 DEF User
  <1>3c. w.tables <=> u[x].tables
    BY <1>2 DEF User
  <1>3e. ~w.conn
    BY <1>2 DEF User
  <1> HIDE DEF w
  <1>4. u[x].at \in Inside
    BY DEF Inside
  <1>5. CASE w.attempt < Attempts /\ mgr' = mgr
             /\ u' = [u EXCEPT ![x] = [[w EXCEPT !.attempt = @ + 1] EXCEPT !.at = "resetting"]]
    <2> DEFINE v == [[w EXCEPT !.attempt = @ + 1] EXCEPT !.at = "resetting"]
    <2>1. [w EXCEPT !.attempt = @ + 1] \in User
      BY <1>2, <1>3a, <1>5 DEF User
    <2>2a. v \in User
      BY <1>3a, <1>3b, <1>3c, <1>3e, <2>1 DEF User, Client!Steps
    <2>2b. v.db = u[x].db
      BY <1>3a, <1>3b, <1>3c, <1>3e, <2>1 DEF User
    <2>2c. v.tables <=> u[x].tables
      BY <1>3a, <1>3b, <1>3c, <1>3e, <2>1 DEF User
    <2>2d. v.at = "resetting"
      BY <1>3a, <1>3b, <1>3c, <1>3e, <2>1 DEF User
    <2>2e. ~v.conn
      BY <1>3a, <1>3b, <1>3c, <1>3e, <2>1 DEF User
    <2>3. v.at \in Inside
      BY <2>2d DEF Inside
    <2> HIDE DEF v
    <2>4. u' = [u EXCEPT ![x] = v]
      BY <1>5 DEF v
    <2> QED BY <1>4, <1>5, <2>2a, <2>2b, <2>2c, <2>2e, <2>3, <2>4, InsideStep
  <1> QED BY <1>1, <1>3a, <1>3b, <1>3c, <1>4, <1>5, RaisedInv

\* The pools, the graph and the server stay.
LEMMA SameFrame ==
    ASSUME ClientIInv, UNCHANGED <<pool, ensured, pools, server>>
    PROVE  Frame
  BY DEF Frame, ClientIInv, ClientTypes, Client!EnsuredGraphExists

-----------------------------------------------------------------------------
(* Calls: _run_with_retry, _ensure_pool, initdb, _reset_pool *)

\* storage.initialize queues for the manager.
LEMMA InitializeInv ==
    ASSUME Client!ClientAssumption, ClientIInv, NEW x \in Users, Client!Initialize(x)
    PROVE  ClientIInv'
  <1> DEFINE v == [u[x] EXCEPT !.at = "getting"]
  <1>1. /\ u[x].at = "out" /\ mgr' = Append(mgr, x) /\ UNCHANGED inst
        /\ u' = [u EXCEPT ![x].at = "getting"] /\ UNCHANGED <<pool, ensured, pools, server>>
    BY DEF Client!Initialize
  <1>2. u[x] \in User /\ u \in [Users -> User] /\ Placed(u[x])
    BY UserFacts
  <1>3. u' = [u EXCEPT ![x] = v]
    BY <1>1, <1>2
  <1>4a. v \in User
    BY <1>2 DEF User, Client!Steps
  <1>4b. v.db = u[x].db
    BY <1>2 DEF User
  <1>4c. v.tables <=> u[x].tables
    BY <1>2 DEF User
  <1>4d. v.at = "getting"
    BY <1>2 DEF User
  <1>4e. v.conn <=> u[x].conn
    BY <1>2 DEF User
  <1> HIDE DEF v
  <1>5. Placed(v)
    BY <1>1, <1>2, <1>4b, <1>4c, <1>4d, <1>4e DEF Placed, Apart, Inside
  <1>6. Frame
    BY <1>1, SameFrame
  <1> QED BY <1>1, <1>3, <1>4a, <1>4b, <1>4c, <1>4d, <1>5, <1>6, QuietStep

\* So does storage.finalize.
LEMMA LeaveInv ==
    ASSUME Client!ClientAssumption, ClientIInv, NEW x \in Users, Client!Leave(x)
    PROVE  ClientIInv'
  <1> DEFINE v == [u[x] EXCEPT !.at = "leaving"]
  <1>1. /\ u[x].at = "member" /\ mgr' = Append(mgr, x) /\ UNCHANGED inst
        /\ u' = [u EXCEPT ![x].at = "leaving"] /\ UNCHANGED <<pool, ensured, pools, server>>
    BY DEF Client!Leave
  <1>2. u[x] \in User /\ u \in [Users -> User] /\ Placed(u[x])
    BY UserFacts
  <1>3. u' = [u EXCEPT ![x] = v]
    BY <1>1, <1>2
  <1>4a. v \in User
    BY <1>2 DEF User, Client!Steps
  <1>4b. v.db = u[x].db
    BY <1>2 DEF User
  <1>4c. v.tables <=> u[x].tables
    BY <1>2 DEF User
  <1>4d. v.at = "leaving"
    BY <1>2 DEF User
  <1>4e. v.conn <=> u[x].conn
    BY <1>2 DEF User
  <1> HIDE DEF v
  <1>5. Placed(v)
    BY <1>1, <1>2, <1>4b, <1>4c, <1>4d, <1>4e DEF Placed, Apart, Inside
  <1>6. Frame
    BY <1>1, SameFrame
  <1> QED BY <1>1, <1>3, <1>4a, <1>4b, <1>4c, <1>4d, <1>5, <1>6, QuietStep

\* A storage makes a call.
LEMMA CallInv ==
    ASSUME Client!ClientAssumption, ClientIInv, NEW x \in Users, Client!Call(x)
    PROVE  ClientIInv'
  <1> DEFINE v == [u[x] EXCEPT !.at = "ensuring"]
  <1>1. /\ u[x].at = "member" /\ mgr' = mgr /\ UNCHANGED inst
        /\ u' = [u EXCEPT ![x].at = "ensuring"] /\ UNCHANGED <<pool, ensured, pools, server>>
    BY DEF Client!Call
  <1>2. u[x] \in User /\ u \in [Users -> User] /\ Placed(u[x])
    BY UserFacts
  <1>3. u' = [u EXCEPT ![x] = v]
    BY <1>1, <1>2
  <1>4a. v \in User
    BY <1>2 DEF User, Client!Steps
  <1>4b. v.db = u[x].db
    BY <1>2 DEF User
  <1>4c. v.tables <=> u[x].tables
    BY <1>2 DEF User
  <1>4d. v.at = "ensuring"
    BY <1>2 DEF User
  <1>4e. v.conn <=> u[x].conn
    BY <1>2 DEF User
  <1> HIDE DEF v
  <1>5. Placed(v)
    BY <1>1, <1>2, <1>4b, <1>4c, <1>4d, <1>4e DEF Placed, Apart, Inside
  <1>6. Frame
    BY <1>1, SameFrame
  <1> QED BY <1>1, <1>3, <1>4a, <1>4b, <1>4c, <1>4d, <1>5, <1>6, QuietStep

\* The call asks the pool for a connection.
LEMMA QueueInv ==
    ASSUME Client!ClientAssumption, ClientIInv, Frame, UNCHANGED inst, NEW x \in Users,
           NEW w \in User, NEW q,
           u[x].at = "ensuring", w.at = "ensuring", w.db = u[x].db, w.tables <=> u[x].tables,
              ~w.conn,
           Client!Queue(x, w, q)
    PROVE  ClientIInv'
  <1>1. /\ u[x].at \in Inside /\ u[x].db \in Client!Dbs /\ Attempts \in Nat
        /\ pool[w.db] \in Client!Pools \cup {Client!Null}
    <2>1. u[x].at \in Inside
      BY DEF Inside
    <2> QED BY <2>1, UserFacts DEF ClientIInv, ClientTypes
  <1>2. CASE mgr' = mgr /\ u' = [u EXCEPT ![x] = [w EXCEPT !.at = "waiting", !.pool = pool[w.db]]]
    <2> DEFINE v == [w EXCEPT !.at = "waiting", !.pool = pool[w.db]]
    <2>1a. v \in User
      BY <1>1 DEF User, Client!Steps
    <2>1b. v.db = u[x].db
      BY <1>1 DEF User
    <2>1c. v.tables <=> u[x].tables
      BY <1>1 DEF User
    <2>1d. v.at = "waiting"
      BY <1>1 DEF User
    <2>1e. ~v.conn
      BY <1>1 DEF User
    <2>2. v.at \in Inside
      BY <2>1d DEF Inside
    <2>3. u' = [u EXCEPT ![x] = v]
      BY <1>2
    <2> HIDE DEF v
    <2> QED BY <1>1, <1>2, <2>1a, <2>1b, <2>1c, <2>1e, <2>2, <2>3, InsideStep
  <1>3. CASE /\ w.attempt < Attempts /\ mgr' = mgr
             /\ u' = [u EXCEPT ![x] = [w EXCEPT !.at = "resetting", !.attempt = @ + 1]]
    <2> DEFINE v == [w EXCEPT !.at = "resetting", !.attempt = @ + 1]
    <2>0. w.attempt + 1 \in 1..Attempts
      BY <1>1, <1>3 DEF User
    <2>1a. v \in User
      BY <2>0 DEF User, Client!Steps
    <2>1b. v.db = u[x].db
      BY <2>0 DEF User
    <2>1c. v.tables <=> u[x].tables
      BY <2>0 DEF User
    <2>1d. v.at = "resetting"
      BY <2>0 DEF User
    <2>1e. ~v.conn
      BY <2>0 DEF User
    <2>2. v.at \in Inside
      BY <2>1d DEF Inside
    <2>3. u' = [u EXCEPT ![x] = v]
      BY <1>3
    <2> HIDE DEF v
    <2> QED BY <1>1, <1>3, <2>1a, <2>1b, <2>1c, <2>1e, <2>2, <2>3, InsideStep
  <1>4. CASE Client!Raised(x, w)
    BY <1>1, <1>4, RaisedInv
  <1> QED BY <1>2, <1>3, <1>4 DEF Client!Queue

\* _ensure_pool finds a pool, waits for the lock or makes one.
LEMMA EnsurePoolInv ==
    ASSUME Client!ClientAssumption, ClientIInv, NEW x \in Users, Client!EnsurePool(x)
    PROVE  ClientIInv'
  <1>1. /\ u[x].at = "ensuring" /\ UNCHANGED inst
        /\ UNCHANGED <<pool, ensured, pools, server>>
        /\ \/ Client!Queue(x, u[x], reconnect[Client!Db(x)])
           \/ mgr' = mgr /\ u' = [u EXCEPT ![x].ensure = TRUE]
           \/ Client!Queue(x, [u[x] EXCEPT !.ensure = FALSE], Tail(reconnect[Client!Db(x)]))
           \/ mgr' = mgr /\ u' = [u EXCEPT ![x].at = "creating", ![x].creation = 1]
    BY DEF Client!EnsurePool
  <1>2. /\ u \in [Users -> User] /\ u[x] \in User /\ ~u[x].conn /\ 1 \in 1..Attempts
    BY <1>1, UserFacts
  <1>3. u[x].at \in Inside
    BY <1>1 DEF Inside
  <1>4. Frame
    BY <1>1, SameFrame
  <1>5. CASE Client!Queue(x, u[x], reconnect[Client!Db(x)])
    BY <1>1, <1>2, <1>4, <1>5, QueueInv
  <1>6. CASE mgr' = mgr /\ u' = [u EXCEPT ![x].ensure = TRUE]
    <2> DEFINE v == [u[x] EXCEPT !.ensure = TRUE]
    <2>1a. v \in User
      BY <1>1, <1>2 DEF User, Client!Steps
    <2>1b. v.db = u[x].db
      BY <1>1, <1>2 DEF User
    <2>1c. v.tables <=> u[x].tables
      BY <1>1, <1>2 DEF User
    <2>1d. v.at = "ensuring"
      BY <1>1, <1>2 DEF User
    <2>1e. ~v.conn
      BY <1>1, <1>2 DEF User
    <2>2. v.at \in Inside
      BY <2>1d DEF Inside
    <2>3. u' = [u EXCEPT ![x] = v]
      BY <1>2, <1>6
    <2> HIDE DEF v
    <2> QED BY <1>1, <1>3, <1>4, <1>6, <2>1a, <2>1b, <2>1c, <2>1e, <2>2, <2>3, InsideStep
  <1>7. CASE Client!Queue(x, [u[x] EXCEPT !.ensure = FALSE], Tail(reconnect[Client!Db(x)]))
    <2> DEFINE w == [u[x] EXCEPT !.ensure = FALSE]
    <2>1a. w \in User
      BY <1>1, <1>2 DEF User, Client!Steps
    <2>1b. w.db = u[x].db
      BY <1>1, <1>2 DEF User
    <2>1c. w.tables <=> u[x].tables
      BY <1>1, <1>2 DEF User
    <2>1d. w.at = "ensuring"
      BY <1>1, <1>2 DEF User
    <2>1e. ~w.conn
      BY <1>1, <1>2 DEF User
    <2>2. Client!Queue(x, w, Tail(reconnect[Client!Db(x)]))
      BY <1>7
    <2> HIDE DEF w
    <2> QED BY <1>1, <1>4, <2>1a, <2>1b, <2>1c, <2>1d, <2>1e, <2>2, QueueInv
  <1>8. CASE mgr' = mgr /\ u' = [u EXCEPT ![x].at = "creating", ![x].creation = 1]
    <2> DEFINE v == [u[x] EXCEPT !.at = "creating", !.creation = 1]
    <2>1a. v \in User
      BY <1>2 DEF User, Client!Steps
    <2>1b. v.db = u[x].db
      BY <1>2 DEF User
    <2>1c. v.tables <=> u[x].tables
      BY <1>2 DEF User
    <2>1d. v.at = "creating"
      BY <1>2 DEF User
    <2>1e. ~v.conn
      BY <1>2 DEF User
    <2>2. v.at \in Inside
      BY <2>1d DEF Inside
    <2>3. u' = [u EXCEPT ![x] = v]
      BY <1>2, <1>8
    <2> HIDE DEF v
    <2> QED BY <1>1, <1>3, <1>4, <1>8, <2>1a, <2>1b, <2>1c, <2>1e, <2>2, <2>3, InsideStep
  <1> QED BY <1>1, <1>5, <1>6, <1>7, <1>8

\* A pool is made.
LEMMA CreatePoolInv ==
    ASSUME Client!ClientAssumption, ClientIInv, NEW x \in Users, Client!CreatePool(x)
    PROVE  ClientIInv'
  <1> DEFINE n == CHOOSE i \in Client!Unused : TRUE
  <1>1. /\ u[x].at = "creating" /\ Client!Unused # {} /\ mgr' = mgr
        /\ UNCHANGED <<inst, ensured, server>>
        /\ pools' = [pools EXCEPT ![n] = "open"] /\ pool' = [pool EXCEPT ![Client!Db(x)] = n]
        /\ \/ u' = [u EXCEPT ![x].at = "configuring", ![x].conn = TRUE, ![x].ensure = FALSE,
                             ![x].pool = n]
           \/ u' = [u EXCEPT ![x].at = "ensuring"]
    BY DEF Client!CreatePool
  <1>2. n \in Client!Pools
    BY <1>1 DEF Client!Unused
  <1> HIDE DEF n
  <1>3. /\ u \in [Users -> User] /\ u[x] \in User /\ ~u[x].conn
    BY <1>1, UserFacts
  <1>4. u[x].at \in Inside
    BY <1>1 DEF Inside
  <1>5. Frame
    BY <1>1, <1>2 DEF Frame, ClientIInv, ClientTypes, Client!EnsuredGraphExists
  <1>6. CASE u' = [u EXCEPT ![x].at = "configuring", ![x].conn = TRUE, ![x].ensure = FALSE,
                            ![x].pool = n]
    <2> DEFINE v == [u[x] EXCEPT !.at = "configuring", !.conn = TRUE, !.ensure = FALSE,
                                 !.pool = n]
    <2>1a. v \in User
      BY <1>2, <1>3 DEF User, Client!Steps
    <2>1b. v.db = u[x].db
      BY <1>2, <1>3 DEF User
    <2>1c. v.tables <=> u[x].tables
      BY <1>2, <1>3 DEF User
    <2>1d. v.at = "configuring"
      BY <1>2, <1>3 DEF User
    <2>2. v.at \in Inside
      BY <2>1d DEF Inside
    <2>3. u' = [u EXCEPT ![x] = v]
      BY <1>3, <1>6
    <2> HIDE DEF v
    <2> QED BY <1>1, <1>4, <1>5, <2>1a, <2>1b, <2>1c, <2>1d, <2>2, <2>3, InsideStep
  <1>7. CASE u' = [u EXCEPT ![x].at = "ensuring"]
    <2> DEFINE v == [u[x] EXCEPT !.at = "ensuring"]
    <2>1a. v \in User
      BY <1>3 DEF User, Client!Steps
    <2>1b. v.db = u[x].db
      BY <1>3 DEF User
    <2>1c. v.tables <=> u[x].tables
      BY <1>3 DEF User
    <2>1d. v.at = "ensuring"
      BY <1>3 DEF User
    <2>1e. ~v.conn
      BY <1>3 DEF User
    <2>2. v.at \in Inside
      BY <2>1d DEF Inside
    <2>3. u' = [u EXCEPT ![x] = v]
      BY <1>3, <1>7
    <2> HIDE DEF v
    <2> QED BY <1>1, <1>4, <1>5, <2>1a, <2>1b, <2>1c, <2>1e, <2>2, <2>3, InsideStep
  <1> QED BY <1>1, <1>6, <1>7

\* It is not: initdb tries again, or raises.
LEMMA CreateFailsInv ==
    ASSUME Client!ClientAssumption, ClientIInv, NEW x \in Users, Client!CreateFails(x)
    PROVE  ClientIInv'
  <1> DEFINE w == [u[x] EXCEPT !.creation = 1, !.ensure = FALSE]
  <1>1. /\ u[x].at = "creating" /\ UNCHANGED inst /\ UNCHANGED <<pool, ensured, pools, server>>
        /\ \/ /\ u[x].creation < Attempts /\ mgr' = mgr
              /\ u' = [u EXCEPT ![x] = [[u[x] EXCEPT !.creation = @ + 1, !.inner = TRUE]
                                          EXCEPT !.at = "resetting"]]
           \/ Client!Raised(x, u[x])
           \/ /\ w.attempt < Attempts /\ mgr' = mgr
              /\ u' = [u EXCEPT ![x] = [w EXCEPT !.attempt = @ + 1, !.at = "resetting"]]
           \/ Client!Raised(x, w)
    BY DEF Client!CreateFails, Client!BeforeSleep
  <1>2. /\ u \in [Users -> User] /\ u[x] \in User /\ ~u[x].conn /\ 1 \in 1..Attempts
        /\ Attempts \in Nat
    BY <1>1, UserFacts
  <1>3. u[x].at \in Inside
    BY <1>1 DEF Inside
  <1>4. Frame
    BY <1>1, SameFrame
  <1>5a. w \in User
    BY <1>1, <1>2 DEF User, Client!Steps
  <1>5b. w.db = u[x].db
    BY <1>1, <1>2 DEF User
  <1>5c. w.tables <=> u[x].tables
    BY <1>1, <1>2 DEF User
  <1>5d. w.at = "creating"
    BY <1>1, <1>2 DEF User
  <1>5e. ~w.conn
    BY <1>1, <1>2 DEF User
  <1> HIDE DEF w
  <1>6. CASE /\ u[x].creation < Attempts /\ mgr' = mgr
             /\ u' = [u EXCEPT ![x] = [[u[x] EXCEPT !.creation = @ + 1, !.inner = TRUE]
                                         EXCEPT !.at = "resetting"]]
    <2> DEFINE v == [[u[x] EXCEPT !.creation = @ + 1, !.inner = TRUE] EXCEPT !.at = "resetting"]
    <2>0. u[x].creation + 1 \in 1..Attempts
      BY <1>2, <1>6 DEF User
    <2>1a. v \in User
      BY <1>2, <2>0 DEF User, Client!Steps
    <2>1b. v.db = u[x].db
      BY <1>2, <2>0 DEF User
    <2>1c. v.tables <=> u[x].tables
      BY <1>2, <2>0 DEF User
    <2>1d. v.at = "resetting"
      BY <1>2, <2>0 DEF User
    <2>1e. ~v.conn
      BY <1>2, <2>0 DEF User
    <2>2. v.at \in Inside
      BY <2>1d DEF Inside
    <2>3. u' = [u EXCEPT ![x] = v]
      BY <1>6
    <2> HIDE DEF v
    <2> QED BY <1>1, <1>3, <1>4, <1>6, <2>1a, <2>1b, <2>1c, <2>1e, <2>2, <2>3, InsideStep
  <1>7. CASE Client!Raised(x, u[x])
    BY <1>1, <1>2, <1>3, <1>4, <1>7, RaisedInv
  <1>8. CASE /\ w.attempt < Attempts /\ mgr' = mgr
             /\ u' = [u EXCEPT ![x] = [w EXCEPT !.attempt = @ + 1, !.at = "resetting"]]
    <2> DEFINE v == [w EXCEPT !.attempt = @ + 1, !.at = "resetting"]
    <2>0. w.attempt + 1 \in 1..Attempts
      BY <1>2, <1>5a, <1>8 DEF User
    <2>1a. v \in User
      BY <1>5a, <1>5b, <1>5c, <1>5e, <2>0 DEF User, Client!Steps
    <2>1b. v.db = u[x].db
      BY <1>5a, <1>5b, <1>5c, <1>5e, <2>0 DEF User
    <2>1c. v.tables <=> u[x].tables
      BY <1>5a, <1>5b, <1>5c, <1>5e, <2>0 DEF User
    <2>1d. v.at = "resetting"
      BY <1>5a, <1>5b, <1>5c, <1>5e, <2>0 DEF User
    <2>1e. ~v.conn
      BY <1>5a, <1>5b, <1>5c, <1>5e, <2>0 DEF User
    <2>2. v.at \in Inside
      BY <2>1d DEF Inside
    <2>3. u' = [u EXCEPT ![x] = v]
      BY <1>8
    <2> HIDE DEF v
    <2> QED BY <1>1, <1>3, <1>4, <1>8, <2>1a, <2>1b, <2>1c, <2>1e, <2>2, <2>3, InsideStep
  <1>9. CASE Client!Raised(x, w)
    BY <1>1, <1>3, <1>4, <1>5a, <1>5b, <1>5c, <1>9, RaisedInv
  <1> QED BY <1>1, <1>6, <1>7, <1>8, <1>9

\* After a reset the attempt goes on.
LEMMA AfterResetFacts ==
    ASSUME Client!ClientAssumption, ClientIInv, NEW x \in Users,
           u[x].at \in {"resetting", "closing"}
    PROVE  /\ Client!AfterReset(u[x]) \in User /\ Client!AfterReset(u[x]).at \in Inside
           /\ Client!AfterReset(u[x]).at # "draining"
           /\ Client!AfterReset(u[x]).db = u[x].db
           /\ (Client!AfterReset(u[x]).tables <=> u[x].tables)
           /\ ~Client!AfterReset(u[x]).conn
  <1>1. u[x] \in User /\ ~u[x].conn
    BY UserFacts
  <1> DEFINE v == Client!AfterReset(u[x])
  <1>2a. v \in User
    BY <1>1 DEF User, Client!AfterReset, Client!Steps
  <1>2b. v.db = u[x].db
    BY <1>1 DEF User, Client!AfterReset
  <1>2c. v.tables <=> u[x].tables
    BY <1>1 DEF User, Client!AfterReset
  <1>2e. ~v.conn
    BY <1>1 DEF User, Client!AfterReset
  <1>3. v.at \in {"creating", "ensuring"}
    BY <1>1 DEF User, Client!AfterReset
  <1> HIDE DEF v
  <1>4. v.at \in Inside /\ v.at # "draining"
    BY <1>3 DEF Inside
  <1> QED BY <1>2a, <1>2b, <1>2c, <1>2e, <1>4 DEF v

\* A reset starts to close the pool,
LEMMA ResetPoolInv ==
    ASSUME Client!ClientAssumption, ClientIInv, NEW x \in Users, Client!ResetPool(x)
    PROVE  ClientIInv'
  <1>1. /\ u[x].at = "resetting" /\ mgr' = mgr /\ UNCHANGED <<inst, pool, ensured, server>>
        /\ \/ u' = [u EXCEPT ![x] = Client!AfterReset(u[x])] /\ pools' = pools
           \/ /\ pool[Client!Db(x)] # Client!Null
              /\ u' = [u EXCEPT ![x].at = "closing", ![x].pool = pool[Client!Db(x)]]
              /\ pools' = [pools EXCEPT ![pool[Client!Db(x)]] = "closing"]
    BY DEF Client!ResetPool
  <1>2. u \in [Users -> User] /\ u[x] \in User /\ ~u[x].conn
    BY <1>1, UserFacts
  <1>3. u[x].at \in Inside
    BY <1>1 DEF Inside
  <1>4. pool[Client!Db(x)] \in Client!Pools \cup {Client!Null}
    BY <1>3, UserFacts DEF ClientIInv, ClientTypes, Client!Db
  <1>5. Frame
    BY <1>1, <1>4 DEF Frame, ClientIInv, ClientTypes, Client!EnsuredGraphExists
  <1>6. CASE u' = [u EXCEPT ![x] = Client!AfterReset(u[x])]
    BY <1>1, <1>3, <1>5, <1>6, AfterResetFacts, InsideStep
  <1>7. CASE u' = [u EXCEPT ![x].at = "closing", ![x].pool = pool[Client!Db(x)]]
    <2> DEFINE v == [u[x] EXCEPT !.at = "closing", !.pool = pool[Client!Db(x)]]
    <2>1a. v \in User
      BY <1>2, <1>4 DEF User, Client!Steps
    <2>1b. v.db = u[x].db
      BY <1>2, <1>4 DEF User
    <2>1c. v.tables <=> u[x].tables
      BY <1>2, <1>4 DEF User
    <2>1d. v.at = "closing"
      BY <1>2, <1>4 DEF User
    <2>1e. ~v.conn
      BY <1>2, <1>4 DEF User
    <2>2. v.at \in Inside
      BY <2>1d DEF Inside
    <2>3. u' = [u EXCEPT ![x] = v]
      BY <1>2, <1>7
    <2> HIDE DEF v
    <2> QED BY <1>1, <1>3, <1>5, <2>1a, <2>1b, <2>1c, <2>1e, <2>2, <2>3, InsideStep
  <1> QED BY <1>1, <1>6, <1>7

\* (a connection breaks and its user stays where it is)
LEMMA BrokenFacts ==
    ASSUME NEW v \in User, Placed(v), NEW b \in BOOLEAN
    PROVE  /\ [v EXCEPT !.broken = b] \in User /\ Placed([v EXCEPT !.broken = b])
           /\ [v EXCEPT !.broken = b].db = v.db
           /\ [v EXCEPT !.broken = b].tables <=> v.tables
           /\ [v EXCEPT !.broken = b].at = v.at
  <1> DEFINE w == [v EXCEPT !.broken = b]
  <1>1. w \in User
    BY DEF User
  <1>2. w.db = v.db
    BY DEF User
  <1>3. w.tables <=> v.tables
    BY DEF User
  <1>4. w.at = v.at
    BY DEF User
  <1>5. w.conn <=> v.conn
    BY DEF User
  <1> HIDE DEF w
  <1>6. Placed(w)
    BY <1>2, <1>3, <1>4, <1>5 DEF Placed
  <1> QED BY <1>1, <1>2, <1>3, <1>4, <1>6 DEF w

\* and ends, with the connections of others broken if it took too long.
LEMMA PoolClosedInv ==
    ASSUME Client!ClientAssumption, ClientIInv, NEW x \in Users, Client!PoolClosed(x)
    PROVE  ClientIInv'
  <1> DEFINE B(y) == u[y].broken \/ y \in Client!Using(u[x].pool)
  <1>1. /\ u[x].at = "closing" /\ mgr' = mgr /\ UNCHANGED <<inst, ensured, server>>
        /\ pools' = [pools EXCEPT ![u[x].pool] = "closed"]
        /\ pool' = [pool EXCEPT ![Client!Db(x)] = Client!Null]
        /\ u' = [y \in Users |-> IF y = x THEN Client!AfterReset(u[x])
                                 ELSE [u[y] EXCEPT !.broken = B(y)]]
    BY DEF Client!PoolClosed
  <1>2. Frame
    BY <1>1 DEF Frame, ClientIInv, ClientTypes, Client!EnsuredGraphExists
  <1>3. /\ Client!AfterReset(u[x]) \in User /\ Client!AfterReset(u[x]).at \in Inside
        /\ Client!AfterReset(u[x]).at # "draining"
        /\ Client!AfterReset(u[x]).db = u[x].db /\ (Client!AfterReset(u[x]).tables <=>
              u[x].tables)
        /\ ~Client!AfterReset(u[x]).conn
    BY <1>1, AfterResetFacts
  <1>4. u[x].db # Client!Null
    BY <1>1 DEF ClientIInv, Placed, Apart
  <1>5. /\ u'[x] \in User /\ Placed(u'[x]) /\ u'[x].db = u[x].db
        /\ (u'[x].tables <=> u[x].tables) /\ u'[x].at # "draining" /\ u[x].at # "draining"
    <2>1. u'[x] = Client!AfterReset(u[x])
      BY <1>1
    <2>2. Placed(u'[x])
      BY <1>3, <1>4, <2>1 DEF Placed, Inside, Apart
    <2> QED BY <1>1, <1>3, <2>1, <2>2
  <1>6. ASSUME NEW y \in Users, y # x
        PROVE  /\ u'[y] \in User /\ Placed(u'[y]) /\ u'[y].db = u[y].db
               /\ (u'[y].tables <=> u[y].tables) /\ u'[y].at = u[y].at
    <2>1. u[y] \in User /\ Placed(u[y])
      BY UserFacts
    <2>2. u'[y] = [u[y] EXCEPT !.broken = B(y)]
      BY <1>1, <1>6
    <2>3. B(y) \in BOOLEAN
      OBVIOUS
    <2> HIDE DEF B
    <2> QED BY <2>1, <2>2, <2>3, BrokenFacts
  <1>7. u' \in [Users -> User]
    <2>1. \A y \in Users : u'[y] \in User
      BY <1>5, <1>6
    <2>2. \E f : u' = [y \in Users |-> f[y]]
      <3> DEFINE f == [y \in Users |-> IF y = x THEN Client!AfterReset(u[x])
                                       ELSE [u[y] EXCEPT !.broken = B(y)]]
      <3>1. u' = f
        BY <1>1
      <3>2. f = [y \in Users |-> f[y]]
        OBVIOUS
      <3> QED BY <3>1, <3>2
    <2> QED BY <2>1, <2>2
  <1> QED BY <1>1, <1>2, <1>5, <1>6, <1>7, QuietInv

\* The connection.
LEMMA AcquireInv ==
    ASSUME Client!ClientAssumption, ClientIInv, NEW x \in Users, Client!Acquire(x)
    PROVE  ClientIInv'
  <1>1. /\ u[x].at = "waiting" /\ UNCHANGED <<inst, pool, ensured, pools, server>>
        /\ \/ mgr' = mgr /\ u' = [u EXCEPT ![x].at = "configuring", ![x].conn = TRUE]
           \/ Client!Transient(x)
    BY DEF Client!Acquire
  <1>2. u \in [Users -> User] /\ u[x] \in User /\ u[x].at \in Inside
    BY <1>1, UserFacts DEF Inside
  <1>3. Frame
    BY <1>1, SameFrame
  <1>4. CASE mgr' = mgr /\ u' = [u EXCEPT ![x].at = "configuring", ![x].conn = TRUE]
    <2> DEFINE v == [u[x] EXCEPT !.at = "configuring", !.conn = TRUE]
    <2>1a. v \in User
      BY <1>2 DEF User, Client!Steps
    <2>1b. v.db = u[x].db
      BY <1>2 DEF User
    <2>1c. v.tables <=> u[x].tables
      BY <1>2 DEF User
    <2>1d. v.at = "configuring"
      BY <1>2 DEF User
    <2>2. v.at \in Inside
      BY <2>1d DEF Inside
    <2>3. u' = [u EXCEPT ![x] = v]
      BY <1>2, <1>4
    <2> HIDE DEF v
    <2> QED BY <1>1, <1>2, <1>3, <1>4, <2>1a, <2>1b, <2>1c, <2>1d, <2>2, <2>3, InsideStep
  <1>5. CASE Client!Transient(x)
    BY <1>1, <1>3, <1>5, TransientInv
  <1> QED BY <1>1, <1>4, <1>5

\* The graph is remembered after it was created, never before.
LEMMA ConfigureAgeInv ==
    ASSUME Client!ClientAssumption, ClientIInv, NEW x \in Users, Client!ConfigureAge(x)
    PROVE  ClientIInv'
  <1>1. /\ u[x].at = "configuring" /\ UNCHANGED <<inst, pool, pools>>
        /\ \/ mgr' = mgr /\ u' = [u EXCEPT ![x].at = "running"]
           \/ Client!Transient(x)
        /\ \/ UNCHANGED <<ensured, server>>
           \/ /\ ensured' = [ensured EXCEPT ![Client!Db(x)] = TRUE]
              /\ server' = [server EXCEPT !.graph = @ \/ ~ensured[Client!Db(x)]]
           \/ /\ ensured' = ensured
              /\ \E made \in BOOLEAN :
                    server' = [server EXCEPT !.graph = @ \/ (made /\ ~ensured[Client!Db(x)])]
    BY DEF Client!ConfigureAge
  <1>2. u \in [Users -> User] /\ u[x] \in User /\ u[x].at \in Inside
    BY <1>1, UserFacts DEF Inside
  <1>3. Client!Db(x) \in Client!Dbs
    BY <1>2, UserFacts DEF Client!Db
  <1>4. /\ server \in Server /\ ensured \in [Client!Dbs -> BOOLEAN]
        /\ \A d \in Client!Dbs : ensured[d] => server.graph
    BY DEF ClientIInv, ClientTypes, Client!EnsuredGraphExists
  <1>5. /\ ensured' \in [Client!Dbs -> BOOLEAN] /\ server' \in Server
        /\ \A d \in Client!Dbs : ensured'[d] => server'.graph
    <2>1. CASE UNCHANGED <<ensured, server>>
      BY <1>4, <2>1
    <2>2. CASE /\ ensured' = [ensured EXCEPT ![Client!Db(x)] = TRUE]
               /\ server' = [server EXCEPT !.graph = @ \/ ~ensured[Client!Db(x)]]
      <3>1. server' \in Server
        BY <1>3, <1>4, <2>2 DEF Server
      <3>2. server'.graph <=> (server.graph \/ ~ensured[Client!Db(x)])
        BY <1>4, <2>2 DEF Server
      <3>3. server'.graph
        BY <1>3, <1>4, <3>2
      <3> QED BY <1>3, <1>4, <2>2, <3>1, <3>3
    <2>3. CASE /\ ensured' = ensured
               /\ \E made \in BOOLEAN :
                     server' = [server EXCEPT !.graph = @ \/ (made /\ ~ensured[Client!Db(x)])]
      <3>1. PICK made \in BOOLEAN :
                     server' = [server EXCEPT !.graph = @ \/ (made /\ ~ensured[Client!Db(x)])]
        BY <2>3
      <3>2. server' \in Server
        BY <1>3, <1>4, <3>1 DEF Server
      <3>3. server.graph => server'.graph
        BY <1>4, <3>1 DEF Server
      <3> QED BY <1>4, <2>3, <3>2, <3>3
    <2> QED BY <1>1, <2>1, <2>2, <2>3
  <1>6. Frame
    BY <1>1, <1>5 DEF Frame, ClientIInv, ClientTypes, Client!EnsuredGraphExists
  <1>7. CASE mgr' = mgr /\ u' = [u EXCEPT ![x].at = "running"]
    <2> DEFINE v == [u[x] EXCEPT !.at = "running"]
    <2>1a. v \in User
      BY <1>2 DEF User, Client!Steps
    <2>1b. v.db = u[x].db
      BY <1>2 DEF User
    <2>1c. v.tables <=> u[x].tables
      BY <1>2 DEF User
    <2>1d. v.at = "running"
      BY <1>2 DEF User
    <2>2. v.at \in Inside
      BY <2>1d DEF Inside
    <2>3. u' = [u EXCEPT ![x] = v]
      BY <1>2, <1>7
    <2> HIDE DEF v
    <2> QED BY <1>1, <1>2, <1>6, <1>7, <2>1a, <2>1b, <2>1c, <2>1d, <2>2, <2>3, InsideStep
  <1>8. CASE Client!Transient(x)
    BY <1>1, <1>6, <1>8, TransientInv
  <1> QED BY <1>1, <1>7, <1>8

\* A storage goes on after an exception.
LEMMA GoOnInv ==
    ASSUME Client!ClientAssumption, ClientIInv, NEW x \in Users, Client!GoOn(x)
    PROVE  ClientIInv'
  <1> DEFINE step == IF Client!Db(x) = Client!Null THEN "out" ELSE "member"
             v == [u[x] EXCEPT !.at = step]
  <1>1. /\ u[x].at \in {"failed", "refused"} /\ UNCHANGED inst /\ mgr' = mgr
        /\ UNCHANGED <<pool, ensured, pools, server>>
        /\ u' = [u EXCEPT ![x].at = step]
    BY DEF Client!GoOn
  <1>2. u \in [Users -> User] /\ u[x] \in User /\ Placed(u[x])
    BY UserFacts
  <1>3. u' = [u EXCEPT ![x] = v]
    BY <1>1, <1>2
  <1>4. step \in Client!Steps /\ step \in {"out", "member"} /\
           (step = "out" <=> u[x].db = Client!Null)
    BY DEF Client!Steps, Client!Db
  <1> HIDE DEF step
  <1>5a. v \in User
    BY <1>2, <1>4 DEF User, Client!Steps
  <1>5b. v.db = u[x].db
    BY <1>2, <1>4 DEF User
  <1>5c. v.tables <=> u[x].tables
    BY <1>2, <1>4 DEF User
  <1>5e. v.conn <=> u[x].conn
    BY <1>2, <1>4 DEF User
  <1>5d. v.at = step
    BY <1>2 DEF User
  <1> HIDE DEF v
  <1>6. ~u[x].tables /\ ~u[x].conn
    BY <1>1, <1>2 DEF Placed, Inside
  <1>7. Placed(v)
    BY <1>4, <1>5b, <1>5c, <1>5d, <1>5e, <1>6 DEF Placed, Apart
  <1>8. v.at # "draining" /\ u[x].at # "draining"
    BY <1>1, <1>4, <1>5d
  <1>9. Frame
    BY <1>1, SameFrame
  <1> QED BY <1>1, <1>3, <1>5a, <1>5b, <1>5c, <1>7, <1>8, <1>9, QuietStep

-----------------------------------------------------------------------------
(* The server *)

\* Every connection in use breaks.
LEMMA BreakInv ==
    ASSUME Client!ClientAssumption, ClientIInv, Frame, UNCHANGED <<inst, mgr>>, Client!Break
    PROVE  ClientIInv'
  <1>1. u' = [x \in Users |-> [u[x] EXCEPT !.broken = u[x].broken \/ u[x].conn]]
    BY DEF Client!Break
  <1>2. ASSUME NEW y \in Users
        PROVE  /\ u'[y] \in User /\ Placed(u'[y]) /\ u'[y].db = u[y].db
               /\ (u'[y].tables <=> u[y].tables) /\ u'[y].at = u[y].at
    <2> DEFINE b == u[y].broken \/ u[y].conn
    <2>1. u[y] \in User /\ Placed(u[y])
      BY UserFacts
    <2>2. u'[y] = [u[y] EXCEPT !.broken = b]
      BY <1>1
    <2>3. b \in BOOLEAN
      OBVIOUS
    <2> HIDE DEF b
    <2> QED BY <2>1, <2>2, <2>3, BrokenFacts
  <1>3. u' \in [Users -> User]
    <2>1. \A y \in Users : [u[y] EXCEPT !.broken = u[y].broken \/ u[y].conn] \in User
      BY <1>1, <1>2
    <2> QED BY <1>1, <2>1
  <1> QED BY <1>2, <1>3, QuietInv

\* The server never loses the graph.
LEMMA ServerInv ==
    ASSUME Client!ClientAssumption, ClientIInv, Client!Blip \/ Client!Outage \/ Client!Recover
    PROVE  ClientIInv'
  <1>1. /\ UNCHANGED <<inst, mgr, pool, ensured, pools>>
        /\ Client!Break \/ u' = u
        /\ \/ server' = [server EXCEPT !.blips = @ + 1]
           \/ server' = [server EXCEPT !.outages = @ + 1, !.up = FALSE]
           \/ server' = [server EXCEPT !.up = TRUE]
    BY DEF Client!Blip, Client!Outage, Client!Recover
  <1>2. server \in Server
    BY DEF ClientIInv, ClientTypes
  <1>3. server' \in Server
    <2>1. CASE server' = [server EXCEPT !.blips = @ + 1]
      BY <1>2, <2>1 DEF Server
    <2>2. CASE server' = [server EXCEPT !.outages = @ + 1, !.up = FALSE]
      <3> DEFINE s == [server EXCEPT !.outages = @ + 1]
      <3>1. s \in Server
        BY <1>2 DEF Server
      <3>2. server' = [s EXCEPT !.up = FALSE]
        BY <1>2, <2>2 DEF Server
      <3> HIDE DEF s
      <3> QED BY <3>1, <3>2 DEF Server
    <2>3. CASE server' = [server EXCEPT !.up = TRUE]
      BY <1>2, <2>3 DEF Server
    <2> QED BY <1>1, <2>1, <2>2, <2>3
  <1>4. server'.graph = server.graph
    BY <1>1, <1>2 DEF Server
  <1>5. Frame
    BY <1>1, <1>3, <1>4 DEF Frame, ClientIInv, ClientTypes, Client!EnsuredGraphExists
  <1>6. CASE Client!Break
    BY <1>1, <1>5, <1>6, BreakInv
  <1>7. CASE u' = u
    <2>1. /\ u' \in [Users -> User] /\ \A x \in Users : Placed(u'[x])
      BY <1>7 DEF ClientIInv, ClientTypes
    <2> QED BY <1>1, <1>5, <1>7, <2>1, QuietInv
  <1> QED BY <1>1, <1>6, <1>7

-----------------------------------------------------------------------------
(* ClientManager *)

\* An object is not Null.
LEMMA NullApart ==
    ASSUME Client!ClientAssumption
    PROVE  \A d \in Client!Dbs : d # Client!Null
  <1>1. Cardinality(Users) \in Nat
    BY FS_CardinalityType, SameCount DEF Client!ClientAssumption
  <1> QED BY <1>1, SameCount DEF Client!Dbs, Client!Null

\* While one user holds the lock, nobody else builds or closes the object.
LEMMA Holder ==
    ASSUME Client!ClientAssumption, ClientIInv, NEW x \in Users, Client!Holds(mgr, x)
    PROVE  /\ Tail(mgr) \in Seq(Users)
           /\ \A y \in Users : y # x => ~u[y].tables /\ u[y].at # "draining"
  <1>1. mgr \in Seq(Users) /\ mgr # << >>
    BY DEF ClientIInv, ClientTypes, Client!Holds
  <1> QED BY <1>1 DEF ClientIInv, Managed, Client!Holds

\* One user moves: it is counted or not.
LEMMA CountedStep ==
    ASSUME NEW x \in Users, NEW v \in User, u \in [Users -> User], u' = [u EXCEPT ![x] = v]
    PROVE  Counted' = IF Counts(v) THEN Counted \cup {x} ELSE Counted \ {x}
  <1>1. u'[x] = v /\ \A y \in Users : y # x => u'[y] = u[y]
    OBVIOUS
  <1> QED BY <1>1 DEF Counted

\* The holder of the lock changes what is shared, and the count with it.
LEMMA HolderStep ==
    ASSUME Client!ClientAssumption, ClientIInv, Frame, NEW x \in Users, NEW v \in User,
           Client!Holds(mgr, x),
           u' = [u EXCEPT ![x] = v], Placed(v), mgr' = mgr \/ mgr' = Tail(mgr),
           inst' \in Instances, inst'.db = Client!Null => inst'.sig = Client!Null,
           v.tables => mgr' = mgr /\ inst'.db = Client!Null,
           v.at = "draining" => mgr' = mgr /\ inst'.ref = 0 /\ inst'.db = v.db,
           \A y \in Counted \ {x} : inst'.db = u[y].db,
           Counts(v) => inst'.db = v.db,
           inst'.ref = Cardinality(IF Counts(v) THEN Counted \cup {x} ELSE Counted \ {x})
    PROVE  ClientIInv'
  <1>1. u \in [Users -> User] /\ mgr \in Seq(Users)
    BY DEF ClientIInv, ClientTypes
  <1>2. u' \in [Users -> User] /\ u'[x] = v /\ \A y \in Users : y # x => u'[y] = u[y]
    BY <1>1
  <1>3. /\ Tail(mgr) \in Seq(Users)
        /\ \A y \in Users : y # x => ~u[y].tables /\ u[y].at # "draining"
    BY Holder
  <1>4. ClientTypes'
    BY <1>1, <1>2, <1>3 DEF ClientIInv, ClientTypes, Frame
  <1>5. \A y \in Users : Placed(u[y])'
    BY <1>2 DEF ClientIInv, Placed
  <1>6. Managed'
    BY <1>2, <1>3 DEF Managed, Client!Holds
  <1>7. Counted' = IF Counts(v) THEN Counted \cup {x} ELSE Counted \ {x}
    BY <1>1, CountedStep
  <1>8. Shared'
    <2>1. ASSUME NEW y \in Counted'
          PROVE  inst'.db = u'[y].db
      <3>1. CASE y = x
        BY <1>2, <1>7, <2>1, <3>1
      <3>2. CASE y # x
        BY <1>2, <1>7, <2>1, <3>2 DEF Counted
      <3> QED BY <3>1, <3>2
    <2>2. inst'.ref = Cardinality(Counted')
      BY <1>7
    <2> QED BY <2>1, <2>2 DEF Shared
  <1> QED BY <1>4, <1>5, <1>6, <1>8 DEF ClientIInv, Frame

\* Without a shared object nobody is counted.
LEMMA Unshared ==
    ASSUME Client!ClientAssumption, ClientIInv, inst.db = Client!Null
    PROVE  Counted = {}
  <1>1. \A y \in Counted : u[y].db # Client!Null /\ inst.db = u[y].db
    BY DEF ClientIInv, Shared, Counted, Counts
  <1> QED BY <1>1

\* The operation of a call; the tables' check publishes the object with its first user.
LEMMA OperateInv ==
    ASSUME Client!ClientAssumption, ClientIInv, NEW x \in Users, Client!Operate(x)
    PROVE  ClientIInv'
  <1>1. /\ u[x].at = "running" /\ UNCHANGED <<pool, ensured, pools, server>>
        /\ \/ Client!Returned(x, u[x])
           \/ Client!Transient(x) /\ UNCHANGED inst
           \/ Client!Raised(x, u[x]) /\ UNCHANGED inst
    BY DEF Client!Operate
  <1>2. /\ u \in [Users -> User] /\ u[x] \in User /\ u[x].at \in Inside /\ u[x].db \in Client!Dbs
        /\ u[x].db # Client!Null /\ 1 \in 1..Attempts
    <2>1. u[x].at \in Inside
      BY <1>1 DEF Inside
    <2> QED BY <2>1, UserFacts, NullApart
  <1>3. Frame
    BY <1>1, SameFrame
  <1>4. CASE Client!Transient(x) /\ UNCHANGED inst
    BY <1>1, <1>3, <1>4, TransientInv
  <1>5. CASE Client!Raised(x, u[x]) /\ UNCHANGED inst
    BY <1>2, <1>3, <1>5, RaisedInv
  <1>6. CASE Client!Returned(x, u[x])
    <2> DEFINE v == [u[x] EXCEPT !.at = "member", !.attempt = 1, !.pool = Client!Null,
                       !.conn = FALSE,
                                 !.broken = FALSE]
    <2>1a. v \in User
      BY <1>2 DEF User, Client!Steps
    <2>1b. v.db = u[x].db
      BY <1>2 DEF User
    <2>1c. v.tables <=> u[x].tables
      BY <1>2 DEF User
    <2>1d. v.at = "member"
      BY <1>2 DEF User
    <2>1e. ~v.conn
      BY <1>2 DEF User
    <2>2. \/ /\ u[x].tables /\ inst' = [db |-> u[x].db, ref |-> 1, sig |-> Signatures[x]]
             /\ mgr' = Tail(mgr) /\ u' = [u EXCEPT ![x] = [v EXCEPT !.tables = FALSE]]
          \/ /\ ~u[x].tables /\ u' = [u EXCEPT ![x] = [v EXCEPT !.done = @ + 1]]
             /\ UNCHANGED <<inst, mgr>>
      BY <1>6 DEF Client!Returned
    <2> HIDE DEF v
    <2>3. CASE /\ u[x].tables /\ inst' = [db |-> u[x].db, ref |-> 1, sig |-> Signatures[x]]
               /\ mgr' = Tail(mgr) /\ u' = [u EXCEPT ![x] = [v EXCEPT !.tables = FALSE]]
      <3> DEFINE r == [v EXCEPT !.tables = FALSE]
      <3>1a. r \in User
        BY <2>1a DEF User
      <3>1b. r.db = u[x].db
        BY <2>1a, <2>1b DEF User
      <3>1c. ~r.tables
        BY <2>1a DEF User
      <3>1d. r.at = "member"
        BY <2>1a, <2>1d DEF User
      <3>1e. ~r.conn
        BY <2>1a, <2>1e DEF User
      <3>2. u' = [u EXCEPT ![x] = r]
        BY <2>3
      <3> HIDE DEF r
      <3>3. Placed(r) /\ Counts(r)
        BY <1>2, <3>1b, <3>1c, <3>1d, <3>1e DEF Placed, Apart, Inside, Counts
      <3>4. Client!Holds(mgr, x) /\ inst.db = Client!Null
        BY <2>3 DEF ClientIInv, Managed
      <3>5. Counted = {}
        BY <3>4, Unshared
      <3>6. Cardinality(Counted \cup {x}) = 1
        BY <3>5, FS_Singleton
      <3>7. inst' \in Instances /\ inst'.db = u[x].db /\ inst'.ref = 1 /\ inst'.db # Client!Null
        BY <1>2, <2>3 DEF Instances
      <3> QED BY <1>3, <2>3, <3>1a, <3>1b, <3>1c, <3>1d, <3>2, <3>3, <3>4, <3>5, <3>6, <3>7,
                 HolderStep
    <2>4. CASE /\ ~u[x].tables /\ u' = [u EXCEPT ![x] = [v EXCEPT !.done = @ + 1]]
               /\ UNCHANGED <<inst, mgr>>
      <3> DEFINE r == [v EXCEPT !.done = @ + 1]
      <3>1a. r \in User
        BY <2>1a DEF User
      <3>1b. r.db = u[x].db
        BY <2>1a, <2>1b DEF User
      <3>1c. r.tables <=> u[x].tables
        BY <2>1a, <2>1c DEF User
      <3>1d. r.at = "member"
        BY <2>1a, <2>1d DEF User
      <3>1e. ~r.conn
        BY <2>1a, <2>1e DEF User
      <3>2. u' = [u EXCEPT ![x] = r]
        BY <2>4
      <3> HIDE DEF r
      <3>3. Placed(r) /\ r.at # "draining" /\ u[x].at # "draining"
        BY <1>1, <1>2, <2>4, <3>1b, <3>1c, <3>1d, <3>1e DEF Placed, Apart, Inside
      <3> QED BY <1>3, <2>4, <3>1a, <3>1b, <3>1c, <3>2, <3>3, QuietStep
    <2> QED BY <2>2, <2>3, <2>4
  <1> QED BY <1>1, <1>4, <1>5, <1>6

\* get_client builds an object, joins it, or refuses other settings.
LEMMA GetClientInv ==
    ASSUME Client!ClientAssumption, ClientIInv, NEW x \in Users, Client!GetClient(x)
    PROVE  ClientIInv'
  <1>1. u[x].at = "getting" /\ Client!Holds(mgr, x) /\ UNCHANGED <<server, pools>>
    BY DEF Client!GetClient
  <1>2. /\ u \in [Users -> User] /\ u[x] \in User /\ 1 \in 1..Attempts
    BY UserFacts
  <1>3. u[x].db = Client!Null /\ ~u[x].tables /\ ~u[x].conn /\ x \notin Counted
    BY <1>1, <1>2, UserFacts DEF Placed, Apart, Inside, Counted, Counts
  <1>4. /\ Tail(mgr) \in Seq(Users)
        /\ \A y \in Users : y # x => ~u[y].tables /\ u[y].at # "draining"
    BY <1>1, Holder
  <1>5. /\ inst \in Instances /\ IsFiniteSet(Counted) /\ Cardinality(Counted) \in Nat
        /\ inst.ref = Cardinality(Counted) /\ \A y \in Counted : inst.db = u[y].db
        /\ inst.db = Client!Null => inst.sig = Client!Null
    BY CountedFinite DEF ClientIInv, ClientTypes, Shared
  <1>6. CASE inst.db = Client!Null /\ UNCHANGED <<inst, mgr>>
    <2> DEFINE d == CHOOSE e \in Client!Dbs : \A y \in Users : u[y].db # e
               v == [u[x] EXCEPT !.at = "creating", !.db = d, !.tables = TRUE, !.creation = 1]
    <2>1. Counted = {}
      BY <1>6, Unshared
    <2>2. \A y \in Users : u[y].db = Client!Null
      <3>1. ASSUME NEW y \in Users, u[y].db # Client!Null
            PROVE  FALSE
        <4>1. y # x
          BY <1>3, <3>1
        <4>2. y \in Counted
          BY <1>4, <3>1, <4>1 DEF Counted, Counts
        <4> QED BY <2>1, <4>2
      <3> QED BY <3>1
    <2>3. d \in Client!Dbs
      <3>1. IsFiniteSet(Users) /\ Users # {}
        BY SameCount DEF Client!ClientAssumption
      <3>2. Cardinality(Users) \in Nat /\ Cardinality(Users) # 0
        BY <3>1, FS_CardinalityType, FS_EmptySet
      <3>3. 1 \in Client!Dbs
        BY <3>2, SameCount DEF Client!Dbs
      <3> QED BY <2>2, <3>3 DEF Client!Null
    <2>4. /\ u' = [u EXCEPT ![x].at = "creating", ![x].db = d, ![x].tables = TRUE,
                            ![x].creation = 1]
          /\ pool' = [pool EXCEPT ![d] = Client!Null] /\ ensured' = [ensured EXCEPT ![d] = FALSE]
      BY <1>6 DEF Client!GetClient
    <2>5. d # Client!Null
      BY <2>3, NullApart
    <2> HIDE DEF d
    <2>6a. v \in User
      BY <1>2, <2>3 DEF User, Client!Steps
    <2>6b. v.db = d
      BY <1>2 DEF User
    <2>6c. v.tables
      BY <1>2 DEF User
    <2>6d. v.at = "creating"
      BY <1>2 DEF User
    <2>6e. v.conn <=> u[x].conn
      BY <1>2 DEF User
    <2>7. u' = [u EXCEPT ![x] = v]
      BY <1>2, <2>4
    <2> HIDE DEF v
    <2>8. Placed(v) /\ ~Counts(v) /\ v.at # "draining"
      BY <1>3, <2>5, <2>6b, <2>6c, <2>6d, <2>6e DEF Placed, Apart, Inside, Counts
    <2>9. Frame
      <3>1. server' = server /\ pools' = pools
        BY <1>1
      <3> QED BY <2>3, <2>4, <3>1 DEF Frame, ClientIInv, ClientTypes, Client!EnsuredGraphExists
    <2>10. Counted \ {x} = {} /\ Cardinality(Counted) = 0
      BY <2>1, FS_EmptySet
    <2> QED BY <1>1, <1>5, <1>6, <2>1, <2>6a, <2>6c, <2>7, <2>8, <2>9, <2>10, HolderStep
  <1>7. CASE /\ inst.db # Client!Null /\ inst' = [inst EXCEPT !.ref = @ + 1] /\ mgr' = Tail(mgr)
             /\ u' = [u EXCEPT ![x].at = "member", ![x].db = inst.db]
             /\ UNCHANGED <<pool, ensured>>
    <2> DEFINE v == [u[x] EXCEPT !.at = "member", !.db = inst.db]
    <2>1. inst.db \in Client!Dbs \cup {Client!Null} /\ inst.ref \in Nat
      BY <1>5 DEF Instances
    <2>2a. v \in User
      BY <1>2, <2>1 DEF User, Client!Steps
    <2>2b. v.db = inst.db
      BY <1>2 DEF User
    <2>2c. v.tables <=> u[x].tables
      BY <1>2 DEF User
    <2>2d. v.at = "member"
      BY <1>2 DEF User
    <2>2e. v.conn <=> u[x].conn
      BY <1>2 DEF User
    <2>3. u' = [u EXCEPT ![x] = v]
      BY <1>2, <1>7
    <2> HIDE DEF v
    <2>4. Placed(v) /\ Counts(v)
      BY <1>3, <1>7, <2>2b, <2>2c, <2>2d, <2>2e DEF Placed, Apart, Inside, Counts
    <2>5. inst' \in Instances /\ inst'.db = inst.db /\ inst'.ref = inst.ref + 1
      <3>1. inst' \in Instances
        BY <1>5, <1>7, <2>1 DEF Instances
      <3>2. inst'.db = inst.db
        BY <1>5, <1>7 DEF Instances
      <3>3. inst'.ref = inst.ref + 1
        BY <1>5, <1>7 DEF Instances
      <3> QED BY <3>1, <3>2, <3>3
    <2>6. Cardinality(Counted \cup {x}) = inst.ref + 1
      <3>1. x \notin Counted /\ IsFiniteSet(Counted) /\ inst.ref = Cardinality(Counted)
        BY <1>3, <1>5
      <3>2. Cardinality(Counted \cup {x}) = Cardinality(Counted) + 1
        BY <3>1, FS_AddElement
      <3> QED BY <3>1, <3>2
    <2>7. Frame
      BY <1>1, <1>7, SameFrame
    <2> QED BY <1>1, <1>3, <1>5, <1>7, <2>2a, <2>2b, <2>2c, <2>2d, <2>3, <2>4, <2>5, <2>6, <2>7,
               HolderStep
  <1>8. CASE /\ mgr' = Tail(mgr) /\ u' = [u EXCEPT ![x].at = "refused"]
             /\ UNCHANGED <<inst, pool, ensured>>
    <2> DEFINE v == [u[x] EXCEPT !.at = "refused"]
    <2>1a. v \in User
      BY <1>2 DEF User, Client!Steps
    <2>1b. v.db = u[x].db
      BY <1>2 DEF User
    <2>1c. v.tables <=> u[x].tables
      BY <1>2 DEF User
    <2>1d. v.at = "refused"
      BY <1>2 DEF User
    <2>1e. v.conn <=> u[x].conn
      BY <1>2 DEF User
    <2>2. u' = [u EXCEPT ![x] = v]
      BY <1>2, <1>8
    <2> HIDE DEF v
    <2>3. Placed(v) /\ ~Counts(v)
      BY <1>3, <2>1b, <2>1c, <2>1d, <2>1e DEF Placed, Apart, Inside, Counts
    <2>4. Counted \ {x} = Counted
      BY <1>3
    <2>5. Frame
      BY <1>1, <1>8, SameFrame
    <2> QED BY <1>1, <1>3, <1>5, <1>8, <2>1a, <2>1c, <2>1d, <2>2, <2>3, <2>4, <2>5, HolderStep
  <1> QED BY <1>6, <1>7, <1>8 DEF Client!GetClient

\* release_client gives a reference back; the last one starts to close.
LEMMA ReleaseClientInv ==
    ASSUME Client!ClientAssumption, ClientIInv, NEW x \in Users, Client!ReleaseClient(x)
    PROVE  ClientIInv'
  <1>1. /\ u[x].at = "leaving" /\ Client!Holds(mgr, x) /\ UNCHANGED <<pool, ensured, server>>
    BY DEF Client!ReleaseClient
  <1>2. /\ u \in [Users -> User] /\ u[x] \in User /\ Placed(u[x])
    BY UserFacts
  <1>3. ~u[x].tables /\ ~u[x].conn /\ x \in Counted /\ u[x].db # Client!Null
    BY <1>1, <1>2 DEF Placed, Apart, Inside, Counted, Counts
  <1>4. Client!Db(x) \in Client!Dbs
    BY <1>2, <1>3 DEF User, Client!Db
  <1>5. /\ inst \in Instances /\ IsFiniteSet(Counted) /\ Cardinality(Counted) \in Nat
        /\ inst.ref = Cardinality(Counted) /\ \A y \in Counted : inst.db = u[y].db
    BY CountedFinite DEF ClientIInv, ClientTypes, Shared
  <1>6. inst.db = Client!Db(x) /\ inst.db # Client!Null
    BY <1>3, <1>5 DEF Client!Db
  <1>7. /\ Cardinality(Counted \ {x}) = inst.ref - 1 /\ inst.ref - 1 \in Nat
        /\ inst.ref = 1 => Cardinality(Counted \ {x}) = 0 /\ Counted \ {x} = {}
    <2>1. Cardinality(Counted \ {x}) = inst.ref - 1 /\ IsFiniteSet(Counted \ {x})
      BY <1>3, <1>5, FS_RemoveElement
    <2>2. Cardinality(Counted \ {x}) \in Nat
      BY <2>1, FS_CardinalityType
    <2>3. inst.ref \in Nat
      BY <1>5
    <2>4. inst.ref = 1 => Cardinality(Counted \ {x}) = 0
      BY <2>1, <2>3
    <2>5. Cardinality(Counted \ {x}) = 0 => Counted \ {x} = {}
      BY <2>1, FS_EmptySet
    <2> QED BY <2>1, <2>2, <2>4, <2>5
  <1>8. CASE /\ \/ inst' = [inst EXCEPT !.ref = @ - 1]
                \/ inst.ref = 1 /\ inst' = [db |-> Client!Null, ref |-> 0, sig |-> Client!Null]
             /\ mgr' = Tail(mgr) /\ UNCHANGED pools
             /\ u' = [u EXCEPT ![x].at = "out", ![x].db = Client!Null]
    <2> DEFINE v == [u[x] EXCEPT !.at = "out", !.db = Client!Null]
    <2>1a. v \in User
      BY <1>2 DEF User, Client!Steps
    <2>1b. v.db = Client!Null
      BY <1>2 DEF User
    <2>1c. v.tables <=> u[x].tables
      BY <1>2 DEF User
    <2>1d. v.at = "out"
      BY <1>2 DEF User
    <2>1e. v.conn <=> u[x].conn
      BY <1>2 DEF User
    <2>2. u' = [u EXCEPT ![x] = v]
      BY <1>2, <1>8
    <2> HIDE DEF v
    <2>3. Placed(v) /\ ~Counts(v)
      BY <1>3, <2>1b, <2>1c, <2>1d, <2>1e DEF Placed, Apart, Inside, Counts
    <2>4. Frame
      BY <1>1, <1>8, SameFrame
    <2>5. CASE inst' = [inst EXCEPT !.ref = @ - 1]
      <3>1. inst' \in Instances /\ inst'.db = inst.db /\ inst'.ref = inst.ref - 1
        BY <1>5, <1>7, <2>5 DEF Instances
      <3> QED BY <1>1, <1>3, <1>5, <1>6, <1>7, <1>8, <2>1a, <2>1c, <2>1d, <2>2, <2>3, <2>4, <3>1,
                 HolderStep
    <2>6. CASE inst.ref = 1 /\ inst' = [db |-> Client!Null, ref |-> 0, sig |-> Client!Null]
      <3>1. inst' \in Instances /\ inst'.db = Client!Null /\ inst'.ref = 0 /\
               inst'.sig = Client!Null
        BY <2>6 DEF Instances
      <3> QED BY <1>1, <1>3, <1>7, <1>8, <2>1a, <2>1c, <2>1d, <2>2, <2>3, <2>4, <2>6, <3>1,
                 HolderStep
    <2> QED BY <1>8, <2>5, <2>6
  <1>9. CASE /\ pool[Client!Db(x)] # Client!Null /\ inst.ref = 1
             /\ inst' = [inst EXCEPT !.ref = 0] /\ UNCHANGED mgr
             /\ pools' = [pools EXCEPT ![pool[Client!Db(x)]] = "closing"]
             /\ u' = [u EXCEPT ![x].at = "draining", ![x].pool = pool[Client!Db(x)]]
    <2> DEFINE v == [u[x] EXCEPT !.at = "draining", !.pool = pool[Client!Db(x)]]
    <2>1. pool[Client!Db(x)] \in Client!Pools
      BY <1>4, <1>9 DEF ClientIInv, ClientTypes
    <2>2a. v \in User
      BY <1>2, <2>1 DEF User, Client!Steps
    <2>2b. v.db = u[x].db
      BY <1>2 DEF User
    <2>2c. v.tables <=> u[x].tables
      BY <1>2 DEF User
    <2>2d. v.at = "draining"
      BY <1>2 DEF User
    <2>2e. v.conn <=> u[x].conn
      BY <1>2 DEF User
    <2>3. u' = [u EXCEPT ![x] = v]
      BY <1>2, <1>9
    <2> HIDE DEF v
    <2>4. Placed(v) /\ ~Counts(v)
      BY <1>3, <2>2b, <2>2c, <2>2d, <2>2e DEF Placed, Apart, Inside, Counts
    <2>5. Frame
      BY <1>1, <1>9, <2>1 DEF Frame, ClientIInv, ClientTypes, Client!EnsuredGraphExists
    <2>6. inst' \in Instances /\ inst'.db = inst.db /\ inst'.ref = 0
      BY <1>5, <1>9 DEF Instances
    <2> QED BY <1>1, <1>3, <1>6, <1>7, <1>9, <2>2a, <2>2b, <2>2c, <2>2d, <2>3, <2>4, <2>5, <2>6,
               HolderStep DEF Client!Db
  <1> QED BY <1>6, <1>8, <1>9 DEF Client!ReleaseClient

\* The pool is closed and the object forgotten.
LEMMA ReleasedInv ==
    ASSUME Client!ClientAssumption, ClientIInv, NEW x \in Users, Client!Released(x)
    PROVE  ClientIInv'
  <1>1. /\ u[x].at = "draining" /\ UNCHANGED <<ensured, server>> /\ mgr' = Tail(mgr)
        /\ pools' = [pools EXCEPT ![u[x].pool] = "closed"]
        /\ inst' = IF inst.db = Client!Db(x) THEN [db |-> Client!Null, ref |-> 0,
              sig |-> Client!Null] ELSE inst
        /\ pool' = [pool EXCEPT ![Client!Db(x)] = Client!Null]
        /\ u' = [u EXCEPT ![x].at = "out", ![x].db = Client!Null, ![x].pool = Client!Null]
    BY DEF Client!Released
  <1>2. /\ u \in [Users -> User] /\ u[x] \in User /\ Placed(u[x])
    BY UserFacts
  <1>3. Client!Holds(mgr, x) /\ inst.ref = 0 /\ inst.db = u[x].db
    BY <1>1 DEF ClientIInv, Managed
  <1>4. ~u[x].tables /\ ~u[x].conn
    BY <1>1, <1>2 DEF Placed, Inside
  <1>5. Counted = {} /\ Cardinality(Counted \ {x}) = 0
    <2>1. IsFiniteSet(Counted) /\ Cardinality(Counted) = 0
      BY <1>3, CountedFinite DEF ClientIInv, Shared
    <2> QED BY <2>1, FS_EmptySet
  <1>6. inst' \in Instances /\ inst'.db = Client!Null /\ inst'.ref = 0 /\ inst'.sig = Client!Null
    BY <1>1, <1>3 DEF Instances, Client!Db
  <1> DEFINE v == [u[x] EXCEPT !.at = "out", !.db = Client!Null, !.pool = Client!Null]
  <1>7a. v \in User
    BY <1>2 DEF User, Client!Steps
  <1>7b. v.db = Client!Null
    BY <1>2 DEF User
  <1>7c. v.tables <=> u[x].tables
    BY <1>2 DEF User
  <1>7d. v.at = "out"
    BY <1>2 DEF User
  <1>7e. v.conn <=> u[x].conn
    BY <1>2 DEF User
  <1>8. u' = [u EXCEPT ![x] = v]
    BY <1>1, <1>2
  <1> HIDE DEF v
  <1>9. Placed(v) /\ ~Counts(v)
    BY <1>4, <1>7b, <1>7c, <1>7d, <1>7e DEF Placed, Apart, Inside, Counts
  <1>10. Frame
    BY <1>1 DEF Frame, ClientIInv, ClientTypes, Client!EnsuredGraphExists
  <1> QED BY <1>1, <1>3, <1>4, <1>5, <1>6, <1>7a, <1>7c, <1>7d, <1>8, <1>9, <1>10, HolderStep

-----------------------------------------------------------------------------
(* The theorem *)

\* Every step keeps the invariant.
LEMMA NextInv ==
    ASSUME Client!ClientAssumption, ClientIInv, [Client!Next]_(Client!vars)
    PROVE  ClientIInv'
  <1>1. ASSUME NEW x \in Users, Client!Step(x)
        PROVE  ClientIInv'
    BY <1>1, InitializeInv, GetClientInv, LeaveInv, ReleaseClientInv, ReleasedInv, CallInv,
       EnsurePoolInv, CreatePoolInv, CreateFailsInv, ResetPoolInv, PoolClosedInv, AcquireInv,
       ConfigureAgeInv, OperateInv, GoOnInv DEF Client!Step
  <1>2. CASE UNCHANGED Client!vars
    BY <1>2
       DEF Client!vars, ClientIInv, ClientTypes, Managed, Shared, Counted,
           Client!EnsuredGraphExists
  <1> QED BY <1>1, <1>2, ServerInv DEF Client!Next

\* What the invariant says of the states.
LEMMA ClientFollows ==
    ASSUME Client!ClientAssumption, ClientIInv
    PROVE  Client!TypeOK /\ Client!UsersAreCounted /\ Client!EnsuredGraphExists
  <1>1. {x \in Client!Members : u[x].at # "draining"} = Counted
    BY DEF Client!Members, Counted, Counts
  <1>2. Client!UsersAreCounted
    BY <1>1, SameCount DEF ClientIInv, Shared, Client!UsersAreCounted, Client!Db
  <1>3. inst \in Instances /\ inst.ref = Cardinality(Counted)
    BY DEF ClientIInv, ClientTypes, Shared
  <1>4. Cardinality(Users) \in Nat /\ Cardinality(Counted) <= Cardinality(Users)
    <2>1. IsFiniteSet(Users) /\ Counted \in SUBSET Users
      BY SameCount DEF Client!ClientAssumption, Counted
    <2> QED BY <2>1, FS_CardinalityType, FS_Subset
  <1>5. inst.db \in Client!Dbs \cup {Client!Null} /\ inst.ref \in 0..Cardinality(Users)
    BY <1>3, <1>4 DEF Instances
  <1>6. ASSUME NEW x \in Users
        PROVE  /\ u[x].at \in Client!Steps
               /\ u[x].attempt \in 1..Attempts /\ u[x].creation \in 1..Attempts
               /\ u[x].conn => u[x].at \in {"configuring", "running"}
    <2>1. u[x] \in User /\ Placed(u[x])
      BY UserFacts
    <2>2. u[x].conn => u[x].at \in {"configuring", "running"}
      BY <2>1 DEF Placed
    <2> QED BY <2>1, <2>2 DEF User
  <1>7. Client!TypeOK
    BY <1>5, <1>6, SameCount DEF Client!TypeOK, ClientIInv, ClientTypes
  <1> QED BY <1>2, <1>7 DEF ClientIInv

\* For any storages, settings and failures of ClientManager and PostgreSQLDB: every storage
\* between get_client and release_client has the object that the manager hands out, the
\* count is their number, so that the pool is closed under none of them, and
\* _ensure_age_graph skips its check only for a graph that exists.
THEOREM ClientIsShared ==
    ASSUME Client!ClientAssumption
    PROVE  Client!Spec => [](Client!TypeOK /\ Client!UsersAreCounted /\ Client!EnsuredGraphExists)
  <1>1. Client!Init => ClientIInv
    BY InitInv
  <1>2. ClientIInv /\ [Client!Next]_(Client!vars) => ClientIInv'
    BY NextInv
  <1>3. ClientIInv => Client!TypeOK /\ Client!UsersAreCounted /\ Client!EnsuredGraphExists
    BY ClientFollows
  <1> QED BY <1>1, <1>2, <1>3, PTL DEF Client!Spec

-----------------------------------------------------------------------------
(* The migrations of Milvus *)

CONSTANTS MilvusRows, Versions, Retries, MaxFailures, MaxWrites, Beginnings, Failures
VARIABLES col, code, p, truth, unsure, failures, writes

Migration == INSTANCE MilvusMigration WITH
    Rows <- MilvusRows, MaxFaults <- MaxFailures, Faults <- Failures, faults <- failures

-----------------------------------------------------------------------------
(* The failures that a migration survives *)

\* Connections break and processes die; no statement is rejected, no index refused.
Outages == Failures \subseteq {"down", "lost", "death"}

\* The process dies, and every call that it makes before succeeds.
DeathsOnly == Failures \subseteq {"death"}

\* Three broken connections are too many for a migration that is tried again: the source
\* cannot be renamed and is dropped, the copy does not get its name, and when the next
\* attempt cannot name it either, it is cleaned up as scratch.
FewFaults == Retries = 0 \/ MaxFailures <= 2 \/ DeathsOnly

\* Beside the collection of an older release, the copy of a source that was dropped is
\* taken for scratch as well.
NothingOlder == Beginnings \cap {"legacy", "both"} = {} \/ DeathsOnly

-----------------------------------------------------------------------------
(* The inductive invariant *)

\* The collection n has the rows that the application stored.
IsWhole(n) == col[n].rows = truth

\* Where initialize is,
Positions == {"off", "attempt", "fill", "copying", "vacating", "renaming", "dropping",
              "promoting", "recovering", "loading", "repairing", "creating", "indexing",
              "forcing", "serving", "emptied", "broken"}

\* and what it knows.
Progress == [at : Positions, inplace : BOOLEAN, guarded : BOOLEAN, commit : BOOLEAN,
             tries : 0..Retries, copied : SUBSET MilvusRows]

\* The variables have their types; who starts beside an older collection only dies.
MigrationTypes ==
    /\ col \in [Migration!Names -> Migration!Collection] /\ code \in 1..Versions
    /\ truth \subseteq MilvusRows
    /\ p \in Progress /\ unsure \in BOOLEAN /\ failures \in Nat
    /\ \A n \in Migration!Names : ~col[n].is => col[n] = Migration!Absent
    /\ Migration!Has("legacy") => DeathsOnly

\* A copy and a backup have their index; a collection without one was just created.
Indexed ==
    /\ Migration!Has("temp") => col["temp"].index
    /\ Migration!Has("old") => col["old"].index
    /\ Migration!Has("final") /\ ~col["final"].index => col["final"].version = code

\* The commit failed with its source dropped: two connections broke, the copy is whole.
Spent == Migration!Has("temp") /\ ~Migration!Has("legacy") /\ p.tries > 0 /\ failures > 1

\* Which collections there are while initialize is somewhere: a migration has its source,
\* a commit its copy, and beside a copy that has no name yet there is the backup, or no
\* older collection and one fault less.
MigrationPlaced ==
    /\ p.at = "attempt" => ~p.commit
    /\ p.at \in {"attempt", "fill", "copying"} =>
          IF p.inplace THEN Migration!Has("final") => col["final"].index
          ELSE ~Migration!Has("final") /\ Migration!Has("legacy") /\ ~Migration!Has("old")
    /\ p.at \in {"fill", "copying"} /\ p.inplace => Migration!Has("final")
    /\ p.at = "attempt" /\ p.inplace /\ ~Migration!Has("final") => Migration!Has("old") \/ Spent
    /\ p.at = "copying" => Migration!Has("temp") /\ col["temp"].rows = p.copied
    /\ p.at \in {"vacating", "renaming"} =>
          p.inplace /\ p.commit /\ Migration!Has("final") /\ col["final"].index /\
             Migration!Has("temp")
    /\ p.at = "renaming" => ~Migration!Has("old")
    /\ p.at = "dropping" =>
          /\ p.inplace /\ p.commit /\ Migration!Has("temp") /\ ~Migration!Has("legacy")
          /\ failures > 0
          /\ Migration!Has("final") => col["final"].index
    /\ p.at = "promoting" =>
          /\ ~Migration!Has("final") /\ Migration!Has("temp")
          /\ IF p.inplace THEN p.commit /\ (Migration!Has("old") \/
                (~Migration!Has("legacy") /\ failures > 0))
             ELSE Migration!Has("legacy") /\ ~Migration!Has("old")
    /\ p.at = "recovering" => ~Migration!Has("final") /\
          (Migration!Has("old") \/ (Migration!Has("temp") /\ ~Migration!Has("legacy")))
    /\ p.at = "loading" => Migration!Has("final") /\ (p.guarded \/ col["final"].index)
    /\ p.at \in {"repairing", "indexing"} => Migration!Has("final")
    /\ p.at = "creating" => \A n \in Migration!Names : ~Migration!Has(n)
    /\ p.at = "serving" => Migration!Has("final") /\ col["final"].index
    /\ p.at = "emptied" => unsure /\ ~Migration!Has("final")
    /\ p.at = "broken" => ~Migration!Has("final")
    /\ p.at # "forcing"

\* The collection that a start finds, or recovers, has the rows; and there is one, unless
\* nothing was stored.
Kept ==
    /\ Migration!Has("final") => IsWhole("final")
    /\ ~Migration!Has("final") /\ Migration!Has("temp") /\
          (Migration!Has("old") \/ ~Migration!Has("legacy")) => IsWhole("temp")
    /\ ~Migration!Has("final") /\ ~Migration!Has("temp") /\ Migration!Has("old") => IsWhole("old")
    /\ ~Migration!Has("final") /\ ~Migration!Has("old") /\ Migration!Has("legacy") =>
          IsWhole("legacy")
    /\ (\A n \in Migration!Names : ~Migration!Has(n)) => truth = {}

\* From the end of the copying until it has its name, the copy is whole; the backup that
\* another attempt would restore is the one that this migration made.
Copied ==
    /\ p.at \in {"vacating", "renaming", "dropping", "promoting"} => IsWhole("temp")
    /\ p.at \in {"promoting", "dropping"} /\ p.inplace /\ ~Migration!Has("final") =>
          (Migration!Has("old") /\ IsWhole("old")) \/ failures > 0
    /\ p.at = "attempt" /\ p.inplace /\ ~Migration!Has("final") =>
          (Migration!Has("old") /\ IsWhole("old")) \/ Spent

\* The inductive invariant.  A drop that failed leaves the rows in doubt (unsure), but
\* never the places.
MigrationIInv == MigrationTypes /\ Indexed /\ MigrationPlaced /\ (~unsure => Kept /\ Copied)

-----------------------------------------------------------------------------
(* Collections and their updates *)

\* What the calls store is a collection.
LEMMA Shapes ==
    ASSUME Migration!MigrationAssumption, MigrationTypes
    PROVE  /\ Migration!Absent \in Migration!Collection
           /\ Migration!Made({}, code) \in Migration!Collection
           /\ [Migration!Made({}, code) EXCEPT !.index = FALSE] \in Migration!Collection
           /\ \A n \in Migration!Names : [col[n] EXCEPT !.index = TRUE] \in Migration!Collection
           /\ \A n \in Migration!Names, r \in MilvusRows : [col[n] EXCEPT !.rows = @ \cup {r}] \in Migration!Collection
  <1> USE DEF Migration!Collection
  <1>1. Versions \in Nat /\ code \in 0..Versions /\ 0 \in 0..Versions
    BY DEF MigrationTypes, Migration!MigrationAssumption
  <1>2. Migration!Absent \in Migration!Collection
    BY <1>1 DEF Migration!Absent
  <1>3. Migration!Made({}, code) \in Migration!Collection /\
           [Migration!Made({}, code) EXCEPT !.index = FALSE] \in Migration!Collection
    BY <1>1 DEF Migration!Made
  <1>4. \A n \in Migration!Names : col[n] \in Migration!Collection
    BY DEF MigrationTypes
  <1> QED BY <1>2, <1>3, <1>4

\* A call changes one collection,
LEMMA Updated ==
    ASSUME col \in [Migration!Names -> Migration!Collection], NEW n \in Migration!Names,
           NEW c \in Migration!Collection
    PROVE  LET d == [col EXCEPT ![n] = c]
           IN /\ d \in [Migration!Names -> Migration!Collection]
              /\ d[n] = c /\ \A m \in Migration!Names : m # n => d[m] = col[m]
  OBVIOUS

\* or gives its name to another.
LEMMA RenamedFacts ==
    ASSUME Migration!MigrationAssumption, MigrationTypes, NEW n \in Migration!Names,
           NEW o \in Migration!Names, n # o
    PROVE  LET d == Migration!Renamed(n, o)
           IN /\ d \in [Migration!Names -> Migration!Collection]
              /\ d[o] = col[n] /\ d[n] = Migration!Absent /\
                    \A m \in Migration!Names \ {n, o} : d[m] = col[m]
  BY Shapes DEF Migration!Renamed, MigrationTypes

-----------------------------------------------------------------------------
(* Where it starts *)

\* What a release leaves is whole.
LEMMA MigrationInitInv ==
    ASSUME Migration!MigrationAssumption, Outages, NothingOlder, Migration!Init
    PROVE  MigrationIInv
  <1>1. PICK b \in Beginnings, rs \in SUBSET MilvusRows :
          /\ truth = IF b = "fresh" THEN {} ELSE rs
          /\ col = [n \in Migration!Names |->
                      IF n = "legacy" /\ b = "legacy" THEN Migration!Made(rs, 1)
                      ELSE IF n = "legacy" /\ b = "both" THEN Migration!Made({}, 1)
                      ELSE IF n = "final" /\ b \in {"current", "both"} THEN Migration!Made(rs, 1)
                      ELSE Migration!Absent]
    BY DEF Migration!Init
  <1>2. /\ code = 1 /\ p = Migration!Off /\ failures = 0 /\ unsure = FALSE
    BY DEF Migration!Init
  <1>3. /\ Versions \in Nat \ {0} /\ Retries \in Nat
        /\ b \in {"fresh", "legacy", "current", "both"}
    BY DEF Migration!MigrationAssumption
  <1>4. /\ \A n \in {"final", "legacy", "temp", "old"} :
             /\ col[n] \in Migration!Collection
             /\ col[n] = IF n = "legacy" /\ b = "legacy" THEN Migration!Made(rs, 1)
                         ELSE IF n = "legacy" /\ b = "both" THEN Migration!Made({}, 1)
                         ELSE IF n = "final" /\ b \in {"current", "both"}
                            THEN Migration!Made(rs, 1)
                         ELSE Migration!Absent
        /\ col \in [Migration!Names -> Migration!Collection]
    <2>1. \A cs \in SUBSET MilvusRows : Migration!Made(cs, 1) \in Migration!Collection
      BY <1>3 DEF Migration!Made, Migration!Collection
    <2>2. Migration!Absent \in Migration!Collection
      BY <1>3 DEF Migration!Absent, Migration!Collection
    <2> QED BY <1>1, <2>1, <2>2 DEF Migration!Names
  <1>5. MigrationTypes
    <2>1. p \in Progress
      BY <1>2, <1>3 DEF Migration!Off, Progress, Positions
    <2>2. \A n \in Migration!Names : ~col[n].is => col[n] = Migration!Absent
      BY <1>4 DEF Migration!Names, Migration!Made
    <2>3. Migration!Has("legacy") => DeathsOnly
      BY <1>4, <1>3 DEF Migration!Has, Migration!Absent, NothingOlder
    <2>4. truth \subseteq MilvusRows
      BY <1>1
    <2>5. code \in 1..Versions /\ failures \in Nat
      BY <1>2, <1>3
    <2>6. unsure \in BOOLEAN
      BY <1>2
    <2> QED BY <1>4, <2>1, <2>2, <2>3, <2>4, <2>5, <2>6 DEF MigrationTypes
  <1>6. Indexed
    BY <1>4 DEF Indexed, Migration!Has, Migration!Made, Migration!Absent
  <1>7. MigrationPlaced
    BY <1>2 DEF MigrationPlaced, Migration!Off
  <1>8. Kept
    BY <1>1, <1>3, <1>4
       DEF Kept, Migration!Has, IsWhole, Migration!Made, Migration!Absent, Migration!Names
  <1>9. Copied
    BY <1>2 DEF Copied, Migration!Off
  <1> QED BY <1>5, <1>6, <1>7, <1>8, <1>9 DEF MigrationIInv

\* The decision of a start: it migrates, recovers or creates only what that place allows.
LEMMA BootInv ==
    ASSUME Migration!MigrationAssumption, MigrationIInv, Migration!Boot
    PROVE  MigrationIInv'
  <1> USE DEF Migration!Has, IsWhole, Spent
  <1>0. /\ col' = col /\ UNCHANGED <<code, truth, unsure, writes, failures>>
        /\ p.at = "off"
    BY DEF Migration!Boot, Migration!outside
  <1>1. p' = IF Migration!Has("final")
            THEN IF col["final"].version < code
               THEN [Migration!Off EXCEPT !.at = "attempt", !.inplace = TRUE]
                 ELSE [Migration!Off EXCEPT !.at = "loading", !.guarded = TRUE]
            ELSE IF Migration!Has("old") \/ (Migration!Has("temp") /\ ~Migration!Has("legacy"))
                 THEN [Migration!Off EXCEPT !.at = "recovering"]
            ELSE IF Migration!Has("legacy") THEN [Migration!Off EXCEPT !.at = "attempt"]
            ELSE [Migration!Off EXCEPT !.at = "creating"]
    BY DEF Migration!Boot
  <1>2. p' \in Progress
    <2>1. 0 \in 0..Retries
      BY DEF Migration!MigrationAssumption
    <2> QED BY <1>1, <2>1 DEF Migration!Off, Progress, Positions
  <1>3. MigrationTypes'
    BY <1>0, <1>2 DEF MigrationIInv, MigrationTypes
  <1>4. Indexed'
    BY <1>0 DEF MigrationIInv, Indexed
  <1>5. col["final"].version < code => col["final"].version # code
    BY DEF MigrationIInv, MigrationTypes, Migration!Collection, Migration!Names
  <1>6. MigrationPlaced'
    BY <1>0, <1>1, <1>5
       DEF MigrationIInv, Indexed, MigrationPlaced, Migration!Off, Migration!Names
  <1>7. ~unsure' => Kept' /\ Copied'
    BY <1>0, <1>1 DEF MigrationIInv, Kept, Copied, Migration!Off
  <1> QED BY <1>3, <1>4, <1>6, <1>7 DEF MigrationIInv

-----------------------------------------------------------------------------
(* Failures *)

\* What a failed attempt may leave behind: the source, the backup with a copy that is
\* whole if it is still there, or the copy of a commit.
Salvaged(d) ==
    \/ d["final"].is /\ d["final"].index /\ (~unsure => d["final"].rows = truth)
    \/ /\ ~d["final"].is /\ d["old"].is
       /\ ~unsure => d["old"].rows = truth /\ (d["temp"].is => d["temp"].rows = truth)
    \/ /\ ~d["final"].is /\ p.commit /\ failures > 0
       /\ d["temp"].is /\ (~unsure => d["temp"].rows = truth)

\* The server is in order and has no older collection.
Sound(d) ==
    /\ d \in [Migration!Names -> Migration!Collection]
    /\ (\A n \in Migration!Names : ~d[n].is => d[n] = Migration!Absent)
    /\ ~d["legacy"].is
    /\ d["temp"].is => d["temp"].index
    /\ d["old"].is => d["old"].index

\* The end of a failed attempt keeps what it must: the clean-up never takes the last copy.
LEMMA AttemptFailsInv ==
    ASSUME Migration!MigrationAssumption, MigrationIInv, NEW k, NEW d,
           Migration!AttemptFails(k, d), Sound(d), Salvaged(d),
           p.inplace, failures' = failures + 1, UNCHANGED Migration!outside
    PROVE  MigrationIInv'
  <1> USE DEF Migration!Has, IsWhole, Spent
  <1>1. PICK c \in {d, [d EXCEPT !["temp"] = Migration!Absent]} :
           col' = c /\ (c # d => ~p.commit)
    BY DEF Migration!AttemptFails
  <1>2. \/ /\ p.tries + 1 \in 0..Retries
           /\ p' = [p EXCEPT !.at = "attempt", !.tries = @ + 1, !.commit = FALSE, !.copied = {}]
        \/ p' = Migration!Off
    BY DEF Migration!AttemptFails, MigrationIInv, MigrationTypes, Progress,
           Migration!MigrationAssumption
  <1>3. p \in Progress /\ Retries \in Nat /\ failures \in Nat
    BY DEF MigrationIInv, MigrationTypes, Migration!MigrationAssumption
  <1>4. p' \in Progress
    <2>1. Migration!Off \in Progress
      BY <1>3 DEF Migration!Off, Progress, Positions
    <2>2. ASSUME p.tries + 1 \in 0..Retries
          PROVE  [p EXCEPT !.at = "attempt", !.tries = @ + 1, !.commit = FALSE, !.copied = {}]
                    \in Progress
      BY <1>3, <2>2 DEF Progress, Positions
    <2> QED BY <1>2, <2>1, <2>2
  <1>5. /\ col' \in [Migration!Names -> Migration!Collection]
        /\ col'["final"] = d["final"] /\ col'["legacy"] = d["legacy"] /\ col'["old"] = d["old"]
        /\ col'["temp"] = d["temp"] \/ (col'["temp"] = Migration!Absent /\ ~p.commit)
    <2>1. Migration!Absent \in Migration!Collection
      BY Shapes DEF MigrationIInv
    <2> QED BY <1>1, <2>1 DEF Sound, Migration!Names
  <1>6. UNCHANGED <<code, truth, unsure>> /\ failures' > 0 /\ (failures > 0 => failures' > 1)
    BY <1>3 DEF Migration!outside
  <1>7. Migration!Absent.is = FALSE
    BY DEF Migration!Absent
  <1>8. MigrationTypes'
    <2>1. \A n \in Migration!Names : ~col'[n].is => col'[n] = Migration!Absent
      BY <1>5 DEF Sound, Migration!Names
    <2> QED BY <1>3, <1>4, <1>5, <1>6, <2>1 DEF MigrationIInv, MigrationTypes, Sound
  <1>9. Indexed'
    <2>1. col'["final"].is => col'["final"].index
      BY <1>5 DEF Salvaged
    <2> QED BY <1>5, <1>7, <2>1 DEF Indexed, Sound
  <1>10. ~unsure => Kept'
    BY <1>5, <1>6, <1>7 DEF Kept, Sound, Salvaged, Migration!Names
  <1>11. CASE p' = Migration!Off
    <2>1. p'.at = "off"
      BY <1>11 DEF Migration!Off
    <2>2. MigrationPlaced' /\ Copied'
      BY <2>1 DEF MigrationPlaced, Copied
    <2> QED BY <1>6, <1>8, <1>9, <1>10, <2>2 DEF MigrationIInv
  <1>12. CASE p' = [p EXCEPT !.at = "attempt", !.tries = @ + 1, !.commit = FALSE, !.copied = {}]
    <2>0. p.tries \in Nat
      BY <1>3 DEF Progress
    <2>a. p'.at = "attempt" /\ p'.tries = p.tries + 1
      BY <1>3, <1>12 DEF Progress
    <2>b. ~p'.commit
      BY <1>3, <1>12 DEF Progress
    <2>c. p'.inplace = p.inplace
      BY <1>3, <1>12 DEF Progress
    <2>1. /\ p'.at = "attempt" /\ ~p'.commit /\ p'.inplace = p.inplace
          /\ p'.tries = p.tries + 1 /\ p.tries \in Nat
      BY <2>0, <2>a, <2>b, <2>c
    <2>2. MigrationPlaced'
      BY <1>5, <1>6, <1>7, <2>1 DEF MigrationPlaced, Sound, Salvaged
    <2>3. ~unsure => Copied'
      BY <1>5, <1>6, <1>7, <2>1 DEF Copied, Sound, Salvaged
    <2> QED BY <1>6, <1>8, <1>9, <1>10, <2>2, <2>3 DEF MigrationIInv
  <1> QED BY <1>2, <1>11, <1>12

\* Moving on changes where initialize is and nothing else.
LEMMA ProgressFacts ==
    ASSUME Migration!MigrationAssumption, MigrationTypes
    PROVE  /\ Retries \in Nat /\ p.tries \in 0..Retries /\ p.copied \subseteq MilvusRows
           /\ failures \in Nat /\ code \in 1..Versions /\ Migration!Off \in Progress
           /\ \A at \in Positions :
                /\ [p EXCEPT !.at = at] \in Progress
                /\ [p EXCEPT !.at = at].at = at
                /\ [p EXCEPT !.at = at].inplace = p.inplace
                /\ [p EXCEPT !.at = at].guarded = p.guarded
                /\ [p EXCEPT !.at = at].commit = p.commit
                /\ [p EXCEPT !.at = at].tries = p.tries
                /\ [p EXCEPT !.at = at].copied = p.copied
  <1>1. /\ Retries \in Nat /\ p \in Progress /\ failures \in Nat /\ code \in 1..Versions
    BY DEF Migration!MigrationAssumption, MigrationTypes
  <1>2. p.tries \in 0..Retries /\ p.copied \subseteq MilvusRows
    BY <1>1 DEF Progress
  <1>3. Migration!Off \in Progress
    BY <1>1 DEF Migration!Off, Progress, Positions
  <1>4. ASSUME NEW at \in Positions
        PROVE  /\ [p EXCEPT !.at = at] \in Progress
               /\ [p EXCEPT !.at = at].at = at
               /\ [p EXCEPT !.at = at].tries = p.tries
               /\ [p EXCEPT !.at = at].copied = p.copied
    BY <1>1 DEF Progress
  <1>5. ASSUME NEW at \in Positions
        PROVE  [p EXCEPT !.at = at].inplace = p.inplace
    BY <1>1 DEF Progress
  <1>6. ASSUME NEW at \in Positions
        PROVE  [p EXCEPT !.at = at].guarded = p.guarded
    BY <1>1 DEF Progress
  <1>7. ASSUME NEW at \in Positions
        PROVE  [p EXCEPT !.at = at].commit = p.commit
    BY <1>1 DEF Progress
  <1> QED BY <1>1, <1>2, <1>3, <1>4, <1>5, <1>6, <1>7

\* An exception that leaves initialize, or a death: the next start finds what it needs.
LEMMA OffInv ==
    ASSUME Migration!MigrationAssumption, MigrationIInv, UNCHANGED <<code, truth, unsure>>,
           failures' \in Nat,
           p' = Migration!Off, NEW d \in [Migration!Names -> Migration!Collection], col' = d,
           \A n \in Migration!Names : ~d[n].is => d[n] = Migration!Absent,
           d["legacy"].is => DeathsOnly, d["temp"].is => d["temp"].index, d["old"].is =>
              d["old"].index,
           d["final"].is /\ ~d["final"].index => d["final"].version = code,
           ~unsure => Kept'
    PROVE  MigrationIInv'
  <1>1. Migration!Off \in Progress
    BY ProgressFacts DEF MigrationIInv
  <1>2. Migration!Off.at = "off"
    BY DEF Migration!Off
  <1>3. MigrationTypes'
    BY <1>1 DEF MigrationIInv, MigrationTypes, Migration!Has
  <1>4. Indexed'
    BY DEF Indexed, Migration!Has
  <1>5. MigrationPlaced' /\ Copied'
    BY <1>2 DEF MigrationPlaced, Copied
  <1> QED BY <1>3, <1>4, <1>5 DEF MigrationIInv

\* Connections break only where no older collection is.
LEMMA SoundCol ==
    ASSUME MigrationIInv, ~DeathsOnly
    PROVE  Sound(col)
  BY DEF MigrationIInv, MigrationTypes, Indexed, Sound, Migration!Has

-----------------------------------------------------------------------------
(* A migration *)

\* An interrupted commit is finished first; only then is the copy scratch.
LEMMA AttemptInv ==
    ASSUME Migration!MigrationAssumption, Outages, FewFaults, MigrationIInv, Migration!Attempt
    PROVE  MigrationIInv'
  <1> USE DEF Migration!Has, IsWhole, Spent
  <1>0. MigrationTypes /\ Indexed /\ MigrationPlaced /\ (~unsure => Kept /\ Copied)
    BY DEF MigrationIInv
  <1>1. p.at = "attempt" /\ UNCHANGED Migration!outside
    BY DEF Migration!Attempt
  <1>2. UNCHANGED <<code, truth, unsure>>
    BY <1>1 DEF Migration!outside
  <1>3. Migration!Absent.is = FALSE
    BY DEF Migration!Absent
  <1>4. ASSUME NEW k, k \in Failures, failures < MaxFailures
        PROVE  ~DeathsOnly => ~(p.tries > 0 /\ failures > 1)
    <2>1. failures \in Nat /\ MaxFailures \in Nat /\ p.tries \in 0..Retries
      BY <1>0, ProgressFacts DEF Migration!MigrationAssumption, MigrationTypes
    <2> QED BY <1>4, <2>1 DEF FewFaults
  <1>5. CASE p.inplace /\ ~Migration!Has("final") /\ Migration!Has("temp")
    <2> DEFINE d == Migration!Renamed("temp", "final")
               q == [p EXCEPT !.at = "loading", !.guarded = TRUE]
    <2>1. \/ col' = d /\ p' = q /\ failures' = failures
          \/ /\ failures < MaxFailures /\ failures' = failures + 1
             /\ \E k \in Failures \cap {"down", "lost"} :
                  Migration!AttemptFails(k, IF k = "lost" THEN d ELSE col)
      BY <1>1, <1>5 DEF Migration!Attempt, Migration!Rename, Migration!Call, Outages
    <2>2. /\ d \in [Migration!Names -> Migration!Collection] /\ d["final"] = col["temp"]
          /\ d["temp"] = Migration!Absent
          /\ d["legacy"] = col["legacy"] /\ d["old"] = col["old"]
      BY <1>0, RenamedFacts DEF Migration!Names
    <2> HIDE DEF d, q
    <2>3. CASE col' = d /\ p' = q /\ failures' = failures
      <3>1. p' \in Progress /\ p'.at = "loading" /\ p'.guarded
        BY <1>0, <2>3 DEF q, MigrationTypes, Progress, Positions
      <3>2. MigrationTypes'
        BY <1>0, <1>2, <2>2, <2>3, <3>1 DEF MigrationTypes, Migration!Names
      <3>3. Indexed'
        BY <1>0, <1>2, <1>3, <1>5, <2>2, <2>3 DEF Indexed
      <3>4. MigrationPlaced'
        BY <1>5, <2>2, <2>3, <3>1 DEF MigrationPlaced
      <3>5. ~unsure => Kept' /\ Copied'
        BY <1>0, <1>1, <1>2, <1>3, <1>5, <2>2, <2>3, <3>1
           DEF Kept, Copied, MigrationPlaced, Migration!Names
      <3> QED BY <1>2, <3>2, <3>3, <3>4, <3>5 DEF MigrationIInv
    <2>4. ASSUME failures < MaxFailures, failures' = failures + 1,
                 NEW k \in Failures \cap {"down", "lost"},
                 Migration!AttemptFails(k, IF k = "lost" THEN d ELSE col)
          PROVE  MigrationIInv'
      <3>0. ~DeathsOnly
        BY <2>4 DEF DeathsOnly
      <3>1. ~DeathsOnly /\ Sound(col)
        BY <3>0, SoundCol
      <3>2. Sound(d)
        BY <1>3, <2>2, <3>1 DEF Sound, Migration!Names
      <3>3. Salvaged(d)
        BY <1>0, <1>5, <2>2, <3>1 DEF Salvaged, Sound, Kept
      <3>4. Salvaged(col)
        BY <1>0, <1>1, <1>4, <1>5, <2>4, <3>1 DEF Salvaged, Sound, Kept, Copied, MigrationPlaced
      <3> QED BY <1>1, <1>5, <2>4, <3>1, <3>2, <3>3, <3>4, AttemptFailsInv
    <2> QED BY <2>1, <2>3, <2>4
  <1>6. CASE p.inplace /\ ~Migration!Has("final") /\ ~Migration!Has("temp") /\
                Migration!Has("old")
    <2> DEFINE d == Migration!Renamed("old", "final")
    <2>1. \/ col' = d /\ p' = p /\ failures' = failures
          \/ /\ failures < MaxFailures /\ failures' = failures + 1
             /\ \E k \in Failures \cap {"down", "lost"} :
                  Migration!AttemptFails(k, IF k = "lost" THEN d ELSE col)
      BY <1>1, <1>6 DEF Migration!Attempt, Migration!Rename, Migration!Call, Outages
    <2>2. /\ d \in [Migration!Names -> Migration!Collection] /\ d["final"] = col["old"]
          /\ d["old"] = Migration!Absent
          /\ d["legacy"] = col["legacy"] /\ d["temp"] = col["temp"]
      BY <1>0, RenamedFacts DEF Migration!Names
    <2> HIDE DEF d
    <2>3. CASE col' = d /\ p' = p /\ failures' = failures
      <3>1. MigrationTypes'
        BY <1>0, <1>2, <2>2, <2>3 DEF MigrationTypes, Migration!Names
      <3>2. Indexed'
        BY <1>0, <1>2, <1>3, <1>6, <2>2, <2>3 DEF Indexed
      <3>3. MigrationPlaced'
        BY <1>0, <1>1, <1>6, <2>2, <2>3 DEF MigrationPlaced, Indexed
      <3>4. ~unsure => Kept' /\ Copied'
        BY <1>0, <1>1, <1>2, <1>3, <1>6, <2>2, <2>3
           DEF Kept, Copied, MigrationPlaced, Migration!Names
      <3> QED BY <1>2, <3>1, <3>2, <3>3, <3>4 DEF MigrationIInv
    <2>4. ASSUME failures < MaxFailures, failures' = failures + 1,
                 NEW k \in Failures \cap {"down", "lost"},
                 Migration!AttemptFails(k, IF k = "lost" THEN d ELSE col)
          PROVE  MigrationIInv'
      <3>0. ~DeathsOnly
        BY <2>4 DEF DeathsOnly
      <3>1. ~DeathsOnly /\ Sound(col)
        BY <3>0, SoundCol
      <3>2. Sound(d)
        BY <1>3, <2>2, <3>1 DEF Sound, Migration!Names
      <3>3. Salvaged(d) /\ Salvaged(col)
        BY <1>0, <1>6, <2>2, <3>1 DEF Salvaged, Sound, Kept
      <3> QED BY <1>1, <1>6, <2>4, <3>1, <3>2, <3>3, AttemptFailsInv
    <2> QED BY <2>1, <2>3, <2>4
  <1>7. CASE /\ ~p.inplace \/ Migration!Has("final") \/
                   (~Migration!Has("temp") /\ ~Migration!Has("old"))
             /\ Migration!Call([col EXCEPT !["temp"] = Migration!Absent],
                   [p EXCEPT !.at = "fill"], Migration!AttemptFails)
    <2> DEFINE d == [col EXCEPT !["temp"] = Migration!Absent]
               q == [p EXCEPT !.at = "fill"]
    <2>1. \/ col' = d /\ p' = q /\ failures' = failures
          \/ /\ failures < MaxFailures /\ failures' = failures + 1
             /\ \E k \in Failures \cap {"down", "lost"} :
                  Migration!AttemptFails(k, IF k = "lost" THEN d ELSE col)
      BY <1>7 DEF Migration!Call, Outages
    <2>2. /\ d \in [Migration!Names -> Migration!Collection] /\ d["temp"] = Migration!Absent
          /\ d["legacy"] = col["legacy"] /\ d["old"] = col["old"] /\ d["final"] = col["final"]
      BY <1>0, Shapes, Updated DEF Migration!Names, MigrationTypes
    <2>3. p.inplace => Migration!Has("final")
      BY <1>0, <1>1, <1>7 DEF MigrationPlaced
    <2>4. q \in Progress /\ q.at = "fill" /\ q.inplace = p.inplace
      BY <1>0, ProgressFacts DEF Positions
    <2> HIDE DEF d, q
    <2>5. CASE col' = d /\ p' = q /\ failures' = failures
      <3>1. MigrationTypes'
        BY <1>0, <1>2, <2>2, <2>4, <2>5 DEF MigrationTypes, Migration!Names
      <3>2. Indexed'
        BY <1>0, <1>2, <1>3, <2>2, <2>5 DEF Indexed
      <3>3. MigrationPlaced'
        BY <1>0, <1>1, <2>2, <2>3, <2>4, <2>5 DEF MigrationPlaced
      <3>4. ~unsure => Kept' /\ Copied'
        BY <1>0, <1>1, <1>2, <1>3, <2>2, <2>3, <2>4, <2>5
           DEF Kept, Copied, MigrationPlaced, Migration!Names
      <3> QED BY <1>2, <3>1, <3>2, <3>3, <3>4 DEF MigrationIInv
    <2>6. ASSUME failures < MaxFailures, failures' = failures + 1,
                 NEW k \in Failures \cap {"down", "lost"},
                 Migration!AttemptFails(k, IF k = "lost" THEN d ELSE col)
          PROVE  MigrationIInv'
      <3>0. ~DeathsOnly
        BY <2>6 DEF DeathsOnly
      <3>1. ~DeathsOnly /\ Sound(col)
        BY <3>0, SoundCol
      <3>2. Sound(d)
        BY <1>3, <2>2, <3>1 DEF Sound, Migration!Names
      <3>3. p.inplace
        BY <1>0, <1>1, <3>1 DEF MigrationPlaced, Sound
      <3>4. Salvaged(d) /\ Salvaged(col)
        BY <1>0, <1>1, <2>2, <2>3, <3>1, <3>3 DEF Salvaged, Sound, Kept, MigrationPlaced
      <3> QED BY <1>1, <2>6, <3>1, <3>2, <3>3, <3>4, AttemptFailsInv
    <2> QED BY <2>1, <2>5, <2>6
  <1> QED BY <1>5, <1>6, <1>7 DEF Migration!Attempt

\* The new collection of the copy.
LEMMA FillInv ==
    ASSUME Migration!MigrationAssumption, Outages, MigrationIInv, Migration!Fill
    PROVE  MigrationIInv'
  <1> USE DEF Migration!Has, IsWhole, Spent
  <1> DEFINE d == [col EXCEPT !["temp"] = Migration!Made({}, code)]
             q == [p EXCEPT !.at = "copying", !.copied = {}]
  <1>0. MigrationTypes /\ Indexed /\ MigrationPlaced /\ (~unsure => Kept /\ Copied)
    BY DEF MigrationIInv
  <1>1. /\ p.at = "fill" /\ UNCHANGED Migration!outside
        /\ \/ col' = d /\ p' = q /\ failures' = failures
           \/ /\ failures < MaxFailures /\ failures' = failures + 1
              /\ \E k \in Failures \cap {"down", "lost"} :
                   Migration!AttemptFails(k, IF k = "lost" THEN d ELSE col)
    BY DEF Migration!Fill, Migration!Call, Outages
  <1>2. UNCHANGED <<code, truth, unsure>>
    BY <1>1 DEF Migration!outside
  <1>3. Migration!Made({}, code).is /\ Migration!Made({}, code).index /\
           Migration!Made({}, code).rows = {}
    BY DEF Migration!Made
  <1>4. /\ d \in [Migration!Names -> Migration!Collection] /\ d["temp"] = Migration!Made({}, code)
        /\ d["legacy"] = col["legacy"] /\ d["old"] = col["old"] /\ d["final"] = col["final"]
    BY <1>0, Shapes, Updated DEF Migration!Names, MigrationTypes
  <1>5. q \in Progress /\ q.at = "copying" /\ q.copied = {}
    BY <1>0 DEF MigrationTypes, Progress, Positions
  <1>6. q.inplace = p.inplace
    BY <1>0 DEF MigrationTypes, Progress
  <1> HIDE DEF d, q
  <1>7. CASE col' = d /\ p' = q /\ failures' = failures
    <2>1. MigrationTypes'
      BY <1>0, <1>2, <1>3, <1>4, <1>5, <1>7 DEF MigrationTypes, Migration!Names
    <2>2. Indexed'
      BY <1>0, <1>2, <1>3, <1>4, <1>7 DEF Indexed
    <2>3. MigrationPlaced'
      BY <1>0, <1>1, <1>3, <1>4, <1>5, <1>6, <1>7 DEF MigrationPlaced
    <2>4. ~unsure => Kept' /\ Copied'
      BY <1>0, <1>1, <1>2, <1>3, <1>4, <1>5, <1>6, <1>7
         DEF Kept, Copied, MigrationPlaced, Migration!Names
    <2> QED BY <1>2, <2>1, <2>2, <2>3, <2>4 DEF MigrationIInv
  <1>8. ASSUME failures < MaxFailures, failures' = failures + 1,
               NEW k \in Failures \cap {"down", "lost"},
               Migration!AttemptFails(k, IF k = "lost" THEN d ELSE col)
        PROVE  MigrationIInv'
    <2>1. ~DeathsOnly
      BY <1>8 DEF DeathsOnly
    <2>2. Sound(col)
      BY <2>1, SoundCol
    <2>3. Sound(d)
      BY <1>3, <1>4, <2>2 DEF Sound, Migration!Names
    <2>4. p.inplace /\ Migration!Has("final")
      BY <1>0, <1>1, <2>2 DEF MigrationPlaced, Sound
    <2>5. Salvaged(d) /\ Salvaged(col)
      BY <1>0, <1>1, <1>4, <2>4 DEF Salvaged, Kept, MigrationPlaced
    <2> QED BY <1>1, <1>8, <2>2, <2>3, <2>4, <2>5, AttemptFailsInv
  <1> QED BY <1>1, <1>7, <1>8

\* The copy grows row by row, until it has those of the source.
LEMMA CopyInv ==
    ASSUME Migration!MigrationAssumption, Outages, MigrationIInv, Migration!Copy
    PROVE  MigrationIInv'
  <1> USE DEF Migration!Has, IsWhole, Spent
  <1>0. MigrationTypes /\ Indexed /\ MigrationPlaced /\ (~unsure => Kept /\ Copied)
    BY DEF MigrationIInv
  <1>1. p.at = "copying" /\ UNCHANGED Migration!outside
    BY DEF Migration!Copy
  <1>2. UNCHANGED <<code, truth, unsure>>
    BY <1>1 DEF Migration!outside
  <1>3. /\ Migration!Has("temp") /\ col["temp"].rows = p.copied
        /\ IF p.inplace THEN Migration!Has("final") /\ col["final"].index
           ELSE ~Migration!Has("final") /\ Migration!Has("legacy") /\ ~Migration!Has("old")
    BY <1>0, <1>1 DEF MigrationPlaced
  <1>4. ASSUME NEW r \in col[Migration!Source].rows \ p.copied,
               Migration!Call([col EXCEPT !["temp"].rows = @ \cup {r}],
                    [p EXCEPT !.copied = @ \cup {r}], Migration!AttemptFails)
        PROVE  MigrationIInv'
    <2> DEFINE d == [col EXCEPT !["temp"].rows = @ \cup {r}]
               q == [p EXCEPT !.copied = @ \cup {r}]
    <2>1. \/ col' = d /\ p' = q /\ failures' = failures
          \/ /\ failures < MaxFailures /\ failures' = failures + 1
             /\ \E k \in Failures \cap {"down", "lost"} :
                  Migration!AttemptFails(k, IF k = "lost" THEN d ELSE col)
      BY <1>4 DEF Migration!Call, Outages
    <2>2. r \in MilvusRows
      BY <1>0 DEF Migration!Source, MigrationTypes, Migration!Names, Migration!Collection
    <2>3. /\ d \in [Migration!Names -> Migration!Collection] /\ d["temp"].is = col["temp"].is
          /\ d["temp"].index = col["temp"].index /\ d["temp"].rows = col["temp"].rows \cup {r}
          /\ d["legacy"] = col["legacy"] /\ d["old"] = col["old"] /\ d["final"] = col["final"]
      <3>1. col \in [Migration!Names -> Migration!Collection] /\ "temp" \in Migration!Names
        BY <1>0 DEF MigrationTypes, Migration!Names
      <3>2. d = [col EXCEPT !["temp"] = [col["temp"] EXCEPT !.rows = @ \cup {r}]]
        BY <3>1
      <3>3. [col["temp"] EXCEPT !.rows = @ \cup {r}] \in Migration!Collection
        BY <1>0, <2>2, <3>1, Shapes
      <3>4. /\ [col["temp"] EXCEPT !.rows = @ \cup {r}].rows = col["temp"].rows \cup {r}
            /\ [col["temp"] EXCEPT !.rows = @ \cup {r}].is = col["temp"].is
            /\ [col["temp"] EXCEPT !.rows = @ \cup {r}].index = col["temp"].index
        BY <3>1 DEF Migration!Collection
      <3> HIDE DEF d
      <3> QED BY <3>1, <3>2, <3>3, <3>4, Updated DEF Migration!Names
    <2>4. q \in Progress /\ q.at = "copying" /\ q.copied = p.copied \cup {r}
      BY <1>0, <1>1, <2>2 DEF MigrationTypes, Progress
    <2>5. q.inplace = p.inplace
      BY <1>0 DEF MigrationTypes, Progress
    <2> HIDE DEF d, q
    <2>6. CASE col' = d /\ p' = q /\ failures' = failures
      <3>1. MigrationTypes'
        BY <1>0, <1>2, <1>3, <2>3, <2>4, <2>6 DEF MigrationTypes, Migration!Names
      <3>2. Indexed'
        BY <1>0, <1>2, <2>3, <2>6 DEF Indexed
      <3>3. MigrationPlaced'
        BY <1>3, <2>3, <2>4, <2>5, <2>6 DEF MigrationPlaced
      <3>4. ~unsure => Kept' /\ Copied'
        BY <1>0, <1>2, <1>3, <2>3, <2>4, <2>5, <2>6 DEF Kept, Copied, Migration!Names
      <3> QED BY <1>2, <3>1, <3>2, <3>3, <3>4 DEF MigrationIInv
    <2>7. ASSUME failures < MaxFailures, failures' = failures + 1,
                 NEW k \in Failures \cap {"down", "lost"},
                 Migration!AttemptFails(k, IF k = "lost" THEN d ELSE col)
          PROVE  MigrationIInv'
      <3>1. ~DeathsOnly
        BY <2>7 DEF DeathsOnly
      <3>2. Sound(col)
        BY <3>1, SoundCol
      <3>3. Sound(d)
        BY <1>3, <2>3, <3>2 DEF Sound, Migration!Names
      <3>4. p.inplace
        BY <1>3, <3>2 DEF Sound
      <3>5. Salvaged(d) /\ Salvaged(col)
        BY <1>0, <1>3, <2>3, <3>4 DEF Salvaged, Kept
      <3> QED BY <1>1, <2>7, <3>2, <3>3, <3>4, <3>5, AttemptFailsInv
    <2> QED BY <2>1, <2>6, <2>7
  <1>5. CASE /\ col[Migration!Source].rows = p.copied /\ UNCHANGED <<col, failures>>
             /\ p' = IF p.inplace THEN [p EXCEPT !.at = "vacating", !.commit = TRUE]
                     ELSE [p EXCEPT !.at = "promoting"]
    <2>1. ~unsure => IsWhole("temp")
      BY <1>0, <1>3, <1>5 DEF Kept, Migration!Source
    <2>2. CASE p.inplace
      <3>1. p' \in Progress /\ p'.at = "vacating"
        BY <1>0, <1>5, <2>2 DEF MigrationTypes, Progress, Positions
      <3>2. p'.inplace /\ p'.commit
        BY <1>0, <1>5, <2>2 DEF MigrationTypes, Progress
      <3>3. MigrationTypes' /\ Indexed'
        BY <1>0, <1>2, <1>5, <3>1 DEF MigrationTypes, Indexed
      <3>4. MigrationPlaced'
        BY <1>0, <1>3, <1>5, <2>2, <3>1, <3>2 DEF MigrationPlaced, Indexed
      <3>5. ~unsure => Kept' /\ Copied'
        BY <1>0, <1>2, <1>5, <2>1, <3>1 DEF Kept, Copied
      <3> QED BY <1>2, <3>3, <3>4, <3>5 DEF MigrationIInv
    <2>3. CASE ~p.inplace
      <3>1. p' \in Progress /\ p'.at = "promoting" /\ ~p'.inplace
        BY <1>0, <1>5, <2>3, ProgressFacts DEF Positions
      <3>2. MigrationTypes' /\ Indexed'
        BY <1>0, <1>2, <1>5, <3>1 DEF MigrationTypes, Indexed
      <3>3. MigrationPlaced'
        BY <1>3, <1>5, <2>3, <3>1 DEF MigrationPlaced
      <3>4. ~unsure => Kept' /\ Copied'
        BY <1>0, <1>2, <1>5, <2>1, <3>1 DEF Kept, Copied
      <3> QED BY <1>2, <3>2, <3>3, <3>4 DEF MigrationIInv
    <2> QED BY <2>2, <2>3
  <1> QED BY <1>4, <1>5 DEF Migration!Copy

\* The backup of an earlier migration goes.
LEMMA VacateInv ==
    ASSUME Migration!MigrationAssumption, Outages, MigrationIInv, Migration!Vacate
    PROVE  MigrationIInv'
  <1> USE DEF Migration!Has, IsWhole, Spent
  <1> DEFINE d == [col EXCEPT !["old"] = Migration!Absent]
  <1>0. MigrationTypes /\ Indexed /\ MigrationPlaced /\ (~unsure => Kept /\ Copied)
    BY DEF MigrationIInv
  <1>1. /\ p.at = "vacating" /\ UNCHANGED Migration!outside
        /\ \/ /\ col' = col \/ col' = d
              /\ failures < MaxFailures /\ failures' = failures + 1
              /\ p' = [p EXCEPT !.at = "dropping"]
              /\ \E k \in Failures : k \in {"down", "lost"}
           \/ /\ col' = d \/ (~Migration!Has("old") /\ col' = col)
              /\ failures' = failures /\ p' = [p EXCEPT !.at = "renaming"]
    BY DEF Migration!Vacate, Migration!Call, Migration!InsteadDrop, Outages
  <1>2. UNCHANGED <<code, truth, unsure>>
    BY <1>1 DEF Migration!outside
  <1>3. p.inplace /\ p.commit /\ Migration!Has("final") /\ col["final"].index /\
           Migration!Has("temp")
    BY <1>0, <1>1 DEF MigrationPlaced
  <1>4. Migration!Absent.is = FALSE
    BY DEF Migration!Absent
  <1>5. /\ d \in [Migration!Names -> Migration!Collection] /\ d["old"] = Migration!Absent
        /\ d["legacy"] = col["legacy"] /\ d["temp"] = col["temp"] /\ d["final"] = col["final"]
    BY <1>0, Shapes, Updated DEF Migration!Names, MigrationTypes
  <1> HIDE DEF d
  <1>6. /\ col' \in [Migration!Names -> Migration!Collection] /\ col'["legacy"] = col["legacy"]
        /\ col'["temp"] = col["temp"] /\ col'["final"] = col["final"]
        /\ col'["old"] \in {col["old"], Migration!Absent}
    BY <1>0, <1>1, <1>5 DEF MigrationTypes
  <1>7. p' \in Progress /\ failures' \in Nat /\ p'.inplace = p.inplace /\ p'.commit = p.commit
    <2>1. PICK at \in {"dropping", "renaming"} : p' = [p EXCEPT !.at = at]
      BY <1>1
    <2>2. failures \in Nat /\ failures' \in {failures, failures + 1}
      BY <1>0, <1>1 DEF MigrationTypes
    <2>3. at \in Positions
      BY <2>1 DEF Positions
    <2>4. p' \in Progress /\ p'.inplace = p.inplace /\ p'.commit = p.commit
      BY <1>0, <2>1, <2>3, ProgressFacts
    <2> QED BY <2>2, <2>4
  <1>8. MigrationTypes'
    BY <1>0, <1>2, <1>4, <1>6, <1>7 DEF MigrationTypes, Migration!Names
  <1>9. Indexed'
    BY <1>0, <1>2, <1>4, <1>6 DEF Indexed
  <1>10. ~unsure => Kept'
    BY <1>0, <1>2, <1>3, <1>6 DEF Kept, Migration!Names
  <1>11. CASE p' = [p EXCEPT !.at = "dropping"]
    <2>1. p'.at = "dropping"
      BY <1>0, <1>11, ProgressFacts DEF Positions
    <2>2. failures' > 0
      <3>1. [p EXCEPT !.at = "renaming"].at = "renaming"
        BY <1>0, ProgressFacts DEF Positions
      <3>2. failures \in Nat /\ failures' = failures + 1
        BY <1>0, <1>1, <2>1, <3>1 DEF MigrationTypes
      <3> QED BY <3>2
    <2>3. ~Migration!Has("legacy")
      <3>1. \E k \in Failures : k \in {"down", "lost"}
        BY <1>0, <1>1, <2>1, ProgressFacts DEF Positions
      <3> QED BY <1>0, <3>1 DEF MigrationTypes, DeathsOnly
    <2>4. MigrationPlaced'
      BY <1>3, <1>6, <1>7, <2>1, <2>2, <2>3 DEF MigrationPlaced
    <2>5. ~unsure => Copied'
      BY <1>0, <1>1, <1>2, <1>3, <1>6, <2>1 DEF Copied
    <2> QED BY <1>2, <1>8, <1>9, <1>10, <2>4, <2>5 DEF MigrationIInv
  <1>12. CASE p' = [p EXCEPT !.at = "renaming"]
    <2>1. p'.at = "renaming"
      BY <1>0, <1>12, ProgressFacts DEF Positions
    <2>2. ~Migration!Has("old")'
      <3>1. p'.at # "dropping"
        BY <2>1
      <3>2. [p EXCEPT !.at = "dropping"].at = "dropping"
        BY <1>0, ProgressFacts DEF Positions
      <3> QED BY <1>1, <1>4, <1>5, <3>1, <3>2
    <2>3. MigrationPlaced'
      BY <1>3, <1>6, <1>7, <2>1, <2>2 DEF MigrationPlaced
    <2>4. ~unsure => Copied'
      BY <1>0, <1>1, <1>2, <1>6, <2>1 DEF Copied
    <2> QED BY <1>2, <1>8, <1>9, <1>10, <2>3, <2>4 DEF MigrationIInv
  <1> QED BY <1>1, <1>11, <1>12

\* The source becomes the backup, or is to be dropped.
LEMMA RenameSourceInv ==
    ASSUME Migration!MigrationAssumption, Outages, MigrationIInv, Migration!RenameSource
    PROVE  MigrationIInv'
  <1> USE DEF Migration!Has, IsWhole, Spent
  <1> DEFINE d == Migration!Renamed("final", "old")
  <1>0. MigrationTypes /\ Indexed /\ MigrationPlaced /\ (~unsure => Kept /\ Copied)
    BY DEF MigrationIInv
  <1>1. /\ p.at = "renaming" /\ UNCHANGED Migration!outside
    BY DEF Migration!RenameSource
  <1>2. UNCHANGED <<code, truth, unsure>>
    BY <1>1 DEF Migration!outside
  <1>3. /\ p.inplace /\ p.commit /\ Migration!Has("final") /\ col["final"].index
        /\ Migration!Has("temp")
        /\ ~Migration!Has("old")
    BY <1>0, <1>1 DEF MigrationPlaced
  <1>4. \/ /\ col' = col \/ col' = d
           /\ failures < MaxFailures /\ failures' = failures + 1
           /\ p' = [p EXCEPT !.at = "dropping"]
           /\ \E k \in Failures : k \in {"down", "lost"}
        \/ col' = d /\ failures' = failures /\ p' = [p EXCEPT !.at = "promoting"]
    BY <1>3
       DEF Migration!RenameSource, Migration!Rename, Migration!Call, Migration!InsteadDrop,
           Outages
  <1>5. Migration!Absent.is = FALSE
    BY DEF Migration!Absent
  <1>6. /\ d \in [Migration!Names -> Migration!Collection] /\ d["old"] = col["final"]
        /\ d["final"] = Migration!Absent
        /\ d["legacy"] = col["legacy"] /\ d["temp"] = col["temp"]
    BY <1>0, RenamedFacts DEF Migration!Names
  <1> HIDE DEF d
  <1>7. /\ col' \in [Migration!Names -> Migration!Collection] /\ col'["legacy"] = col["legacy"]
        /\ col'["temp"] = col["temp"]
        /\ \/ col'["final"] = col["final"] /\ col'["old"] = col["old"]
           \/ col'["final"] = Migration!Absent /\ col'["old"] = col["final"]
    BY <1>0, <1>4, <1>6 DEF MigrationTypes
  <1>8. p' \in Progress /\ failures' \in Nat /\ p'.inplace = p.inplace /\ p'.commit = p.commit
    <2>1. PICK at \in {"dropping", "promoting"} : p' = [p EXCEPT !.at = at]
      BY <1>4
    <2>2. failures \in Nat /\ failures' \in {failures, failures + 1}
      BY <1>0, <1>4 DEF MigrationTypes
    <2>3. at \in Positions
      BY <2>1 DEF Positions
    <2>4. p' \in Progress /\ p'.inplace = p.inplace /\ p'.commit = p.commit
      BY <1>0, <2>1, <2>3, ProgressFacts
    <2> QED BY <2>2, <2>4
  <1>9. MigrationTypes'
    BY <1>0, <1>2, <1>5, <1>7, <1>8 DEF MigrationTypes, Migration!Names
  <1>10. Indexed'
    BY <1>0, <1>2, <1>3, <1>5, <1>7 DEF Indexed
  <1>11. ~unsure => IsWhole("final") /\ IsWhole("temp")
    BY <1>0, <1>1, <1>3 DEF Kept, Copied
  <1>12. ~unsure => Kept'
    <2>1. CASE col'["final"] = col["final"] /\ col'["old"] = col["old"]
      BY <1>2, <1>3, <1>11, <2>1 DEF Kept, Migration!Names
    <2>2. CASE col'["final"] = Migration!Absent /\ col'["old"] = col["final"]
      BY <1>2, <1>3, <1>5, <1>7, <1>11, <2>2 DEF Kept, Migration!Names
    <2> QED BY <1>7, <2>1, <2>2
  <1>13. CASE /\ p' = [p EXCEPT !.at = "dropping"] /\ failures' = failures + 1
              /\ \E k \in Failures : k \in {"down", "lost"}
    <2>1. p'.at = "dropping" /\ failures' > 0
      BY <1>0, <1>13, ProgressFacts DEF Positions, MigrationTypes
    <2>2. ~Migration!Has("legacy")
      BY <1>0, <1>13 DEF MigrationTypes, DeathsOnly
    <2>3. MigrationPlaced'
      BY <1>3, <1>5, <1>7, <1>8, <2>1, <2>2 DEF MigrationPlaced
    <2>4. ~unsure => Copied'
      BY <1>2, <1>7, <1>11, <2>1 DEF Copied
    <2> QED BY <1>2, <1>9, <1>10, <1>12, <2>3, <2>4 DEF MigrationIInv
  <1>14. CASE col' = d /\ p' = [p EXCEPT !.at = "promoting"]
    <2>1. p'.at = "promoting"
      BY <1>0, <1>14, ProgressFacts DEF Positions
    <2>2. MigrationPlaced'
      BY <1>3, <1>5, <1>6, <1>8, <1>14, <2>1 DEF MigrationPlaced
    <2>3. ~unsure => Copied'
      BY <1>2, <1>3, <1>6, <1>11, <1>14, <2>1 DEF Copied
    <2> QED BY <1>2, <1>9, <1>10, <1>12, <2>2, <2>3 DEF MigrationIInv
  <1> QED BY <1>4, <1>13, <1>14

\* The source is dropped: the copy is all there is.
LEMMA DropSourceInv ==
    ASSUME Migration!MigrationAssumption, Outages, MigrationIInv, Migration!DropSource
    PROVE  MigrationIInv'
  <1> USE DEF Migration!Has, IsWhole, Spent
  <1> DEFINE d == [col EXCEPT !["final"] = Migration!Absent]
  <1>0. MigrationTypes /\ Indexed /\ MigrationPlaced /\ (~unsure => Kept /\ Copied)
    BY DEF MigrationIInv
  <1>1. /\ p.at = "dropping" /\ UNCHANGED Migration!outside
        /\ \/ col' = d /\ p' = [p EXCEPT !.at = "promoting"] /\ failures' = failures
           \/ /\ failures < MaxFailures /\ failures' = failures + 1
              /\ \E k \in Failures \cap {"down", "lost"} :
                   Migration!AttemptFails(k, IF k = "lost" THEN d ELSE col)
    BY DEF Migration!DropSource, Migration!Call, Outages
  <1>2. UNCHANGED <<code, truth, unsure>>
    BY <1>1 DEF Migration!outside
  <1>3. /\ p.inplace /\ p.commit /\ Migration!Has("temp") /\ ~Migration!Has("legacy")
        /\ failures > 0
        /\ Migration!Has("final") => col["final"].index
    BY <1>0, <1>1 DEF MigrationPlaced
  <1>4. Migration!Absent.is = FALSE
    BY DEF Migration!Absent
  <1>5. /\ d \in [Migration!Names -> Migration!Collection] /\ d["final"] = Migration!Absent
        /\ d["legacy"] = col["legacy"] /\ d["temp"] = col["temp"] /\ d["old"] = col["old"]
    BY <1>0, Shapes, Updated DEF Migration!Names, MigrationTypes
  <1>6. ~unsure => IsWhole("temp")
    BY <1>0, <1>1 DEF Copied
  <1> HIDE DEF d
  <1>7. CASE col' = d /\ p' = [p EXCEPT !.at = "promoting"] /\ failures' = failures
    <2>1. p' \in Progress /\ p'.at = "promoting"
      BY <1>0, <1>7, ProgressFacts DEF Positions
    <2>2. p'.inplace = p.inplace /\ p'.commit = p.commit
      BY <1>0, <1>7, ProgressFacts DEF Positions
    <2>3. MigrationTypes'
      BY <1>0, <1>2, <1>5, <1>7, <2>1 DEF MigrationTypes, Migration!Names
    <2>4. Indexed'
      BY <1>0, <1>2, <1>4, <1>5, <1>7 DEF Indexed
    <2>5. MigrationPlaced'
      BY <1>3, <1>4, <1>5, <1>7, <2>1, <2>2 DEF MigrationPlaced
    <2>6. ~unsure => Kept' /\ Copied'
      BY <1>2, <1>3, <1>4, <1>5, <1>6, <1>7, <2>1 DEF Kept, Copied, Migration!Names
    <2> QED BY <1>2, <2>3, <2>4, <2>5, <2>6 DEF MigrationIInv
  <1>8. ASSUME failures' = failures + 1, NEW k \in Failures \cap {"down", "lost"},
               Migration!AttemptFails(k, IF k = "lost" THEN d ELSE col)
        PROVE  MigrationIInv'
    <2>1. ~DeathsOnly
      BY <1>8 DEF DeathsOnly
    <2>2. Sound(col)
      BY <2>1, SoundCol
    <2>3. Sound(d)
      BY <1>4, <1>5, <2>2 DEF Sound, Migration!Names
    <2>4. Salvaged(d)
      BY <1>3, <1>4, <1>5, <1>6 DEF Salvaged
    <2>5. Salvaged(col)
      BY <1>0, <1>3, <1>6 DEF Salvaged, Kept
    <2> QED BY <1>1, <1>3, <1>8, <2>2, <2>3, <2>4, <2>5, AttemptFailsInv
  <1> QED BY <1>1, <1>7, <1>8

\* The copy gets its name.
LEMMA PromoteInv ==
    ASSUME Migration!MigrationAssumption, Outages, MigrationIInv, Migration!Promote
    PROVE  MigrationIInv'
  <1> USE DEF Migration!Has, IsWhole, Spent
  <1> DEFINE d == Migration!Renamed("temp", "final")
             q == [p EXCEPT !.at = "loading", !.guarded = p.inplace, !.copied = {},
                            !.commit = FALSE]
  <1>0. MigrationTypes /\ Indexed /\ MigrationPlaced /\ (~unsure => Kept /\ Copied)
    BY DEF MigrationIInv
  <1>1. p.at = "promoting" /\ UNCHANGED Migration!outside
    BY DEF Migration!Promote
  <1>2. UNCHANGED <<code, truth, unsure>>
    BY <1>1 DEF Migration!outside
  <1>3. /\ ~Migration!Has("final") /\ Migration!Has("temp")
        /\ IF p.inplace THEN p.commit /\ (Migration!Has("old") \/
              (~Migration!Has("legacy") /\ failures > 0))
           ELSE Migration!Has("legacy") /\ ~Migration!Has("old")
    BY <1>0, <1>1 DEF MigrationPlaced
  <1>4. \/ col' = d /\ p' = q /\ failures' = failures
        \/ /\ failures < MaxFailures /\ failures' = failures + 1
           /\ \E k \in Failures \cap {"down", "lost"} :
                Migration!AttemptFails(k, IF k = "lost" THEN d ELSE col)
    BY <1>3 DEF Migration!Promote, Migration!Rename, Migration!Call, Outages
  <1>5. Migration!Absent.is = FALSE
    BY DEF Migration!Absent
  <1>6. /\ d \in [Migration!Names -> Migration!Collection] /\ d["final"] = col["temp"]
        /\ d["temp"] = Migration!Absent
        /\ d["legacy"] = col["legacy"] /\ d["old"] = col["old"]
    BY <1>0, RenamedFacts DEF Migration!Names
  <1>7. ~unsure => IsWhole("temp")
    BY <1>0, <1>1 DEF Copied
  <1>8. q \in Progress /\ q.at = "loading"
    BY <1>0 DEF MigrationTypes, Progress, Positions
  <1>9. col["temp"].index
    BY <1>0, <1>3 DEF Indexed
  <1> HIDE DEF d, q
  <1>10. CASE col' = d /\ p' = q /\ failures' = failures
    <2>1. MigrationTypes'
      BY <1>0, <1>2, <1>6, <1>8, <1>10 DEF MigrationTypes, Migration!Names
    <2>2. Indexed'
      BY <1>0, <1>2, <1>5, <1>6, <1>9, <1>10 DEF Indexed
    <2>3. MigrationPlaced'
      BY <1>3, <1>6, <1>8, <1>9, <1>10 DEF MigrationPlaced
    <2>4. ~unsure => Kept' /\ Copied'
      BY <1>2, <1>3, <1>5, <1>6, <1>7, <1>8, <1>10 DEF Kept, Copied, Migration!Names
    <2> QED BY <1>2, <2>1, <2>2, <2>3, <2>4 DEF MigrationIInv
  <1>11. ASSUME failures' = failures + 1, NEW k \in Failures \cap {"down", "lost"},
               Migration!AttemptFails(k, IF k = "lost" THEN d ELSE col)
        PROVE  MigrationIInv'
    <2>1. ~DeathsOnly
      BY <1>11 DEF DeathsOnly
    <2>2. Sound(col)
      BY <2>1, SoundCol
    <2>3. Sound(d)
      BY <1>5, <1>6, <1>9, <2>2 DEF Sound, Migration!Names
    <2>4. p.inplace
      BY <1>3, <2>2 DEF Sound
    <2>5. Salvaged(d)
      BY <1>3, <1>6, <1>7, <1>9 DEF Salvaged
    <2>6. Salvaged(col)
      BY <1>0, <1>1, <1>3, <1>7, <2>4 DEF Salvaged, Copied
    <2> QED BY <1>1, <1>11, <2>2, <2>3, <2>4, <2>5, <2>6, AttemptFailsInv
  <1> QED BY <1>4, <1>10, <1>11

-----------------------------------------------------------------------------
(* initialize *)

\* A start that finds no collection to serve gives the name to the copy or the backup.
LEMMA RecoverInv ==
    ASSUME Migration!MigrationAssumption, Outages, MigrationIInv, Migration!Recover
    PROVE  MigrationIInv'
  <1> USE DEF Migration!Has, IsWhole, Spent
  <1> DEFINE n == IF Migration!Has("temp") THEN "temp" ELSE "old"
             d == Migration!Renamed(n, "final")
  <1>0. MigrationTypes /\ Indexed /\ MigrationPlaced /\ (~unsure => Kept /\ Copied)
    BY DEF MigrationIInv
  <1>1. p.at = "recovering" /\ UNCHANGED Migration!outside
    BY DEF Migration!Recover
  <1>2. UNCHANGED <<code, truth, unsure>> /\ failures \in Nat
    BY <1>0, <1>1 DEF Migration!outside, MigrationTypes
  <1>3. ~Migration!Has("final") /\ (Migration!Has("old") \/
           (Migration!Has("temp") /\ ~Migration!Has("legacy")))
    BY <1>0, <1>1 DEF MigrationPlaced
  <1>4. \/ col' = d /\ p' = [p EXCEPT !.at = "loading"] /\ failures' = failures
        \/ failures' = failures + 1 /\ p' = Migration!Off /\ (col' = d \/ col' = col)
    BY <1>3
       DEF Migration!Recover, Migration!Rename, Migration!Call, Migration!NotRuntimeError,
           Outages
  <1>5. Migration!Absent.is = FALSE
    BY DEF Migration!Absent
  <1>6. /\ d \in [Migration!Names -> Migration!Collection] /\ d["final"] = col[n]
        /\ d[n] = Migration!Absent
        /\ \A m \in Migration!Names \ {n, "final"} : d[m] = col[m]
    BY <1>0, RenamedFacts DEF Migration!Names
  <1>7. n \in {"temp", "old"} /\ Migration!Has(n) /\ col[n].index /\ (~unsure => IsWhole(n))
    BY <1>0, <1>3 DEF Indexed, Kept
  <1> HIDE DEF d, n
  <1>8. /\ d["final"].is /\ d["final"].index /\ d["legacy"] = col["legacy"]
        /\ d["temp"] \in {col["temp"], Migration!Absent}
        /\ d["old"] \in {col["old"], Migration!Absent}
        /\ \A m \in Migration!Names : ~d[m].is => d[m] = Migration!Absent
        /\ ~unsure => d["final"].rows = truth
    BY <1>0, <1>6, <1>7 DEF MigrationTypes, Migration!Names
  <1>9. col' = d => (~unsure => Kept')
    BY <1>2, <1>8 DEF Kept, Migration!Names
  <1>10. CASE col' = d /\ p' = [p EXCEPT !.at = "loading"] /\ failures' = failures
    <2>1. p' \in Progress /\ p'.at = "loading"
      BY <1>0, <1>10, ProgressFacts DEF Positions
    <2>2. MigrationTypes'
      BY <1>0, <1>2, <1>6, <1>8, <1>10, <2>1 DEF MigrationTypes
    <2>3. Indexed'
      BY <1>0, <1>2, <1>5, <1>8, <1>10 DEF Indexed
    <2>4. MigrationPlaced' /\ Copied'
      BY <1>8, <1>10, <2>1 DEF MigrationPlaced, Copied
    <2> QED BY <1>2, <1>9, <1>10, <2>2, <2>3, <2>4 DEF MigrationIInv
  <1>11. CASE failures' = failures + 1 /\ p' = Migration!Off /\ col' = d
    BY <1>0, <1>2, <1>5, <1>6, <1>8, <1>9, <1>11, OffInv DEF MigrationTypes, Indexed
  <1>12. CASE failures' = failures + 1 /\ p' = Migration!Off /\ col' = col
    <2>1. ~unsure => Kept'
      BY <1>0, <1>2, <1>12 DEF Kept
    <2> QED BY <1>0, <1>2, <1>12, <2>1, OffInv DEF MigrationTypes, Indexed
  <1> QED BY <1>4, <1>10, <1>11, <1>12

\* What fails without a trace on the server, and a death.
LEMMA StaysInv ==
    ASSUME Migration!MigrationAssumption, MigrationIInv, UNCHANGED <<col, code, truth, unsure>>,
           failures' \in Nat,
           p' = Migration!Off
    PROVE  MigrationIInv'
  <1> USE DEF Migration!Has, IsWhole
  <1>1. MigrationTypes /\ Indexed /\ (~unsure => Kept)
    BY DEF MigrationIInv
  <1>2. ~unsure => Kept'
    BY <1>1 DEF Kept
  <1> QED BY <1>1, <1>2, OffInv DEF MigrationTypes, Indexed

\* A collection is served when it is loaded, with its index.
LEMMA LoadInv ==
    ASSUME Migration!MigrationAssumption, Outages, MigrationIInv, Migration!Load
    PROVE  MigrationIInv'
  <1> USE DEF Migration!Has, IsWhole, Spent
  <1>0. MigrationTypes /\ Indexed /\ MigrationPlaced /\ (~unsure => Kept /\ Copied)
    BY DEF MigrationIInv
  <1>1. p.at = "loading" /\ Migration!Has("final") /\ UNCHANGED Migration!outside
    BY DEF Migration!Load
  <1>2. UNCHANGED <<code, truth, unsure>> /\ failures \in Nat
    BY <1>0, <1>1 DEF Migration!outside, MigrationTypes
  <1>3. p.guarded \/ col["final"].index
    BY <1>0, <1>1 DEF MigrationPlaced
  <1>4. /\ col' = col /\ failures' \in {failures, failures + 1}
        /\ \/ p' = Migration!Off
           \/ /\ col["final"].index
              /\ p' = [Migration!Off EXCEPT !.at = "serving"]
           \/ p' = [p EXCEPT !.at = "repairing"]
    BY <1>3 DEF Migration!Load, Migration!Call, Migration!NotRuntimeError, Outages
  <1>5. failures' \in Nat
    BY <1>2, <1>4
  <1>6. Indexed' /\ (~unsure => Kept')
    BY <1>0, <1>2, <1>4 DEF Indexed, Kept
  <1>7. CASE p' = Migration!Off
    BY <1>2, <1>4, <1>5, <1>7, StaysInv
  <1>8. CASE /\ col["final"].index
             /\ p' = [Migration!Off EXCEPT !.at = "serving"]
    <2>1. p' \in Progress
      <3>1. 0 \in 0..Retries
        BY DEF Migration!MigrationAssumption
      <3> QED BY <1>8, <3>1 DEF Migration!Off, Progress, Positions
    <2>2. p'.at = "serving"
      BY <1>8 DEF Migration!Off
    <2>3. MigrationTypes'
      BY <1>0, <1>2, <1>4, <1>5, <2>1 DEF MigrationTypes
    <2>4. MigrationPlaced' /\ Copied'
      BY <1>1, <1>2, <1>4, <1>8, <2>2 DEF MigrationPlaced, Copied
    <2> QED BY <1>2, <1>6, <2>3, <2>4 DEF MigrationIInv
  <1>9. CASE p' = [p EXCEPT !.at = "repairing"]
    <2>1. p' \in Progress /\ p'.at = "repairing"
      BY <1>0, <1>9, ProgressFacts DEF Positions
    <2>2. MigrationTypes'
      BY <1>0, <1>2, <1>4, <1>5, <2>1 DEF MigrationTypes
    <2>3. MigrationPlaced' /\ Copied'
      BY <1>1, <1>4, <2>1 DEF MigrationPlaced, Copied
    <2> QED BY <1>2, <1>6, <2>2, <2>3 DEF MigrationIInv
  <1> QED BY <1>4, <1>7, <1>8, <1>9

\* The collection that is served gets the index that it lacked,
LEMMA IndexedInv ==
    ASSUME Migration!MigrationAssumption, MigrationIInv, UNCHANGED <<code, truth, unsure>>,
           failures' \in Nat,
           p.at \in {"repairing", "indexing"}, col' = [col EXCEPT !["final"].index = TRUE],
           p' = Migration!Off \/ p' = [p EXCEPT !.at = "loading"]
    PROVE  MigrationIInv'
  <1> USE DEF Migration!Has, IsWhole, Spent
  <1>0. MigrationTypes /\ Indexed /\ MigrationPlaced /\ (~unsure => Kept)
    BY DEF MigrationIInv
  <1>1. Migration!Has("final")
    BY <1>0 DEF MigrationPlaced
  <1>2. /\ col' \in [Migration!Names -> Migration!Collection] /\ col'["final"].is
        /\ col'["final"].index
        /\ col'["final"].rows = col["final"].rows
        /\ col'["legacy"] = col["legacy"] /\ col'["temp"] = col["temp"]
        /\ col'["old"] = col["old"]
    <2> DEFINE c == [col["final"] EXCEPT !.index = TRUE]
    <2>1. col \in [Migration!Names -> Migration!Collection] /\ "final" \in Migration!Names
      BY <1>0 DEF MigrationTypes, Migration!Names
    <2>2. col' = [col EXCEPT !["final"] = c]
      BY <2>1
    <2>3. c \in Migration!Collection
      BY <1>0, <2>1, Shapes
    <2>4. c.rows = col["final"].rows
      BY <2>1 DEF Migration!Collection
    <2>5. c.is
      BY <1>1, <2>1 DEF Migration!Collection
    <2>6. c.index
      BY <2>1 DEF Migration!Collection
    <2> HIDE DEF c
    <2>7. /\ col' \in [Migration!Names -> Migration!Collection] /\ col'["final"] = c
          /\ \A n \in Migration!Names : n # "final" => col'[n] = col[n]
      BY <2>1, <2>2, <2>3
    <2>8. {"legacy", "temp", "old"} \subseteq Migration!Names
      BY DEF Migration!Names
    <2> QED BY <2>4, <2>5, <2>6, <2>7, <2>8
  <1>3. \A n \in Migration!Names : ~col'[n].is => col'[n] = Migration!Absent
    BY <1>0, <1>2 DEF MigrationTypes, Migration!Names
  <1>4. ~unsure => Kept'
    BY <1>0, <1>1, <1>2 DEF Kept, Migration!Names
  <1>5. CASE p' = Migration!Off
    BY <1>0, <1>2, <1>3, <1>4, <1>5, OffInv DEF MigrationTypes, Indexed
  <1>6. CASE p' = [p EXCEPT !.at = "loading"]
    <2>1. p' \in Progress /\ p'.at = "loading"
      BY <1>0, <1>6, ProgressFacts DEF Positions
    <2>2. MigrationTypes'
      BY <1>0, <1>2, <1>3, <2>1 DEF MigrationTypes
    <2>3. Indexed'
      BY <1>0, <1>2 DEF Indexed
    <2>4. MigrationPlaced' /\ Copied'
      BY <1>2, <2>1 DEF MigrationPlaced, Copied
    <2> QED BY <1>4, <2>2, <2>3, <2>4 DEF MigrationIInv
  <1> QED BY <1>5, <1>6

\* in a repair or after its creation.
LEMMA RepairInv ==
    ASSUME Migration!MigrationAssumption, Outages, MigrationIInv, Migration!Repair \/
           Migration!Index
    PROVE  MigrationIInv'
  <1>1. /\ p.at \in {"repairing", "indexing"} /\ UNCHANGED <<code, truth, unsure>>
        /\ failures' \in {failures, failures + 1} /\ failures \in Nat
        /\ \/ /\ col' = [col EXCEPT !["final"].index = TRUE]
              /\ p' = Migration!Off \/ p' = [p EXCEPT !.at = "loading"]
           \/ col' = col /\ p' = Migration!Off
    BY DEF Migration!Repair, Migration!Index, Migration!Call, Migration!Raised,
           Migration!NotRuntimeError, Outages, Migration!outside, MigrationIInv,
           MigrationTypes
  <1>2. failures' \in Nat
    BY <1>1
  <1> QED BY <1>1, <1>2, IndexedInv, StaysInv

\* A collection is created where there is none, and none had rows.
LEMMA CreateInv ==
    ASSUME Migration!MigrationAssumption, Outages, MigrationIInv, Migration!Create
    PROVE  MigrationIInv'
  <1> USE DEF Migration!Has, IsWhole, Spent
  <1> DEFINE c == [Migration!Made({}, code) EXCEPT !.index = FALSE]
             d == [col EXCEPT !["final"] = c]
  <1>0. MigrationTypes /\ Indexed /\ MigrationPlaced /\ (~unsure => Kept /\ Copied)
    BY DEF MigrationIInv
  <1>1. /\ p.at = "creating" /\ UNCHANGED <<code, truth, unsure>>
        /\ failures' \in {failures, failures + 1} /\ failures \in Nat
        /\ \/ col' = d /\ (p' = Migration!Off \/ p' = [p EXCEPT !.at = "indexing"])
           \/ col' = col /\ p' = Migration!Off
    BY <1>0
       DEF Migration!Create, Migration!Call, Migration!NotRuntimeError, Outages,
           Migration!outside, MigrationTypes
  <1>2. failures' \in Nat
    BY <1>1
  <1>3. \A n \in Migration!Names : ~Migration!Has(n)
    BY <1>0, <1>1 DEF MigrationPlaced
  <1>4. c.is /\ c.version = code /\ c.rows = {}
    BY DEF Migration!Made
  <1>5. /\ d \in [Migration!Names -> Migration!Collection] /\ d["final"] = c
        /\ \A n \in {"legacy", "temp", "old"} : d[n] = col[n] /\ ~d[n].is
    BY <1>0, <1>3, Shapes, Updated DEF MigrationTypes, Migration!Names
  <1> HIDE DEF c, d
  <1>6. \A n \in Migration!Names : ~d[n].is => d[n] = Migration!Absent
    BY <1>0, <1>4, <1>5 DEF MigrationTypes, Migration!Names
  <1>7. ~unsure => truth = {}
    BY <1>0, <1>3 DEF Kept
  <1>8. col' = d => (~unsure => Kept')
    BY <1>1, <1>4, <1>5, <1>7 DEF Kept, Migration!Names
  <1>9. CASE p' = Migration!Off /\ col' = col
    BY <1>1, <1>2, <1>9, StaysInv
  <1>10. CASE p' = Migration!Off /\ col' = d
    BY <1>1, <1>2, <1>4, <1>5, <1>6, <1>8, <1>10, OffInv
  <1>11. CASE p' = [p EXCEPT !.at = "indexing"] /\ col' = d
    <2>1. p' \in Progress /\ p'.at = "indexing"
      BY <1>0, <1>11, ProgressFacts DEF Positions
    <2>2. MigrationTypes'
      BY <1>0, <1>1, <1>2, <1>5, <1>6, <1>11, <2>1 DEF MigrationTypes
    <2>3. Indexed'
      BY <1>1, <1>4, <1>5, <1>11 DEF Indexed
    <2>4. MigrationPlaced' /\ Copied'
      BY <1>4, <1>5, <1>11, <2>1 DEF MigrationPlaced, Copied
    <2> QED BY <1>1, <1>8, <1>11, <2>2, <2>3, <2>4 DEF MigrationIInv
  <1> QED BY <1>1, <1>9, <1>10, <1>11

-----------------------------------------------------------------------------
(* Around initialize *)

\* The application writes to the collection that is served.
LEMMA WriteInv ==
    ASSUME Migration!MigrationAssumption, MigrationIInv, Migration!Write
    PROVE  MigrationIInv'
  <1> USE DEF Migration!Has, IsWhole, Spent
  <1>0. MigrationTypes /\ Indexed /\ MigrationPlaced /\ (~unsure => Kept /\ Copied)
    BY DEF MigrationIInv
  <1>1. PICK rs \in SUBSET MilvusRows : truth' = rs /\ col' = [col EXCEPT !["final"].rows = rs]
    BY DEF Migration!Write
  <1>2. p.at = "serving" /\ UNCHANGED <<code, p, unsure, failures>>
    BY DEF Migration!Write
  <1>3. Migration!Has("final") /\ col["final"].index
    BY <1>0, <1>2 DEF MigrationPlaced
  <1>4. /\ col' \in [Migration!Names -> Migration!Collection] /\ col'["final"].is
        /\ col'["final"].index
        /\ col'["final"].rows = rs
        /\ col'["legacy"] = col["legacy"] /\ col'["temp"] = col["temp"]
        /\ col'["old"] = col["old"]
    <2> DEFINE c == [col["final"] EXCEPT !.rows = rs]
    <2>1. col \in [Migration!Names -> Migration!Collection] /\ "final" \in Migration!Names
      BY <1>0 DEF MigrationTypes, Migration!Names
    <2>2. col' = [col EXCEPT !["final"] = c]
      BY <1>1, <2>1
    <2>3. c \in Migration!Collection /\ c.rows = rs
      BY <1>3, <2>1 DEF Migration!Collection
    <2>4. c.is
      BY <1>3, <2>1 DEF Migration!Collection
    <2>5. c.index
      BY <1>3, <2>1 DEF Migration!Collection
    <2> HIDE DEF c
    <2>6. /\ col' \in [Migration!Names -> Migration!Collection] /\ col'["final"] = c
          /\ \A n \in Migration!Names : n # "final" => col'[n] = col[n]
      BY <2>1, <2>2, <2>3
    <2>7. {"legacy", "temp", "old"} \subseteq Migration!Names
      BY DEF Migration!Names
    <2> QED BY <2>3, <2>4, <2>5, <2>6, <2>7
  <1>5. \A n \in Migration!Names : ~col'[n].is => col'[n] = Migration!Absent
    BY <1>0, <1>4 DEF MigrationTypes, Migration!Names
  <1>6. MigrationTypes'
    BY <1>0, <1>1, <1>2, <1>4, <1>5 DEF MigrationTypes
  <1>7. Indexed'
    BY <1>0, <1>2, <1>4 DEF Indexed
  <1>8. MigrationPlaced' /\ Copied'
    BY <1>2, <1>4 DEF MigrationPlaced, Copied
  <1>9. Kept'
    BY <1>1, <1>4 DEF Kept, Migration!Names
  <1> QED BY <1>6, <1>7, <1>8, <1>9 DEF MigrationIInv

\* drop: from here the rows are in doubt,
LEMMA DropInv ==
    ASSUME Migration!MigrationAssumption, Outages, MigrationIInv, Migration!Drop
    PROVE  MigrationIInv'
  <1> USE DEF Migration!Has, IsWhole, Spent
  <1> DEFINE d == [col EXCEPT !["final"] = Migration!Absent]
  <1>0. MigrationTypes /\ Indexed /\ MigrationPlaced
    BY DEF MigrationIInv
  <1>1. /\ p.at = "serving" /\ unsure' = TRUE /\ UNCHANGED <<code, truth>>
        /\ failures' \in {failures, failures + 1} /\ failures \in Nat
        /\ \/ col' = d /\ p' = [p EXCEPT !.at = "emptied"]
           \/ /\ col' = d \/ col' = col
              /\ p' = [Migration!Off EXCEPT !.at = IF col'["final"].is THEN "serving"
                    ELSE "broken"]
    BY <1>0 DEF Migration!Drop, Migration!Call, Migration!DropFails, MigrationTypes
  <1>2. Migration!Has("final") /\ col["final"].index
    BY <1>0, <1>1 DEF MigrationPlaced
  <1>3. Migration!Absent.is = FALSE
    BY DEF Migration!Absent
  <1>4. /\ d \in [Migration!Names -> Migration!Collection] /\ d["final"] = Migration!Absent
        /\ d["legacy"] = col["legacy"] /\ d["temp"] = col["temp"] /\ d["old"] = col["old"]
    BY <1>0, Shapes, Updated DEF Migration!Names, MigrationTypes
  <1> HIDE DEF d
  <1>5. /\ p' \in Progress
        /\ \/ p'.at = "serving" /\ col' = col
           \/ p'.at \in {"emptied", "broken"} /\ col' = d
    <2>1. 0 \in 0..Retries
      BY DEF Migration!MigrationAssumption
    <2>2. \A at \in Positions : [Migration!Off EXCEPT !.at = at] \in Progress /\
             [Migration!Off EXCEPT !.at = at].at = at
      BY <2>1 DEF Migration!Off, Progress
    <2>3. {"emptied", "serving", "broken"} \subseteq Positions
      BY DEF Positions
    <2>4. CASE col' = d /\ p' = [p EXCEPT !.at = "emptied"]
      BY <1>0, <2>3, <2>4, ProgressFacts
    <2>5. CASE /\ col' = d \/ col' = col
               /\ p' = [Migration!Off EXCEPT !.at = IF col'["final"].is THEN "serving"
                     ELSE "broken"]
      BY <1>2, <1>3, <1>4, <2>2, <2>3, <2>5
    <2> QED BY <1>1, <2>4, <2>5
  <1>6. failures' \in Nat /\ unsure' \in BOOLEAN
    BY <1>1
  <1>7. CASE p'.at = "serving" /\ col' = col
    <2>1. MigrationTypes' /\ Indexed'
      BY <1>0, <1>1, <1>5, <1>6, <1>7 DEF MigrationTypes, Indexed
    <2>2. MigrationPlaced'
      BY <1>1, <1>2, <1>7 DEF MigrationPlaced
    <2> QED BY <1>1, <2>1, <2>2 DEF MigrationIInv
  <1>8. CASE p'.at \in {"emptied", "broken"} /\ col' = d
    <2>1. MigrationTypes'
      BY <1>0, <1>1, <1>4, <1>5, <1>6, <1>8 DEF MigrationTypes, Migration!Names
    <2>2. Indexed'
      BY <1>0, <1>1, <1>3, <1>4, <1>8 DEF Indexed
    <2>3. MigrationPlaced'
      BY <1>1, <1>3, <1>4, <1>8 DEF MigrationPlaced
    <2> QED BY <1>1, <2>1, <2>2, <2>3 DEF MigrationIInv
  <1> QED BY <1>5, <1>7, <1>8

\* until an empty collection is there.
LEMMA RecreateInv ==
    ASSUME Migration!MigrationAssumption, Outages, MigrationIInv, Migration!Recreate
    PROVE  MigrationIInv'
  <1> USE DEF Migration!Has, IsWhole, Spent
  <1> DEFINE c == Migration!Made({}, code)
             d == [col EXCEPT !["final"] = c]
  <1>0. MigrationTypes /\ Indexed /\ MigrationPlaced
    BY DEF MigrationIInv
  <1>1. /\ p.at = "emptied" /\ UNCHANGED code
        /\ failures' \in {failures, failures + 1} /\ failures \in Nat
        /\ \/ col' = d /\ p' = [p EXCEPT !.at = "serving"]
           \/ /\ col' = d \/ col' = col
              /\ failures' = failures + 1
              /\ p' = [Migration!Off EXCEPT !.at = IF col'["final"].is THEN "serving"
                    ELSE "broken"]
    BY <1>0 DEF Migration!Recreate, Migration!Call, Migration!DropFails, MigrationTypes
  <1>2. \/ p'.at = "serving" /\ failures' = failures /\ truth' = {} /\ unsure' = FALSE
        \/ UNCHANGED <<truth, unsure>>
    BY DEF Migration!Recreate
  <1>3. unsure /\ ~Migration!Has("final")
    BY <1>0, <1>1 DEF MigrationPlaced
  <1>4. c.is /\ c.index /\ c.version = code /\ c.rows = {}
    BY DEF Migration!Made
  <1>5. /\ d \in [Migration!Names -> Migration!Collection] /\ d["final"] = c
        /\ d["legacy"] = col["legacy"] /\ d["temp"] = col["temp"] /\ d["old"] = col["old"]
    BY <1>0, Shapes, Updated DEF Migration!Names, MigrationTypes
  <1> HIDE DEF c, d
  <1>6. /\ p' \in Progress
        /\ \/ p'.at = "serving" /\ col' = d
           \/ p'.at = "broken" /\ col' = col
    <2>1. 0 \in 0..Retries
      BY DEF Migration!MigrationAssumption
    <2>2. \A at \in Positions : [Migration!Off EXCEPT !.at = at] \in Progress /\
             [Migration!Off EXCEPT !.at = at].at = at
      BY <2>1 DEF Migration!Off, Progress
    <2>3. {"serving", "broken"} \subseteq Positions
      BY DEF Positions
    <2>4. CASE col' = d /\ p' = [p EXCEPT !.at = "serving"]
      BY <1>0, <2>3, <2>4, ProgressFacts
    <2>5. CASE /\ col' = d \/ col' = col
               /\ p' = [Migration!Off EXCEPT !.at = IF col'["final"].is THEN "serving"
                     ELSE "broken"]
      BY <1>3, <1>4, <1>5, <2>2, <2>3, <2>5
    <2> QED BY <1>1, <2>4, <2>5
  <1>7. failures' \in Nat /\ unsure' \in BOOLEAN /\ truth' \subseteq MilvusRows
    <2>1. failures' \in Nat
      BY <1>1
    <2>2. truth' \subseteq MilvusRows
      BY <1>0, <1>2 DEF MigrationTypes
    <2>3. unsure' \in BOOLEAN
      BY <1>0, <1>2 DEF MigrationTypes
    <2> QED BY <2>1, <2>2, <2>3
  <1>8. CASE p'.at = "serving" /\ col' = d
    <2>1. MigrationTypes'
      BY <1>0, <1>1, <1>4, <1>5, <1>6, <1>7, <1>8 DEF MigrationTypes, Migration!Names
    <2>2. Indexed'
      BY <1>0, <1>1, <1>4, <1>5, <1>8 DEF Indexed
    <2>3. MigrationPlaced'
      BY <1>1, <1>4, <1>5, <1>8 DEF MigrationPlaced
    <2>4. ~unsure' => Kept' /\ Copied'
      BY <1>2, <1>3, <1>4, <1>5, <1>8 DEF Kept, Copied, Migration!Names
    <2> QED BY <2>1, <2>2, <2>3, <2>4 DEF MigrationIInv
  <1>9. CASE p'.at = "broken" /\ col' = col
    <2>1. MigrationTypes' /\ Indexed'
      BY <1>0, <1>1, <1>6, <1>7, <1>9 DEF MigrationTypes, Indexed
    <2>2. MigrationPlaced'
      BY <1>3, <1>5, <1>9 DEF MigrationPlaced
    <2>3. unsure'
      BY <1>2, <1>3, <1>9
    <2> QED BY <2>1, <2>2, <2>3 DEF MigrationIInv
  <1> QED BY <1>6, <1>8, <1>9

\* A program that starts again, a newer one maybe, finds a collection with its index.
LEMMA RestartInv ==
    ASSUME Migration!MigrationAssumption, MigrationIInv, Migration!Restart
    PROVE  MigrationIInv'
  <1> USE DEF Migration!Has, IsWhole, Spent
  <1>0. MigrationTypes /\ Indexed /\ MigrationPlaced /\ (~unsure => Kept)
    BY DEF MigrationIInv
  <1>1. /\ p.at \in {"serving", "broken"} /\ p' = Migration!Off
        /\ code' \in code..Versions
        /\ UNCHANGED <<col, truth, unsure, failures>>
    BY DEF Migration!Restart
  <1>2. Migration!Has("final") => col["final"].index
    BY <1>0, <1>1 DEF MigrationPlaced
  <1>3. Migration!Off \in Progress /\ Migration!Off.at = "off"
    BY <1>0, ProgressFacts DEF Migration!Off
  <1>4. code' \in 1..Versions
    BY <1>0, <1>1 DEF MigrationTypes, Migration!MigrationAssumption
  <1>5. MigrationTypes'
    BY <1>0, <1>1, <1>3, <1>4 DEF MigrationTypes
  <1>6. Indexed'
    BY <1>0, <1>1, <1>2 DEF Indexed
  <1>7. MigrationPlaced' /\ Copied' /\ (~unsure' => Kept')
    BY <1>0, <1>1, <1>3 DEF MigrationPlaced, Copied, Kept
  <1> QED BY <1>5, <1>6, <1>7 DEF MigrationIInv

-----------------------------------------------------------------------------
(* The theorem *)

\* Every step keeps the invariant; a collection is never created by force.
LEMMA MigrationNextInv ==
    ASSUME Migration!MigrationAssumption, Outages, FewFaults, MigrationIInv,
           [Migration!Next]_(Migration!vars)
    PROVE  MigrationIInv'
  <1>1. CASE Migration!Program
    <2>1. p.at # "forcing"
      BY DEF MigrationIInv, MigrationPlaced, Migration!Has, Spent
    <2>2. ~Migration!ForceCreate
      BY <2>1 DEF Migration!ForceCreate
    <2> QED BY <1>1, <2>2, BootInv, AttemptInv, FillInv, CopyInv, VacateInv, RenameSourceInv,
               DropSourceInv, PromoteInv, RecoverInv, LoadInv, RepairInv, CreateInv, RecreateInv
            DEF Migration!Program
  <1>2. CASE Migration!Write \/ Migration!Drop \/ Migration!Restart
    BY <1>2, WriteInv, DropInv, RestartInv
  <1>3. CASE Migration!Death
    <2>1. failures' \in Nat /\ p' = Migration!Off /\ UNCHANGED <<col, code, truth, unsure>>
      BY <1>3 DEF Migration!Death, Migration!outside, MigrationIInv, MigrationTypes
    <2> QED BY <2>1, StaysInv
  <1>4. CASE UNCHANGED Migration!vars
    BY <1>4
       DEF Migration!vars, MigrationIInv, MigrationTypes, Indexed, MigrationPlaced, Kept,
           Copied, Migration!Has, IsWhole, Spent
  <1> QED BY <1>1, <1>2, <1>3, <1>4 DEF Migration!Next

\* What the invariant says of the states.
LEMMA MigrationFollows == MigrationIInv => Migration!TypeOK /\ Migration!ServedIsStored /\
   Migration!WholeSomewhere
  <1>1. MigrationIInv => Migration!TypeOK
    <2> SUFFICES ASSUME MigrationIInv PROVE Migration!TypeOK
      OBVIOUS
    <2>1. p.at \in Positions /\ p.tries \in 0..Retries
      BY DEF MigrationIInv, MigrationTypes, Progress
    <2> QED BY <2>1
               DEF MigrationIInv, MigrationTypes, MigrationPlaced, Migration!TypeOK,
                   Migration!Has, Positions
  <1>2. MigrationIInv => Migration!ServedIsStored
    BY DEF MigrationIInv, MigrationPlaced, Kept, Migration!ServedIsStored, Migration!Has, IsWhole
  <1>3. MigrationIInv => Migration!WholeSomewhere
    BY DEF MigrationIInv, MigrationTypes, Kept, Migration!WholeSomewhere, Migration!Has,
           IsWhole, Migration!Names
  <1> QED BY <1>1, <1>2, <1>3

\* Through creations, migrations, recoveries, broken connections and deaths: a collection
\* that is served has the rows that were stored, and one collection always has them all.
THEOREM RowsAreKept ==
    ASSUME Migration!MigrationAssumption, Outages, FewFaults, NothingOlder
    PROVE  Migration!Spec => [](Migration!TypeOK /\ Migration!ServedIsStored /\
              Migration!WholeSomewhere)
  <1>1. Migration!Init => MigrationIInv
    BY MigrationInitInv
  <1>2. MigrationIInv /\ [Migration!Next]_(Migration!vars) => MigrationIInv'
    BY MigrationNextInv
  <1> QED BY <1>1, <1>2, MigrationFollows, PTL DEF Migration!Spec
================================================================================
