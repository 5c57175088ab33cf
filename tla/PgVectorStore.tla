---------------------------- MODULE PgVectorStore ----------------------------
(***************************************************************************)
(* lightrag/kg/postgres_impl.py, PGVectorStorage: the process keeps pending *)
(* upserts and deletes, embeds them when they are flushed and writes them   *)
(* in batches, each a transaction of its own.  Two deletes by entity name   *)
(* go to the server at once.                                                *)
(*                                                                          *)
(* A client is the storage object of one worker.  Its calls are tasks that  *)
(* interleave wherever the code awaits.  One client writes, as the pipeline *)
(* ensures; the others read.  A row is the version of its content and the   *)
(* version whose embedding it has.                                          *)
(***************************************************************************)
EXTENDS Naturals, FiniteSets, Functions

CONSTANTS Ids, Entities,
          About,        \* the entities that a row is about, by id
          Tasks, Clients,
          ClientOf,     \* the client that a task calls
          Writer,
          MaxVersion,   \* bound: upserts
          MaxFaults,    \* bound: calls that fail and crashes
          Kinds,        \* "down": a call that fails has no effect; "lost": it may have
          Calls         \* the operations that a model makes

VARIABLES row, docs, dels, db, lock, task, said,
          erasing,      \* rows that delete_entity has deleted and not yet pruned
          gone,         \* history: rows erased and not upserted since
          seen,         \* history: per task, what the row it reads was in the meantime
          version, faults

vars == <<row, docs, dels, db, lock, task, said, erasing, gone, seen, version, faults>>
buffers == <<docs, dels>>

Nothing == [i \in {} |-> 0]
Without(f, S) == Restrict(f, DOMAIN f \ S)
Over(w, f) == [i \in DOMAIN w \cup DOMAIN f |-> IF i \in DOMAIN w THEN w[i] ELSE f[i]]
NoRow == [c |-> 0, v |-> 0]
Free == "free"

PgVectorAssumption ==
    /\ IsFiniteSet(Ids) /\ About \in [Ids -> SUBSET Entities]
    /\ ClientOf \in [Tasks -> Clients] /\ Writer \in Clients
    /\ Free \notin Tasks
    /\ MaxVersion \in Nat /\ MaxFaults \in Nat

Idle == [at |-> "idle", ids |-> {}, want |-> 0, got |-> 0, why |-> ""]

Init ==
    /\ row = [i \in Ids |-> NoRow]
    /\ docs = [c \in Clients |-> Nothing] /\ dels = [c \in Clients |-> {}]
    /\ db = [c \in Clients |-> TRUE] /\ lock = Free
    /\ task = [t \in Tasks |-> Idle] /\ said = [c \in Clients |-> "nothing"]
    /\ erasing = [c \in Clients |-> {}] /\ gone = {} /\ seen = [t \in Tasks |-> {}]
    /\ version = 0 /\ faults = 0

\* what a client reads of a row when nothing else happens
View(c, i) == IF i \in dels[c] \cup erasing[c] THEN 0
              ELSE IF i \in DOMAIN docs[c] THEN docs[c][i].c ELSE row[i].c

Do(t, op) == op \in Calls /\ task[t].at = "idle"
Enter(t, op) == Do(t, op) /\ lock = Free
Go(t, q) == task' = [task EXCEPT ![t] = q]
At(t, l) == task[t].at = l
Fault == faults < MaxFaults /\ faults' = faults + 1
FaultWith(r) == Fault /\ row' \in {row} \cup (IF "lost" \in Kinds THEN {r} ELSE {})
-----------------------------------------------------------------------------
(* Buffered writes: nothing is awaited under the lock *)

\* mutant: a pending delete of the row is kept
UpsertKeeping(t, S) ==
    LET c == ClientOf[t]
    IN /\ Enter(t, "upsert") /\ c = Writer /\ version < MaxVersion
       /\ version' = version + 1 /\ gone' = gone \ S
       /\ docs' = [docs EXCEPT ![c] = Over([i \in S |-> [c |-> version + 1, v |-> 0]], @)]
       /\ UNCHANGED <<row, dels, db, lock, task, said, erasing, faults>>

upsert(t, S) ==
    LET c == ClientOf[t]
    IN /\ Enter(t, "upsert") /\ c = Writer /\ version < MaxVersion
       /\ version' = version + 1 /\ gone' = gone \ S
       /\ docs' = [docs EXCEPT ![c] = Over([i \in S |-> [c |-> version + 1, v |-> 0]], @)]
       /\ dels' = [dels EXCEPT ![c] = @ \ S]
       /\ UNCHANGED <<row, db, lock, task, said, erasing, faults>>

delete(t, S) ==
    LET c == ClientOf[t]
    IN /\ Enter(t, "delete") /\ c = Writer
       /\ docs' = [docs EXCEPT ![c] = Without(@, S)]
       /\ dels' = [dels EXCEPT ![c] = @ \cup S]
       /\ UNCHANGED <<row, db, lock, task, said, erasing, gone, version, faults>>

drop_pending_index_ops(t) ==
    LET c == ClientOf[t]
    IN /\ Enter(t, "drop_pending") /\ c = Writer
       /\ docs' = [docs EXCEPT ![c] = Nothing] /\ dels' = [dels EXCEPT ![c] = {}]
       /\ said' = [said EXCEPT ![c] = "abandoned"]
       /\ UNCHANGED <<row, db, lock, task, erasing, gone, version, faults>>
-----------------------------------------------------------------------------
(* _flush_pending_vector_ops *)

\* a flush ends, and finalize goes on to release the client
Flushed(t, how, d, x) ==
    LET c == ClientOf[t]
    IN /\ docs' = d /\ dels' = x
       /\ said' = [said EXCEPT ![c] = IF how = "ok" THEN "committed" ELSE @]
       /\ lock' = Free
       /\ Go(t, IF task[t].why = "finalize" THEN [Idle EXCEPT !.at = "releasing"] ELSE Idle)

\* mutant: a flush that failed clears the buffers
FlushRaisesClearing(t) ==
    Flushed(t, "ok", [docs EXCEPT ![ClientOf[t]] = Nothing], [dels EXCEPT ![ClientOf[t]] = {}])

FlushRaises(t) == Flushed(t, "raised", docs, dels)

\* the guards of a flush; an empty buffer is a commit that has nothing to do
flush(t, why) ==
    LET c == ClientOf[t]
    IN /\ Enter(t, why) /\ c = Writer /\ db[c]
       /\ IF docs[c] = Nothing /\ dels[c] = {}
          THEN /\ said' = [said EXCEPT ![c] = "committed"] /\ UNCHANGED lock
               /\ Go(t, IF why = "finalize" THEN [Idle EXCEPT !.at = "releasing"] ELSE Idle)
          ELSE /\ lock' = t /\ UNCHANGED said
               /\ Go(t, [Idle EXCEPT !.at = "embedding", !.why = why])
       /\ UNCHANGED <<row, buffers, db, erasing, gone, version, faults>>

\* every pending document without a vector is embedded, or none is
Embed(t) ==
    LET c == ClientOf[t]
    IN /\ At(t, "embedding")
       /\ \/ /\ docs' = [docs EXCEPT ![c] =
                [i \in DOMAIN @ |-> [docs[c][i] EXCEPT !.v = IF @ = 0 THEN docs[c][i].c ELSE @]]]
             /\ Go(t, [task[t] EXCEPT !.at = "upserting", !.ids = DOMAIN docs[c]])
             /\ UNCHANGED <<dels, said, lock, faults>>
          \/ Fault /\ FlushRaises(t)
       /\ UNCHANGED <<row, db, erasing, gone, version>>

\* one transaction; a failure may come after its commit
UpsertBatch(t) ==
    LET c == ClientOf[t]
        put(S) == [i \in Ids |-> IF i \in S THEN docs[c][i] ELSE row[i]]
    IN /\ At(t, "upserting") /\ task[t].ids # {}
       /\ \E S \in SUBSET task[t].ids \ {{}} :
            \/ /\ row' = put(S) /\ Go(t, [task[t] EXCEPT !.ids = @ \ S])
               /\ UNCHANGED <<buffers, said, lock, faults>>
            \/ FaultWith(put(S)) /\ FlushRaises(t)
       /\ UNCHANGED <<db, erasing, gone, version>>

UpsertsDone(t) ==
    /\ At(t, "upserting") /\ task[t].ids = {}
    /\ Go(t, [task[t] EXCEPT !.at = "deleting", !.ids = dels[ClientOf[t]]])
    /\ UNCHANGED <<row, buffers, db, lock, said, erasing, gone, version, faults>>

DeleteBatch(t) ==
    LET cut(S) == [i \in Ids |-> IF i \in S THEN NoRow ELSE row[i]]
    IN /\ At(t, "deleting") /\ task[t].ids # {}
       /\ \E S \in SUBSET task[t].ids \ {{}} :
            \/ /\ row' = cut(S) /\ Go(t, [task[t] EXCEPT !.ids = @ \ S])
               /\ UNCHANGED <<buffers, said, lock, faults>>
            \/ FaultWith(cut(S)) /\ FlushRaises(t)
       /\ UNCHANGED <<db, erasing, gone, version>>

FlushEnds(t) ==
    LET c == ClientOf[t]
    IN /\ At(t, "deleting") /\ task[t].ids = {}
       /\ Flushed(t, "ok", [docs EXCEPT ![c] = Nothing], [dels EXCEPT ![c] = {}])
       /\ UNCHANGED <<row, db, erasing, gone, version, faults>>

\* the end of finalize: the client goes whatever happened, and what is left is reported
Release(t) ==
    LET c == ClientOf[t]
    IN /\ At(t, "releasing") /\ Go(t, Idle) /\ db' = [db EXCEPT ![c] = FALSE]
       /\ said' = [said EXCEPT ![c] = IF docs[c] # Nothing \/ dels[c] # {} THEN "abandoned" ELSE @]
       /\ UNCHANGED <<row, buffers, lock, erasing, gone, version, faults>>
-----------------------------------------------------------------------------
(* delete_entity and delete_entity_relation *)

Matching(e) == {i \in Ids : e \in About[i]}

\* mutant: only one row is pruned
PruneOne(c, S) ==
    /\ docs' = [docs EXCEPT ![c] = Without(@, {i \in S : \A j \in S : About[i] \subseteq About[j]})]
    /\ \E D \in {{}} \cup {{i} : i \in S} : dels' = [dels EXCEPT ![c] = @ \ D]

\* _prune_pending: delete_entity takes the pending delete of the row with the id of the
\* name as well, delete_entity_relation none
Prune(c, S) ==
    /\ docs' = [docs EXCEPT ![c] = Without(@, S)]
    /\ \E D \in {{}} \cup {{i} : i \in S} : dels' = [dels EXCEPT ![c] = @ \ D]

delete_entity(t, e) ==
    LET c == ClientOf[t]
    IN /\ Enter(t, "delete_entity") /\ c = Writer
       /\ \/ /\ db[c] /\ lock' = t /\ UNCHANGED buffers
             /\ Go(t, [Idle EXCEPT !.at = "erasing", !.ids = Matching(e)])
          \/ /\ ~db[c] /\ UNCHANGED <<lock, task>> /\ Prune(c, Matching(e))
       /\ UNCHANGED <<row, db, said, erasing, gone, version, faults>>

EraseRows(t) ==
    LET c == ClientOf[t]
        cut == [i \in Ids |-> IF i \in task[t].ids THEN NoRow ELSE row[i]]
    IN /\ At(t, "erasing")
       /\ \/ /\ row' = cut /\ erasing' = [erasing EXCEPT ![c] = task[t].ids]
             /\ Go(t, [task[t] EXCEPT !.at = "pruning"]) /\ UNCHANGED <<lock, faults>>
          \/ FaultWith(cut) /\ lock' = Free /\ Go(t, Idle) /\ UNCHANGED erasing
       /\ UNCHANGED <<buffers, db, said, gone, version>>

PrunePending(t) ==
    LET c == ClientOf[t]
        S == task[t].ids
    IN /\ At(t, "pruning")
       /\ Prune(c, S)
       /\ gone' = gone \cup S /\ erasing' = [erasing EXCEPT ![c] = {}]
       /\ lock' = Free /\ Go(t, Idle)
       /\ UNCHANGED <<row, db, said, version, faults>>
-----------------------------------------------------------------------------
(* Reads: the buffers under the lock, then the server without it *)

Answer(t, g) ==
    Go(t, [Idle EXCEPT !.at = "answered", !.want = task[t].want, !.got = g, !.ids = task[t].ids])

\* the row is answered as not there, although nobody found that it is not
AnswerAbsent(t) ==
    Go(t, [Idle EXCEPT !.at = "answered", !.ids = task[t].ids, !.why = "absent"])

\* mutant: the buffers are not looked at
GetUnbuffered(t, i) ==
    /\ Enter(t, "get_by_id") /\ db[ClientOf[t]]
    /\ Go(t, [Idle EXCEPT !.at = "reading", !.ids = {i}])
    /\ UNCHANGED <<row, buffers, db, lock, said, erasing, gone, version, faults>>

get_by_id(t, i) ==
    LET c == ClientOf[t]
    IN /\ Enter(t, "get_by_id") /\ db[c]
       /\ Go(t, IF i \in dels[c] \cup DOMAIN docs[c]
                THEN [Idle EXCEPT !.at = "answered", !.got = View(c, i), !.ids = {i}]
                ELSE [Idle EXCEPT !.at = "reading", !.ids = {i}])
       /\ UNCHANGED <<row, buffers, db, lock, said, erasing, gone, version, faults>>

\* the exception of a query is caught, and the answer is None
QueryRow(t) ==
    /\ At(t, "reading")
    /\ \/ \E i \in task[t].ids : Answer(t, row[i].c) /\ UNCHANGED faults
       \/ Fault /\ AnswerAbsent(t)
    /\ UNCHANGED <<row, buffers, db, lock, said, erasing, gone, version>>

\* get_vectors_by_ids: a pending document is embedded without the lock
get_vectors_by_ids(t, i) ==
    LET c == ClientOf[t]
        known == i \in DOMAIN docs[c]
    IN /\ Enter(t, "get_vectors") /\ db[c]
       /\ Go(t, IF i \in dels[c] THEN [Idle EXCEPT !.at = "answered", !.ids = {i}]
                ELSE IF known /\ docs[c][i].v = 0
                     THEN [Idle EXCEPT !.at = "caching", !.ids = {i}, !.want = docs[c][i].c]
                ELSE IF known
                     THEN [Idle EXCEPT !.at = "answered", !.ids = {i}, !.got = docs[c][i].v]
                ELSE [Idle EXCEPT !.at = "vector", !.ids = {i}])
       /\ UNCHANGED <<row, buffers, db, lock, said, erasing, gone, version, faults>>

\* mutant: the vector is kept whatever the document has become
CacheVectorBlind(t) ==
    LET c == ClientOf[t]
    IN /\ At(t, "caching") /\ lock = Free
       /\ \E i \in task[t].ids :
            IF i \in DOMAIN docs[c]
            THEN docs' = [docs EXCEPT ![c][i].v = task[t].want] /\ Answer(t, task[t].want)
            ELSE AnswerAbsent(t) /\ UNCHANGED docs
       /\ UNCHANGED <<row, dels, db, lock, said, erasing, gone, version, faults>>

\* the vector is kept, and answered, when the document is still the same; otherwise the
\* answer has none; an embedding that fails is an exception
CacheVector(t) ==
    LET c == ClientOf[t]
    IN /\ At(t, "caching")
       /\ \/ /\ lock = Free /\ UNCHANGED faults
             /\ \E i \in task[t].ids :
                  IF i \in DOMAIN docs[c] /\ docs[c][i].c = task[t].want
                  THEN docs' = [docs EXCEPT ![c][i].v = task[t].want] /\ Answer(t, task[t].want)
                  ELSE AnswerAbsent(t) /\ UNCHANGED docs
          \/ Fault /\ Go(t, Idle) /\ UNCHANGED docs
       /\ UNCHANGED <<row, dels, db, lock, said, erasing, gone, version>>

\* the exception of this query is caught as well
QueryVector(t) ==
    /\ At(t, "vector")
    /\ \/ \E i \in task[t].ids : Answer(t, row[i].v) /\ UNCHANGED faults
       \/ Fault /\ AnswerAbsent(t)
    /\ UNCHANGED <<row, buffers, db, lock, said, erasing, gone, version>>

Return(t) ==
    /\ At(t, "answered") /\ Go(t, Idle)
    /\ UNCHANGED <<row, buffers, db, lock, said, erasing, gone, version, faults>>
-----------------------------------------------------------------------------
(* The whole storage *)

drop(t) ==
    LET c == ClientOf[t]
    IN /\ Enter(t, "drop") /\ c = Writer /\ db[c]
       /\ docs' = [docs EXCEPT ![c] = Nothing] /\ dels' = [dels EXCEPT ![c] = {}]
       /\ said' = [said EXCEPT ![c] = "abandoned"]
       /\ lock' = t /\ Go(t, [Idle EXCEPT !.at = "dropping"])
       /\ UNCHANGED <<row, db, erasing, gone, version, faults>>

DropRows(t) ==
    /\ At(t, "dropping") /\ lock' = Free /\ Go(t, Idle)
    /\ \/ row' = [i \in Ids |-> NoRow] /\ UNCHANGED faults
       \/ FaultWith([i \in Ids |-> NoRow])
    /\ UNCHANGED <<buffers, db, said, erasing, gone, version>>

\* initialize after finalize, in the same process: what was left in the buffers is there
initialize(c) ==
    /\ "finalize" \in Calls /\ ~db[c] /\ db' = [db EXCEPT ![c] = TRUE]
    /\ UNCHANGED <<row, buffers, lock, task, said, erasing, gone, version, faults>>

\* the worker dies, and its lock is recovered
Crash(c) ==
    /\ "crash" \in Calls /\ Fault
    /\ docs' = [docs EXCEPT ![c] = Nothing] /\ dels' = [dels EXCEPT ![c] = {}]
    /\ said' = [said EXCEPT ![c] = "abandoned"] /\ erasing' = [erasing EXCEPT ![c] = {}]
    /\ task' = [t \in Tasks |-> IF ClientOf[t] = c THEN Idle ELSE task[t]]
    /\ lock' = IF lock # Free /\ ClientOf[lock] = c THEN Free ELSE lock
    /\ db' = [db EXCEPT ![c] = TRUE]
    /\ UNCHANGED <<row, gone, version>>

Continue(t) ==
    \/ Embed(t) \/ UpsertBatch(t) \/ UpsertsDone(t) \/ DeleteBatch(t) \/ FlushEnds(t)
    \/ Release(t)
    \/ EraseRows(t) \/ PrunePending(t) \/ QueryRow(t) \/ CacheVector(t) \/ QueryVector(t)
    \/ Return(t) \/ DropRows(t)

Begin(t) ==
    \/ drop_pending_index_ops(t) \/ flush(t, "commit") \/ flush(t, "finalize") \/ drop(t)
    \/ \E e \in Entities : delete_entity(t, e)
    \/ \E i \in Ids : get_by_id(t, i) \/ get_vectors_by_ids(t, i)
    \/ \E S \in SUBSET Ids \ {{}} : upsert(t, S) \/ delete(t, S)

\* what a reading task could have been told, so far
Observe ==
    seen' = [t \in Tasks |-> IF task'[t].at \in {"reading", "vector", "caching", "answered"}
                             THEN seen[t] \cup {View(ClientOf[t], i)' : i \in task'[t].ids}
                             ELSE {}]

Next ==
    /\ \/ \E t \in Tasks : Begin(t) \/ Continue(t)
       \/ \E c \in Clients : initialize(c) \/ Crash(c)
    /\ Observe

Spec == Init /\ [][Next]_vars
-----------------------------------------------------------------------------
TypeOK ==
    /\ row \in [Ids -> [c : 0..MaxVersion, v : 0..MaxVersion]]
    /\ \A c \in Clients : /\ DOMAIN docs[c] \subseteq Ids /\ dels[c] \subseteq Ids
                          /\ DOMAIN docs[c] \cap dels[c] = {}
    /\ lock \in Tasks \cup {Free} /\ db \in [Clients -> BOOLEAN]

\* what the worker that writes has buffered, while it has a client to write it with
Contents == [i \in Ids |-> row[i].c]
Buffered ==
    IF ~db[Writer] THEN Nothing
    ELSE [i \in DOMAIN docs[Writer] \cup dels[Writer] |->
            IF i \in DOMAIN docs[Writer] THEN docs[Writer][i].c ELSE 0]

\* The promise of a buffered vector storage: no buffered write is dropped silently.
Promise == INSTANCE VectorStorePromise WITH
    Clients <- {Writer},
    durable <- Contents,
    pending <- [c \in {Writer} |-> Buffered],
    erasing <- [c \in {Writer} |-> erasing[Writer]],
    said <- [c \in {Writer} |-> said[Writer]]
KeepsPromise == Promise!PromiseSpec

\* what the promise needs of the tasks of a model: finalize is called when the worker
\* has no other call in progress
FinalizesAlone ==
    "finalize" \in Calls =>
        \A s, t \in Tasks : ClientOf[s] = Writer /\ ClientOf[t] = Writer => s = t

\* A row and a pending document never have the embedding of another content, although
\* get_vectors_by_ids embeds a document while it may be replaced.
VectorsMatch ==
    /\ \A i \in Ids : row[i].v = row[i].c
    /\ \A c \in Clients : \A i \in DOMAIN docs[c] : docs[c][i].v \in {0, docs[c][i].c}

\* A read is answered with what the row was at some moment of the read, although the
\* server is asked after the lock was released: "not there" too, when the buffers or the
\* server said so.  Not so the "absent" of a query that failed, or of a vector whose
\* document was replaced: get_by_id then denies a row that may be there, and nobody can
\* tell.  (A delete by name whose answer was lost is another exception: a read may miss a
\* row whose newer version is still buffered.)
ReadsAreCurrent ==
    \A t \in Tasks : At(t, "answered") /\ task[t].why # "absent" => task[t].got \in seen[t]

\* Rows that delete_entity erased do not come back from a buffer.
ErasedStayErased ==
    \A i \in gone : row[i].c = 0 /\ i \notin DOMAIN docs[Writer]
==============================================================================
