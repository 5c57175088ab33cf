--------------------------- MODULE MilvusMigration ---------------------------
(***************************************************************************)
(* lightrag/kg/milvus_impl.py: what initialize does with the collections of *)
(* one namespace: it creates, validates, migrates in place to a new schema, *)
(* migrates the collection of an older release, which is kept, and recovers *)
(* a migration that was interrupted.                                        *)
(*                                                                          *)
(* There are four names: the collection that is served, the one of the      *)
(* older release, the copy that a migration fills and the backup that an    *)
(* in-place migration leaves.  Every call that changes the server may fail, *)
(* and the process may die between two calls.  Calls that only read are     *)
(* taken with the decision that they serve.                                 *)
(***************************************************************************)
EXTENDS Naturals, FiniteSets

CONSTANTS Rows,
          Versions,     \* bound: the schema of the newest program
          Retries,      \* bound: _migration_max_retries
          MaxFaults,    \* bound: calls that fail and deaths
          MaxWrites,    \* bound: rows that are written or removed
          Beginnings,   \* the collections that a behaviour starts with
          Faults        \* the kinds of failure that a model injects

VARIABLES col,          \* what the server has under each name
          code,         \* the schema that the program wants
          p,            \* the progress of the process
          truth,        \* history: the rows that the application has stored
          unsure,       \* history: a drop failed or died, and none succeeded since
          faults, writes

vars == <<col, code, p, truth, unsure, faults, writes>>
outside == <<code, truth, unsure, writes>>

Names == {"final", "legacy", "temp", "old"}
Absent == [is |-> FALSE, rows |-> {}, version |-> 0, index |-> FALSE]
Kinds == {"down", "lost", "error", "index", "death"}

MigrationAssumption ==
    /\ IsFiniteSet(Rows) /\ Versions \in Nat \ {0} /\ Retries \in Nat /\ MaxFaults \in Nat
    /\ Beginnings \subseteq {"fresh", "legacy", "current", "both"} /\ Faults \subseteq Kinds

Collection == [is : BOOLEAN, rows : SUBSET Rows, version : 0..Versions, index : BOOLEAN]

TypeOK ==
    /\ col \in [Names -> Collection] /\ code \in 1..Versions /\ truth \subseteq Rows
    /\ \A n \in Names : ~col[n].is => col[n] = Absent
    /\ p.at = "serving" => col["final"].is /\ col["final"].index
    /\ p.at \in {"off", "attempt", "fill", "copying", "vacating", "renaming", "dropping",
                 "promoting", "recovering", "loading", "repairing", "creating", "indexing",
                 "forcing", "serving", "emptied", "broken"}
    /\ p.tries \in 0..Retries

Has(n) == col[n].is
Made(rs, v) == [is |-> TRUE, rows |-> rs, version |-> v, index |-> TRUE]

Off == [at |-> "off", inplace |-> FALSE, guarded |-> FALSE, commit |-> FALSE, tries |-> 0,
        copied |-> {}]

Init ==
    /\ code = 1 /\ p = Off /\ faults = 0 /\ writes = 0 /\ unsure = FALSE
    /\ \E b \in Beginnings, rs \in SUBSET Rows :
         /\ truth = IF b = "fresh" THEN {} ELSE rs
         /\ col = [n \in Names |->
                     IF n = "legacy" /\ b = "legacy" THEN Made(rs, 1)
                     ELSE IF n = "legacy" /\ b = "both" THEN Made({}, 1)
                     ELSE IF n = "final" /\ b \in {"current", "both"} THEN Made(rs, 1)
                     ELSE Absent]
-----------------------------------------------------------------------------
(* Calls to the server *)

Source == IF p.inplace THEN "final" ELSE "legacy"

\* A call with effect c and continuation q.  What the program does when it fails is
\* fail(k, d), with what the server then has: after a connection error ("down", or "lost"
\* when only the answer was) or another one ("error").
Call(c, q, fail(_, _)) ==
    \/ col' = c /\ p' = q /\ UNCHANGED faults
    \/ /\ faults < MaxFaults /\ faults' = faults + 1
       /\ \E k \in Faults \cap {"down", "lost", "error"} : fail(k, IF k = "lost" THEN c ELSE col)

Renamed(a, b) == [col EXCEPT ![b] = col[a], ![a] = Absent]

\* rename_collection, which refuses a name that is taken and one that nobody has
Rename(a, b, q, fail(_, _)) ==
    \/ Has(a) /\ ~Has(b) /\ Call(Renamed(a, b), q, fail)
    \/ ~(Has(a) /\ ~Has(b)) /\ fail("error", col) /\ UNCHANGED faults

\* the exception leaves initialize
Raised(k, d) == col' = d /\ p' = Off
-----------------------------------------------------------------------------
(* A migration *)

\* the end of a failed attempt: the copy is dropped, or left when the connection is bad,
\* unless the source was vacated; then the next attempt, or the exception leaves initialize
AttemptFails(k, d) ==
    LET bad == k \in {"down", "lost"}
    IN /\ \/ ~p.commit /\ col' = [d EXCEPT !["temp"] = Absent]
          \/ (p.commit \/ bad) /\ col' = d
       /\ p' = IF bad /\ p.tries < Retries
               THEN [p EXCEPT !.at = "attempt", !.tries = @ + 1, !.commit = FALSE, !.copied = {}]
               ELSE Off

\* _migrate_collection_schema_attempt up to the copy: an interrupted commit is finished
\* first, which ends the migration when the copy was promoted
Attempt ==
    /\ p.at = "attempt"
    /\ \/ /\ p.inplace /\ ~Has("final") /\ Has("temp")
          /\ Rename("temp", "final", [p EXCEPT !.at = "loading", !.guarded = TRUE], AttemptFails)
       \/ /\ p.inplace /\ ~Has("final") /\ ~Has("temp") /\ Has("old")
          /\ Rename("old", "final", p, AttemptFails)
       \/ /\ ~p.inplace \/ Has("final") \/ (~Has("temp") /\ ~Has("old"))
          /\ Call([col EXCEPT !["temp"] = Absent], [p EXCEPT !.at = "fill"], AttemptFails)
    /\ UNCHANGED outside

\* the new collection; an index that cannot be created, whatever the reason ("index"), is
\* only logged
Fill ==
    /\ p.at = "fill"
    /\ \/ Call([col EXCEPT !["temp"] = Made({}, code)], [p EXCEPT !.at = "copying", !.copied = {}],
               AttemptFails)
       \/ /\ "index" \in Faults /\ faults < MaxFaults /\ faults' = faults + 1
          /\ col' = [col EXCEPT !["temp"] = [Made({}, code) EXCEPT !.index = FALSE]]
          /\ p' = [p EXCEPT !.at = "copying", !.copied = {}]
    /\ UNCHANGED outside

\* one batch of the iterator
Copy ==
    /\ p.at = "copying"
    /\ \/ \E r \in col[Source].rows \ p.copied :
            Call([col EXCEPT !["temp"].rows = @ \cup {r}],
                 [p EXCEPT !.copied = @ \cup {r}], AttemptFails)
       \/ /\ col[Source].rows = p.copied
          /\ p' = IF p.inplace THEN [p EXCEPT !.at = "vacating", !.commit = TRUE]
                  ELSE [p EXCEPT !.at = "promoting"]
          /\ UNCHANGED <<col, faults>>
    /\ UNCHANGED outside

\* an exception in the first part of step 3: the source is dropped instead
InsteadDrop(k, d) == col' = d /\ p' = [p EXCEPT !.at = "dropping"]

\* mutant: the source is dropped before the copy has its name, and the copy is scratch
VacateByDrop ==
    /\ p.at = "vacating"
    /\ Call([col EXCEPT !["final"] = Absent], [p EXCEPT !.at = "promoting", !.commit = FALSE],
            AttemptFails)
    /\ UNCHANGED outside

\* step 3: the backup of an earlier migration goes, then the source becomes the backup
Vacate ==
    /\ p.at = "vacating"
    /\ \/ /\ Has("old")
          /\ Call([col EXCEPT !["old"] = Absent], [p EXCEPT !.at = "renaming"], InsteadDrop)
       \/ ~Has("old") /\ p' = [p EXCEPT !.at = "renaming"] /\ UNCHANGED <<col, faults>>
    /\ UNCHANGED outside

RenameSource ==
    /\ p.at = "renaming"
    /\ Rename("final", "old", [p EXCEPT !.at = "promoting"], InsteadDrop)
    /\ UNCHANGED outside

\* the fallback of step 3; dropping a collection that is not there succeeds
DropSource ==
    /\ p.at = "dropping"
    /\ Call([col EXCEPT !["final"] = Absent], [p EXCEPT !.at = "promoting"], AttemptFails)
    /\ UNCHANGED outside

\* step 4; a suffix migration refuses a target that exists
Promote ==
    /\ p.at = "promoting"
    /\ Rename("temp", "final", [p EXCEPT !.at = "loading", !.guarded = p.inplace, !.copied = {},
                                         !.commit = FALSE], AttemptFails)
    /\ UNCHANGED outside
-----------------------------------------------------------------------------
(* initialize *)

\* _create_collection_if_not_exist and _validate_collection_and_load, their decisions
Boot ==
    /\ p.at = "off"
    /\ p' = IF Has("final")
            THEN IF col["final"].version < code THEN [Off EXCEPT !.at = "attempt", !.inplace = TRUE]
                 ELSE [Off EXCEPT !.at = "loading", !.guarded = TRUE]
            ELSE IF Has("old") \/ (Has("temp") /\ ~Has("legacy"))
                 THEN [Off EXCEPT !.at = "recovering"]
            ELSE IF Has("legacy") THEN [Off EXCEPT !.at = "attempt"]
            ELSE [Off EXCEPT !.at = "creating"]
    /\ UNCHANGED <<col, faults, outside>>

\* mutant: a connection error is no exception to that
NotRuntimeErrorForcing(k, d) == col' = d /\ p' = [Off EXCEPT !.at = "forcing"]

\* an exception that is no RuntimeError: a connection error leaves initialize, after
\* any other the collection is created by force
NotRuntimeError(k, d) ==
    col' = d /\ p' = IF k = "error" THEN [Off EXCEPT !.at = "forcing"] ELSE Off

\* _recover_interrupted_inplace_migration
Recover ==
    /\ p.at = "recovering"
    /\ Rename(IF Has("temp") THEN "temp" ELSE "old", "final", [p EXCEPT !.at = "loading"],
              NotRuntimeError)
    /\ UNCHANGED outside

\* _ensure_collection_loaded, with the repair of a missing index where
\* _validate_collection_and_load called it.  A collection that was recovered is served as
\* it is: the next start looks at its schema.
Load ==
    /\ p.at = "loading" /\ Has("final")
    /\ \/ /\ col["final"].index
          /\ Call(col, [Off EXCEPT !.at = "serving"], NotRuntimeError)
       \/ /\ ~col["final"].index /\ UNCHANGED <<col, faults>>
          /\ p' = IF p.guarded THEN [p EXCEPT !.at = "repairing"] ELSE [Off EXCEPT !.at = "forcing"]
    /\ UNCHANGED outside

\* _repair_missing_vector_index; what it raises is a RuntimeError
Repair ==
    /\ p.at = "repairing"
    /\ Call([col EXCEPT !["final"].index = TRUE], [p EXCEPT !.at = "loading"], Raised)
    /\ UNCHANGED outside

\* a new collection, and its index, whose failure is an exception here
Create ==
    /\ p.at = "creating"
    /\ Call([col EXCEPT !["final"] = [Made({}, code) EXCEPT !.index = FALSE]],
            [p EXCEPT !.at = "indexing"], NotRuntimeError)
    /\ UNCHANGED outside

\* mutant: an index that cannot be created is only logged
IndexUnseen ==
    /\ p.at = "indexing" /\ p' = [p EXCEPT !.at = "loading"]
    /\ UNCHANGED <<col, faults, outside>>

Index ==
    /\ p.at = "indexing"
    /\ Call([col EXCEPT !["final"].index = TRUE], [p EXCEPT !.at = "loading"], NotRuntimeError)
    /\ UNCHANGED outside

\* the fallback: what has the name is dropped, and the collection is created
ForceCreate ==
    /\ p.at = "forcing"
    /\ Call([col EXCEPT !["final"] = [Made({}, code) EXCEPT !.index = FALSE]],
            [p EXCEPT !.at = "indexing"], Raised)
    /\ UNCHANGED outside
-----------------------------------------------------------------------------
(* Around initialize *)

Write ==
    /\ p.at = "serving" /\ writes < MaxWrites /\ writes' = writes + 1
    /\ \E rs \in SUBSET Rows : /\ rs # truth /\ truth' = rs
                               /\ col' = [col EXCEPT !["final"].rows = rs]
    /\ UNCHANGED <<code, p, unsure, faults>>

\* drop: the collection goes, and an empty one is created, indexed and loaded, which is
\* one call here; nothing repairs a drop that fails between, and the collection of the
\* older release is not touched
DropFails(k, d) ==
    col' = d /\ p' = [Off EXCEPT !.at = IF d["final"].is THEN "serving" ELSE "broken"]

Drop ==
    /\ p.at = "serving" /\ writes < MaxWrites /\ writes' = writes + 1 /\ unsure' = TRUE
    /\ Call([col EXCEPT !["final"] = Absent], [p EXCEPT !.at = "emptied"], DropFails)
    /\ UNCHANGED <<code, truth>>

Recreate ==
    /\ p.at = "emptied" /\ UNCHANGED <<code, writes>>
    /\ Call([col EXCEPT !["final"] = Made({}, code)], [p EXCEPT !.at = "serving"], DropFails)
    /\ \/ p'.at = "serving" /\ faults' = faults /\ truth' = {} /\ unsure' = FALSE
       \/ faults' # faults /\ UNCHANGED <<truth, unsure>>

\* the program is stopped, and maybe replaced by one with a newer schema
Restart ==
    /\ p.at \in {"serving", "broken"} /\ p' = Off
    /\ code' \in code..Versions
    /\ UNCHANGED <<col, truth, unsure, faults, writes>>

Death ==
    /\ p.at # "off" /\ "death" \in Faults /\ faults < MaxFaults
    /\ faults' = faults + 1 /\ p' = Off
    /\ UNCHANGED <<col, outside>>

Program ==
    \/ Boot \/ Attempt \/ Fill \/ Copy \/ Vacate \/ RenameSource \/ DropSource \/ Promote
    \/ Recover \/ Load \/ Repair \/ Create \/ Index \/ ForceCreate \/ Recreate

Next == Program \/ Write \/ Drop \/ Restart \/ Death

Spec == Init /\ [][Next]_vars
-----------------------------------------------------------------------------
\* However often a creation, a migration or a recovery was interrupted: a collection that
\* is served has the rows that the application stored, none lost and none brought back.
\* (Some failures do lose rows: a model chooses its Faults and MaxFaults without them.)
ServedIsStored == p.at = "serving" /\ ~unsure => col["final"].rows = truth

\* Until the copy has its name, one collection is whole: the backup of an in-place
\* migration is never the only place of a row while the copy is taken for scratch.
WholeSomewhere ==
    truth # {} /\ ~unsure => \E n \in Names : Has(n) /\ truth \subseteq col[n].rows
==============================================================================
