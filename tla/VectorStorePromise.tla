-------------------------- MODULE VectorStorePromise --------------------------
(***************************************************************************)
(* What the vector storages that keep their rows on a server promise the    *)
(* rest of the program (lightrag/base.py, BaseVectorStorage): writes are    *)
(* buffered in the process, a commit that succeeds has put every buffered   *)
(* write on the server, a commit that fails loses none, and buffered writes *)
(* go away only when they are abandoned or the rows were erased.            *)
(***************************************************************************)
EXTENDS Naturals, FiniteSets, Functions

CONSTANTS Ids, Clients, MaxVersion

VARIABLES durable,      \* the version of each row on the server, 0 when there is none
          pending,      \* per client: the buffered writes, a version or 0 for a removal
          erasing,      \* per client: the rows that it has erased on the server at once
          said          \* per client: what the last commit or abandonment was answered

promiseVars == <<durable, pending, erasing, said>>

Nothing == [i \in {} |-> 0]
Without(f, S) == Restrict(f, DOMAIN f \ S)
Over(w, f) == [i \in DOMAIN w \cup DOMAIN f |-> IF i \in DOMAIN w THEN w[i] ELSE f[i]]

PromiseInit ==
    /\ durable = [i \in Ids |-> 0]
    /\ pending = [c \in Clients |-> Nothing]
    /\ erasing = [c \in Clients |-> {}]
    /\ said = [c \in Clients |-> "nothing"]

Buffer(c, w) ==
    /\ pending' = [pending EXCEPT ![c] = Over(w, @)]
    /\ UNCHANGED <<durable, erasing, said>>

\* some of the buffered writes reach the server, and stay buffered
Persist(c, S) ==
    /\ S \subseteq DOMAIN pending[c]
    /\ durable' = [i \in Ids |-> IF i \in S THEN pending[c][i] ELSE durable[i]]
    /\ UNCHANGED <<pending, erasing, said>>

\* a buffered write that the server has is forgotten
Settle(c, S) ==
    /\ S \subseteq DOMAIN pending[c] /\ \A i \in S : durable[i] = pending[c][i]
    /\ pending' = [pending EXCEPT ![c] = Without(@, S)]
    /\ UNCHANGED <<durable, erasing, said>>

\* a commit succeeds: nothing is left to persist
Commit(c) ==
    /\ \A i \in DOMAIN pending[c] : durable[i] = pending[c][i]
    /\ pending' = [pending EXCEPT ![c] = Nothing]
    /\ said' = [said EXCEPT ![c] = "committed"]
    /\ UNCHANGED <<durable, erasing>>

\* rows are erased on the server, then in the buffer, unless the answer was lost
Erase(c, S) ==
    /\ durable' = [i \in Ids |-> IF i \in S THEN 0 ELSE durable[i]]
    /\ \E T \in {S, {}} : erasing' = [erasing EXCEPT ![c] = T]
    /\ UNCHANGED <<pending, said>>

Forget(c, S) ==
    /\ S \subseteq erasing[c]
    /\ pending' = [pending EXCEPT ![c] = Without(@, S)]
    /\ erasing' = [erasing EXCEPT ![c] = {}]
    /\ UNCHANGED <<durable, said>>

\* the buffered writes are given up, by order or by a crash, and the program can know
Abandon(c) ==
    /\ pending' = [pending EXCEPT ![c] = Nothing]
    /\ erasing' = [erasing EXCEPT ![c] = {}]
    /\ said' = [said EXCEPT ![c] = "abandoned"]
    /\ UNCHANGED durable

Wipe ==
    /\ durable' = [i \in Ids |-> 0]
    /\ UNCHANGED <<pending, erasing, said>>

PromiseNext ==
    \/ Wipe
    \/ \E c \in Clients :
         \/ Commit(c) \/ Abandon(c)
         \/ \E S \in SUBSET Ids : \/ Persist(c, S) \/ Settle(c, S) \/ Erase(c, S) \/ Forget(c, S)
                                  \/ \E w \in [S -> 0..MaxVersion] : Buffer(c, w)

PromiseSpec == PromiseInit /\ [][PromiseNext]_promiseVars
==============================================================================
