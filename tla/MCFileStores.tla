---------------------------- MODULE MCFileStores ----------------------------
(***************************************************************************)
(* Small instances of the storages that keep a whole file in memory:        *)
(* NanoVectorDB, Faiss and NetworkX.  A run explores several scenes: one is *)
(* chosen in the initial state and stays, its component moves and the       *)
(* others rest.                                                             *)
(***************************************************************************)
EXTENDS Naturals, TLC

CONSTANTS Scenes,
          p, q, a, b, c,  \* processes; rows or operations
          Twins, Pair,    \* two processes, two rows that nothing tells apart
          None

VARIABLES scene,
          disk, exists, rd,                             \* NanoVectorStore
          files,                                        \* FaissVectorStore
          s, seq, want, touched, loose,                 \* of both; s of all
          file, lock, ops, cancel, promised, banned     \* NetworkXStore

\* one writer whose embeddings, saves and notifications fail
Nano == INSTANCE NanoVectorStore WITH
    Procs <- {p, q}, Writers <- {p}, Readers <- {}, Ids <- {a}, Incident <- {a},
    MaxSeq <- 3, Faults <- {"embed", "save", "notify", "crash", "drop", "reset"}

\* two writers; notifications are lost and writers die after the rename
NanoPeers == INSTANCE NanoVectorStore WITH
    Procs <- Twins, Writers <- Twins, Readers <- {}, Ids <- {a}, Incident <- {a},
    MaxSeq <- 2, Faults <- {"embed", "notify", "crash"}

\* two writers of batches of two rows
NanoBatch == INSTANCE NanoVectorStore WITH
    Procs <- Twins, Writers <- Twins, Readers <- {}, Ids <- Pair, Incident <- {},
    MaxSeq <- 2, Faults <- {"embed"}

\* reads between the writes
NanoRead == INSTANCE NanoVectorStore WITH
    Procs <- {p, q}, Writers <- {p}, Readers <- {p}, Ids <- {a}, Incident <- {a},
    MaxSeq <- 2, Faults <- {"embed", "save", "drop", "reset", "notify"}

\* torn saves and drops, published within a tick of the clock, told to nobody
Faiss == INSTANCE FaissVectorStore WITH
    Procs <- {p, q}, Writers <- {p}, Ids <- {a, b}, Incident <- {b}, MaxSeq <- 2,
    Told <- {{}}, Faults <- {"torn", "tick", "remove", "drop", "crash"}

\* two writers
FaissPeers == INSTANCE FaissVectorStore WITH
    Procs <- Twins, Writers <- Twins, Ids <- {a}, Incident <- {a}, MaxSeq <- 2,
    Told <- {Twins, {}}, Faults <- {"embed", "drop", "reset", "crash"}

\* the writer whose save was torn goes on
FaissTorn == INSTANCE FaissVectorStore WITH
    Procs <- {p, q}, Writers <- {p}, Ids <- {a, b}, Incident <- {b}, MaxSeq <- 2,
    Told <- {{p, q}, {p}}, Faults <- {"embed", "save", "torn"}

\* edits in two processes, one at a time
Graph == INSTANCE NetworkXStore WITH
    Procs <- {p, q}, Docs <- {}, Admins <- {a, b, c}, Home <- a :> p @@ b :> q @@ c :> p,
    Changes <- 2, Faults <- {"save", "notify", "load", "cancel", "drop"}

\* the same edits when the file cannot be sampled
GraphBlind == INSTANCE NetworkXStore WITH
    Procs <- {p, q}, Docs <- {}, Admins <- {a, b, c}, Home <- a :> p @@ b :> q @@ c :> p,
    Changes <- 2, Faults <- {"save", "stat", "cancel", "drop"}

\* two documents of a batch that change and commit the graph of one process
GraphBatch == INSTANCE NetworkXStore WITH
    Procs <- {p, q}, Docs <- {a, b}, Admins <- {}, Home <- a :> p @@ b :> p,
    Changes <- 2, Faults <- {"drop"}

ASSUME StoreAssumptions ==
    /\ Nano!StoreAssumption /\ NanoPeers!StoreAssumption /\ NanoBatch!StoreAssumption
    /\ NanoRead!StoreAssumption
    /\ Faiss!StoreAssumption /\ FaissPeers!StoreAssumption /\ FaissTorn!StoreAssumption
    /\ Graph!GraphAssumption /\ GraphBlind!GraphAssumption /\ GraphBatch!GraphAssumption

nanoOnly == <<disk, exists, rd>>
vectors == <<seq, want, touched, loose>>
graphOnly == <<file, lock, ops, cancel, promised, banned>>
vars == <<scene, nanoOnly, files, s, vectors, graphOnly>>

\* the variables of a component that rests
Rest(v) == v = None
NanoRests == Rest(disk) /\ Rest(exists) /\ Rest(rd)
FaissRests == Rest(files)
VectorsRest == Rest(seq) /\ Rest(want) /\ Rest(touched) /\ Rest(loose)
GraphRests ==
    /\ Rest(file) /\ Rest(lock) /\ Rest(ops) /\ Rest(cancel) /\ Rest(promised)
    /\ Rest(banned)

NanoScenes == {"nano", "nano_peers", "nano_batch", "nano_read"}
FaissScenes == {"faiss", "faiss_peers", "faiss_torn"}
GraphScenes == {"graph", "graph_blind", "graph_batch"}

Init ==
    /\ scene \in Scenes
    /\ scene \notin NanoScenes => NanoRests
    /\ scene \notin FaissScenes => FaissRests
    /\ IF scene \in GraphScenes THEN VectorsRest ELSE GraphRests
    /\ CASE scene = "nano" -> Nano!Init
         [] scene = "nano_peers" -> NanoPeers!Init
         [] scene = "nano_batch" -> NanoBatch!Init
         [] scene = "nano_read" -> NanoRead!Init
         [] scene = "faiss" -> Faiss!Init
         [] scene = "faiss_peers" -> FaissPeers!Init
         [] scene = "faiss_torn" -> FaissTorn!Init
         [] scene = "graph" -> Graph!Init
         [] scene = "graph_blind" -> GraphBlind!Init
         [] scene = "graph_batch" -> GraphBatch!Init

NanoNext ==
    /\ \/ scene = "nano" /\ Nano!Next
       \/ scene = "nano_peers" /\ NanoPeers!Next
       \/ scene = "nano_batch" /\ NanoBatch!Next
       \/ scene = "nano_read" /\ NanoRead!Next
    /\ UNCHANGED <<files, graphOnly>>

FaissNext ==
    /\ \/ scene = "faiss" /\ Faiss!Next
       \/ scene = "faiss_peers" /\ FaissPeers!Next
       \/ scene = "faiss_torn" /\ FaissTorn!Next
    /\ UNCHANGED <<nanoOnly, graphOnly>>

GraphNext ==
    /\ \/ scene = "graph" /\ Graph!Next
       \/ scene = "graph_blind" /\ GraphBlind!Next
       \/ scene = "graph_batch" /\ GraphBatch!Next
    /\ UNCHANGED <<nanoOnly, files, vectors>>

Next == scene' = scene /\ (NanoNext \/ FaissNext \/ GraphNext)

Spec == Init /\ [][Next]_vars

-----------------------------------------------------------------------------
(* Properties: those of the components, in the scenes they are about *)

\* A process reads back what it last wrote or deleted, through failed embeddings,
\* failed saves, lost notifications and reloads, until another process commits a
\* change of that id or the batch is given up.  One with nothing queued, logged or
\* dirty has what it asked for in the file: finalize may return early, also after
\* a save that failed half-way.
WritesAreKept ==
    /\ scene = "nano" => Nano!TypeOK /\ Nano!ReadYourWrites /\ Nano!NothingForgotten
    /\ scene = "nano_batch" => NanoBatch!ReadYourWrites
    /\ scene = "faiss_peers" => FaissPeers!TypeOK /\ FaissPeers!ReadYourWrites
    /\ scene = "faiss_torn" => FaissTorn!ReadYourWrites /\ FaissTorn!NothingForgotten

\* A save of NanoVectorDBStorage never puts back, removes or replaces a row that
\* the writer did not mean to; a commit of FaissVectorDBStorage replaces a row by
\* an older one only where the older write is still queued.
PeersKept ==
    [][ /\ scene = "nano_peers" => NanoPeers!PeersKeptStep
        /\ scene = "faiss_peers" => FaissPeers!NewerKeptStep ]_vars

\* A read of NanoVectorDBStorage answers with a value that its id had while it ran.
ReadIsCurrent == scene = "nano_read" => NanoRead!ReadIsCurrent

\* No row of FaissVectorDBStorage gets bound to the vector of another, whichever rename
\* of a save failed or whenever its process died, but for a process that was notified or
\* that starts when the pair on disk is torn.
RowsKeepTheirVectors ==
    [][ /\ scene = "faiss" => Faiss!RowsKeepTheirVectorsStep
        /\ scene = "faiss_torn" => FaissTorn!RowsKeepTheirVectorsStep ]_vars

\* What a caller of NetworkXStorage was told is done stays in the file until the
\* store is dropped, what a caller was told has failed is not published by a later
\* commit, and nothing changes a graph while a worker thread is serialising it.
AnswersAreTrue ==
    /\ scene = "graph" => Graph!TypeOK /\ Graph!PromisesKept /\ Graph!FailedNotPublished
    /\ scene = "graph_blind" => GraphBlind!PromisesKept /\ GraphBlind!FailedNotPublished
    /\ scene = "graph_batch" => GraphBatch!PromisesKept /\ GraphBatch!StillWhileSaved

Symmetry == Permutations(Twins) \cup Permutations(Pair)
=============================================================================
