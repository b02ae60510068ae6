--------------------------- MODULE IndexerProofs ---------------------------
(***************************************************************************)
(* Theorems about Indexer: what the engine has in memory when it is quiet, *)
(* and what it leaves on disk whenever it is killed.                       *)
(***************************************************************************)
EXTENDS Indexer, TLAPS

-----------------------------------------------------------------------------
(* The inductive invariant.                                                *)

\* No change of the file was lost, and no event of it waits.
Clean(f) == f \notin missed /\ dirty[f] = "none"
InBatch(f) == f \in todo \/ read[f] # Unread

\* Where a batch has been synchronized, and where one is saved.
Synced == pc \in {"embed", "rebuild", "baseline", "table", "manifest", "graph"} /\ job # "close"
Failing == pc \in {"closing", "closed"} /\ ~ready

\* A start that found no graph has none until it saves the table.
Ungraphed ==
  job = "warm" /\ saved.graph = Missing /\ (pc \in {"read", "embed", "rebuild", "table"} \/ Failing)

\* Where the engine can be, what for, and when it is ready.
Places ==
  /\ pc = "idle" => ready
  /\ pc \in {"down", "rebuild"} => ~ready
  /\ pc = "read" /\ ready => job = "watch"
  /\ pc = "baseline" => job = "walk"
  /\ pc = "manifest" => job \in {"warm", "walk", "close"}
  /\ pc \notin {"down", "idle", "closing", "closed"} => job # "boot"
  /\ job = "close" => pc \in {"table", "manifest", "graph", "closed"}
  /\ pc = "down" => failed = {}

\* What is worked on: nothing between batches, everything on a walk, and after a sync only
\* what was read.
Batches ==
  \A f \in Files :
    /\ pc \in {"down", "idle"} => ~InBatch(f)
    /\ pc = "down" => dirty[f] = "none"
    /\ Synced /\ f \in todo => read[f] # Unread
    /\ job = "walk" /\ (Synced \/ pc = "read") => InBatch(f)

\* A file is read as it is: a later change of it is pending, or lost.
Reads ==
  \A f \in Files :
    /\ read[f] > 0 /\ Clean(f) => disk[f] = read[f]
    /\ f \notin missed /\ dirty[f] = "delete" => disk[f] = 0
    /\ Clean(f) /\ read[f] # Unread /\ (pc = "read" \/ Synced) => read[f] = disk[f]

\* The table and the graph have the tree's contents outside the batch, and what was read
\* in it after the sync.
Tables ==
  \A f \in Files :
    /\ pc # "down" /\ Clean(f) /\ ~InBatch(f) =>
         table[f] = disk[f] /\ (graph[f] = disk[f] \/ Ungraphed)
    /\ Synced /\ read[f] # Unread => table[f] = read[f]
    /\ Synced /\ read[f] # Unread /\ Clean(f) => graph[f] = disk[f]

\* A current chunk has a current vector, unless it is about to be embedded.
Embeddings ==
  \A f \in Files :
    pc # "down" /\ f \notin missed /\ f \in Stale(disk, table, vectors) =>
      f \in todo /\ (pc \in {"embed", "rebuild"} \/ Failing)

\* What is on disk is what the engine has, where it must be, unless a save has failed.
Stored ==
  /\ pc # "down" /\ (ready \/ pc \notin {"rebuild", "closing", "closed"}) => saved.vectors = vectors
  /\ pc \in {"manifest", "graph"} /\ "table" \notin failed => saved.table = table
  /\ (pc = "idle" \/ (job = "watch" /\ pc = "read") \/ (pc = "closing" /\ ready) \/ job = "close") =>
       /\ "table" \notin failed => saved.table = table
       /\ "graph" \notin failed => saved.graph = graph
  /\ job \in {"warm", "walk"} /\ (Synced \/ pc = "read") => "graph" \notin failed
  /\ \A f \in Files : (Synced \/ pc = "read") /\ Clean(f) /\ ~InBatch(f) =>
       /\ job = "warm" => saved.graph = Missing \/ saved.graph[f] = disk[f]
       /\ job = "watch" /\ "graph" \notin failed => saved.graph[f] = graph[f]

\* A start reads what it must, of the files that nothing is known to be outstanding of.
Settled(f) == Clean(f) /\ ~InBatch(f) /\ f \notin Unsaved
Restartable == \A f \in Files : Settled(f) => f \notin Unseen(disk, saved.vectors)

\* The type invariant, and that the table and the graph are saved whole.
TInv ==
  /\ TypeOK
  /\ saved.table = Missing \/ saved.table \in [Files -> Contents]
  /\ saved.graph = Missing \/ saved.graph \in [Files -> Contents]
  /\ saved.vectors \in [Files -> Contents]

XInv == TInv /\ Places /\ Batches /\ Reads /\ Tables /\ Embeddings /\ Stored /\ Restartable

-----------------------------------------------------------------------------
(* Its steps.                                                              *)

\* Contents are numbers, and an artifact that is not on disk has none.
LEMMA ContentsAreNumbers ==
  Contents \subseteq Nat
<1>1. Texts \subseteq Nat
  BY IndexerAssumption
<1> QED BY <1>1 DEF Contents

\* So they are numbers in the tree and in the saved table.
LEMMA TreesAreNumbers ==
  ASSUME TInv
  PROVE  \A f \in Files : disk[f] \in Nat /\ saved.table[f] \in Int
<1>1. disk \in [Files -> Contents] /\ saved.table \in [Files -> {-1} \cup Contents]
  BY DEF TInv, TypeOK, Artifact
<1>2. Contents \subseteq Nat
  BY ContentsAreNumbers
<1>3. {-1} \cup Contents \subseteq Int
  BY <1>2
<1>4. \A f \in Files : disk[f] \in Contents /\ saved.table[f] \in {-1} \cup Contents
  BY <1>1
<1> QED BY <1>2, <1>3, <1>4

\* What Unseen says of a file.
SeenAs(f) ==
  /\ disk[f] = saved.manifest[f] =>
       /\ saved.table = Missing \/ saved.table[f] = disk[f]
       /\ saved.graph = Missing \/ saved.graph[f] = disk[f]
  /\ disk[f] > 0 /\ saved.table[f] = disk[f] => saved.vectors[f] = disk[f]

\* A start that does not take a file for current reads it, or has all of it.
LEMMA SeenIs == \A f \in Files : f \notin Unseen(disk, saved.vectors) <=> SeenAs(f)
  BY DEF Unseen, Stale, SeenAs

\* The same of the state after a step.
LEMMA SeenIsThen == \A f \in Files : (f \notin Unseen(disk, saved.vectors))' <=> SeenAs(f)'
  BY DEF Unseen, Stale, SeenAs

\* Where it is saved, a file that nothing is outstanding of is in the saved graph, if there is one.
LEMMA GraphIsStored ==
  ASSUME XInv, pc \in {"table", "manifest"}, NEW f \in Files, Clean(f), ~InBatch(f),
         "graph" \in failed => saved.graph[f] = graph[f]
  PROVE  saved.graph = Missing \/ saved.graph[f] = disk[f]
<1>1. job \in {"warm", "watch", "close"}
  BY DEF XInv, Places, Batches, Synced, TInv, TypeOK
<1>2. graph[f] = disk[f] \/ Ungraphed
  BY DEF XInv, Tables
<1>3. CASE job = "warm"
  BY <1>3 DEF XInv, Stored, Synced
<1>4. CASE job = "watch"
  BY <1>2, <1>4 DEF XInv, Stored, Synced, Ungraphed
<1>5. CASE job = "close"
  BY <1>2, <1>5 DEF XInv, Stored, Ungraphed
<1> QED BY <1>1, <1>3, <1>4, <1>5

\* Change keeps the engine's invariant.
LEMMA ChangeKeeps ==
  ASSUME XInv, Change
  PROVE  XInv'
<1>1. TInv'
  BY IndexerAssumption DEF XInv, Change, Merge, Spend, TInv, TypeOK, Artifact, Contents,
     Kinds, Missing, All, Unread, memory, batch
<1>2. Places'
  BY IndexerAssumption DEF XInv, Change, Merge, Spend, Places, All, Unread, memory, batch
<1>3. Batches'
  BY IndexerAssumption DEF XInv, Change, Merge, Spend, Batches, InBatch, Synced, Places,
     Pending, Batch, All, Unread, memory, batch
<1>4. Reads'
  BY IndexerAssumption DEF XInv, Change, Merge, Spend, Reads, Clean, InBatch, Synced, Batches,
     Places, Pending, Batch, TInv, TypeOK, Contents, All, Unread, memory, batch
<1>5. Tables'
  BY IndexerAssumption DEF XInv, Change, Merge, Spend, Tables, Reads, Batches, Places, Stored,
     Clean, InBatch, Synced, Ungraphed, Failing, Pending, Batch, TInv, TypeOK, Contents, All,
     Unread, memory, batch
<1>6. Embeddings'
  BY IndexerAssumption DEF XInv, Change, Merge, Spend, Embeddings, Stale, Failing, Places,
     Batches, Clean, InBatch, Synced, Pending, Batch, TInv, TypeOK, Contents, All, Unread,
     memory, batch
<1>7. Stored'
  BY IndexerAssumption DEF XInv, Change, Merge, Spend, Stored, Places, Batches, Clean,
     InBatch, Synced, Failing, Pending, Batch, TInv, TypeOK, All, Unread, memory, batch
<1>8. Restartable'
  <2> SUFFICES ASSUME NEW f \in Files, Settled(f)' PROVE SeenAs(f)'
    BY SeenIsThen DEF Restartable
  <2>1. Settled(f) => SeenAs(f)
    BY SeenIs DEF XInv, Restartable
  <2>2. CASE UNCHANGED <<disk, saved>> /\ Settled(f)
    BY <2>1, <2>2 DEF SeenAs
  <2>3. CASE pc = "down"
    BY <2>1, <2>3 DEF Change, Settled, Clean, InBatch, Unsaved, Unseen, Stale, SeenAs,
       Spend, memory, batch, XInv, Batches, Places, TInv, TypeOK
  <2>4. CASE pc # "down"
    BY <2>1, <2>4 DEF Change, Merge, Settled, Clean, InBatch, Unsaved, SeenAs, Spend,
       memory, batch, XInv, TInv, TypeOK
  <2> QED BY <2>3, <2>4
<1> QED BY <1>1, <1>2, <1>3, <1>4, <1>5, <1>6, <1>7, <1>8 DEF XInv

\* Start keeps the engine's invariant.
LEMMA StartKeeps ==
  ASSUME XInv, Start
  PROVE  XInv'
<1>0. /\ pc = "down" /\ pc' = "read" /\ UNCHANGED <<disk, dirty, saved, ready, missed, failed>>
      /\ table' = Loaded(saved.table) /\ graph' = Loaded(saved.graph) /\ vectors' = saved.vectors
  BY DEF Start
<1>20. \A f \in Files : f \notin missed => Clean(f) /\ ~InBatch(f) /\ SeenAs(f)
  BY <1>0, SeenIs DEF XInv, Restartable, Batches, Places, Settled, Clean, Unsaved
<1>21. ASSUME NEW f \in Files, ~InBatch(f)'
       PROVE  /\ job' = "warm" /\ saved.table # Missing
              /\ saved.manifest[f] = disk[f]
  BY <1>21 DEF Start, InBatch, Unread
<1>22. \A f \in Files : disk[f] \in Nat /\ saved.table[f] \in Int
  BY TreesAreNumbers DEF XInv
<1>1. TInv'
  BY IndexerAssumption DEF XInv, Start, Loaded, TInv, TypeOK, Artifact, Contents, Kinds,
     Missing, All, Unread, memory, batch
<1>2. Places'
  BY IndexerAssumption DEF XInv, Start, Loaded, Places, All, Unread, memory, batch
<1>3. Batches'
  BY IndexerAssumption DEF XInv, Start, Loaded, Batches, InBatch, Synced, Places, Pending,
     Batch, All, Unread, memory, batch
<1>4. Reads'
  BY IndexerAssumption DEF XInv, Start, Loaded, Reads, Clean, InBatch, Synced, Batches,
     Places, Pending, Batch, TInv, TypeOK, Contents, All, Unread, memory, batch
<1>5. Tables'
  <2>1. ASSUME NEW f \in Files, Clean(f)', ~InBatch(f)'
        PROVE  table'[f] = disk'[f] /\ (graph'[f] = disk'[f] \/ Ungraphed')
    <3>1. job' = "warm" /\ saved.table # Missing /\ saved.manifest[f] = disk[f]
      BY <1>21, <2>1
    <3>2. SeenAs(f)
      BY <1>20, <1>0, <2>1 DEF Clean
    <3>3. saved.table[f] = disk[f] /\ (saved.graph = Missing \/ saved.graph[f] = disk[f])
      BY <3>1, <3>2 DEF SeenAs
    <3>4. table' = saved.table
      <4>1. CASE Missing \in {saved.table, saved.table}
        BY <3>1, <4>1
      <4> QED BY <4>1, <1>0 DEF Loaded
    <3>5. saved.graph # Missing => graph' = saved.graph
      BY <3>1, <1>0 DEF Loaded
    <3> QED BY <3>1, <3>3, <3>4, <3>5, <1>0 DEF Ungraphed
  <2>2. ~Synced'
    BY <1>0 DEF Synced
  <2> QED BY <2>1, <2>2 DEF Tables
<1>6. Embeddings'
  <2> SUFFICES ASSUME NEW f \in Files, f \notin missed, disk[f] > 0, table'[f] = disk[f],
                      saved.vectors[f] # disk[f]
               PROVE  FALSE
    BY <1>0 DEF Embeddings, Stale
  <2>1. SeenAs(f)
    BY <1>20
  <2>2. table' \in {saved.table, All(0)}
    BY <1>0 DEF Loaded
  <2>3. table'[f] = saved.table[f]
    BY <2>2, <1>22 DEF All
  <2> QED BY <2>1, <2>3 DEF SeenAs
<1>7. Stored'
  <2>1. /\ saved'.vectors = vectors'
        /\ pc' = "read" /\ job' \in {"warm", "walk"} /\ ready' = FALSE
        /\ failed' = {}
    BY <1>0 DEF Start, XInv, Places
  <2>2. ASSUME NEW f \in Files, Clean(f)', ~InBatch(f)'
        PROVE  saved.graph = Missing \/ saved.graph[f] = disk[f]
    <3>1. saved.manifest[f] = disk[f]
      BY <1>21, <2>2
    <3>2. SeenAs(f)
      BY <1>20, <1>0, <2>2 DEF Clean
    <3> QED BY <3>1, <3>2 DEF SeenAs
  <2> QED BY <2>1, <2>2, <1>0 DEF Stored
<1>8. Restartable'
  <2> SUFFICES ASSUME NEW f \in Files, Settled(f)' PROVE SeenAs(f)'
    BY SeenIsThen DEF Restartable
  <2>1. SeenAs(f)
    BY <1>0, <1>20 DEF Settled, Clean
  <2> QED BY <2>1, <1>0 DEF SeenAs
<1> QED BY <1>1, <1>2, <1>3, <1>4, <1>5, <1>6, <1>7, <1>8 DEF XInv

\* Poll keeps the engine's invariant.
LEMMA PollKeeps ==
  ASSUME XInv, Poll
  PROVE  XInv'
<1>1. TInv'
  <2>1. missed' \subseteq Files
    BY DEF XInv, TInv, TypeOK, Poll, Overflow, Pending, Batch
  <2>2. /\ dirty' \in [Files -> Kinds] /\ read' \in Artifact /\ todo' \subseteq Files
        /\ failed' \subseteq {"table", "graph"} /\ disk' \in [Files -> Contents]
    BY DEF XInv, TInv, TypeOK, Poll, Overflow, Pending, Artifact, Contents, Kinds, All,
       Unread, memory, batch
  <2>3. /\ table' \in [Files -> Contents] /\ graph' \in [Files -> Contents]
        /\ vectors' \in [Files -> Contents] /\ manifest' \in Artifact /\ saved' = saved
    BY DEF XInv, TInv, TypeOK, Poll, Overflow, Artifact, memory
  <2>4. /\ ready' \in BOOLEAN
        /\ pc' \in {"down", "read", "embed", "rebuild", "baseline", "table", "manifest", "graph",
                   "idle", "closing", "closed"}
        /\ job' \in {"boot", "walk", "warm", "watch", "close"}
    BY DEF XInv, TInv, TypeOK, Poll, Overflow
  <2> QED BY <2>1, <2>2, <2>3, <2>4 DEF XInv, TInv, TypeOK
<1>2. Places'
  BY IndexerAssumption DEF XInv, Poll, Overflow, Places, All, Unread, memory, batch
<1>3. Batches'
  BY IndexerAssumption DEF XInv, Poll, Overflow, Batches, InBatch, Synced, Places, Pending,
     Batch, All, Unread, memory, batch
<1>4. Reads'
  BY IndexerAssumption DEF XInv, Poll, Overflow, Reads, Clean, InBatch, Synced, Batches,
     Places, Pending, Batch, TInv, TypeOK, Contents, All, Unread, memory, batch
<1>5. Tables'
  BY IndexerAssumption DEF XInv, Poll, Overflow, Tables, Reads, Batches, Places, Stored,
     Clean, InBatch, Synced, Ungraphed, Failing, Pending, Batch, TInv, TypeOK, Contents, All,
     Unread, memory, batch
<1>6. Embeddings'
  BY IndexerAssumption DEF XInv, Poll, Overflow, Embeddings, Stale, Failing, Places, Batches,
     Clean, InBatch, Synced, Pending, Batch, TInv, TypeOK, Contents, All, Unread, memory,
     batch
<1>7. Stored'
  BY IndexerAssumption DEF XInv, Poll, Overflow, Stored, Places, Batches, Clean, InBatch,
     Synced, Failing, Pending, Batch, TInv, TypeOK, All, Unread, memory, batch
<1>8. Restartable'
  <2> SUFFICES ASSUME NEW f \in Files, Settled(f)' PROVE SeenAs(f)'
    BY SeenIsThen DEF Restartable
  <2>1. Settled(f) => SeenAs(f)
    BY SeenIs DEF XInv, Restartable
  <2>2. UNCHANGED <<disk, saved>> /\ Settled(f)
    BY DEF Poll, Overflow, Settled, Clean, InBatch, Unsaved, Pending, Batches, Unread, All,
       memory, batch, XInv, TInv, TypeOK
  <2> QED BY <2>1, <2>2 DEF SeenAs
<1> QED BY <1>1, <1>2, <1>3, <1>4, <1>5, <1>6, <1>7, <1>8 DEF XInv

\* Read keeps the engine's invariant.
LEMMA ReadKeeps ==
  ASSUME XInv, Read
  PROVE  XInv'
<1>0. PICK g \in todo : read' = [read EXCEPT ![g] = disk[g]] /\ todo' = todo \ {g}
  BY DEF Read
<1>20. UNCHANGED <<disk, dirty, memory, saved, ready, pc, job, failed, missed>> /\ pc = "read"
  BY DEF Read
<1>21. /\ \A f \in Files : (f \in todo' \/ read'[f] # Unread) <=> (f \in todo \/ read[f] # Unread)
      /\ \A f \in Files : read'[f] \in {read[f], disk[f]}
  <2>0. g \in Files
    BY DEF XInv, TInv, TypeOK
  <2>1. g \in Files /\ disk[g] \in Nat
    BY <2>0, TreesAreNumbers DEF XInv
  <2> QED BY <1>0, <2>1 DEF XInv, TInv, TypeOK, Artifact, Unread
<1>1. TInv'
  BY IndexerAssumption DEF XInv, Read, TInv, TypeOK, Artifact, Contents, Kinds, Missing, All,
     Unread, memory, batch
<1>2. Places'
  BY IndexerAssumption DEF XInv, Read, Places, All, Unread, memory, batch
<1>3. Batches'
  BY <1>0, <1>20, <1>21 DEF XInv, Batches, InBatch, Synced
<1>4. Reads'
  BY IndexerAssumption DEF XInv, Read, Reads, Clean, InBatch, Synced, Batches, Places,
     Pending, Batch, TInv, TypeOK, Contents, All, Unread, memory, batch
<1>5. Tables'
  BY <1>20, <1>21 DEF XInv, Tables, Clean, InBatch, Synced, Ungraphed, Failing, memory
<1>6. Embeddings'
  BY IndexerAssumption DEF XInv, Read, Embeddings, Restartable, Stale, Failing, Places,
     Batches, Clean, InBatch, Synced, Pending, Batch, TInv, TypeOK, Contents, All, Unread,
     memory, batch
<1>7. Stored'
  BY <1>20, <1>21 DEF XInv, Stored, Clean, InBatch, Synced, memory
<1>8. Restartable'
  <2> SUFFICES ASSUME NEW f \in Files, Settled(f)' PROVE SeenAs(f)'
    BY SeenIsThen DEF Restartable
  <2>1. Settled(f) => SeenAs(f)
    BY SeenIs DEF XInv, Restartable
  <2>2. UNCHANGED <<disk, saved>> /\ Settled(f)
    BY <1>20, <1>21 DEF Settled, Clean, InBatch, Unsaved, memory
  <2> QED BY <2>1, <2>2 DEF SeenAs
<1> QED BY <1>1, <1>2, <1>3, <1>4, <1>5, <1>6, <1>7, <1>8 DEF XInv

\* ReadFault keeps the engine's invariant.
LEMMA ReadFaultKeeps ==
  ASSUME XInv, ReadFault
  PROVE  XInv'
<1>1. TInv'
  BY IndexerAssumption DEF XInv, ReadFault, Spend, TInv, TypeOK, Artifact, Contents, Kinds,
     Missing, All, Unread, memory, batch
<1>2. Places'
  BY IndexerAssumption DEF XInv, ReadFault, Spend, Places, All, Unread, memory, batch
<1>3. Batches'
  BY IndexerAssumption DEF XInv, ReadFault, Spend, Batches, InBatch, Synced, Places, Pending,
     Batch, All, Unread, memory, batch
<1>4. Reads'
  BY IndexerAssumption DEF XInv, ReadFault, Spend, Reads, Clean, InBatch, Synced, Batches,
     Places, Pending, Batch, TInv, TypeOK, Contents, All, Unread, memory, batch
<1>5. Tables'
  BY IndexerAssumption DEF XInv, ReadFault, Spend, Tables, Reads, Batches, Places, Stored,
     Clean, InBatch, Synced, Ungraphed, Failing, Pending, Batch, TInv, TypeOK, Contents, All,
     Unread, memory, batch
<1>6. Embeddings'
  BY IndexerAssumption DEF XInv, ReadFault, Spend, Embeddings, Stale, Failing, Places,
     Batches, Clean, InBatch, Synced, Pending, Batch, TInv, TypeOK, Contents, All, Unread,
     memory, batch
<1>7. Stored'
  BY IndexerAssumption DEF XInv, ReadFault, Spend, Stored, Places, Batches, Clean, InBatch,
     Synced, Failing, Pending, Batch, TInv, TypeOK, All, Unread, memory, batch
<1>8. Restartable'
  <2> SUFFICES ASSUME NEW f \in Files, Settled(f)' PROVE SeenAs(f)'
    BY SeenIsThen DEF Restartable
  <2>1. Settled(f) => SeenAs(f)
    BY SeenIs DEF XInv, Restartable
  <2>2. UNCHANGED <<disk, saved>> /\ Settled(f)
    BY DEF ReadFault, Spend, Settled, Clean, InBatch, Unsaved, memory, batch
  <2> QED BY <2>1, <2>2 DEF SeenAs
<1> QED BY <1>1, <1>2, <1>3, <1>4, <1>5, <1>6, <1>7, <1>8 DEF XInv

\* Sync keeps the engine's invariant.
LEMMA SyncKeeps ==
  ASSUME XInv, Sync
  PROVE  XInv'
<1>1. TInv'
  BY IndexerAssumption DEF XInv, Sync, Synchronize, Over, TInv, TypeOK, Artifact, Contents,
     Kinds, Missing, All, Unread, memory, batch
<1>2. Places'
  BY IndexerAssumption DEF XInv, Sync, Synchronize, Over, Places, All, Unread, memory, batch
<1>3. Batches'
  BY IndexerAssumption DEF XInv, Sync, Synchronize, Over, Batches, InBatch, Synced, Places,
     Pending, Batch, All, Unread, memory, batch
<1>4. Reads'
  BY IndexerAssumption DEF XInv, Sync, Synchronize, Over, Reads, Clean, InBatch, Synced,
     Batches, Places, Pending, Batch, TInv, TypeOK, Contents, All, Unread, memory, batch
<1>5. Tables'
  BY IndexerAssumption DEF XInv, Sync, Synchronize, Over, Tables, Reads, Batches, Places,
     Stored, Clean, InBatch, Synced, Ungraphed, Failing, Pending, Batch, TInv, TypeOK,
     Contents, All, Unread, memory, batch
<1>6. Embeddings'
  BY IndexerAssumption DEF XInv, Sync, Synchronize, Over, Embeddings, Stale, Failing, Places,
     Batches, Clean, InBatch, Synced, Pending, Batch, TInv, TypeOK, Contents, All, Unread,
     memory, batch
<1>7. Stored'
  BY IndexerAssumption DEF XInv, Sync, Synchronize, Over, Stored, Places, Batches, Clean,
     InBatch, Synced, Failing, Pending, Batch, TInv, TypeOK, All, Unread, memory, batch
<1>8. Restartable'
  <2> SUFFICES ASSUME NEW f \in Files, Settled(f)' PROVE SeenAs(f)'
    BY SeenIsThen DEF Restartable
  <2>1. Settled(f) => SeenAs(f)
    BY SeenIs DEF XInv, Restartable
  <2>2. UNCHANGED <<disk, saved>> /\ Settled(f)
    BY DEF Sync, Synchronize, Over, Settled, Clean, InBatch, Unsaved, XInv, TInv, TypeOK
  <2> QED BY <2>1, <2>2 DEF SeenAs
<1> QED BY <1>1, <1>2, <1>3, <1>4, <1>5, <1>6, <1>7, <1>8 DEF XInv

\* GraphFault keeps the engine's invariant.
LEMMA GraphFaultKeeps ==
  ASSUME XInv, GraphFault
  PROVE  XInv'
<1>1. TInv'
  BY IndexerAssumption DEF XInv, GraphFault, Synchronize, Over, Spend, TInv, TypeOK, Artifact,
     Contents, Kinds, Missing, All, Unread, memory, batch
<1>2. Places'
  BY IndexerAssumption DEF XInv, GraphFault, Synchronize, Over, Spend, Places, All, Unread,
     memory, batch
<1>3. Batches'
  BY IndexerAssumption DEF XInv, GraphFault, Synchronize, Over, Spend, Batches, InBatch,
     Synced, Places, Pending, Batch, All, Unread, memory, batch
<1>4. Reads'
  BY IndexerAssumption DEF XInv, GraphFault, Synchronize, Over, Spend, Reads, Clean, InBatch,
     Synced, Batches, Places, Pending, Batch, TInv, TypeOK, Contents, All, Unread, memory,
     batch
<1>5. Tables'
  BY IndexerAssumption DEF XInv, GraphFault, Synchronize, Over, Spend, Tables, Reads, Batches,
     Places, Stored, Clean, InBatch, Synced, Ungraphed, Failing, Pending, Batch, TInv, TypeOK,
     Contents, All, Unread, memory, batch
<1>6. Embeddings'
  BY IndexerAssumption DEF XInv, GraphFault, Synchronize, Over, Spend, Embeddings, Stale,
     Failing, Places, Batches, Clean, InBatch, Synced, Pending, Batch, TInv, TypeOK, Contents,
     All, Unread, memory, batch
<1>7. Stored'
  BY IndexerAssumption DEF XInv, GraphFault, Synchronize, Over, Spend, Stored, Places,
     Batches, Clean, InBatch, Synced, Failing, Pending, Batch, TInv, TypeOK, All, Unread,
     memory, batch
<1>8. Restartable'
  <2> SUFFICES ASSUME NEW f \in Files, Settled(f)' PROVE SeenAs(f)'
    BY SeenIsThen DEF Restartable
  <2>1. Settled(f) => SeenAs(f)
    BY SeenIs DEF XInv, Restartable
  <2>2. UNCHANGED <<disk, saved>> /\ Settled(f)
    BY DEF GraphFault, Synchronize, Over, Spend, Settled, Clean, InBatch, Unsaved, XInv,
       TInv, TypeOK
  <2> QED BY <2>1, <2>2 DEF SeenAs
<1> QED BY <1>1, <1>2, <1>3, <1>4, <1>5, <1>6, <1>7, <1>8 DEF XInv

\* Embed keeps the engine's invariant.
LEMMA EmbedKeeps ==
  ASSUME XInv, Embed
  PROVE  XInv'
<1>1. TInv'
  BY IndexerAssumption DEF XInv, Embed, Embedded, Readable, AfterVectors, TInv, TypeOK,
     Artifact, Contents, Kinds, Missing, All, Unread, memory, batch
<1>2. Places'
  BY IndexerAssumption DEF XInv, Embed, Embedded, Readable, AfterVectors, Places, All, Unread,
     memory, batch
<1>3. Batches'
  BY IndexerAssumption DEF XInv, Embed, Embedded, Readable, AfterVectors, Batches, InBatch,
     Synced, Places, Pending, Batch, All, Unread, memory, batch
<1>4. Reads'
  BY IndexerAssumption DEF XInv, Embed, Embedded, Readable, AfterVectors, Reads, Clean,
     InBatch, Synced, Batches, Places, Pending, Batch, TInv, TypeOK, Contents, All, Unread,
     memory, batch
<1>5. Tables'
  BY IndexerAssumption DEF XInv, Embed, Embedded, Readable, AfterVectors, Tables, Reads,
     Batches, Places, Stored, Clean, InBatch, Synced, Ungraphed, Failing, Pending, Batch,
     TInv, TypeOK, Contents, All, Unread, memory, batch
<1>6. Embeddings'
  BY IndexerAssumption DEF XInv, Embed, Embedded, Readable, AfterVectors, Embeddings, Stale,
     Failing, Places, Batches, Clean, InBatch, Synced, Pending, Batch, TInv, TypeOK, Contents,
     All, Unread, memory, batch
<1>7. Stored'
  BY IndexerAssumption DEF XInv, Embed, Embedded, Readable, AfterVectors, Stored, Places,
     Batches, Clean, InBatch, Synced, Failing, Pending, Batch, TInv, TypeOK, All, Unread,
     memory, batch
<1>8. Restartable'
  <2> SUFFICES ASSUME NEW f \in Files, Settled(f)' PROVE SeenAs(f)'
    BY SeenIsThen DEF Restartable
  <2>1. Settled(f) => SeenAs(f)
    BY SeenIs DEF XInv, Restartable
  <2>2. /\ UNCHANGED disk /\ Settled(f) /\ f \notin todo
        /\ saved'.table = saved.table /\ saved'.graph = saved.graph /\ saved'.manifest = saved.manifest
    BY DEF Embed, Settled, Clean, InBatch, Unsaved, memory, batch, XInv, TInv, TypeOK
  <2>3. saved.vectors = vectors /\ saved'.vectors = Embedded(todo)
    BY DEF Embed, XInv, Stored, TInv, TypeOK
  <2>4. saved'.vectors[f] = saved.vectors[f]
    BY <2>2, <2>3 DEF Embedded
  <2> QED BY <2>1, <2>2, <2>4 DEF SeenAs
<1> QED BY <1>1, <1>2, <1>3, <1>4, <1>5, <1>6, <1>7, <1>8 DEF XInv

\* EmbedFail keeps the engine's invariant.
LEMMA EmbedFailKeeps ==
  ASSUME XInv, EmbedFail
  PROVE  XInv'
<1>1. TInv'
  BY IndexerAssumption DEF XInv, EmbedFail, Embedded, Readable, Spend, TInv, TypeOK, Artifact,
     Contents, Kinds, Missing, All, Unread, memory, batch
<1>2. Places'
  BY IndexerAssumption DEF XInv, EmbedFail, Embedded, Readable, Spend, Places, All, Unread,
     memory, batch
<1>3. Batches'
  BY IndexerAssumption DEF XInv, EmbedFail, Embedded, Readable, Spend, Batches, InBatch,
     Synced, Places, Pending, Batch, All, Unread, memory, batch
<1>4. Reads'
  BY IndexerAssumption DEF XInv, EmbedFail, Embedded, Readable, Spend, Reads, Clean, InBatch,
     Synced, Batches, Places, Pending, Batch, TInv, TypeOK, Contents, All, Unread, memory,
     batch
<1>5. Tables'
  BY IndexerAssumption DEF XInv, EmbedFail, Embedded, Readable, Spend, Tables, Reads, Batches,
     Places, Stored, Clean, InBatch, Synced, Ungraphed, Failing, Pending, Batch, TInv, TypeOK,
     Contents, All, Unread, memory, batch
<1>6. Embeddings'
  BY IndexerAssumption DEF XInv, EmbedFail, Embedded, Readable, Spend, Embeddings, Stale,
     Failing, Places, Batches, Clean, InBatch, Synced, Pending, Batch, TInv, TypeOK, Contents,
     All, Unread, memory, batch
<1>7. Stored'
  BY IndexerAssumption DEF XInv, EmbedFail, Embedded, Readable, Spend, Stored, Places,
     Batches, Clean, InBatch, Synced, Failing, Pending, Batch, TInv, TypeOK, All, Unread,
     memory, batch
<1>8. Restartable'
  <2> SUFFICES ASSUME NEW f \in Files, Settled(f)' PROVE SeenAs(f)'
    BY SeenIsThen DEF Restartable
  <2>1. Settled(f) => SeenAs(f)
    BY SeenIs DEF XInv, Restartable
  <2>2. UNCHANGED <<disk, saved>> /\ Settled(f)
    BY DEF EmbedFail, Embedded, Readable, Spend, Settled, Clean, InBatch, Unsaved, memory, batch
  <2> QED BY <2>1, <2>2 DEF SeenAs
<1> QED BY <1>1, <1>2, <1>3, <1>4, <1>5, <1>6, <1>7, <1>8 DEF XInv

\* Rebuild keeps the engine's invariant.
LEMMA RebuildKeeps ==
  ASSUME XInv, Rebuild
  PROVE  XInv'
<1>1. TInv'
  BY IndexerAssumption DEF XInv, Rebuild, Embedded, Readable, AfterVectors, TInv, TypeOK,
     Artifact, Contents, Kinds, Missing, All, Unread, memory, batch
<1>2. Places'
  BY IndexerAssumption DEF XInv, Rebuild, Embedded, Readable, AfterVectors, Places, All,
     Unread, memory, batch
<1>3. Batches'
  BY IndexerAssumption DEF XInv, Rebuild, Embedded, Readable, AfterVectors, Batches, InBatch,
     Synced, Places, Pending, Batch, All, Unread, memory, batch
<1>4. Reads'
  BY IndexerAssumption DEF XInv, Rebuild, Embedded, Readable, AfterVectors, Reads, Clean,
     InBatch, Synced, Batches, Places, Pending, Batch, TInv, TypeOK, Contents, All, Unread,
     memory, batch
<1>5. Tables'
  BY IndexerAssumption DEF XInv, Rebuild, Embedded, Readable, AfterVectors, Tables, Reads,
     Batches, Places, Stored, Clean, InBatch, Synced, Ungraphed, Failing, Pending, Batch,
     TInv, TypeOK, Contents, All, Unread, memory, batch
<1>6. Embeddings'
  BY IndexerAssumption DEF XInv, Rebuild, Embedded, Readable, AfterVectors, Embeddings, Stale,
     Failing, Places, Batches, Clean, InBatch, Synced, Pending, Batch, TInv, TypeOK, Contents,
     All, Unread, memory, batch
<1>7. Stored'
  BY IndexerAssumption DEF XInv, Rebuild, Embedded, Readable, AfterVectors, Stored, Places,
     Batches, Clean, InBatch, Synced, Failing, Pending, Batch, TInv, TypeOK, All, Unread,
     memory, batch
<1>8. Restartable'
  <2> SUFFICES ASSUME NEW f \in Files, Settled(f)' PROVE SeenAs(f)'
    BY SeenIsThen DEF Restartable
  <2>1. Settled(f) => SeenAs(f)
    BY SeenIs DEF XInv, Restartable
  <2>2. /\ UNCHANGED <<disk, table>> /\ Settled(f) /\ saved'.vectors = Embedded(Files)
        /\ saved'.table = saved.table /\ saved'.graph = saved.graph /\ saved'.manifest = saved.manifest
    BY DEF Rebuild, Settled, Clean, InBatch, Unsaved, memory, batch, XInv, TInv, TypeOK
  <2>3. table[f] = disk[f] /\ pc # "down"
    BY <2>2 DEF XInv, Tables, Rebuild, Settled
  <2>4. saved'.vectors[f] = disk[f]
    BY <2>2, <2>3 DEF Embedded
  <2> QED BY <2>1, <2>2, <2>4 DEF SeenAs
<1> QED BY <1>1, <1>2, <1>3, <1>4, <1>5, <1>6, <1>7, <1>8 DEF XInv

\* RebuildFail keeps the engine's invariant.
LEMMA RebuildFailKeeps ==
  ASSUME XInv, RebuildFail
  PROVE  XInv'
<1>1. TInv'
  BY IndexerAssumption DEF XInv, RebuildFail, Spend, TInv, TypeOK, Artifact, Contents, Kinds,
     Missing, All, Unread, memory, batch
<1>2. Places'
  BY IndexerAssumption DEF XInv, RebuildFail, Spend, Places, All, Unread, memory, batch
<1>3. Batches'
  BY IndexerAssumption DEF XInv, RebuildFail, Spend, Batches, InBatch, Synced, Places,
     Pending, Batch, All, Unread, memory, batch
<1>4. Reads'
  BY IndexerAssumption DEF XInv, RebuildFail, Spend, Reads, Clean, InBatch, Synced, Batches,
     Places, Pending, Batch, TInv, TypeOK, Contents, All, Unread, memory, batch
<1>5. Tables'
  BY IndexerAssumption DEF XInv, RebuildFail, Spend, Tables, Reads, Batches, Places, Stored,
     Clean, InBatch, Synced, Ungraphed, Failing, Pending, Batch, TInv, TypeOK, Contents, All,
     Unread, memory, batch
<1>6. Embeddings'
  BY IndexerAssumption DEF XInv, RebuildFail, Spend, Embeddings, Stale, Failing, Places,
     Batches, Clean, InBatch, Synced, Pending, Batch, TInv, TypeOK, Contents, All, Unread,
     memory, batch
<1>7. Stored'
  BY IndexerAssumption DEF XInv, RebuildFail, Spend, Stored, Places, Batches, Clean, InBatch,
     Synced, Failing, Pending, Batch, TInv, TypeOK, All, Unread, memory, batch
<1>8. Restartable'
  <2> SUFFICES ASSUME NEW f \in Files, Settled(f)' PROVE SeenAs(f)'
    BY SeenIsThen DEF Restartable
  <2>1. Settled(f) => SeenAs(f)
    BY SeenIs DEF XInv, Restartable
  <2>2. UNCHANGED <<disk, saved>> /\ Settled(f)
    BY DEF RebuildFail, Spend, Settled, Clean, InBatch, Unsaved, memory, batch
  <2> QED BY <2>1, <2>2 DEF SeenAs
<1> QED BY <1>1, <1>2, <1>3, <1>4, <1>5, <1>6, <1>7, <1>8 DEF XInv

\* Baseline keeps the engine's invariant.
LEMMA BaselineKeeps ==
  ASSUME XInv, Baseline
  PROVE  XInv'
<1>1. TInv'
  BY IndexerAssumption DEF XInv, Baseline, TInv, TypeOK, Artifact, Contents, Kinds, Missing,
     All, Unread, memory, batch
<1>2. Places'
  BY IndexerAssumption DEF XInv, Baseline, Places, All, Unread, memory, batch
<1>3. Batches'
  BY IndexerAssumption DEF XInv, Baseline, Batches, InBatch, Synced, Places, Pending, Batch,
     All, Unread, memory, batch
<1>4. Reads'
  BY IndexerAssumption DEF XInv, Baseline, Reads, Clean, InBatch, Synced, Batches, Places,
     Pending, Batch, TInv, TypeOK, Contents, All, Unread, memory, batch
<1>5. Tables'
  BY IndexerAssumption DEF XInv, Baseline, Tables, Reads, Batches, Places, Stored, Clean,
     InBatch, Synced, Ungraphed, Failing, Pending, Batch, TInv, TypeOK, Contents, All, Unread,
     memory, batch
<1>6. Embeddings'
  BY IndexerAssumption DEF XInv, Baseline, Embeddings, Stale, Failing, Places, Batches, Clean,
     InBatch, Synced, Pending, Batch, TInv, TypeOK, Contents, All, Unread, memory, batch
<1>7. Stored'
  BY IndexerAssumption DEF XInv, Baseline, Stored, Places, Batches, Clean, InBatch, Synced,
     Failing, Pending, Batch, TInv, TypeOK, All, Unread, memory, batch
<1>8. Restartable'
  <2> SUFFICES ASSUME NEW f \in Files, Settled(f)' PROVE SeenAs(f)'
    BY SeenIsThen DEF Restartable
  <2>1. Settled(f) => SeenAs(f)
    BY SeenIs DEF XInv, Restartable
  <2>2. UNCHANGED <<disk, saved>> /\ Settled(f)
    BY DEF Baseline, Settled, Clean, InBatch, Unsaved, memory, batch
  <2> QED BY <2>1, <2>2 DEF SeenAs
<1> QED BY <1>1, <1>2, <1>3, <1>4, <1>5, <1>6, <1>7, <1>8 DEF XInv

\* BaselineFault keeps the engine's invariant.
LEMMA BaselineFaultKeeps ==
  ASSUME XInv, BaselineFault
  PROVE  XInv'
<1>1. TInv'
  BY IndexerAssumption DEF XInv, BaselineFault, Spend, TInv, TypeOK, Artifact, Contents,
     Kinds, Missing, All, Unread, memory, batch
<1>2. Places'
  BY IndexerAssumption DEF XInv, BaselineFault, Spend, Places, All, Unread, memory, batch
<1>3. Batches'
  BY IndexerAssumption DEF XInv, BaselineFault, Spend, Batches, InBatch, Synced, Places,
     Pending, Batch, All, Unread, memory, batch
<1>4. Reads'
  BY IndexerAssumption DEF XInv, BaselineFault, Spend, Reads, Clean, InBatch, Synced, Batches,
     Places, Pending, Batch, TInv, TypeOK, Contents, All, Unread, memory, batch
<1>5. Tables'
  BY IndexerAssumption DEF XInv, BaselineFault, Spend, Tables, Reads, Batches, Places, Stored,
     Clean, InBatch, Synced, Ungraphed, Failing, Pending, Batch, TInv, TypeOK, Contents, All,
     Unread, memory, batch
<1>6. Embeddings'
  BY IndexerAssumption DEF XInv, BaselineFault, Spend, Embeddings, Stale, Failing, Places,
     Batches, Clean, InBatch, Synced, Pending, Batch, TInv, TypeOK, Contents, All, Unread,
     memory, batch
<1>7. Stored'
  BY IndexerAssumption DEF XInv, BaselineFault, Spend, Stored, Places, Batches, Clean,
     InBatch, Synced, Failing, Pending, Batch, TInv, TypeOK, All, Unread, memory, batch
<1>8. Restartable'
  <2> SUFFICES ASSUME NEW f \in Files, Settled(f)' PROVE SeenAs(f)'
    BY SeenIsThen DEF Restartable
  <2>1. Settled(f) => SeenAs(f)
    BY SeenIs DEF XInv, Restartable
  <2>2. UNCHANGED <<disk, saved>> /\ Settled(f)
    BY DEF BaselineFault, Spend, Settled, Clean, InBatch, Unsaved, memory, batch
  <2> QED BY <2>1, <2>2 DEF SeenAs
<1> QED BY <1>1, <1>2, <1>3, <1>4, <1>5, <1>6, <1>7, <1>8 DEF XInv

\* SaveTable keeps the engine's invariant.
LEMMA SaveTableKeeps ==
  ASSUME XInv, SaveTable
  PROVE  XInv'
<1>1. TInv'
  BY IndexerAssumption DEF XInv, SaveTable, TableDone, Regraphed, TInv, TypeOK, Artifact,
     Contents, Kinds, Missing, All, Unread, memory, batch
<1>2. Places'
  BY DEF XInv, SaveTable, TableDone, Places, TInv, TypeOK
<1>3. Batches'
  BY IndexerAssumption DEF XInv, SaveTable, TableDone, Regraphed, Batches, InBatch, Synced,
     Places, Pending, Batch, All, Unread, memory, batch
<1>4. Reads'
  BY IndexerAssumption DEF XInv, SaveTable, TableDone, Regraphed, Reads, Clean, InBatch,
     Synced, Batches, Places, Pending, Batch, TInv, TypeOK, Contents, All, Unread, memory,
     batch
<1>5. Tables'
  BY IndexerAssumption DEF XInv, SaveTable, TableDone, Regraphed, Tables, Reads, Batches,
     Places, Stored, Clean, InBatch, Synced, Ungraphed, Failing, Pending, Batch, TInv, TypeOK,
     Contents, All, Unread, memory, batch
<1>6. Embeddings'
  BY IndexerAssumption DEF XInv, SaveTable, TableDone, Regraphed, Embeddings, Stale, Failing,
     Places, Batches, Clean, InBatch, Synced, Pending, Batch, TInv, TypeOK, Contents, All,
     Unread, memory, batch
<1>7. Stored'
  BY IndexerAssumption DEF XInv, SaveTable, TableDone, Regraphed, Stored, Places, Batches,
     Clean, InBatch, Synced, Failing, Pending, Batch, TInv, TypeOK, All, Unread, memory, batch
<1>8. Restartable'
  <2> SUFFICES ASSUME NEW f \in Files, Settled(f)' PROVE SeenAs(f)'
    BY SeenIsThen DEF Restartable
  <2>1. Settled(f) => SeenAs(f)
    BY SeenIs DEF XInv, Restartable
  <2>2. /\ UNCHANGED <<disk, table, vectors>> /\ pc = "table"
        /\ Clean(f) /\ ~InBatch(f) /\ saved'.table[f] = table[f]
        /\ saved'.graph = saved.graph /\ saved'.manifest = saved.manifest
        /\ saved'.vectors = saved.vectors
    BY DEF SaveTable, TableDone, Regraphed, Settled, Clean, InBatch, Unsaved, batch, XInv,
       TInv, TypeOK
  <2>3. "graph" \in failed => saved.graph[f] = graph[f]
    <3>1. "graph" \in failed => job # "warm"
      BY <2>2 DEF XInv, Stored, Synced
    <3> QED BY <2>2, <3>1 DEF SaveTable, TableDone, Regraphed, Settled, Unsaved
  <2>4. saved.graph = Missing \/ saved.graph[f] = disk[f]
    BY <2>2, <2>3, GraphIsStored
  <2>5. table[f] = disk[f] /\ (disk[f] > 0 => vectors[f] = disk[f])
    BY <2>2 DEF XInv, Tables, Embeddings, Stale, Failing, InBatch, Clean
  <2>6. saved.vectors = vectors
    BY <2>2 DEF XInv, Stored
  <2> QED BY <2>2, <2>4, <2>5, <2>6 DEF SeenAs
<1> QED BY <1>1, <1>2, <1>3, <1>4, <1>5, <1>6, <1>7, <1>8 DEF XInv

\* TableFault keeps the engine's invariant.
LEMMA TableFaultKeeps ==
  ASSUME XInv, TableFault
  PROVE  XInv'
<1>1. TInv'
  BY IndexerAssumption DEF XInv, TableFault, TableDone, Regraphed, Spend, TInv, TypeOK,
     Artifact, Contents, Kinds, Missing, All, Unread, memory, batch
<1>2. Places'
  BY DEF XInv, TableFault, TableDone, Places, TInv, TypeOK
<1>3. Batches'
  BY IndexerAssumption DEF XInv, TableFault, TableDone, Regraphed, Spend, Batches, InBatch,
     Synced, Places, Pending, Batch, All, Unread, memory, batch
<1>4. Reads'
  BY IndexerAssumption DEF XInv, TableFault, TableDone, Regraphed, Spend, Reads, Clean,
     InBatch, Synced, Batches, Places, Pending, Batch, TInv, TypeOK, Contents, All, Unread,
     memory, batch
<1>5. Tables'
  BY IndexerAssumption DEF XInv, TableFault, TableDone, Regraphed, Spend, Tables, Reads,
     Batches, Places, Stored, Clean, InBatch, Synced, Ungraphed, Failing, Pending, Batch,
     TInv, TypeOK, Contents, All, Unread, memory, batch
<1>6. Embeddings'
  BY IndexerAssumption DEF XInv, TableFault, TableDone, Regraphed, Spend, Embeddings, Stale,
     Failing, Places, Batches, Clean, InBatch, Synced, Pending, Batch, TInv, TypeOK, Contents,
     All, Unread, memory, batch
<1>7. Stored'
  BY IndexerAssumption DEF XInv, TableFault, TableDone, Regraphed, Spend, Stored, Places,
     Batches, Clean, InBatch, Synced, Failing, Pending, Batch, TInv, TypeOK, All, Unread,
     memory, batch
<1>8. Restartable'
  <2> SUFFICES ASSUME NEW f \in Files, Settled(f)' PROVE SeenAs(f)'
    BY SeenIsThen DEF Restartable
  <2>1. Settled(f) => SeenAs(f)
    BY SeenIs DEF XInv, Restartable
  <2>2. /\ UNCHANGED <<disk, table, vectors>> /\ pc = "table"
        /\ Clean(f) /\ ~InBatch(f) /\ saved'.table[f] = table[f]
        /\ saved'.graph = saved.graph /\ saved'.manifest = saved.manifest
        /\ saved'.vectors = saved.vectors
    BY DEF TableFault, TableDone, Regraphed, Settled, Clean, InBatch, Unsaved, batch, XInv,
       TInv, TypeOK
  <2>3. "graph" \in failed => saved.graph[f] = graph[f]
    <3>1. "graph" \in failed => job # "warm"
      BY <2>2 DEF XInv, Stored, Synced
    <3> QED BY <2>2, <3>1 DEF TableFault, TableDone, Regraphed, Settled, Unsaved
  <2>4. saved.graph = Missing \/ saved.graph[f] = disk[f]
    BY <2>2, <2>3, GraphIsStored
  <2>5. table[f] = disk[f] /\ (disk[f] > 0 => vectors[f] = disk[f])
    BY <2>2 DEF XInv, Tables, Embeddings, Stale, Failing, InBatch, Clean
  <2>6. saved.vectors = vectors
    BY <2>2 DEF XInv, Stored
  <2> QED BY <2>2, <2>4, <2>5, <2>6 DEF SeenAs
<1> QED BY <1>1, <1>2, <1>3, <1>4, <1>5, <1>6, <1>7, <1>8 DEF XInv

\* RegraphFault keeps the engine's invariant.
LEMMA RegraphFaultKeeps ==
  ASSUME XInv, RegraphFault
  PROVE  XInv'
<1>1. TInv'
  BY IndexerAssumption DEF XInv, RegraphFault, TableDone, Regraphed, Spend, TInv, TypeOK,
     Artifact, Contents, Kinds, Missing, All, Unread, memory, batch
<1>2. Places'
  BY DEF XInv, RegraphFault, TableDone, Places, TInv, TypeOK
<1>3. Batches'
  BY IndexerAssumption DEF XInv, RegraphFault, TableDone, Regraphed, Spend, Batches, InBatch,
     Synced, Places, Pending, Batch, All, Unread, memory, batch
<1>4. Reads'
  BY IndexerAssumption DEF XInv, RegraphFault, TableDone, Regraphed, Spend, Reads, Clean,
     InBatch, Synced, Batches, Places, Pending, Batch, TInv, TypeOK, Contents, All, Unread,
     memory, batch
<1>5. Tables'
  BY IndexerAssumption DEF XInv, RegraphFault, TableDone, Regraphed, Spend, Tables, Reads,
     Batches, Places, Stored, Clean, InBatch, Synced, Ungraphed, Failing, Pending, Batch,
     TInv, TypeOK, Contents, All, Unread, memory, batch
<1>6. Embeddings'
  BY IndexerAssumption DEF XInv, RegraphFault, TableDone, Regraphed, Spend, Embeddings, Stale,
     Failing, Places, Batches, Clean, InBatch, Synced, Pending, Batch, TInv, TypeOK, Contents,
     All, Unread, memory, batch
<1>7. Stored'
  BY IndexerAssumption DEF XInv, RegraphFault, TableDone, Regraphed, Spend, Stored, Places,
     Batches, Clean, InBatch, Synced, Failing, Pending, Batch, TInv, TypeOK, All, Unread,
     memory, batch
<1>8. Restartable'
  <2> SUFFICES ASSUME NEW f \in Files, Settled(f)' PROVE SeenAs(f)'
    BY SeenIsThen DEF Restartable
  <2>1. Settled(f) => SeenAs(f)
    BY SeenIs DEF XInv, Restartable
  <2>2. /\ UNCHANGED <<disk, table, vectors>> /\ pc = "table"
        /\ Clean(f) /\ ~InBatch(f) /\ saved'.table[f] = table[f]
        /\ saved'.graph = saved.graph /\ saved'.manifest = saved.manifest
        /\ saved'.vectors = saved.vectors
    BY DEF RegraphFault, TableDone, Regraphed, Settled, Clean, InBatch, Unsaved, batch,
       XInv, TInv, TypeOK
  <2>3. "graph" \in failed => saved.graph[f] = graph[f]
    <3>1. "graph" \in failed => job # "warm"
      BY <2>2 DEF XInv, Stored, Synced
    <3> QED BY <2>2, <3>1 DEF RegraphFault, TableDone, Regraphed, Settled, Unsaved
  <2>4. saved.graph = Missing \/ saved.graph[f] = disk[f]
    BY <2>2, <2>3, GraphIsStored
  <2>5. table[f] = disk[f] /\ (disk[f] > 0 => vectors[f] = disk[f])
    BY <2>2 DEF XInv, Tables, Embeddings, Stale, Failing, InBatch, Clean
  <2>6. saved.vectors = vectors
    BY <2>2 DEF XInv, Stored
  <2> QED BY <2>2, <2>4, <2>5, <2>6 DEF SeenAs
<1> QED BY <1>1, <1>2, <1>3, <1>4, <1>5, <1>6, <1>7, <1>8 DEF XInv

\* SaveManifest keeps the engine's invariant.
LEMMA SaveManifestKeeps ==
  ASSUME XInv, SaveManifest
  PROVE  XInv'
<1>1. TInv'
  BY IndexerAssumption DEF XInv, SaveManifest, ManifestDone, TInv, TypeOK, Artifact, Contents,
     Kinds, Missing, All, Unread, memory, batch
<1>2. Places'
  BY IndexerAssumption DEF XInv, SaveManifest, ManifestDone, Places, All, Unread, memory, batch
<1>3. Batches'
  BY IndexerAssumption DEF XInv, SaveManifest, ManifestDone, Batches, InBatch, Synced, Places,
     Pending, Batch, All, Unread, memory, batch
<1>4. Reads'
  BY IndexerAssumption DEF XInv, SaveManifest, ManifestDone, Reads, Clean, InBatch, Synced,
     Batches, Places, Pending, Batch, TInv, TypeOK, Contents, All, Unread, memory, batch
<1>5. Tables'
  BY IndexerAssumption DEF XInv, SaveManifest, ManifestDone, Tables, Reads, Batches, Places,
     Stored, Clean, InBatch, Synced, Ungraphed, Failing, Pending, Batch, TInv, TypeOK,
     Contents, All, Unread, memory, batch
<1>6. Embeddings'
  BY IndexerAssumption DEF XInv, SaveManifest, ManifestDone, Embeddings, Stale, Failing,
     Places, Batches, Clean, InBatch, Synced, Pending, Batch, TInv, TypeOK, Contents, All,
     Unread, memory, batch
<1>7. Stored'
  BY IndexerAssumption DEF XInv, SaveManifest, ManifestDone, Stored, Places, Batches, Clean,
     InBatch, Synced, Failing, Pending, Batch, TInv, TypeOK, All, Unread, memory, batch
<1>8. Restartable'
  <2> SUFFICES ASSUME NEW f \in Files, Settled(f)' PROVE SeenAs(f)'
    BY SeenIsThen DEF Restartable
  <2>1. Settled(f) => SeenAs(f)
    BY SeenIs DEF XInv, Restartable
  <2>2. /\ UNCHANGED <<disk, table>> /\ Settled(f) /\ pc = "manifest"
        /\ saved'.table = saved.table /\ saved'.graph = saved.graph /\ saved'.vectors = saved.vectors
    BY DEF SaveManifest, ManifestDone, Settled, Clean, InBatch, Unsaved, memory, batch,
       XInv, TInv, TypeOK
  <2>3. saved.table[f] = table[f] /\ table[f] = disk[f]
    BY <2>2 DEF XInv, Stored, Tables, Settled, Unsaved
  <2>4. saved.graph = Missing \/ saved.graph[f] = disk[f]
    BY <2>2, GraphIsStored DEF Settled, Unsaved
  <2> QED BY <2>1, <2>2, <2>3, <2>4 DEF SeenAs
<1> QED BY <1>1, <1>2, <1>3, <1>4, <1>5, <1>6, <1>7, <1>8 DEF XInv

\* ManifestFault keeps the engine's invariant.
LEMMA ManifestFaultKeeps ==
  ASSUME XInv, ManifestFault
  PROVE  XInv'
<1>1. TInv'
  BY IndexerAssumption DEF XInv, ManifestFault, ManifestDone, Spend, TInv, TypeOK, Artifact,
     Contents, Kinds, Missing, All, Unread, memory, batch
<1>2. Places'
  BY IndexerAssumption DEF XInv, ManifestFault, ManifestDone, Spend, Places, All, Unread,
     memory, batch
<1>3. Batches'
  BY IndexerAssumption DEF XInv, ManifestFault, ManifestDone, Spend, Batches, InBatch, Synced,
     Places, Pending, Batch, All, Unread, memory, batch
<1>4. Reads'
  BY IndexerAssumption DEF XInv, ManifestFault, ManifestDone, Spend, Reads, Clean, InBatch,
     Synced, Batches, Places, Pending, Batch, TInv, TypeOK, Contents, All, Unread, memory,
     batch
<1>5. Tables'
  BY IndexerAssumption DEF XInv, ManifestFault, ManifestDone, Spend, Tables, Reads, Batches,
     Places, Stored, Clean, InBatch, Synced, Ungraphed, Failing, Pending, Batch, TInv, TypeOK,
     Contents, All, Unread, memory, batch
<1>6. Embeddings'
  BY IndexerAssumption DEF XInv, ManifestFault, ManifestDone, Spend, Embeddings, Stale,
     Failing, Places, Batches, Clean, InBatch, Synced, Pending, Batch, TInv, TypeOK, Contents,
     All, Unread, memory, batch
<1>7. Stored'
  BY IndexerAssumption DEF XInv, ManifestFault, ManifestDone, Spend, Stored, Places, Batches,
     Clean, InBatch, Synced, Failing, Pending, Batch, TInv, TypeOK, All, Unread, memory, batch
<1>8. Restartable'
  <2> SUFFICES ASSUME NEW f \in Files, Settled(f)' PROVE SeenAs(f)'
    BY SeenIsThen DEF Restartable
  <2>1. Settled(f) => SeenAs(f)
    BY SeenIs DEF XInv, Restartable
  <2>2. UNCHANGED <<disk, saved>> /\ Settled(f)
    BY DEF ManifestFault, ManifestDone, Spend, Settled, Clean, InBatch, Unsaved, memory, batch
  <2> QED BY <2>1, <2>2 DEF SeenAs
<1> QED BY <1>1, <1>2, <1>3, <1>4, <1>5, <1>6, <1>7, <1>8 DEF XInv

\* SaveGraph keeps the engine's invariant.
LEMMA SaveGraphKeeps ==
  ASSUME XInv, SaveGraph
  PROVE  XInv'
<1>1. TInv'
  BY IndexerAssumption DEF XInv, SaveGraph, GraphDone, Applied, TInv, TypeOK, Artifact,
     Contents, Kinds, Missing, All, Unread, memory, batch
<1>2. Places'
  BY IndexerAssumption DEF XInv, SaveGraph, GraphDone, Applied, Places, All, Unread, memory, batch
<1>3. Batches'
  BY IndexerAssumption DEF XInv, SaveGraph, GraphDone, Applied, Batches, InBatch, Synced,
     Places, Pending, Batch, All, Unread, memory, batch
<1>4. Reads'
  BY IndexerAssumption DEF XInv, SaveGraph, GraphDone, Applied, Reads, Clean, InBatch, Synced,
     Batches, Places, Pending, Batch, TInv, TypeOK, Contents, All, Unread, memory, batch
<1>5. Tables'
  BY IndexerAssumption DEF XInv, SaveGraph, GraphDone, Applied, Tables, Reads, Batches,
     Places, Stored, Clean, InBatch, Synced, Ungraphed, Failing, Pending, Batch, TInv, TypeOK,
     Contents, All, Unread, memory, batch
<1>6. Embeddings'
  BY IndexerAssumption DEF XInv, SaveGraph, GraphDone, Applied, Embeddings, Stale, Failing,
     Places, Batches, Clean, InBatch, Synced, Pending, Batch, TInv, TypeOK, Contents, All,
     Unread, memory, batch
<1>7. Stored'
  BY IndexerAssumption DEF XInv, SaveGraph, GraphDone, Applied, Stored, Places, Batches,
     Clean, InBatch, Synced, Failing, Pending, Batch, TInv, TypeOK, All, Unread, memory, batch
<1>8. Restartable'
  <2> SUFFICES ASSUME NEW f \in Files, Settled(f)' PROVE SeenAs(f)'
    BY SeenIsThen DEF Restartable
  <2>1. Settled(f) => SeenAs(f)
    BY SeenIs DEF XInv, Restartable
  <2>2. /\ UNCHANGED <<disk, dirty, table, graph, vectors>>
        /\ dirty[f] = "none" /\ pc = "graph" /\ saved'.graph[f] = graph[f]
        /\ saved'.table = saved.table /\ saved'.manifest = saved.manifest
        /\ saved'.vectors = saved.vectors
        /\ "table" \in failed => saved.table[f] = table[f]
    BY DEF SaveGraph, GraphDone, Applied, Settled, Clean, Unsaved, memory, XInv, TInv, TypeOK
  <2>3. saved.table[f] = table[f] /\ saved.vectors = vectors
    BY <2>2 DEF XInv, Stored
  <2>4. table[f] = disk[f] /\ graph[f] = disk[f]
    <3>1. CASE f \notin missed /\ ~InBatch(f)
      BY <3>1, <2>2 DEF XInv, Tables, Ungraphed, Failing, Clean
    <3>2. CASE f \notin missed /\ InBatch(f)
      <4>1. Synced
        BY <3>2, <2>2 DEF SaveGraph, GraphDone, Applied, Settled, InBatch, batch, Synced
      <4>2. read[f] # Unread
        BY <3>2, <4>1 DEF XInv, Batches, InBatch
      <4>3. read[f] = disk[f]
        BY <3>2, <4>1, <4>2, <2>2 DEF XInv, Reads, Clean
      <4> QED BY <3>2, <4>1, <4>2, <4>3, <2>2 DEF XInv, Tables, Clean
    <3>3. CASE f \in missed
      <4>1. job # "close" /\ read[f] = disk[f] /\ graph[f] = disk[f]
        BY <3>3, <2>2 DEF SaveGraph, GraphDone, Applied, Settled, Clean
      <4>2. Synced /\ read[f] # Unread
        <5>1. disk[f] \in Nat
          BY TreesAreNumbers DEF XInv
        <5> QED BY <4>1, <5>1, <2>2 DEF Synced, Unread
      <4> QED BY <4>1, <4>2, <2>2 DEF XInv, Tables
    <3> QED BY <3>1, <3>2, <3>3
  <2>5. disk[f] > 0 => vectors[f] = disk[f]
    <3>1. CASE f \notin missed
      BY <3>1, <2>2, <2>4 DEF XInv, Embeddings, Stale, Failing
    <3>2. CASE f \in missed
      BY <3>2, <2>2, <2>4 DEF SaveGraph, GraphDone, Applied, Settled, Clean, Stale
    <3> QED BY <3>1, <3>2
  <2> QED BY <2>2, <2>3, <2>4, <2>5 DEF SeenAs
<1> QED BY <1>1, <1>2, <1>3, <1>4, <1>5, <1>6, <1>7, <1>8 DEF XInv

\* SaveGraphFault keeps the engine's invariant.
LEMMA SaveGraphFaultKeeps ==
  ASSUME XInv, SaveGraphFault
  PROVE  XInv'
<1>1. TInv'
  BY IndexerAssumption DEF XInv, SaveGraphFault, GraphDone, Applied, Spend, TInv, TypeOK,
     Artifact, Contents, Kinds, Missing, All, Unread, memory, batch
<1>2. Places'
  BY IndexerAssumption DEF XInv, SaveGraphFault, GraphDone, Applied, Spend, Places, All,
     Unread, memory, batch
<1>3. Batches'
  BY IndexerAssumption DEF XInv, SaveGraphFault, GraphDone, Applied, Spend, Batches, InBatch,
     Synced, Places, Pending, Batch, All, Unread, memory, batch
<1>4. Reads'
  BY IndexerAssumption DEF XInv, SaveGraphFault, GraphDone, Applied, Spend, Reads, Clean,
     InBatch, Synced, Batches, Places, Pending, Batch, TInv, TypeOK, Contents, All, Unread,
     memory, batch
<1>5. Tables'
  BY IndexerAssumption DEF XInv, SaveGraphFault, GraphDone, Applied, Spend, Tables, Reads,
     Batches, Places, Stored, Clean, InBatch, Synced, Ungraphed, Failing, Pending, Batch,
     TInv, TypeOK, Contents, All, Unread, memory, batch
<1>6. Embeddings'
  BY IndexerAssumption DEF XInv, SaveGraphFault, GraphDone, Applied, Spend, Embeddings, Stale,
     Failing, Places, Batches, Clean, InBatch, Synced, Pending, Batch, TInv, TypeOK, Contents,
     All, Unread, memory, batch
<1>7. Stored'
  BY IndexerAssumption DEF XInv, SaveGraphFault, GraphDone, Applied, Spend, Stored, Places,
     Batches, Clean, InBatch, Synced, Failing, Pending, Batch, TInv, TypeOK, All, Unread,
     memory, batch
<1>8. Restartable'
  <2> SUFFICES ASSUME NEW f \in Files, Settled(f)' PROVE SeenAs(f)'
    BY SeenIsThen DEF Restartable
  <2>1. Settled(f) => SeenAs(f)
    BY SeenIs DEF XInv, Restartable
  <2>2. /\ UNCHANGED <<disk, dirty, table, graph, vectors>>
        /\ dirty[f] = "none" /\ pc = "graph" /\ saved'.graph[f] = graph[f]
        /\ saved'.table = saved.table /\ saved'.manifest = saved.manifest
        /\ saved'.vectors = saved.vectors
        /\ "table" \in failed => saved.table[f] = table[f]
    BY DEF SaveGraphFault, GraphDone, Applied, Settled, Clean, Unsaved, memory, XInv, TInv, TypeOK
  <2>3. saved.table[f] = table[f] /\ saved.vectors = vectors
    BY <2>2 DEF XInv, Stored
  <2>4. table[f] = disk[f] /\ graph[f] = disk[f]
    <3>1. CASE f \notin missed /\ ~InBatch(f)
      BY <3>1, <2>2 DEF XInv, Tables, Ungraphed, Failing, Clean
    <3>2. CASE f \notin missed /\ InBatch(f)
      <4>1. Synced
        BY <3>2, <2>2 DEF SaveGraphFault, GraphDone, Applied, Settled, InBatch, batch, Synced
      <4>2. read[f] # Unread
        BY <3>2, <4>1 DEF XInv, Batches, InBatch
      <4>3. read[f] = disk[f]
        BY <3>2, <4>1, <4>2, <2>2 DEF XInv, Reads, Clean
      <4> QED BY <3>2, <4>1, <4>2, <4>3, <2>2 DEF XInv, Tables, Clean
    <3>3. CASE f \in missed
      <4>1. job # "close" /\ read[f] = disk[f] /\ graph[f] = disk[f]
        BY <3>3, <2>2 DEF SaveGraphFault, GraphDone, Applied, Settled, Clean
      <4>2. Synced /\ read[f] # Unread
        <5>1. disk[f] \in Nat
          BY TreesAreNumbers DEF XInv
        <5> QED BY <4>1, <5>1, <2>2 DEF Synced, Unread
      <4> QED BY <4>1, <4>2, <2>2 DEF XInv, Tables
    <3> QED BY <3>1, <3>2, <3>3
  <2>5. disk[f] > 0 => vectors[f] = disk[f]
    <3>1. CASE f \notin missed
      BY <3>1, <2>2, <2>4 DEF XInv, Embeddings, Stale, Failing
    <3>2. CASE f \in missed
      BY <3>2, <2>2, <2>4 DEF SaveGraphFault, GraphDone, Applied, Settled, Clean, Stale
    <3> QED BY <3>1, <3>2
  <2> QED BY <2>2, <2>3, <2>4, <2>5 DEF SeenAs
<1> QED BY <1>1, <1>2, <1>3, <1>4, <1>5, <1>6, <1>7, <1>8 DEF XInv

\* Stop keeps the engine's invariant.
LEMMA StopKeeps ==
  ASSUME XInv, Stop
  PROVE  XInv'
<1>1. TInv'
  BY IndexerAssumption DEF XInv, Stop, Spend, TInv, TypeOK, Artifact, Contents, Kinds,
     Missing, All, Unread, memory, batch
<1>2. Places'
  BY IndexerAssumption DEF XInv, Stop, Spend, Places, All, Unread, memory, batch
<1>3. Batches'
  BY IndexerAssumption DEF XInv, Stop, Spend, Batches, InBatch, Synced, Places, Pending,
     Batch, All, Unread, memory, batch
<1>4. Reads'
  BY IndexerAssumption DEF XInv, Stop, Spend, Reads, Clean, InBatch, Synced, Batches, Places,
     Pending, Batch, TInv, TypeOK, Contents, All, Unread, memory, batch
<1>5. Tables'
  BY IndexerAssumption DEF XInv, Stop, Spend, Tables, Reads, Batches, Places, Stored, Clean,
     InBatch, Synced, Ungraphed, Failing, Pending, Batch, TInv, TypeOK, Contents, All, Unread,
     memory, batch
<1>6. Embeddings'
  BY IndexerAssumption DEF XInv, Stop, Spend, Embeddings, Stale, Failing, Places, Batches,
     Clean, InBatch, Synced, Pending, Batch, TInv, TypeOK, Contents, All, Unread, memory,
     batch
<1>7. Stored'
  BY IndexerAssumption DEF XInv, Stop, Spend, Stored, Places, Batches, Clean, InBatch, Synced,
     Failing, Pending, Batch, TInv, TypeOK, All, Unread, memory, batch
<1>8. Restartable'
  <2> SUFFICES ASSUME NEW f \in Files, Settled(f)' PROVE SeenAs(f)'
    BY SeenIsThen DEF Restartable
  <2>1. Settled(f) => SeenAs(f)
    BY SeenIs DEF XInv, Restartable
  <2>2. UNCHANGED <<disk, saved>> /\ Settled(f)
    BY DEF Stop, Spend, Settled, Clean, InBatch, Unsaved, memory, batch
  <2> QED BY <2>1, <2>2 DEF SeenAs
<1> QED BY <1>1, <1>2, <1>3, <1>4, <1>5, <1>6, <1>7, <1>8 DEF XInv

\* Close keeps the engine's invariant.
LEMMA CloseKeeps ==
  ASSUME XInv, Close
  PROVE  XInv'
<1>1. TInv'
  <2>1. missed' \subseteq Files
    BY DEF XInv, TInv, TypeOK, Close, Closing, Pending, Batch
  <2>2. /\ dirty' \in [Files -> Kinds] /\ read' \in Artifact /\ todo' \subseteq Files
        /\ failed' \subseteq {"table", "graph"} /\ disk' \in [Files -> Contents]
    BY DEF XInv, TInv, TypeOK, Close, Closing, Pending, Artifact, Contents, Kinds, All,
       Unread, memory, batch
  <2>3. /\ table' \in [Files -> Contents] /\ graph' \in [Files -> Contents]
        /\ vectors' \in [Files -> Contents] /\ manifest' \in Artifact /\ saved' = saved
    BY DEF XInv, TInv, TypeOK, Close, Closing, Artifact, memory
  <2>4. /\ ready' \in BOOLEAN
        /\ pc' \in {"down", "read", "embed", "rebuild", "baseline", "table", "manifest", "graph",
                   "idle", "closing", "closed"}
        /\ job' \in {"boot", "walk", "warm", "watch", "close"}
    BY DEF XInv, TInv, TypeOK, Close, Closing
  <2> QED BY <2>1, <2>2, <2>3, <2>4 DEF XInv, TInv, TypeOK
<1>2. Places'
  BY IndexerAssumption DEF XInv, Close, Closing, Places, All, Unread, memory, batch
<1>3. Batches'
  BY IndexerAssumption DEF XInv, Close, Closing, Batches, InBatch, Synced, Places, Pending,
     Batch, All, Unread, memory, batch
<1>4. Reads'
  BY IndexerAssumption DEF XInv, Close, Closing, Reads, Clean, InBatch, Synced, Batches,
     Places, Pending, Batch, TInv, TypeOK, Contents, All, Unread, memory, batch
<1>5. Tables'
  BY IndexerAssumption DEF XInv, Close, Closing, Tables, Reads, Batches, Places, Stored,
     Clean, InBatch, Synced, Ungraphed, Failing, Pending, Batch, TInv, TypeOK, Contents, All,
     Unread, memory, batch
<1>6. Embeddings'
  BY IndexerAssumption DEF XInv, Close, Closing, Embeddings, Stale, Failing, Places, Batches,
     Clean, InBatch, Synced, Pending, Batch, TInv, TypeOK, Contents, All, Unread, memory,
     batch
<1>7. Stored'
  BY IndexerAssumption DEF XInv, Close, Closing, Stored, Places, Batches, Clean, InBatch,
     Synced, Failing, Pending, Batch, TInv, TypeOK, All, Unread, memory, batch
<1>8. Restartable'
  <2> SUFFICES ASSUME NEW f \in Files, Settled(f)' PROVE SeenAs(f)'
    BY SeenIsThen DEF Restartable
  <2>1. Settled(f) => SeenAs(f)
    BY SeenIs DEF XInv, Restartable
  <2>2. UNCHANGED <<disk, saved>> /\ Settled(f)
    BY DEF Close, Closing, Settled, Clean, InBatch, Unsaved, Pending, Batch, memory, batch
  <2> QED BY <2>1, <2>2 DEF SeenAs
<1> QED BY <1>1, <1>2, <1>3, <1>4, <1>5, <1>6, <1>7, <1>8 DEF XInv

\* CloseFault keeps the engine's invariant.
LEMMA CloseFaultKeeps ==
  ASSUME XInv, CloseFault
  PROVE  XInv'
<1>1. TInv'
  BY IndexerAssumption DEF XInv, CloseFault, Closing, Spend, TInv, TypeOK, Artifact, Contents,
     Kinds, Missing, All, Unread, memory, batch
<1>2. Places'
  BY IndexerAssumption DEF XInv, CloseFault, Closing, Spend, Places, All, Unread, memory, batch
<1>3. Batches'
  BY IndexerAssumption DEF XInv, CloseFault, Closing, Spend, Batches, InBatch, Synced, Places,
     Pending, Batch, All, Unread, memory, batch
<1>4. Reads'
  BY IndexerAssumption DEF XInv, CloseFault, Closing, Spend, Reads, Clean, InBatch, Synced,
     Batches, Places, Pending, Batch, TInv, TypeOK, Contents, All, Unread, memory, batch
<1>5. Tables'
  BY IndexerAssumption DEF XInv, CloseFault, Closing, Spend, Tables, Reads, Batches, Places,
     Stored, Clean, InBatch, Synced, Ungraphed, Failing, Pending, Batch, TInv, TypeOK,
     Contents, All, Unread, memory, batch
<1>6. Embeddings'
  BY IndexerAssumption DEF XInv, CloseFault, Closing, Spend, Embeddings, Stale, Failing,
     Places, Batches, Clean, InBatch, Synced, Pending, Batch, TInv, TypeOK, Contents, All,
     Unread, memory, batch
<1>7. Stored'
  BY IndexerAssumption DEF XInv, CloseFault, Closing, Spend, Stored, Places, Batches, Clean,
     InBatch, Synced, Failing, Pending, Batch, TInv, TypeOK, All, Unread, memory, batch
<1>8. Restartable'
  <2> SUFFICES ASSUME NEW f \in Files, Settled(f)' PROVE SeenAs(f)'
    BY SeenIsThen DEF Restartable
  <2>1. Settled(f) => SeenAs(f)
    BY SeenIs DEF XInv, Restartable
  <2>2. UNCHANGED <<disk, saved>> /\ Settled(f)
    BY DEF CloseFault, Closing, Spend, Settled, Clean, InBatch, Unsaved, memory, batch
  <2> QED BY <2>1, <2>2 DEF SeenAs
<1> QED BY <1>1, <1>2, <1>3, <1>4, <1>5, <1>6, <1>7, <1>8 DEF XInv

\* An engine that goes down keeps the invariant, if what a start can make of a file that is
\* settled does not depend on the index it leaves.
LEMMA DownKeeps ==
  ASSUME XInv, NEW index \in [Files -> Contents], Down(index),
         \A f \in Files : Settled(f) => (disk[f] > 0 /\ saved.table[f] = disk[f] => index[f] = disk[f])
  PROVE  XInv'
<1>0. /\ pc' = "down" /\ ready' = FALSE /\ job' = "boot" /\ failed' = {} /\ disk' = disk
      /\ dirty' = All("none") /\ todo' = {} /\ read' = All(Unread)
  BY DEF Down
<1>20. /\ saved'.table = saved.table /\ saved'.graph = saved.graph
       /\ saved'.manifest = saved.manifest /\ saved'.vectors = index
  BY DEF Down, XInv, TInv, TypeOK
<1>1. TInv'
  <2>1. missed' \subseteq Files
    BY DEF XInv, TInv, TypeOK, Down, Pending, Batch, Unsaved
  <2>2. /\ dirty' \in [Files -> Kinds] /\ read' \in Artifact /\ todo' \subseteq Files
        /\ disk' \in [Files -> Contents]
    BY <1>0 DEF XInv, TInv, TypeOK, Artifact, Kinds, All, Unread
  <2>3. /\ table' \in [Files -> Contents] /\ graph' \in [Files -> Contents]
        /\ vectors' \in [Files -> Contents] /\ manifest' \in Artifact
    BY DEF Down, Artifact, Contents, Missing, All
  <2>4. saved' \in [table : Artifact, graph : Artifact, vectors : Artifact, manifest : Artifact]
    <3>1. index \in Artifact
      BY DEF Artifact
    <3> QED BY <3>1 DEF Down, XInv, TInv, TypeOK
  <2> QED BY <1>0, <1>20, <2>1, <2>2, <2>3, <2>4 DEF TInv, TypeOK, XInv
<1>2. Places' /\ Batches' /\ Reads'
  BY <1>0 DEF Places, Batches, Reads, InBatch, Synced, Clean, All, Unread
<1>3. Tables' /\ Embeddings' /\ Stored'
  BY <1>0 DEF Tables, Embeddings, Stored, Synced
<1>4. Restartable'
  <2> SUFFICES ASSUME NEW f \in Files, Settled(f)' PROVE SeenAs(f)'
    BY SeenIsThen DEF Restartable
  <2>1. Settled(f) => SeenAs(f)
    BY SeenIs DEF XInv, Restartable
  <2>2. f \notin missed /\ f \notin Unseen(disk, index) \cap (Pending \cup Batch \cup Unsaved)
    BY DEF Down, Settled, Clean
  <2>3. CASE Settled(f)
    BY <1>0, <1>20, <2>1, <2>3 DEF SeenAs
  <2>4. CASE ~Settled(f)
    <3>1. f \in Pending \cup Batch \cup Unsaved
      BY <2>2, <2>4 DEF Settled, Clean, InBatch, Pending, Batch
    <3>2. f \notin Unseen(disk, index)
      BY <2>2, <3>1
    <3> QED BY <1>0, <1>20, <3>2 DEF SeenAs, Unseen, Stale
  <2> QED BY <2>3, <2>4
<1> QED BY <1>1, <1>2, <1>3, <1>4 DEF XInv

\* Closed keeps the engine's invariant.
LEMMA ClosedKeeps ==
  ASSUME XInv, Closed
  PROVE  XInv'
<1>1. \A f \in Files : Settled(f) => SeenAs(f)
  BY SeenIs DEF XInv, Restartable
<1>2. vectors \in [Files -> Contents] /\ saved.vectors \in [Files -> Contents]
  BY DEF XInv, TInv, TypeOK
<1>3. CASE Down(vectors)
  <2>1. ASSUME NEW f \in Files, Settled(f), disk[f] > 0
        PROVE  vectors[f] = disk[f]
    <3>1. table[f] = disk[f] /\ f \notin todo
      BY <2>1 DEF Closed, XInv, Tables, Settled, InBatch
    <3> QED BY <2>1, <3>1 DEF Closed, XInv, Embeddings, Stale, Settled, Clean
  <2> QED BY <1>2, <1>3, <2>1, DownKeeps
<1>4. CASE Down(saved.vectors)
  BY <1>1, <1>2, <1>4, DownKeeps DEF SeenAs
<1> QED BY <1>3, <1>4 DEF Closed

\* Kill keeps the engine's invariant.
LEMMA KillKeeps ==
  ASSUME XInv, Kill
  PROVE  XInv'
<1>1. \A f \in Files : Settled(f) => SeenAs(f)
  BY SeenIs DEF XInv, Restartable
<1>2. saved.vectors \in [Files -> Contents] /\ Down(saved.vectors)
  BY DEF Kill, XInv, TInv
<1> QED BY <1>1, <1>2, DownKeeps DEF SeenAs

\* The engine is down and nothing is on disk at first.
LEMMA InitHolds == Init => XInv
<1> SUFFICES ASSUME Init PROVE XInv
  OBVIOUS
<1>1. TInv
  BY IndexerAssumption DEF Init, TInv, TypeOK, Artifact, Contents, Kinds, All, Missing, Unread
<1>2. Places /\ Batches /\ Reads
  BY DEF Init, Places, Batches, Reads, InBatch, Synced, Clean, All, Unread
<1>3. Tables /\ Embeddings /\ Stored
  BY DEF Init, Tables, Embeddings, Stored, Synced, Failing
<1>4. Restartable
  BY DEF Init, Restartable, Unseen, Stale, All, Missing
<1> QED BY <1>1, <1>2, <1>3, <1>4 DEF XInv

\* Every step keeps the engine's invariant.
LEMMA NextKeeps == XInv /\ [Next]_vars => XInv'
<1> SUFFICES ASSUME XInv, [Next]_vars PROVE XInv'
  OBVIOUS
<1>1. CASE UNCHANGED vars
  <2>1. UNCHANGED <<disk, dirty, table, graph, vectors, manifest, saved, ready, pc, job, todo, read, failed, missed>>
    BY <1>1 DEF vars
  <2>2. TInv' /\ Places' /\ Batches' /\ Reads'
    BY <2>1 DEF XInv, TInv, TypeOK, Places, Batches, Reads, Clean, InBatch, Synced
  <2>3. Tables' /\ Embeddings' /\ Stored' /\ Restartable'
    BY <2>1 DEF XInv, Tables, Embeddings, Stored, Restartable, Settled, Unsaved, Unseen,
       Stale, Clean, InBatch,
                Synced, Ungraphed, Failing
  <2> QED BY <2>2, <2>3 DEF XInv
<1>2. CASE Change \/ Start \/ Stop \/ Kill
  BY <1>2, ChangeKeeps, StartKeeps, StopKeeps, KillKeeps
<1>3. CASE Work
  BY <1>3, PollKeeps, ReadKeeps, SyncKeeps, EmbedKeeps, RebuildKeeps, BaselineKeeps,
     SaveTableKeeps,
     SaveManifestKeeps, SaveGraphKeeps, CloseKeeps, ClosedKeeps DEF Work
<1>4. CASE Fault
  BY <1>4, ReadFaultKeeps, GraphFaultKeeps, EmbedFailKeeps, RebuildFailKeeps, BaselineFaultKeeps,
     TableFaultKeeps, RegraphFaultKeeps, ManifestFaultKeeps, SaveGraphFaultKeeps, CloseFaultKeeps DEF Fault
<1> QED BY <1>1, <1>2, <1>3, <1>4 DEF Next

\* What the invariant says while the engine is quiet, and of what it leaves on disk.
LEMMA InvariantSuffices == XInv => TypeOK /\ CaughtUp /\ Recoverable
<1> SUFFICES ASSUME XInv PROVE TypeOK /\ CaughtUp /\ Recoverable
  OBVIOUS
<1>1. ASSUME Quiet, NEW f \in Files \ missed
      PROVE  /\ table[f] = disk[f] /\ graph[f] = disk[f]
             /\ table[f] > 0 => vectors[f] = table[f]
  <2>1. pc = "idle" /\ Clean(f) /\ ~InBatch(f)
    BY <1>1 DEF Quiet, Pending, Clean, XInv, Batches
  <2>2. table[f] = disk[f] /\ graph[f] = disk[f]
    BY <2>1 DEF XInv, Tables, Ungraphed, Failing
  <2>3. f \notin Stale(disk, table, vectors)
    BY <2>1 DEF XInv, Embeddings, Failing, Clean
  <2> QED BY <2>2, <2>3 DEF Stale
<1>2. ASSUME saved.table # Missing, saved.manifest # Missing,
             NEW f \in Files \ (missed \cup Pending \cup Batch \cup Unsaved)
      PROVE  \/ saved.manifest[f] # disk[f]
             \/ /\ saved.table[f] = disk[f]
                /\ saved.table[f] > 0 => saved.vectors[f] = disk[f]
  <2>1. Settled(f)
    BY <1>2 DEF Settled, Clean, InBatch, Pending, Batch
  <2>2. SeenAs(f)
    BY <2>1, SeenIs DEF XInv, Restartable
  <2> QED BY <2>2, <1>2 DEF SeenAs
<1> QED BY <1>1, <1>2 DEF XInv, TInv, CaughtUp, Recoverable

-----------------------------------------------------------------------------
(* The theorems.                                                            *)

\* The engine's state is well typed, in memory and on disk.
THEOREM TypeCorrect == Spec => []TypeOK
<1>1. XInv => TypeOK
  BY InvariantSuffices
<1> QED BY <1>1, InitHolds, NextKeeps, PTL DEF Spec

\* An engine that has applied its events has the tree's contents in its table, its graph and
\* its vectors, for any files and contents, however many changes, stops and kills came before,
\* and whichever of its reads, its embeddings and its saves have failed; the files whose change
\* is lost are those that entered a window of Indexer.
THEOREM EngineIsCaughtUp == Spec => []CaughtUp
<1>1. XInv => CaughtUp
  BY InvariantSuffices
<1> QED BY <1>1, InitHolds, NextKeeps, PTL DEF Spec

\* Whenever the engine is killed, the next start reads every file of which less than the tree's
\* contents was saved, but for those whose change is still being worked on, was lost in a window,
\* or was in a save that has failed and was not made again.
THEOREM KillsAreRecoverable == Spec => []Recoverable
<1>1. XInv => Recoverable
  BY InvariantSuffices
<1> QED BY <1>1, InitHolds, NextKeeps, PTL DEF Spec
============================================================================
