------------------------------ MODULE Indexer ------------------------------
(***************************************************************************)
(* One repository of the engine cberg-index (core/cmd/cberg-index): what   *)
(* it keeps of the files of a tree in memory (chunk table, source graph,   *)
(* vectors) and on disk (those and a manifest of the tree), while files    *)
(* change, the watcher reports them, the process stops, is killed and      *)
(* starts again.  The engine's own thread is modelled; readers hold        *)
(* cberg_repo.mu and see the states between its batches.                   *)
(*                                                                         *)
(* A file has one chunk.  Its contents are numbered, 0 is no file.  The    *)
(* artifacts map a file to the number of the contents they were made from. *)
(***************************************************************************)
EXTENDS Integers, FiniteSets

CONSTANTS
  Files,     \* the files of the tree that have chunks
  Texts,     \* the contents a file may have
  EventsMax, \* the events repo_step() has room for (256)
  Budget     \* bounds: writes, faults, kills and stops

ASSUME IndexerAssumption == IsFiniteSet(Files) /\ EventsMax \in Nat /\ Texts \subseteq Nat \ {0}
ASSUME IndexerBudgetAssumption ==
  Budget \in [writes : Nat, faults : Nat, kills : Nat, stops : Nat]

VARIABLES
  disk,     \* the tree
  dirty,    \* the watcher: the event that is pending for a file
  table,    \* the chunk table
  graph,    \* the source graph
  vectors,  \* the vector index
  manifest, \* the baseline
  saved,    \* the four files the engine keeps on disk
  ready,    \* cberg_repo.ready
  pc,       \* where the engine is
  job,      \* what for
  todo,     \* files still to be read; after the sync, files to be embedded
  read,     \* contents of the files of the batch
  failed,   \* auxiliary: the files of saved whose last save failed
  missed,   \* auxiliary: files whose change was lost, see the windows below
  budget    \* bounds that are left

vars == <<disk, dirty, table, graph, vectors, manifest, saved, ready, pc, job, todo, read,
          failed, missed, budget>>
memory == <<table, graph, vectors, manifest>>
batch == <<todo, read>>

-----------------------------------------------------------------------------
(* The windows: a file enters "missed" when the code loses its change.      *)
(*   1. A baseline is taken of a tree with changes that were not applied.   *)
(*   2. A file that was deleted is moved in again before the next poll.     *)
(*   3. A change is not reported: its directory is not watched (yet), or    *)
(*      the kernel's queue of events overflows, which is not looked at.     *)
(*   4. A file gets the contents it had at the baseline, or those in the    *)
(*      chunk table, again, when what was saved of it is of other contents  *)
(*      and the engine is down or goes down before it has read the file.    *)
(*   5. The engine goes down when the baseline is saved and the graph of a  *)
(*      file that was read is not, or when a save of the table or the graph *)
(*      has failed and the file's contents are those of the baseline.       *)
(*   6. A file changes after its batch has read it, is embedded, and gets   *)
(*      the contents that were read again before the next batch reads it.   *)
(*   7. The graph cannot be updated for a file, or not be rebuilt.          *)
(* It leaves "missed" when a batch that has read it ends and its part of    *)
(* the graph and its vector are of that contents.                           *)

All(c) == [f \in Files |-> c]
Missing == All(-1)  \* an artifact that is not on disk
Unread == -1
Events == {"none", "create", "modify", "rename", "delete"}
Kinds == {"none", "change", "delete"}  \* what a batch tells apart
Pending == {f \in Files : dirty[f] # "none"}
Batch == todo \cup {f \in Files : read[f] # Unread}
Contents == {0} \cup Texts
\* What a save that failed has left behind.
Unsaved ==
  {f \in Files : \/ "table" \in failed /\ saved.table[f] # table[f]
                 \/ "graph" \in failed /\ saved.graph[f] # graph[f]}
Spend(what) == budget[what] > 0 /\ budget' = [budget EXCEPT ![what] = @ - 1]

Init ==
  /\ disk = All(0) /\ dirty = All("none")
  /\ table = All(0) /\ graph = All(0) /\ vectors = All(0) /\ manifest = Missing
  /\ saved = [table |-> Missing, graph |-> Missing, vectors |-> All(0), manifest |-> Missing]
  /\ ready = FALSE /\ pc = "down" /\ job = "boot"
  /\ todo = {} /\ read = All(Unread)
  /\ failed = {} /\ missed = {} /\ budget = Budget

-----------------------------------------------------------------------------
(* The tree and the watcher                                                 *)

\* kind_merge(): a deletion stays a deletion unless the file is created again.
Merge(old, new) ==
  IF new = "delete" \/ (old = "delete" /\ new # "create") THEN "delete" ELSE "change"

\* A chunk that is current and whose vector is not: no sync will see a change of it.
Stale(tree, chunks, index) ==
  {f \in Files : tree[f] > 0 /\ chunks[f] = tree[f] /\ index[f] # tree[f]}

\* The files a start would take for current, with the vectors that it finds.
Unseen(tree, index) ==
  LET differs(artifact) == {f \in Files : artifact # Missing /\ artifact[f] # tree[f]}
  IN ({f \in Files : tree[f] = saved.manifest[f]} \cap (differs(saved.table) \cup differs(saved.graph)))
       \cup Stale(tree, saved.table, index)

\* A change of a file as inotify reports it; nothing is reported to an engine that is down.
Change ==
  /\ Spend("writes")
  /\ \E f \in Files, c \in Contents, event \in Events :
       /\ c # disk[f]
       /\ \/ disk[f] = 0 /\ c > 0 /\ event \in {"create", "rename", "none"}
          \/ disk[f] > 0 /\ c > 0 /\ event \in {"modify", "rename", "none"}
          \/ disk[f] > 0 /\ c = 0 /\ event \in {"delete", "rename", "none"}
       /\ disk' = [disk EXCEPT ![f] = c]
       /\ IF pc = "down"
          THEN /\ event # "none"
               /\ missed' = missed \cup (Unseen(disk', saved.vectors) \cap {f})
               /\ UNCHANGED dirty
          ELSE IF event = "none"
          THEN missed' = missed \cup {f} /\ UNCHANGED dirty
          ELSE /\ dirty' = [dirty EXCEPT ![f] = Merge(@, event)]
               /\ missed' = IF \/ dirty'[f] = "delete" /\ c > 0
                               \/ f \in Stale(disk', table, vectors)
                            THEN missed \cup {f} ELSE missed
  /\ UNCHANGED <<memory, saved, ready, pc, job, batch, failed>>

-----------------------------------------------------------------------------
(* The start                                                                *)

Loaded(artifact) == IF Missing \in {saved.table, artifact} THEN All(0) ELSE artifact

\* cberg_repo_bootstrap(): without a chunk table, or without a baseline, every file is
\* read; else the files that differ from the baseline are, and the new tree, kept aside
\* until the sync is done, becomes the baseline.
Start ==
  /\ pc = "down"
  /\ LET warm == saved.table # Missing /\ saved.manifest # Missing
         changed == {f \in Files : saved.manifest[f] # disk[f]}
         gone == {f \in changed : warm /\ disk[f] = 0}
     IN /\ job' = IF warm THEN "warm" ELSE "walk"
        /\ todo' = (IF warm THEN changed ELSE Files) \ gone
        /\ read' = [f \in Files |-> IF f \in gone THEN 0 ELSE Unread]
        /\ manifest' = IF warm THEN disk ELSE Missing
  /\ table' = Loaded(saved.table) /\ graph' = Loaded(saved.graph)
  /\ vectors' = saved.vectors
  /\ pc' = "read"
  /\ UNCHANGED <<disk, dirty, saved, ready, failed, missed, budget>>

-----------------------------------------------------------------------------
(* A batch: repo_step(), apply_path_changes()                               *)

\* A mutant of Overflow: the engine goes on and tries again.
OverflowWaits == UNCHANGED <<pc, dirty, batch, job>>

\* More events than there is room for: none is taken, and the engine ends.
Overflow == pc' = "closing" /\ UNCHANGED <<dirty, batch, job>>

\* Every pending event is taken at once.
Poll ==
  /\ pc = "idle" /\ Pending # {}
  /\ IF Cardinality(Pending) > EventsMax THEN Overflow
     ELSE LET gone == {f \in Files : dirty[f] = "delete"}
          IN /\ todo' = Pending \ gone
             /\ read' = [f \in Files |-> IF f \in gone THEN 0 ELSE Unread]
             /\ dirty' = All("none")
             /\ job' = "watch" /\ pc' = "read"
  /\ UNCHANGED <<disk, memory, saved, ready, failed, missed, budget>>

\* parse_file(): a file that is gone has no chunks.
Read ==
  /\ pc = "read"
  /\ \E f \in todo :
       /\ read' = [read EXCEPT ![f] = disk[f]]
       /\ todo' = todo \ {f}
  /\ UNCHANGED <<disk, dirty, memory, saved, ready, pc, job, failed, missed, budget>>

ReadFault ==
  /\ pc = "read" /\ todo # {}
  /\ Spend("faults")
  /\ pc' = "closing"
  /\ UNCHANGED <<disk, dirty, memory, saved, ready, job, batch, failed, missed>>

Over(old) == [f \in Files |-> IF read[f] = Unread THEN old[f] ELSE read[f]]

\* sync_chunks(): the table, then the graph of the same files.  What has not changed
\* keeps its vector.
Synchronize ==
  /\ pc = "read" /\ todo = {}
  /\ table' = Over(table)
  /\ todo' = {f \in Files : table'[f] # table[f]}
  /\ pc' = "embed"
  /\ UNCHANGED <<disk, dirty, vectors, manifest, saved, ready, job, read, failed>>

Sync ==
  /\ Synchronize
  /\ graph' = Over(graph)
  /\ UNCHANGED <<missed, budget>>

\* apply_graph_fragments(): a file whose fragment cannot be applied keeps its old part
\* of the graph, with a warning, until it changes again.  A removal does not fail.
GraphFault ==
  /\ Synchronize
  /\ Spend("faults")
  /\ \E lost \in SUBSET {f \in Files : read[f] > 0} :
       /\ graph' = [f \in Files |-> IF f \in lost THEN graph[f] ELSE Over(graph)[f]]
       /\ missed' = missed \cup {f \in lost : graph[f] # read[f]}

\* The text of a chunk is read from its file when it is embedded.
Embedded(part) ==
  [f \in Files |-> IF f \notin part THEN vectors[f] ELSE IF table[f] = 0 THEN 0 ELSE disk[f]]

Readable(part) == \A f \in part : table[f] > 0 => disk[f] > 0
AfterVectors == IF job = "walk" THEN "baseline" ELSE "table"

\* apply_vectors(): the index is saved at its end.
Embed ==
  /\ pc = "embed" /\ Readable(todo)
  /\ vectors' = Embedded(todo)
  /\ saved' = [saved EXCEPT !.vectors = vectors']
  /\ pc' = AfterVectors
  /\ UNCHANGED <<disk, dirty, table, graph, manifest, ready, job, batch, failed, missed, budget>>

\* After three retries the index is rebuilt; part of the vectors may have been applied.
EmbedFail ==
  /\ pc = "embed"
  /\ IF Readable(todo) THEN Spend("faults") ELSE UNCHANGED budget
  /\ \E part \in SUBSET {f \in todo : Readable({f})} : vectors' = Embedded(part)
  /\ ready' = FALSE
  /\ pc' = "rebuild"
  /\ UNCHANGED <<disk, dirty, table, graph, manifest, saved, job, batch, failed, missed>>

\* rebuild_index(): every chunk of the table, into a new file that replaces the index.
Rebuild ==
  /\ pc = "rebuild" /\ Readable(Files)
  /\ vectors' = Embedded(Files)
  /\ saved' = [saved EXCEPT !.vectors = vectors']
  /\ ready' = TRUE
  /\ pc' = AfterVectors
  /\ UNCHANGED <<disk, dirty, table, graph, manifest, job, batch, failed, missed, budget>>

RebuildFail ==
  /\ pc = "rebuild"
  /\ IF Readable(Files) THEN Spend("faults") ELSE UNCHANGED budget
  /\ pc' = "closing"
  /\ UNCHANGED <<disk, dirty, memory, saved, ready, job, batch, failed, missed>>

-----------------------------------------------------------------------------
(* Saving: a file is written aside and replaces the old one.  A save that   *)
(* fails leaves the old one; there is a warning, and the engine goes on.    *)

\* A mutant of Regraphed: a graph that is missing is taken for an empty one.
RegraphedNever(lost) == graph

\* rebuild_graph(): without its file the graph is made from the sources, but for those
\* of which it cannot be.
Regraphed(lost) ==
  IF job = "warm" /\ saved.graph = Missing
  THEN [f \in Files |-> IF f \in lost THEN graph[f] ELSE disk[f]] ELSE graph

\* walk_and_sync(): the baseline is the tree as it is after the walk.
Baseline ==
  /\ pc = "baseline"
  /\ manifest' = disk
  /\ pc' = "table"
  /\ UNCHANGED <<disk, dirty, table, graph, vectors, saved, ready, job, batch, failed, missed, budget>>

BaselineFault ==
  /\ pc = "baseline"
  /\ Spend("faults")
  /\ pc' = "table"
  /\ UNCHANGED <<disk, dirty, memory, saved, ready, job, batch, failed, missed>>

\* save_state(); a watched batch saves no manifest.
TableDone ==
  /\ pc = "table"
  /\ pc' = IF job = "watch" THEN "graph" ELSE "manifest"
  /\ UNCHANGED <<disk, dirty, table, vectors, manifest, ready, job, batch>>

SaveTable ==
  /\ TableDone
  /\ graph' = Regraphed({})
  /\ saved' = [saved EXCEPT !.table = table] /\ failed' = failed \ {"table"}
  /\ UNCHANGED <<missed, budget>>

TableFault ==
  /\ TableDone
  /\ graph' = Regraphed({})
  /\ Spend("faults")
  /\ failed' = failed \cup {"table"}
  /\ UNCHANGED <<saved, missed>>

RegraphFault ==
  /\ TableDone
  /\ job = "warm" /\ saved.graph = Missing
  /\ Spend("faults")
  /\ \E lost \in SUBSET Files :
       /\ graph' = Regraphed(lost)
       /\ missed' = missed \cup {f \in lost : graph[f] # disk[f]}
  /\ saved' = [saved EXCEPT !.table = table] /\ failed' = failed \ {"table"}

\* A baseline that could not be made leaves the file of an earlier one.
ManifestDone ==
  /\ pc = "manifest"
  /\ pc' = "graph"
  /\ UNCHANGED <<disk, dirty, memory, ready, job, batch, failed, missed>>

SaveManifest ==
  /\ ManifestDone
  /\ saved' = IF manifest = Missing THEN saved ELSE [saved EXCEPT !.manifest = manifest]
  /\ UNCHANGED budget

ManifestFault == ManifestDone /\ Spend("faults") /\ UNCHANGED saved

\* What ends a batch: the changes of its files are not lost any more.
Applied == {f \in Batch \ Pending :
              read[f] = disk[f] /\ graph[f] = disk[f] /\ f \notin Stale(disk, table, vectors)}
GraphDone ==
  /\ pc = "graph"
  /\ IF job = "close"
     THEN pc' = "closed" /\ UNCHANGED <<ready, batch, missed>>
     ELSE /\ pc' = "idle" /\ ready' = TRUE
          /\ missed' = missed \ Applied
          /\ todo' = {} /\ read' = All(Unread)
  /\ UNCHANGED <<disk, dirty, memory, job>>

SaveGraph ==
  /\ GraphDone
  /\ saved' = [saved EXCEPT !.graph = graph] /\ failed' = failed \ {"graph"}
  /\ UNCHANGED budget

SaveGraphFault ==
  /\ GraphDone
  /\ Spend("faults")
  /\ failed' = failed \cup {"graph"}
  /\ UNCHANGED saved

-----------------------------------------------------------------------------
(* The end                                                                  *)

\* SIGTERM or SIGINT, seen between two batches.
Stop ==
  /\ pc = "idle"
  /\ Spend("stops")
  /\ pc' = "closing"
  /\ UNCHANGED <<disk, dirty, memory, saved, ready, job, batch, failed, missed>>

\* A mutant of Closing: an engine that is not ready refreshes the baseline, too.
ClosingAlways == TRUE

Closing == ready

\* repo_close(): an engine that is ready takes the tree as it is for the baseline, with
\* the files of a batch that failed.
Close ==
  /\ pc = "closing"
  /\ IF Closing
     THEN /\ manifest' = disk
          /\ missed' = missed \cup Pending \cup (IF ready THEN Batch ELSE {})
          /\ todo' = {} /\ read' = All(Unread)
          /\ job' = "close" /\ pc' = "table"
     ELSE /\ pc' = "closed"
          /\ UNCHANGED <<manifest, missed, job, batch>>
  /\ UNCHANGED <<disk, dirty, table, graph, vectors, saved, ready, failed, budget>>

\* refresh_manifest(): "the baseline simply stays as it was".
CloseFault ==
  /\ pc = "closing" /\ Closing
  /\ Spend("faults")
  /\ job' = "close" /\ pc' = "table"
  /\ UNCHANGED <<disk, dirty, memory, saved, ready, batch, failed, missed>>

\* The engine is gone, and leaves an index on disk.
Down(index) ==
  /\ missed' = missed \cup (Unseen(disk, index) \cap (Pending \cup Batch \cup Unsaved))
  /\ dirty' = All("none") /\ ready' = FALSE /\ pc' = "down" /\ job' = "boot"
  /\ table' = All(0) /\ graph' = All(0) /\ vectors' = All(0) /\ manifest' = Missing
  /\ todo' = {} /\ read' = All(Unread)
  /\ saved' = [saved EXCEPT !.vectors = index] /\ failed' = {}
  /\ UNCHANGED disk

\* What the last save of the index returns is not looked at.
Closed ==
  /\ pc = "closed"
  /\ \/ Down(vectors) /\ UNCHANGED budget
     \/ Down(saved.vectors) /\ Spend("faults")

\* A crash, or SIGKILL five seconds after SIGTERM.
Kill ==
  /\ pc # "down"
  /\ Spend("kills")
  /\ Down(saved.vectors)

-----------------------------------------------------------------------------
Work ==
  \/ Poll \/ Read \/ Sync \/ Embed \/ Rebuild \/ Baseline
  \/ SaveTable \/ SaveManifest \/ SaveGraph \/ Close \/ Closed
Fault ==
  \/ ReadFault \/ GraphFault \/ EmbedFail \/ RebuildFail \/ BaselineFault
  \/ TableFault \/ RegraphFault \/ ManifestFault \/ SaveGraphFault \/ CloseFault

Next == Change \/ Start \/ Work \/ Fault \/ Stop \/ Kill

\* The engine's thread goes on, and the supervisor starts it again.
Fairness == WF_vars(Start \/ Work \/ EmbedFail \/ RebuildFail)

Spec == Init /\ [][Next]_vars
FairSpec == Spec /\ Fairness

-----------------------------------------------------------------------------
Artifact == [Files -> {-1} \cup Contents]

TypeOK ==
  /\ disk \in [Files -> Contents] /\ dirty \in [Files -> Kinds]
  /\ table \in [Files -> Contents] /\ graph \in [Files -> Contents]
  /\ vectors \in [Files -> Contents] /\ manifest \in Artifact
  /\ saved \in [table : Artifact, graph : Artifact, vectors : Artifact, manifest : Artifact]
  /\ ready \in BOOLEAN
  /\ pc \in {"down", "read", "embed", "rebuild", "baseline", "table", "manifest", "graph",
             "idle", "closing", "closed"}
  /\ job \in {"boot", "walk", "warm", "watch", "close"}
  /\ todo \subseteq Files /\ read \in Artifact /\ missed \subseteq Files
  /\ failed \subseteq {"table", "graph"}

Quiet == pc = "idle" /\ Pending = {}

\* Once its events are applied, an engine has the tree's contents in all three of its
\* parts, whatever crashed before, and at which of its saves.  "This is eventual
\* background synchronization" (docs/indexer-explained.md).
CaughtUp ==
  Quiet => \A f \in Files \ missed :
    /\ table[f] = disk[f] /\ graph[f] = disk[f]
    /\ table[f] > 0 => vectors[f] = table[f]

\* What a kill would leave on disk is enough to start from: a file whose saved chunk, or
\* its vector, is not that of the tree differs from the baseline, too, so the next start
\* reads it, unless the change is still being worked on or a save of it has failed.
Recoverable ==
  saved.table # Missing /\ saved.manifest # Missing =>
    \A f \in Files \ (missed \cup Pending \cup Batch \cup Unsaved) :
      \/ saved.manifest[f] # disk[f]
      \/ /\ saved.table[f] = disk[f]
         /\ saved.table[f] > 0 => saved.vectors[f] = disk[f]

\* When nothing changes or fails any more, the engine ends up ready and quiet.
CatchesUp == <>[](Quiet /\ ready)

\* A start that finds a baseline reconciles "after missed events or downtime"
\* (core/docs/CORE.md:99): it leaves no file of which it knows other contents, unless an
\* event of it is pending.
Restarted == job = "warm" /\ pc = "graph" /\ pc' = "idle"
Reconciled ==
  [][Restarted => \A f \in Files \ Pending : table'[f] = disk'[f] /\ graph'[f] = disk'[f]]_vars
=============================================================================
