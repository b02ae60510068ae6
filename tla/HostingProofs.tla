---------------------------- MODULE HostingProofs ----------------------------
(***************************************************************************)
(* Theorems about Hosting, for any number of requests and any bounds.       *)
(***************************************************************************)
EXTENDS Hosting, TLAPS

-----------------------------------------------------------------------------
(* The inductive invariant.                                                 *)

\* While the agent deletes, the project has no requests; once it has closed the runtime
\* it has no work either, and once the daemon is asked it has no runtime.
Waits ==
  /\ delete.pc \in {"waiting", "closing", "sent"} => active = 0
  /\ delete.pc \in {"closing", "sent"} => ~busy /\ handler # "building"
  /\ delete.pc = "sent" => handler = "none"

\* What the daemon has done of a deletion.
Steps ==
  /\ lock \in {"saving", "stopping", "wiping", "done"} => ~catalog.listed
  /\ lock \in {"stopping", "wiping", "done"} => ~catalog.saved
  /\ lock \in {"wiping", "done"} => ~runtime /\ indexer.pc \in {"none", "left"}
  /\ lock = "done" => ~disk.index
  /\ lock = "done" /\ delete.pc = "sent" /\ delete.mode = "all" => ~disk.home

\* A read of the catalog is not answered while the daemon deletes.
Reads == delete.pc = "sent" => reader \in {"idle", "sent"}

\* Nothing brings back a project whose deletion was answered.
Deleted ==
  delete.answer = "ok" =>
    /\ delete.pc = "idle" /\ lock = "free"
    /\ ~catalog.listed /\ ~catalog.saved /\ ~runtime /\ indexer.pc \in {"none", "left"}
    /\ ~cached /\ reader # "listed" /\ handler = "none"
    /\ ~disk.index /\ (delete.mode = "all" => ~disk.home)

\* The last two need the window "stale" closed.
IInv ==
  /\ TypeOK /\ Waits /\ Steps
  /\ "stale" \notin Windows => Reads /\ Deleted

-----------------------------------------------------------------------------
(* The records, field by field.                                             *)

Data == [index : BOOLEAN, home : BOOLEAN]

LEMMA CatalogSet ==
  ASSUME NEW c \in Catalog, NEW b \in BOOLEAN
  PROVE  /\ [c EXCEPT !.listed = b] \in Catalog /\ [c EXCEPT !.saved = b] \in Catalog
         /\ [c EXCEPT !.listed = b].listed = b /\ [c EXCEPT !.listed = b].saved = c.saved
         /\ [c EXCEPT !.saved = b].saved = b /\ [c EXCEPT !.saved = b].listed = c.listed
BY DEF Catalog

LEMMA ProcessSet ==
  ASSUME NEW p \in Process, NEW s \in {"none", "up", "saving", "backoff", "left"}
  PROVE  /\ [p EXCEPT !.pc = s] \in Process
         /\ [p EXCEPT !.pc = s].pc = s
BY DEF Process

LEMMA DataSet ==
  ASSUME NEW d \in Data, NEW b \in BOOLEAN
  PROVE  /\ [d EXCEPT !.index = b] \in Data /\ [d EXCEPT !.home = b] \in Data
         /\ [d EXCEPT !.index = b].index = b /\ [d EXCEPT !.index = b].home = d.home
         /\ [d EXCEPT !.home = b].home = b /\ [d EXCEPT !.home = b].index = d.index
BY DEF Data

-----------------------------------------------------------------------------
(* Every action keeps the invariant.                                        *)

LEMMA ActivateKeeps ==
  ASSUME IInv, Activate
  PROVE  IInv'
<1> USE HostingAssumption
<1>1. TypeOK /\ Waits /\ Steps /\ disk \in Data
  BY DEF IInv, TypeOK, Data
<1>2. indexer' \in Process /\ indexer'.pc = "up"
  BY <1>1 DEF TypeOK, Activate, Process
<1>3. TypeOK'
  BY <1>1, <1>2 DEF TypeOK, Data, Activate, agentVars, daemonVars
<1>4. Waits'
  BY <1>1, <1>2 DEF TypeOK, Waits, Activate, agentVars, daemonVars
<1>5. Steps'
  BY <1>1, <1>2 DEF TypeOK, Waits, Steps, Activate, agentVars, daemonVars
<1>6. ASSUME "stale" \notin Windows, Reads, Deleted  PROVE Reads' /\ Deleted'
  BY <1>1, <1>2, <1>6 DEF TypeOK, Waits, Steps, Reads, Deleted, Activate, agentVars,
     daemonVars
<1> QED
  BY <1>3, <1>4, <1>5, <1>6 DEF IInv

LEMMA IndexKeeps ==
  ASSUME IInv, Index
  PROVE  IInv'
<1> USE HostingAssumption
<1>1. TypeOK /\ Waits /\ Steps /\ disk \in Data
  BY DEF IInv, TypeOK, Data
<1>2. disk' \in Data /\ disk'.index = TRUE /\ disk'.home = disk.home
  BY <1>1, DataSet DEF TypeOK, Index, Data
<1>3. TypeOK'
  BY <1>1, <1>2 DEF TypeOK, Data, Index, agentVars, daemonVars
<1>4. Waits'
  BY <1>1, <1>2 DEF TypeOK, Waits, Index, agentVars, daemonVars
<1>5. Steps'
  BY <1>1, <1>2 DEF TypeOK, Waits, Steps, Index, agentVars, daemonVars
<1>6. ASSUME "stale" \notin Windows, Reads, Deleted  PROVE Reads' /\ Deleted'
  BY <1>1, <1>2, <1>6 DEF TypeOK, Waits, Steps, Reads, Deleted, Index, agentVars, daemonVars
<1> QED
  BY <1>3, <1>4, <1>5, <1>6 DEF IInv

LEMMA IndexerCrashKeeps ==
  ASSUME IInv, IndexerCrash
  PROVE  IInv'
<1> USE HostingAssumption
<1>1. TypeOK /\ Waits /\ Steps /\ disk \in Data
  BY DEF IInv, TypeOK, Data
<1>2. indexer' \in Process /\ indexer'.pc = "backoff"
  BY <1>1, ProcessSet DEF TypeOK, IndexerCrash
<1>3. TypeOK'
  BY <1>1, <1>2 DEF TypeOK, Data, IndexerCrash, agentVars, daemonVars
<1>4. Waits'
  BY <1>1, <1>2 DEF TypeOK, Waits, IndexerCrash, agentVars, daemonVars
<1>5. Steps'
  BY <1>1, <1>2 DEF TypeOK, Waits, Steps, IndexerCrash, agentVars, daemonVars
<1>6. ASSUME "stale" \notin Windows, Reads, Deleted  PROVE Reads' /\ Deleted'
  BY <1>1, <1>2, <1>6 DEF TypeOK, Waits, Steps, Reads, Deleted, IndexerCrash, agentVars,
     daemonVars
<1> QED
  BY <1>3, <1>4, <1>5, <1>6 DEF IInv

LEMMA RestartFaultKeeps ==
  ASSUME IInv, RestartFault
  PROVE  IInv'
<1> USE HostingAssumption
<1>1. TypeOK /\ Waits /\ Steps /\ disk \in Data
  BY DEF IInv, TypeOK, Data
<1>2. indexer' \in Process /\ indexer'.pc = "left"
  BY <1>1, ProcessSet DEF TypeOK, RestartFault
<1>3. TypeOK'
  BY <1>1, <1>2 DEF TypeOK, Data, RestartFault, agentVars, daemonVars
<1>4. Waits'
  BY <1>1, <1>2 DEF TypeOK, Waits, RestartFault, agentVars, daemonVars
<1>5. Steps'
  BY <1>1, <1>2 DEF TypeOK, Waits, Steps, RestartFault, agentVars, daemonVars
<1>6. ASSUME "stale" \notin Windows, Reads, Deleted  PROVE Reads' /\ Deleted'
  BY <1>1, <1>2, <1>6 DEF TypeOK, Waits, Steps, Reads, Deleted, RestartFault, agentVars,
     daemonVars
<1> QED
  BY <1>3, <1>4, <1>5, <1>6 DEF IInv

LEMMA RestartKeeps ==
  ASSUME IInv, Restart
  PROVE  IInv'
<1> USE HostingAssumption
<1>1. TypeOK /\ Waits /\ Steps /\ disk \in Data
  BY DEF IInv, TypeOK, Data
<1>2. indexer' \in Process /\ indexer'.pc \in {"left", "up"}
  <2> PICK pc \in {"left", "up"} : indexer' = [indexer EXCEPT !.pc = pc]
    BY DEF Restart
  <2>1. indexer \in Process
    BY <1>1 DEF TypeOK
  <2>2. [indexer EXCEPT !.pc = pc] \in Process /\ [indexer EXCEPT !.pc = pc].pc = pc
    BY <2>1, ProcessSet
  <2> QED BY <2>2
<1>3. TypeOK'
  BY <1>1, <1>2 DEF TypeOK, Data, Restart, agentVars, daemonVars
<1>4. Waits'
  BY <1>1, <1>2 DEF TypeOK, Waits, Restart, agentVars, daemonVars
<1>5. Steps'
  BY <1>1, <1>2 DEF TypeOK, Waits, Steps, Restart, agentVars, daemonVars
<1>6. ASSUME "stale" \notin Windows, Reads, Deleted  PROVE Reads' /\ Deleted'
  BY <1>1, <1>2, <1>6 DEF TypeOK, Waits, Steps, Reads, Deleted, Restart, agentVars,
     daemonVars
<1> QED
  BY <1>3, <1>4, <1>5, <1>6 DEF IInv

LEMMA IndexerExitKeeps ==
  ASSUME IInv, IndexerExit
  PROVE  IInv'
<1> USE HostingAssumption
<1>1. TypeOK /\ Waits /\ Steps /\ disk \in Data
  BY DEF IInv, TypeOK, Data
<1>2. indexer' \in Process /\ indexer'.pc = "left"
  BY <1>1, ProcessSet DEF TypeOK, IndexerExit
<1>3. TypeOK'
  BY <1>1, <1>2 DEF TypeOK, Data, IndexerExit, agentVars, daemonVars
<1>4. Waits'
  BY <1>1, <1>2 DEF TypeOK, Waits, IndexerExit, agentVars, daemonVars
<1>5. Steps'
  BY <1>1, <1>2 DEF TypeOK, Waits, Steps, IndexerExit, agentVars, daemonVars
<1>6. ASSUME "stale" \notin Windows, Reads, Deleted  PROVE Reads' /\ Deleted'
  BY <1>1, <1>2, <1>6 DEF TypeOK, Waits, Steps, Reads, Deleted, IndexerExit, agentVars,
     daemonVars
<1> QED
  BY <1>3, <1>4, <1>5, <1>6 DEF IInv

LEMMA DeleteBeginKeeps ==
  ASSUME IInv, DeleteBegin
  PROVE  IInv'
<1> USE HostingAssumption
<1>1. TypeOK /\ Waits /\ Steps /\ disk \in Data
  BY DEF IInv, TypeOK, Data
<1>2. catalog' \in Catalog /\ ~catalog'.listed /\ catalog'.saved = catalog.saved
  BY <1>1, CatalogSet DEF TypeOK, DeleteBegin
<1>3. TypeOK'
  BY <1>1, <1>2 DEF TypeOK, Data, DeleteBegin, agentVars, daemonVars
<1>4. Waits'
  BY <1>1, <1>2 DEF TypeOK, Waits, DeleteBegin, agentVars, daemonVars
<1>5. Steps'
  BY <1>1, <1>2 DEF TypeOK, Waits, Steps, DeleteBegin, agentVars, daemonVars
<1>6. ASSUME "stale" \notin Windows, Reads, Deleted  PROVE Reads' /\ Deleted'
  BY <1>1, <1>2, <1>6 DEF TypeOK, Waits, Steps, Reads, Deleted, DeleteBegin, agentVars,
     daemonVars
<1> QED
  BY <1>3, <1>4, <1>5, <1>6 DEF IInv

LEMMA DeleteSaveKeeps ==
  ASSUME IInv, DeleteSave
  PROVE  IInv'
<1> USE HostingAssumption
<1>1. TypeOK /\ Waits /\ Steps /\ disk \in Data
  BY DEF IInv, TypeOK, Data
<1>2. catalog' \in Catalog /\ ~catalog'.saved /\ catalog'.listed = catalog.listed
  BY <1>1, CatalogSet DEF TypeOK, DeleteSave
<1>3. indexer' \in Process
  BY <1>1 DEF TypeOK, DeleteSave, Process
<1>4. TypeOK'
  BY <1>1, <1>2, <1>3 DEF TypeOK, Data, DeleteSave, agentVars, daemonVars
<1>5. Waits'
  BY <1>1, <1>2, <1>3 DEF TypeOK, Waits, DeleteSave, agentVars, daemonVars
<1>6. Steps'
  BY <1>1, <1>2, <1>3 DEF TypeOK, Waits, Steps, DeleteSave, agentVars, daemonVars
<1>7. ASSUME "stale" \notin Windows, Reads, Deleted  PROVE Reads' /\ Deleted'
  BY <1>1, <1>2, <1>3, <1>7 DEF TypeOK, Waits, Steps, Reads, Deleted, DeleteSave,
     agentVars, daemonVars
<1> QED
  BY <1>4, <1>5, <1>6, <1>7 DEF IInv

LEMMA DeleteStopKeeps ==
  ASSUME IInv, DeleteStop
  PROVE  IInv'
<1> USE HostingAssumption
<1>1. TypeOK /\ Waits /\ Steps /\ disk \in Data
  BY DEF IInv, TypeOK, Data
<1>2. indexer' \in Process /\ indexer'.pc \in {"none", "left"}
  BY <1>1 DEF TypeOK, DeleteStop, Process, NoIndexer, Stopped
<1>3. TypeOK'
  BY <1>1, <1>2 DEF TypeOK, Data, DeleteStop, agentVars, daemonVars
<1>4. Waits'
  BY <1>1, <1>2 DEF TypeOK, Waits, DeleteStop, agentVars, daemonVars
<1>5. Steps'
  BY <1>1, <1>2 DEF TypeOK, Waits, Steps, DeleteStop, agentVars, daemonVars
<1>6. ASSUME "stale" \notin Windows, Reads, Deleted  PROVE Reads' /\ Deleted'
  BY <1>1, <1>2, <1>6 DEF TypeOK, Waits, Steps, Reads, Deleted, DeleteStop, agentVars,
     daemonVars
<1> QED
  BY <1>3, <1>4, <1>5, <1>6 DEF IInv

LEMMA DeleteDataKeeps ==
  ASSUME IInv, DeleteData
  PROVE  IInv'
<1> USE HostingAssumption
<1>1. TypeOK /\ Waits /\ Steps /\ disk \in Data
  BY DEF IInv, TypeOK, Data
<1>2. disk' \in Data /\ ~disk'.index /\ (delete.mode = "all" => ~disk'.home)
  BY <1>1 DEF TypeOK, DeleteData, Data, Kept
<1>3. TypeOK'
  BY <1>1, <1>2 DEF TypeOK, Data, DeleteData, agentVars, daemonVars
<1>4. Waits'
  BY <1>1, <1>2 DEF TypeOK, Waits, DeleteData, agentVars, daemonVars
<1>5. Steps'
  BY <1>1, <1>2 DEF TypeOK, Waits, Steps, DeleteData, agentVars, daemonVars
<1>6. ASSUME "stale" \notin Windows, Reads, Deleted  PROVE Reads' /\ Deleted'
  BY <1>1, <1>2, <1>6 DEF TypeOK, Waits, Steps, Reads, Deleted, DeleteData, agentVars,
     daemonVars
<1> QED
  BY <1>3, <1>4, <1>5, <1>6 DEF IInv

LEMMA DeleteRestoreKeeps ==
  ASSUME IInv, DeleteRestore
  PROVE  IInv'
<1> USE HostingAssumption
<1>1. TypeOK /\ Waits /\ Steps /\ disk \in Data
  BY DEF IInv, TypeOK, Data
<1>2. catalog' \in Catalog /\ catalog'.listed = catalog.listed
  BY <1>1, CatalogSet DEF TypeOK, DeleteRestore, Restored
<1>3. TypeOK'
  BY <1>1, <1>2 DEF TypeOK, Data, DeleteRestore, agentVars, daemonVars
<1>4. Waits'
  BY <1>1, <1>2 DEF TypeOK, Waits, DeleteRestore, agentVars, daemonVars
<1>5. Steps'
  BY <1>1, <1>2 DEF TypeOK, Waits, Steps, DeleteRestore, agentVars, daemonVars
<1>6. ASSUME "stale" \notin Windows, Reads, Deleted  PROVE Reads' /\ Deleted'
  BY <1>1, <1>2, <1>6 DEF TypeOK, Waits, Steps, Reads, Deleted, DeleteRestore, agentVars,
     daemonVars
<1> QED
  BY <1>3, <1>4, <1>5, <1>6 DEF IInv

LEMMA DeleteUnheardKeeps ==
  ASSUME IInv, DeleteUnheard
  PROVE  IInv'
<1> USE HostingAssumption
<1>1. TypeOK /\ Waits /\ Steps /\ disk \in Data
  BY DEF IInv, TypeOK, Data
<1>2. TypeOK'
  BY <1>1 DEF TypeOK, Data, DeleteUnheard, agentVars, daemonVars
<1>3. Waits'
  BY <1>1 DEF TypeOK, Waits, DeleteUnheard, agentVars, daemonVars
<1>4. Steps'
  BY <1>1 DEF TypeOK, Waits, Steps, DeleteUnheard, agentVars, daemonVars
<1>5. ASSUME "stale" \notin Windows, Reads, Deleted  PROVE Reads' /\ Deleted'
  BY <1>1, <1>5 DEF TypeOK, Waits, Steps, Reads, Deleted, DeleteUnheard, agentVars,
     daemonVars
<1> QED
  BY <1>2, <1>3, <1>4, <1>5 DEF IInv

LEMMA DeleteSaveFaultKeeps ==
  ASSUME IInv, DeleteSaveFault
  PROVE  IInv'
<1> USE HostingAssumption
<1>1. TypeOK /\ Waits /\ Steps /\ disk \in Data
  BY DEF IInv, TypeOK, Data
<1>2. catalog' \in Catalog /\ catalog'.saved = catalog.saved
  BY <1>1, CatalogSet DEF TypeOK, DeleteSaveFault
<1>3. TypeOK'
  BY <1>1, <1>2 DEF TypeOK, Data, DeleteSaveFault, agentVars, daemonVars
<1>4. Waits'
  BY <1>1, <1>2 DEF TypeOK, Waits, DeleteSaveFault, agentVars, daemonVars
<1>5. Steps'
  BY <1>1, <1>2 DEF TypeOK, Waits, Steps, DeleteSaveFault, agentVars, daemonVars
<1>6. ASSUME "stale" \notin Windows, Reads, Deleted  PROVE Reads' /\ Deleted'
  BY <1>1, <1>2, <1>6 DEF TypeOK, Waits, Steps, Reads, Deleted, DeleteSaveFault,
     agentVars, daemonVars
<1> QED
  BY <1>3, <1>4, <1>5, <1>6 DEF IInv

LEMMA DeleteDataFaultKeeps ==
  ASSUME IInv, DeleteDataFault
  PROVE  IInv'
<1> USE HostingAssumption
<1>1. TypeOK /\ Waits /\ Steps /\ disk \in Data
  BY DEF IInv, TypeOK, Data
<1>2. catalog' \in Catalog /\ catalog'.saved = catalog.saved
  BY <1>1, CatalogSet DEF TypeOK, DeleteDataFault
<1>3. disk' \in Data
  BY <1>1 DEF TypeOK, DeleteDataFault, Data
<1>4. TypeOK'
  BY <1>1, <1>2, <1>3 DEF TypeOK, Data, DeleteDataFault, agentVars, daemonVars
<1>5. Waits'
  BY <1>1, <1>2, <1>3 DEF TypeOK, Waits, DeleteDataFault, agentVars, daemonVars
<1>6. Steps'
  BY <1>1, <1>2, <1>3 DEF TypeOK, Waits, Steps, DeleteDataFault, agentVars, daemonVars
<1>7. ASSUME "stale" \notin Windows, Reads, Deleted  PROVE Reads' /\ Deleted'
  BY <1>1, <1>2, <1>3, <1>7 DEF TypeOK, Waits, Steps, Reads, Deleted, DeleteDataFault,
     agentVars, daemonVars
<1> QED
  BY <1>4, <1>5, <1>6, <1>7 DEF IInv

LEMMA DeleteRestoreFaultKeeps ==
  ASSUME IInv, DeleteRestoreFault
  PROVE  IInv'
<1> USE HostingAssumption
<1>1. TypeOK /\ Waits /\ Steps /\ disk \in Data
  BY DEF IInv, TypeOK, Data
<1>2. TypeOK'
  BY <1>1 DEF TypeOK, Data, DeleteRestoreFault, agentVars, daemonVars
<1>3. Waits'
  BY <1>1 DEF TypeOK, Waits, DeleteRestoreFault, agentVars, daemonVars
<1>4. Steps'
  BY <1>1 DEF TypeOK, Waits, Steps, DeleteRestoreFault, agentVars, daemonVars
<1>5. ASSUME "stale" \notin Windows, Reads, Deleted  PROVE Reads' /\ Deleted'
  BY <1>1, <1>5 DEF TypeOK, Waits, Steps, Reads, Deleted, DeleteRestoreFault, agentVars,
     daemonVars
<1> QED
  BY <1>2, <1>3, <1>4, <1>5 DEF IInv

LEMMA AddKeeps ==
  ASSUME IInv, Add
  PROVE  IInv'
<1> USE HostingAssumption
<1>1. TypeOK /\ Waits /\ Steps /\ disk \in Data
  BY DEF IInv, TypeOK, Data
<1>2. catalog' \in Catalog
  BY <1>1 DEF TypeOK, Add, Catalog
<1>3. /\ delete' \in Deletion
      /\ delete'.pc = delete.pc
      /\ delete'.mode = delete.mode
      /\ delete'.answer = "none"
  BY <1>1 DEF TypeOK, Add, Deletion
<1>4. TypeOK'
  BY <1>1, <1>2, <1>3 DEF TypeOK, Data, Add, agentVars, daemonVars, Free
<1>5. Waits'
  BY <1>1, <1>2, <1>3 DEF TypeOK, Waits, Add, agentVars, daemonVars, Free
<1>6. Steps'
  BY <1>1, <1>2, <1>3 DEF TypeOK, Waits, Steps, Add, agentVars, daemonVars, Free
<1>7. ASSUME "stale" \notin Windows, Reads, Deleted  PROVE Reads' /\ Deleted'
  BY <1>1, <1>2, <1>3, <1>7 DEF TypeOK, Waits, Steps, Reads, Deleted, Add, agentVars,
     daemonVars, Free
<1> QED
  BY <1>4, <1>5, <1>6, <1>7 DEF IInv

LEMMA DaemonRestartKeeps ==
  ASSUME IInv, DaemonRestart
  PROVE  IInv'
<1> USE HostingAssumption
<1>1. TypeOK /\ Waits /\ Steps /\ disk \in Data
  BY DEF IInv, TypeOK, Data
<1>2. /\ catalog' \in Catalog
      /\ catalog'.listed = catalog.saved
      /\ catalog'.saved = catalog.saved
  BY <1>1, CatalogSet DEF TypeOK, DaemonRestart, Catalog
<1>3. indexer' \in Process /\ indexer'.pc = "none"
  BY <1>1 DEF TypeOK, DaemonRestart, Process, NoIndexer
<1>4. TypeOK'
  BY <1>1, <1>2, <1>3 DEF TypeOK, Data, DaemonRestart, agentVars, daemonVars
<1>5. Waits'
  BY <1>1, <1>2, <1>3 DEF TypeOK, Waits, DaemonRestart, agentVars, daemonVars
<1>6. Steps'
  BY <1>1, <1>2, <1>3 DEF TypeOK, Waits, Steps, DaemonRestart, agentVars, daemonVars
<1>7. ASSUME "stale" \notin Windows, Reads, Deleted  PROVE Reads' /\ Deleted'
  BY <1>1, <1>2, <1>3, <1>7 DEF TypeOK, Waits, Steps, Reads, Deleted, DaemonRestart,
     agentVars, daemonVars
<1> QED
  BY <1>4, <1>5, <1>6, <1>7 DEF IInv

LEMMA RequestKeeps ==
  ASSUME IInv, Request
  PROVE  IInv'
<1> USE HostingAssumption
<1>1. TypeOK /\ Waits /\ Steps /\ disk \in Data
  BY DEF IInv, TypeOK, Data
<1>2. TypeOK'
  BY <1>1 DEF TypeOK, Data, Request, agentVars, daemonVars, Deleting
<1>3. Waits'
  BY <1>1 DEF TypeOK, Waits, Request, agentVars, daemonVars, Deleting
<1>4. Steps'
  BY <1>1 DEF TypeOK, Waits, Steps, Request, agentVars, daemonVars, Deleting
<1>5. ASSUME "stale" \notin Windows, Reads, Deleted  PROVE Reads' /\ Deleted'
  BY <1>1, <1>5 DEF TypeOK, Waits, Steps, Reads, Deleted, Request, agentVars, daemonVars,
     Deleting
<1> QED
  BY <1>2, <1>3, <1>4, <1>5 DEF IInv

LEMMA ListenKeeps ==
  ASSUME IInv, Listen
  PROVE  IInv'
<1> USE HostingAssumption
<1>1. TypeOK /\ Waits /\ Steps /\ disk \in Data
  BY DEF IInv, TypeOK, Data
<1>2. TypeOK'
  BY <1>1 DEF TypeOK, Data, Listen, agentVars, daemonVars, Deleting
<1>3. Waits'
  BY <1>1 DEF TypeOK, Waits, Listen, agentVars, daemonVars, Deleting
<1>4. Steps'
  BY <1>1 DEF TypeOK, Waits, Steps, Listen, agentVars, daemonVars, Deleting
<1>5. ASSUME "stale" \notin Windows, Reads, Deleted  PROVE Reads' /\ Deleted'
  BY <1>1, <1>5 DEF TypeOK, Waits, Steps, Reads, Deleted, Listen, agentVars, daemonVars,
     Deleting
<1> QED
  BY <1>2, <1>3, <1>4, <1>5 DEF IInv

LEMMA BuildFaultKeeps ==
  ASSUME IInv, BuildFault
  PROVE  IInv'
<1> USE HostingAssumption
<1>1. TypeOK /\ Waits /\ Steps /\ disk \in Data
  BY DEF IInv, TypeOK, Data
<1>2. disk' \in Data /\ disk'.index = disk.index
  BY <1>1, DataSet DEF TypeOK, BuildFault
<1>3. /\ delete' \in Deletion
      /\ delete'.pc # "sent"
      /\ delete'.pc \in {delete.pc, "idle"}
      /\ delete'.answer \in {delete.answer, "error"}
  <2>1. CASE delete.pc = "waiting"
    BY <1>1, <2>1 DEF TypeOK, BuildFault, Deletion
  <2>2. CASE delete.pc # "waiting"
    <3>1. delete' = delete /\ delete.pc # "sent"
      BY <1>1, <2>2 DEF BuildFault, Waits
    <3> QED BY <1>1, <3>1 DEF TypeOK
  <2> QED BY <2>1, <2>2
<1>4. TypeOK'
  BY <1>1, <1>2, <1>3 DEF TypeOK, Data, BuildFault, agentVars, daemonVars
<1>5. Waits'
  BY <1>1, <1>2, <1>3 DEF TypeOK, Waits, BuildFault, agentVars, daemonVars
<1>6. Steps'
  BY <1>1, <1>2, <1>3 DEF TypeOK, Waits, Steps, BuildFault, agentVars, daemonVars
<1>7. ASSUME "stale" \notin Windows, Reads, Deleted  PROVE Reads' /\ Deleted'
  BY <1>1, <1>2, <1>3, <1>7 DEF TypeOK, Waits, Steps, Reads, Deleted, BuildFault,
     agentVars, daemonVars
<1> QED
  BY <1>4, <1>5, <1>6, <1>7 DEF IInv

LEMMA BuildKeeps ==
  ASSUME IInv, Build
  PROVE  IInv'
<1> USE HostingAssumption
<1>1. TypeOK /\ Waits /\ Steps /\ disk \in Data
  BY DEF IInv, TypeOK, Data
<1>2. disk' \in Data /\ disk'.index = disk.index
  BY <1>1, DataSet DEF TypeOK, Build
<1>3. TypeOK'
  BY <1>1, <1>2 DEF TypeOK, Data, Build, agentVars, daemonVars
<1>4. Waits'
  BY <1>1, <1>2 DEF TypeOK, Waits, Build, agentVars, daemonVars
<1>5. Steps'
  BY <1>1, <1>2 DEF TypeOK, Waits, Steps, Build, agentVars, daemonVars
<1>6. ASSUME "stale" \notin Windows, Reads, Deleted  PROVE Reads' /\ Deleted'
  BY <1>1, <1>2, <1>6 DEF TypeOK, Waits, Steps, Reads, Deleted, Build, agentVars, daemonVars
<1> QED
  BY <1>3, <1>4, <1>5, <1>6 DEF IInv

LEMMA EndRequestKeeps ==
  ASSUME IInv, EndRequest
  PROVE  IInv'
<1> USE HostingAssumption
<1>1. TypeOK /\ Waits /\ Steps /\ disk \in Data
  BY DEF IInv, TypeOK, Data
<1>2. TypeOK'
  BY <1>1 DEF TypeOK, Data, EndRequest, agentVars, daemonVars, Released
<1>3. Waits'
  BY <1>1 DEF TypeOK, Waits, EndRequest, agentVars, daemonVars, Released
<1>4. Steps'
  BY <1>1 DEF TypeOK, Waits, Steps, EndRequest, agentVars, daemonVars, Released
<1>5. ASSUME "stale" \notin Windows, Reads, Deleted  PROVE Reads' /\ Deleted'
  BY <1>1, <1>5 DEF TypeOK, Waits, Steps, Reads, Deleted, EndRequest, agentVars,
     daemonVars, Released
<1> QED
  BY <1>2, <1>3, <1>4, <1>5 DEF IInv

LEMMA ReadAnswerKeeps ==
  ASSUME IInv, ReadAnswer
  PROVE  IInv'
<1> USE HostingAssumption
<1>1. TypeOK /\ Waits /\ Steps /\ disk \in Data
  BY DEF IInv, TypeOK, Data
<1>2. TypeOK'
  BY <1>1 DEF TypeOK, Data, ReadAnswer, agentVars, daemonVars, Free
<1>3. Waits'
  BY <1>1 DEF TypeOK, Waits, ReadAnswer, agentVars, daemonVars, Free
<1>4. Steps'
  BY <1>1 DEF TypeOK, Waits, Steps, ReadAnswer, agentVars, daemonVars, Free
<1>5. ASSUME "stale" \notin Windows, Reads, Deleted  PROVE Reads' /\ Deleted'
  BY <1>1, <1>5 DEF TypeOK, Waits, Steps, Reads, Deleted, ReadAnswer, agentVars,
     daemonVars, Free
<1> QED
  BY <1>2, <1>3, <1>4, <1>5 DEF IInv

LEMMA ReadReturnKeeps ==
  ASSUME IInv, ReadReturn
  PROVE  IInv'
<1> USE HostingAssumption
<1>1. TypeOK /\ Waits /\ Steps /\ disk \in Data
  BY DEF IInv, TypeOK, Data
<1>2. TypeOK'
  BY <1>1 DEF TypeOK, Data, ReadReturn, agentVars, daemonVars
<1>3. Waits'
  BY <1>1 DEF TypeOK, Waits, ReadReturn, agentVars, daemonVars
<1>4. Steps'
  BY <1>1 DEF TypeOK, Waits, Steps, ReadReturn, agentVars, daemonVars
<1>5. ASSUME "stale" \notin Windows, Reads, Deleted  PROVE Reads' /\ Deleted'
  BY <1>1, <1>5 DEF TypeOK, Waits, Steps, Reads, Deleted, ReadReturn, agentVars, daemonVars
<1> QED
  BY <1>2, <1>3, <1>4, <1>5 DEF IInv

LEMMA ToggleKeeps ==
  ASSUME IInv, Toggle
  PROVE  IInv'
<1> USE HostingAssumption
<1>1. TypeOK /\ Waits /\ Steps /\ disk \in Data
  BY DEF IInv, TypeOK, Data
<1>2. TypeOK'
  BY <1>1 DEF TypeOK, Data, Toggle, agentVars, daemonVars
<1>3. Waits'
  BY <1>1 DEF TypeOK, Waits, Toggle, agentVars, daemonVars
<1>4. Steps'
  BY <1>1 DEF TypeOK, Waits, Steps, Toggle, agentVars, daemonVars
<1>5. ASSUME "stale" \notin Windows, Reads, Deleted  PROVE Reads' /\ Deleted'
  BY <1>1, <1>5 DEF TypeOK, Waits, Steps, Reads, Deleted, Toggle, agentVars, daemonVars
<1> QED
  BY <1>2, <1>3, <1>4, <1>5 DEF IInv

LEMMA ReadCatalogKeeps ==
  ASSUME IInv, ReadCatalog
  PROVE  IInv'
<1> USE HostingAssumption
<1>1. TypeOK /\ Waits /\ Steps /\ disk \in Data
  BY DEF IInv, TypeOK, Data
<1>2. TypeOK'
  BY <1>1 DEF TypeOK, Data, ReadCatalog, agentVars, daemonVars
<1>3. Waits'
  BY <1>1 DEF TypeOK, Waits, ReadCatalog, agentVars, daemonVars
<1>4. Steps'
  BY <1>1 DEF TypeOK, Waits, Steps, ReadCatalog, agentVars, daemonVars
<1>5. ASSUME "stale" \notin Windows, Reads, Deleted  PROVE Reads' /\ Deleted'
  BY <1>1, <1>5 DEF TypeOK, Waits, Steps, Reads, Deleted, ReadCatalog, agentVars, daemonVars
<1> QED
  BY <1>2, <1>3, <1>4, <1>5 DEF IInv

LEMMA AskDeleteKeeps ==
  ASSUME IInv, AskDelete
  PROVE  IInv'
<1> USE HostingAssumption
<1>1. TypeOK /\ Waits /\ Steps /\ disk \in Data
  BY DEF IInv, TypeOK, Data
<1>2. delete' \in Deletion /\ delete'.pc = "reading" /\ delete'.answer = "none"
  BY <1>1 DEF TypeOK, AskDelete, Deletion
<1>3. TypeOK'
  BY <1>1, <1>2 DEF TypeOK, Data, AskDelete, agentVars, daemonVars
<1>4. Waits'
  BY <1>1, <1>2 DEF TypeOK, Waits, AskDelete, agentVars, daemonVars
<1>5. Steps'
  BY <1>1, <1>2 DEF TypeOK, Waits, Steps, AskDelete, agentVars, daemonVars
<1>6. ASSUME "stale" \notin Windows, Reads, Deleted  PROVE Reads' /\ Deleted'
  BY <1>1, <1>2, <1>6 DEF TypeOK, Waits, Steps, Reads, Deleted, AskDelete, agentVars,
     daemonVars
<1> QED
  BY <1>3, <1>4, <1>5, <1>6 DEF IInv

LEMMA DeleteReadKeeps ==
  ASSUME IInv, DeleteRead
  PROVE  IInv'
<1> USE HostingAssumption
<1>1. TypeOK /\ Waits /\ Steps /\ disk \in Data
  BY DEF IInv, TypeOK, Data
<1>2. /\ delete' \in Deletion
      /\ delete'.mode = delete.mode
      /\ delete'.pc \in {"idle", "waiting"}
      /\ (delete'.pc = "waiting" => active = 0)
      /\ delete'.answer \in {"missing", "busy", delete.answer}
  <2>1. CASE delete' = [delete EXCEPT !.pc = "waiting"] /\ active = 0
    BY <1>1, <2>1 DEF TypeOK, Deletion
  <2>2. CASE delete' = [delete EXCEPT !.pc = "idle", !.answer = "missing"]
    BY <1>1, <2>2 DEF TypeOK, Deletion
  <2>3. CASE delete' = [delete EXCEPT !.pc = "idle", !.answer = "busy"]
    BY <1>1, <2>3 DEF TypeOK, Deletion
  <2> QED BY <2>1, <2>2, <2>3 DEF DeleteRead, Answered, MayBegin
<1>3. TypeOK'
  BY <1>1, <1>2 DEF TypeOK, Data, DeleteRead, agentVars, daemonVars, MayBegin, Free,
     Answered, Catalog
<1>4. Waits'
  BY <1>1, <1>2 DEF TypeOK, Waits, DeleteRead, agentVars, daemonVars, MayBegin, Free,
     Answered, Catalog
<1>5. Steps'
  BY <1>1, <1>2 DEF TypeOK, Waits, Steps, DeleteRead, agentVars, daemonVars, MayBegin,
     Free, Answered, Catalog
<1>6. ASSUME "stale" \notin Windows, Reads, Deleted  PROVE Reads' /\ Deleted'
  BY <1>1, <1>2, <1>6 DEF TypeOK, Waits, Steps, Reads, Deleted, DeleteRead, agentVars,
     daemonVars, MayBegin, Free, Answered, Catalog
<1> QED
  BY <1>3, <1>4, <1>5, <1>6 DEF IInv

LEMMA DeleteDisposeKeeps ==
  ASSUME IInv, DeleteDispose
  PROVE  IInv'
<1> USE HostingAssumption
<1>1. TypeOK /\ Waits /\ Steps /\ disk \in Data
  BY DEF IInv, TypeOK, Data
<1>2. /\ delete' \in Deletion
      /\ delete'.mode = delete.mode
      /\ delete'.pc \in {"idle", "closing"}
      /\ (delete'.pc = "closing" => ~busy)
      /\ delete'.answer \in {"busy", delete.answer}
  <2>1. CASE busy
    <3>1. delete' = [delete EXCEPT !.pc = "idle", !.answer = "busy"]
      BY <2>1 DEF DeleteDispose, Answered
    <3> QED BY <1>1, <3>1 DEF TypeOK, Deletion
  <2>2. CASE ~busy
    <3>1. delete' = [delete EXCEPT !.pc = "closing"]
      BY <2>2 DEF DeleteDispose
    <3> QED BY <1>1, <2>2, <3>1 DEF TypeOK, Deletion
  <2> QED BY <2>1, <2>2
<1>3. TypeOK'
  BY <1>1, <1>2 DEF TypeOK, Data, DeleteDispose, agentVars, daemonVars
<1>4. Waits'
  BY <1>1, <1>2 DEF TypeOK, Waits, DeleteDispose, agentVars, daemonVars
<1>5. Steps'
  BY <1>1, <1>2 DEF TypeOK, Waits, Steps, DeleteDispose, agentVars, daemonVars
<1>6. ASSUME "stale" \notin Windows, Reads, Deleted  PROVE Reads' /\ Deleted'
  BY <1>1, <1>2, <1>6 DEF TypeOK, Waits, Steps, Reads, Deleted, DeleteDispose, agentVars,
     daemonVars
<1> QED
  BY <1>3, <1>4, <1>5, <1>6 DEF IInv

LEMMA DeleteSendKeeps ==
  ASSUME IInv, DeleteSend
  PROVE  IInv'
<1> USE HostingAssumption
<1>1. TypeOK /\ Waits /\ Steps /\ disk \in Data
  BY DEF IInv, TypeOK, Data
<1>2. /\ delete' \in Deletion
      /\ delete'.mode = delete.mode
      /\ delete'.pc = "sent"
      /\ delete'.answer = delete.answer
  BY <1>1 DEF TypeOK, DeleteSend, Answered, Deletion
<1>3. TypeOK'
  BY <1>1, <1>2 DEF TypeOK, Data, DeleteSend, agentVars, daemonVars
<1>4. Waits'
  BY <1>1, <1>2 DEF TypeOK, Waits, DeleteSend, agentVars, daemonVars
<1>5. Steps'
  BY <1>1, <1>2 DEF TypeOK, Waits, Steps, DeleteSend, agentVars, daemonVars
<1>6. ASSUME "stale" \notin Windows, Reads, Deleted  PROVE Reads' /\ Deleted'
  BY <1>1, <1>2, <1>6 DEF TypeOK, Waits, Steps, Reads, Deleted, DeleteSend, agentVars,
     daemonVars
<1> QED
  BY <1>3, <1>4, <1>5, <1>6 DEF IInv

LEMMA DeleteDoneKeeps ==
  ASSUME IInv, DeleteDone
  PROVE  IInv'
<1> USE HostingAssumption
<1>1. TypeOK /\ Waits /\ Steps /\ disk \in Data
  BY DEF IInv, TypeOK, Data
<1>2. /\ delete' \in Deletion
      /\ delete'.mode = delete.mode
      /\ delete'.pc = "idle"
      /\ delete'.answer = "ok"
  BY <1>1 DEF TypeOK, DeleteDone, Answered, Deletion
<1>3. TypeOK'
  BY <1>1, <1>2 DEF TypeOK, Data, DeleteDone, agentVars, daemonVars
<1>4. Waits'
  BY <1>1, <1>2 DEF TypeOK, Waits, DeleteDone, agentVars, daemonVars
<1>5. Steps'
  BY <1>1, <1>2 DEF TypeOK, Waits, Steps, DeleteDone, agentVars, daemonVars
<1>6. ASSUME "stale" \notin Windows, Reads, Deleted  PROVE Reads' /\ Deleted'
  BY <1>1, <1>2, <1>6 DEF TypeOK, Waits, Steps, Reads, Deleted, DeleteDone, agentVars,
     daemonVars
<1> QED
  BY <1>3, <1>4, <1>5, <1>6 DEF IInv

LEMMA DeleteFailedKeeps ==
  ASSUME IInv, DeleteFailed
  PROVE  IInv'
<1> USE HostingAssumption
<1>1. TypeOK /\ Waits /\ Steps /\ disk \in Data
  BY DEF IInv, TypeOK, Data
<1>2. /\ delete' \in Deletion
      /\ delete'.mode = delete.mode
      /\ delete'.pc = "idle"
      /\ delete'.answer \in {"missing", "error"}
  BY <1>1 DEF TypeOK, DeleteFailed, Answered, Deletion
<1>3. TypeOK'
  BY <1>1, <1>2 DEF TypeOK, Data, DeleteFailed, agentVars, daemonVars
<1>4. Waits'
  BY <1>1, <1>2 DEF TypeOK, Waits, DeleteFailed, agentVars, daemonVars
<1>5. Steps'
  BY <1>1, <1>2 DEF TypeOK, Waits, Steps, DeleteFailed, agentVars, daemonVars
<1>6. ASSUME "stale" \notin Windows, Reads, Deleted  PROVE Reads' /\ Deleted'
  BY <1>1, <1>2, <1>6 DEF TypeOK, Waits, Steps, Reads, Deleted, DeleteFailed, agentVars,
     daemonVars
<1> QED
  BY <1>3, <1>4, <1>5, <1>6 DEF IInv

LEMMA DeleteTimeoutKeeps ==
  ASSUME IInv, DeleteTimeout
  PROVE  IInv'
<1> USE HostingAssumption
<1>1. TypeOK /\ Waits /\ Steps /\ disk \in Data
  BY DEF IInv, TypeOK, Data
<1>2. /\ delete' \in Deletion
      /\ delete'.mode = delete.mode
      /\ delete'.pc = "idle"
      /\ delete'.answer = "timeout"
  BY <1>1 DEF TypeOK, DeleteTimeout, Answered, Deletion
<1>3. TypeOK'
  BY <1>1, <1>2 DEF TypeOK, Data, DeleteTimeout, agentVars, daemonVars
<1>4. Waits'
  BY <1>1, <1>2 DEF TypeOK, Waits, DeleteTimeout, agentVars, daemonVars
<1>5. Steps'
  BY <1>1, <1>2 DEF TypeOK, Waits, Steps, DeleteTimeout, agentVars, daemonVars
<1>6. ASSUME "stale" \notin Windows, Reads, Deleted  PROVE Reads' /\ Deleted'
  BY <1>1, <1>2, <1>6 DEF TypeOK, Waits, Steps, Reads, Deleted, DeleteTimeout, agentVars,
     daemonVars
<1> QED
  BY <1>3, <1>4, <1>5, <1>6 DEF IInv

LEMMA AgainKeeps ==
  ASSUME IInv, Again
  PROVE  IInv'
<1> USE HostingAssumption
<1>1. TypeOK /\ Waits /\ Steps /\ disk \in Data
  BY DEF IInv, TypeOK, Data
<1>2. /\ delete' \in Deletion
      /\ delete'.mode = delete.mode
      /\ delete'.pc = delete.pc
      /\ delete'.answer = "none"
  BY <1>1 DEF TypeOK, Again, Answered, Deletion
<1>3. TypeOK'
  BY <1>1, <1>2 DEF TypeOK, Data, Again, agentVars, daemonVars
<1>4. Waits'
  BY <1>1, <1>2 DEF TypeOK, Waits, Again, agentVars, daemonVars
<1>5. Steps'
  BY <1>1, <1>2 DEF TypeOK, Waits, Steps, Again, agentVars, daemonVars
<1>6. ASSUME "stale" \notin Windows, Reads, Deleted  PROVE Reads' /\ Deleted'
  BY <1>1, <1>2, <1>6 DEF TypeOK, Waits, Steps, Reads, Deleted, Again, agentVars, daemonVars
<1> QED
  BY <1>3, <1>4, <1>5, <1>6 DEF IInv

LEMMA Initial == ASSUME Init PROVE IInv
<1>1. TypeOK
  <2>1. catalog \in Catalog /\ indexer \in Process /\ delete \in Deletion
    BY DEF Init, Catalog, Process, Deletion, NoIndexer, NoDelete
  <2>2. disk \in [index : BOOLEAN, home : BOOLEAN] /\ cached \in BOOLEAN
    BY DEF Init
  <2>3. active \in 0..MaxActive
    BY HostingAssumption DEF Init
  <2> QED
    BY <2>1, <2>2, <2>3 DEF Init, TypeOK
<1>2. delete.pc = "idle" /\ delete.answer = "none" /\ lock = "free"
  BY DEF Init, NoDelete
<1> QED
  BY <1>1, <1>2 DEF IInv, Waits, Steps, Reads, Deleted

LEMMA StutterKeeps == ASSUME IInv, UNCHANGED vars PROVE IInv'
BY DEF IInv, TypeOK, Waits, Steps, Reads, Deleted, vars

LEMMA Inductive == ASSUME IInv, [Next]_vars PROVE IInv'
<1>1. CASE Activate \/ Index \/ IndexerCrash \/ RestartFault \/ Supervise
  BY <1>1, ActivateKeeps, IndexKeeps, IndexerCrashKeeps, RestartFaultKeeps, RestartKeeps,
     IndexerExitKeeps DEF Supervise
<1>2. CASE Manage \/ ManageFault \/ Add \/ DaemonRestart
  BY <1>2, DeleteBeginKeeps, DeleteSaveKeeps, DeleteStopKeeps, DeleteDataKeeps,
     DeleteRestoreKeeps, DeleteUnheardKeeps, DeleteSaveFaultKeeps, DeleteDataFaultKeeps,
     DeleteRestoreFaultKeeps, AddKeeps, DaemonRestartKeeps DEF Manage, ManageFault
<1>3. CASE Request \/ Listen \/ BuildFault \/ Serve \/ Toggle \/ ReadCatalog
  BY <1>3, RequestKeeps, ListenKeeps, BuildFaultKeeps, BuildKeeps, EndRequestKeeps, ReadAnswerKeeps,
     ReadReturnKeeps, ToggleKeeps, ReadCatalogKeeps DEF Serve
<1>4. CASE AskDelete \/ Remove \/ DeleteTimeout \/ Again
  BY <1>4, AskDeleteKeeps, DeleteReadKeeps, DeleteDisposeKeeps, DeleteSendKeeps,
     DeleteDoneKeeps, DeleteFailedKeeps, DeleteTimeoutKeeps, AgainKeeps DEF Remove
<1>5. CASE UNCHANGED vars
  BY <1>5, StutterKeeps
<1> QED
  BY <1>1, <1>2, <1>3, <1>4, <1>5 DEF Next

THEOREM Holds == Spec => []IInv
BY Initial, Inductive, PTL DEF Spec

-----------------------------------------------------------------------------

\* The state of both processes is well typed; in particular no request is counted off
\* twice.
THEOREM TypeCorrect == Spec => []TypeOK
BY Holds, PTL DEF IInv

\* The daemon removes a project's data only when nothing of it works: no indexer, and
\* while the agent waits for it no runtime, no request and no work of the agent, with
\* the window "stale" open or not.
THEOREM NothingWorksWhileWiped == Spec => []WipedAlone
<1>1. IInv => WipedAlone
  BY DEF IInv, Waits, Steps, WipedAlone
<1> QED
  BY <1>1, Holds, PTL

\* A project whose deletion was answered stays deleted until it is added again, if no
\* answer to a GET of the catalog is overtaken by the deletion.
THEOREM DeletionsLast ==
  ASSUME "stale" \notin Windows
  PROVE  Spec => []DeletedStaysDeleted
<1>1. IInv => DeletedStaysDeleted
  BY DEF IInv, Deleted, DeletedStaysDeleted
<1> QED
  BY <1>1, Holds, PTL
-----------------------------------------------------------------------------
(* What a refusal or a failure leaves, while few things fail.               *)

Bounds == [deletes : Nat, adds : Nat, faults : Nat, timeouts : Nat, crashes : Nat, reads : Nat]

\* The faults and the timeouts that have happened are counted.
Counted ==
  /\ budget \in Bounds
  /\ budget.faults <= Budget.faults /\ budget.timeouts <= Budget.timeouts
Patient == budget.timeouts = Budget.timeouts
Calm == budget.faults + 2 > Budget.faults /\ Patient

\* A DELETE in progress has not been answered, and the daemon works for one, if none has
\* been given up; only a failure makes the daemon take a project back.
Unanswered ==
  /\ delete.pc # "idle" => delete.answer = "none"
  /\ Patient /\ lock # "free" => delete.pc = "sent"
  /\ lock = "restoring" => catalog.listed /\ budget.faults < Budget.faults

\* The catalog on disk is the one in memory, but between the daemon's two writes of it;
\* and a DELETE that is refused, or has not reached the daemon, found the project in both.
Catalogued ==
  /\ catalog.listed => catalog.saved \/ lock = "restoring"
  /\ catalog.saved => catalog.listed \/ lock = "saving"
  /\ lock = "saving" => catalog.saved
  /\ delete.pc \in {"waiting", "closing"} \/ delete.answer \in {"busy", "error"} =>
       catalog.listed /\ catalog.saved

KInv == IInv /\ Counted /\ Unanswered /\ (Calm => Catalogued)
-----------------------------------------------------------------------------
\* What is spent is counted.
LEMMA SpendCounts ==
  ASSUME Counted, NEW w \in {"deletes", "adds", "faults", "timeouts", "crashes", "reads"}, Spend(w)
  PROVE  /\ Counted'
         /\ budget'.faults = IF w = "faults" THEN budget.faults - 1 ELSE budget.faults
         /\ w = "timeouts" => ~Patient'
         /\ w # "timeouts" => Patient' = Patient
         /\ Calm' => Calm
<1>1. budget' = [budget EXCEPT ![w] = @ - 1] /\ budget[w] > 0 /\ budget \in Bounds
  BY DEF Spend, Counted
<1>2. \A f \in {"deletes", "adds", "faults", "timeouts", "crashes", "reads"} :
        budget[f] \in Nat /\ budget'[f] = IF f = w THEN budget[f] - 1 ELSE budget[f]
  BY <1>1 DEF Bounds
<1>3. budget' \in Bounds
  BY <1>1 DEF Bounds
<1>4. Budget \in Bounds
  BY HostingBudgetAssumption DEF Bounds
<1>5. /\ budget.faults = budget["faults"] /\ budget'.faults = budget'["faults"]
      /\ budget.timeouts = budget["timeouts"] /\ budget'.timeouts = budget'["timeouts"]
      /\ Budget.faults \in Nat /\ Budget.timeouts \in Nat
  BY <1>4 DEF Bounds
<1> QED BY <1>2, <1>3, <1>5 DEF Counted, Patient, Calm

\* What the steps of the deletion's parts leave of the project's place in the catalog.
LEMMA ElsewhereKept ==
  ASSUME KInv, UNCHANGED <<catalog, lock, delete>>,
         \/ UNCHANGED budget
         \/ \E w \in {"deletes", "adds", "faults", "timeouts", "crashes", "reads"} : Spend(w)
  PROVE  Counted' /\ Unanswered' /\ (Calm' => Catalogued')
<1>1. CASE UNCHANGED budget
  BY <1>1 DEF KInv, Counted, Unanswered, Catalogued, Calm, Patient
<1>2. ASSUME NEW w \in {"deletes", "adds", "faults", "timeouts", "crashes", "reads"}, Spend(w)
      PROVE  Counted' /\ Unanswered' /\ (Calm' => Catalogued')
  <2>1. Counted' /\ budget'.faults <= budget.faults /\ (Calm' => Calm) /\ (Patient' => Patient)
    BY <1>2, SpendCounts DEF KInv, Counted, Bounds
  <2>2. budget.faults \in Nat /\ budget'.faults \in Nat /\ Budget.faults \in Nat
    BY <2>1, HostingBudgetAssumption DEF KInv, Counted, Bounds
  <2>3. Unanswered'
    BY <2>1, <2>2 DEF KInv, Unanswered
  <2> QED BY <2>1, <2>3 DEF KInv, Catalogued
<1> QED BY <1>1, <1>2

\* The daemon deletes.
LEMMA ManageKept ==
  ASSUME KInv, Manage
  PROVE  Counted' /\ Unanswered' /\ (Calm' => Catalogued')
<1> USE DEF agentVars
<1>0. /\ catalog \in Catalog /\ delete \in Deletion /\ Counted /\ Unanswered
      /\ (Calm => Catalogued) /\ Steps
  BY DEF KInv, IInv, TypeOK
<1>1. UNCHANGED <<delete, budget>> /\ Counted' /\ Calm' = Calm /\ Patient' = Patient
  BY <1>0 DEF Manage, DeleteBegin, DeleteSave, DeleteStop, DeleteData, DeleteRestore, DeleteUnheard,
     Counted, Calm, Patient
<1>2. CASE DeleteBegin
  <2>1. /\ lock = "asked" /\ lock' = "saving" /\ catalog.listed
        /\ ~catalog'.listed /\ catalog'.saved = catalog.saved
    BY <1>0, <1>2, CatalogSet DEF DeleteBegin
  <2>2. Patient => delete.pc = "sent" /\ delete.answer = "none"
    BY <1>0, <2>1 DEF Unanswered
  <2> QED BY <1>0, <1>1, <2>1, <2>2 DEF Unanswered, Catalogued, Calm
<1>3. CASE DeleteSave
  <2>1. /\ lock = "saving" /\ lock' = "stopping" /\ ~catalog.listed
        /\ ~catalog'.saved /\ catalog'.listed = catalog.listed
    BY <1>0, <1>3, CatalogSet DEF DeleteSave, Steps
  <2>2. Patient => delete.pc = "sent" /\ delete.answer = "none"
    BY <1>0, <2>1 DEF Unanswered
  <2> QED BY <1>0, <1>1, <2>1, <2>2 DEF Unanswered, Catalogued, Calm
<1>4. CASE DeleteStop \/ DeleteData
  <2>1. /\ lock \in {"stopping", "wiping"} /\ lock' \in {"wiping", "done"} /\ catalog' = catalog
    BY <1>4 DEF DeleteStop, DeleteData
  <2> QED BY <1>0, <1>1, <2>1 DEF Unanswered, Catalogued
<1>5. CASE DeleteRestore
  <2>1. /\ lock = "restoring" /\ lock' = "failed" /\ catalog'.saved
        /\ catalog'.listed = catalog.listed
    BY <1>0, <1>5, CatalogSet DEF DeleteRestore, Restored
  <2> QED BY <1>0, <1>1, <2>1 DEF Unanswered, Catalogued
<1>6. CASE DeleteUnheard
  <2>1. /\ lock \in {"done", "failed", "asked"} /\ lock' = "free" /\ catalog' = catalog
    BY <1>6 DEF DeleteUnheard
  <2> QED BY <1>0, <1>1, <2>1 DEF Unanswered, Catalogued
<1> QED BY <1>2, <1>3, <1>4, <1>5, <1>6 DEF Manage

\* A step of the daemon fails.
LEMMA ManageFaultKept ==
  ASSUME KInv, ManageFault
  PROVE  Counted' /\ Unanswered' /\ (Calm' => Catalogued')
<1> USE DEF agentVars
<1>0. /\ catalog \in Catalog /\ delete \in Deletion /\ Counted /\ Unanswered
      /\ (Calm => Catalogued) /\ Steps
  BY DEF KInv, IInv, TypeOK
<1>1. UNCHANGED delete /\ Spend("faults")
  BY DEF ManageFault, DeleteSaveFault, DeleteDataFault, DeleteRestoreFault
<1>2. /\ Counted' /\ budget'.faults = budget.faults - 1 /\ Patient' = Patient /\ (Calm' => Calm)
      /\ budget.faults \in Nat /\ budget'.faults \in Nat /\ Budget.faults \in Nat
      /\ budget.faults <= Budget.faults
  BY <1>0, <1>1, SpendCounts, HostingBudgetAssumption DEF Counted, Bounds
<1>3. CASE DeleteSaveFault
  <2>1. /\ lock = "saving" /\ lock' = "failed" /\ catalog'.listed
        /\ catalog'.saved = catalog.saved /\ ~catalog.listed
    BY <1>0, <1>3, CatalogSet DEF DeleteSaveFault, Steps
  <2>2. CASE Calm'
    <3>1. delete.pc = "sent" /\ delete.answer = "none"
      BY <1>0, <1>2, <2>1, <2>2 DEF Unanswered, Calm
    <3>2. catalog.saved
      BY <1>0, <1>2, <2>1, <2>2 DEF Catalogued
    <3> QED BY <1>0, <1>1, <1>2, <2>1, <3>1, <3>2 DEF Unanswered, Catalogued
  <2>3. Unanswered'
    BY <1>0, <1>1, <1>2, <2>1 DEF Unanswered
  <2> QED BY <1>2, <2>2, <2>3
<1>4. CASE DeleteDataFault
  <2>1. /\ lock = "wiping" /\ lock' = "restoring" /\ catalog'.listed
        /\ catalog'.saved = catalog.saved
    BY <1>0, <1>4, CatalogSet DEF DeleteDataFault
  <2>2. Unanswered'
    BY <1>0, <1>1, <1>2, <2>1 DEF Unanswered
  <2>3. CASE Calm'
    <3>1. delete.pc = "sent" /\ delete.answer = "none"
      BY <1>0, <1>2, <2>1, <2>3 DEF Unanswered, Calm
    <3> QED BY <1>0, <1>1, <1>2, <2>1, <2>2, <3>1 DEF Catalogued
  <2> QED BY <1>2, <2>2, <2>3
<1>5. CASE DeleteRestoreFault
  <2>1. lock = "restoring" /\ lock' = "failed" /\ catalog' = catalog
    BY <1>5 DEF DeleteRestoreFault
  <2>2. Unanswered'
    BY <1>0, <1>1, <1>2, <2>1 DEF Unanswered
  <2>3. budget.faults + 1 <= Budget.faults
    BY <1>0, <1>2, <2>1 DEF Unanswered
  <2>4. ~Calm'
    BY <1>2, <2>3 DEF Calm
  <2> QED BY <1>2, <2>2, <2>4
<1> QED BY <1>3, <1>4, <1>5 DEF ManageFault

\* The project is added, or the daemon starts anew from the catalog it saved.
LEMMA RenewedKept ==
  ASSUME KInv, Add \/ DaemonRestart
  PROVE  Counted' /\ Unanswered' /\ (Calm' => Catalogued')
<1> USE DEF agentVars
<1>0. /\ catalog \in Catalog /\ delete \in Deletion /\ Counted /\ Unanswered
      /\ (Calm => Catalogued) /\ Steps
  BY DEF KInv, IInv, TypeOK
<1>1. CASE Add
  <2>1. /\ Counted' /\ Patient' = Patient /\ (Calm' => Calm) /\ budget'.faults = budget.faults
    BY <1>0, <1>1, SpendCounts DEF Add
  <2>2. /\ catalog'.listed /\ catalog'.saved /\ lock' = lock /\ lock \in {"free", "asked"}
    BY <1>1 DEF Add, Free
  <2>3. delete'.pc = delete.pc /\ delete'.answer = "none"
    BY <1>0, <1>1 DEF Add, Deletion
  <2> QED BY <1>0, <2>1, <2>2, <2>3 DEF Unanswered, Catalogued
<1>2. CASE DaemonRestart
  <2>1. /\ Counted' /\ Patient' = Patient /\ (Calm' => Calm) /\ budget'.faults = budget.faults
    BY <1>0, <1>2, SpendCounts DEF DaemonRestart
  <2>2. /\ catalog'.listed = catalog.saved /\ catalog'.saved = catalog.saved
        /\ lock' \in {"failed", "free"} /\ (lock' # "free" => delete.pc = "sent")
        /\ delete' = delete
    BY <1>0, <1>2, CatalogSet DEF DaemonRestart, Catalog
  <2> QED BY <1>0, <2>1, <2>2 DEF Unanswered, Catalogued
<1> QED BY <1>1, <1>2

\* The agent deletes.
LEMMA RemoveKept ==
  ASSUME KInv, Remove
  PROVE  Counted' /\ Unanswered' /\ (Calm' => Catalogued')
<1> USE DEF agentVars
<1>0. /\ catalog \in Catalog /\ delete \in Deletion /\ Counted /\ Unanswered
      /\ (Calm => Catalogued) /\ Steps /\ IInv
  BY DEF KInv, IInv, TypeOK
<1>1. /\ UNCHANGED <<catalog, budget>> /\ Counted' /\ Calm' = Calm /\ Patient' = Patient
  BY <1>0 DEF Remove, DeleteRead, DeleteDispose, DeleteSend, DeleteDone, DeleteFailed, daemonVars,
     Counted, Calm, Patient
<1>2. ASSUME NEW a \in {"ok", "missing", "busy", "error"}, Answered(a)
      PROVE  delete'.pc = "idle" /\ delete'.answer = a
  BY <1>0, <1>2 DEF Answered, Deletion
<1>3. ASSUME NEW x \in {"waiting", "closing", "sent"}, delete' = [delete EXCEPT !.pc = x]
      PROVE  delete'.pc = x /\ delete'.answer = delete.answer
  BY <1>0, <1>3 DEF Deletion
<1>4. CASE DeleteRead
  <2>1. /\ delete.pc = "reading" /\ lock' = lock /\ lock \in {"free", "asked"}
        /\ delete.answer = "none"
    BY <1>0, <1>4 DEF DeleteRead, daemonVars, Free, Unanswered
  <2>2. CASE ~catalog.listed /\ Answered("missing")
    BY <1>0, <1>1, <1>2, <2>1, <2>2 DEF Unanswered, Catalogued
  <2>3. CASE catalog.listed /\ Answered("busy")
    BY <1>0, <1>1, <1>2, <2>1, <2>3 DEF Unanswered, Catalogued
  <2>4. CASE catalog.listed /\ delete' = [delete EXCEPT !.pc = "waiting"]
    BY <1>0, <1>1, <1>3, <2>1, <2>4 DEF Unanswered, Catalogued
  <2> QED BY <1>4, <2>2, <2>3, <2>4 DEF DeleteRead
<1>5. CASE DeleteDispose
  <2>1. delete.pc = "waiting" /\ lock' = lock /\ delete.answer = "none"
    BY <1>0, <1>5 DEF DeleteDispose, daemonVars, Unanswered
  <2>2. CASE Answered("busy")
    BY <1>0, <1>1, <1>2, <2>1, <2>2 DEF Unanswered, Catalogued
  <2>3. CASE delete' = [delete EXCEPT !.pc = "closing"]
    BY <1>0, <1>1, <1>3, <2>1, <2>3 DEF Unanswered, Catalogued
  <2> QED BY <1>5, <2>2, <2>3 DEF DeleteDispose
<1>6. CASE DeleteSend
  <2>1. /\ delete.pc = "closing" /\ lock = "free" /\ lock' = "asked" /\ delete.answer = "none"
        /\ delete'.pc = "sent" /\ delete'.answer = "none"
    BY <1>0, <1>3, <1>6 DEF DeleteSend, Unanswered
  <2> QED BY <1>0, <1>1, <2>1 DEF Unanswered, Catalogued
<1>7. CASE DeleteDone
  <2>1. lock = "done" /\ lock' = "free" /\ delete'.pc = "idle" /\ delete'.answer = "ok"
    BY <1>2, <1>7 DEF DeleteDone
  <2> QED BY <1>0, <1>1, <2>1 DEF Unanswered, Catalogued
<1>8. CASE DeleteFailed
  <2>1. /\ lock \in {"failed", "asked"} /\ lock' = "free" /\ delete'.pc = "idle"
        /\ delete'.answer \in {"error", "missing"} /\ (delete'.answer = "error" => catalog.listed)
    <3>1. CASE catalog.listed
      BY <1>2, <1>8, <3>1 DEF DeleteFailed
    <3>2. CASE ~catalog.listed
      BY <1>2, <1>8, <3>2 DEF DeleteFailed
    <3> QED BY <3>1, <3>2
  <2> QED BY <1>0, <1>1, <2>1 DEF Unanswered, Catalogued
<1> QED BY <1>4, <1>5, <1>6, <1>7, <1>8 DEF Remove

\* A deletion is asked for, given up, or asked for again; and a runtime that cannot be
\* built fails the DELETE that waits for it.
LEMMA AskingKept ==
  ASSUME KInv, AskDelete \/ DeleteTimeout \/ Again \/ BuildFault
  PROVE  Counted' /\ Unanswered' /\ (Calm' => Catalogued')
<1> USE DEF agentVars, daemonVars
<1>0. /\ catalog \in Catalog /\ delete \in Deletion /\ Counted /\ Unanswered
      /\ (Calm => Catalogued)
      /\ budget.faults \in Nat /\ Budget.faults \in Nat
  BY HostingBudgetAssumption DEF KInv, IInv, TypeOK, Counted, Bounds
<1>1. UNCHANGED <<catalog, lock>>
  BY DEF AskDelete, DeleteTimeout, Again, BuildFault
<1>2. CASE AskDelete
  <2>1. /\ Counted' /\ Patient' = Patient /\ (Calm' => Calm) /\ budget'.faults = budget.faults
    BY <1>0, <1>2, SpendCounts DEF AskDelete
  <2>2. delete'.pc = "reading" /\ delete'.answer = "none" /\ delete.pc = "idle"
    BY <1>2 DEF AskDelete
  <2> QED BY <1>0, <1>1, <2>1, <2>2 DEF Unanswered, Catalogued
<1>3. CASE DeleteTimeout
  <2>1. Counted' /\ ~Patient' /\ ~Calm' /\ budget'.faults = budget.faults
    BY <1>0, <1>3, SpendCounts DEF DeleteTimeout, Calm
  <2>2. delete'.pc = "idle"
    BY <1>0, <1>3 DEF DeleteTimeout, Answered, Deletion
  <2> QED BY <1>0, <1>1, <2>1, <2>2 DEF Unanswered
<1>4. CASE Again
  <2>1. budget' = budget /\ delete'.pc = "idle" /\ delete'.answer = "none" /\ delete.pc = "idle"
    BY <1>0, <1>4 DEF Again, Deletion
  <2> QED BY <1>0, <1>1, <2>1 DEF Unanswered, Catalogued, Counted, Calm, Patient
<1>5. CASE BuildFault
  <2>1. /\ Counted' /\ Patient' = Patient /\ (Calm' => Calm) /\ budget'.faults = budget.faults - 1
    BY <1>0, <1>5, SpendCounts DEF BuildFault
  <2>2. \/ delete' = delete
        \/ delete.pc = "waiting" /\ delete'.pc = "idle" /\ delete'.answer = "error"
    BY <1>0, <1>5 DEF BuildFault, Deletion
  <2>3. budget'.faults \in Nat
    BY <2>1 DEF Counted, Bounds
  <2>4. Unanswered'
    <3>1. CASE delete' = delete
      BY <1>0, <1>1, <2>1, <2>3, <3>1 DEF Unanswered
    <3>2. CASE delete.pc = "waiting" /\ delete'.pc = "idle" /\ delete'.answer = "error"
      BY <1>0, <1>1, <2>1, <2>3, <3>2 DEF Unanswered
    <3> QED BY <2>2, <3>1, <3>2
  <2>5. Calm' => Catalogued'
    BY <1>0, <1>1, <2>1, <2>2 DEF Catalogued
  <2> QED BY <2>1, <2>4, <2>5
<1> QED BY <1>2, <1>3, <1>4, <1>5

\* Every step keeps it.
LEMMA NextKept ==
  ASSUME KInv, [Next]_vars
  PROVE  Counted' /\ Unanswered' /\ (Calm' => Catalogued')
<1>1. CASE \/ Activate \/ Index \/ IndexerCrash \/ RestartFault \/ Supervise
           \/ Request \/ Listen \/ Serve \/ Toggle \/ ReadCatalog \/ UNCHANGED vars
  <2>1. /\ UNCHANGED <<catalog, lock, delete>>
        /\ UNCHANGED budget \/ Spend("crashes") \/ Spend("faults") \/ Spend("reads")
    BY <1>1 DEF Activate, Index, IndexerCrash, RestartFault, Supervise, Restart, IndexerExit,
       Request, Listen, Serve, Build, EndRequest, ReadAnswer, ReadReturn, Toggle, ReadCatalog, vars,
       agentVars, daemonVars
  <2> QED BY <2>1, ElsewhereKept
<1>2. CASE Manage \/ ManageFault \/ Add \/ DaemonRestart
  BY <1>2, ManageKept, ManageFaultKept, RenewedKept
<1>3. CASE Remove \/ AskDelete \/ DeleteTimeout \/ Again \/ BuildFault
  BY <1>3, RemoveKept, AskingKept
<1> QED BY <1>1, <1>2, <1>3 DEF Next

\* A deletion that was refused, or failed, leaves the project in the catalog, also over a
\* restart of the daemon, unless the catalog could not be written either or a deletion
\* that nobody waited for was completed.
THEOREM RefusalsKeep == Spec => []RefusedIsKept
<1>1. Init => KInv
  <2> SUFFICES ASSUME Init PROVE KInv
    OBVIOUS
  <2>1. IInv
    BY Initial
  <2>2. Counted
    BY HostingBudgetAssumption DEF Init, Counted, Bounds
  <2>3. Unanswered /\ Catalogued
    BY DEF Init, Unanswered, Catalogued, NoDelete
  <2> QED BY <2>1, <2>2, <2>3 DEF KInv
<1>2. KInv /\ [Next]_vars => KInv'
  BY NextKept, Inductive DEF KInv
<1>3. KInv => RefusedIsKept
  <2> SUFFICES ASSUME KInv, delete.answer \in {"busy", "error"}, Calm
               PROVE  catalog.listed /\ catalog.saved
    BY DEF RefusedIsKept, Calm, Patient
  <2> QED BY DEF KInv, Catalogued
<1> QED BY <1>1, <1>2, <1>3, PTL DEF Spec
=============================================================================
