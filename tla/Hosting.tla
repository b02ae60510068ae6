------------------------------ MODULE Hosting ------------------------------
(***************************************************************************)
(* A project over two processes: the agent's server, which routes requests *)
(* to the project's runtime (agent/src/web/projects, web/runtime), and the *)
(* daemon, which keeps the catalog and the project's indexer               *)
(* (daemon/internal/projects, daemon/internal/supervisor).  Their parts    *)
(* meet when the project is deleted and added again.  One project is       *)
(* modelled; what they keep of others is independent of it.                *)
(***************************************************************************)
EXTENDS Naturals

CONSTANTS
  MaxActive, \* bound: requests of the project at a time
  Budget,    \* bounds: deletions, additions, faults, timeouts, crashes and restarts
  Windows    \* unguarded windows of the code that are explored

\* "stale": a GET of the catalog answered before a deletion may arrive after it.
\* A window left out is closed by an extra guard, named where it stands.

ASSUME HostingAssumption == MaxActive \in Nat \ {0}
ASSUME HostingWindowsAssumption == Windows \subseteq {"stale"}
ASSUME HostingBudgetAssumption ==
  Budget \in [deletes : Nat, adds : Nat, faults : Nat, timeouts : Nat, crashes : Nat, reads : Nat]

VARIABLES
  catalog, \* daemon: [listed, saved], the project in memory and in projects.json
  lock,    \* daemon: what holds Manager.mu
  runtime, \* daemon: the project has a runtime in Manager.runtimes
  indexer, \* daemon: the supervised process and its watch()
  disk,    \* the project's index, and the agent's data of it
  cached,  \* agent: state.catalog lists the project
  handler, \* agent: state.handlers, and with it the owned runtime
  busy,    \* agent: the runtime's background work
  active,  \* agent: state.active
  delete,  \* agent: the DELETE that is being handled
  reader,  \* agent: a GET of the catalog, and what the daemon has answered it
  budget   \* bounds that are left

vars == <<catalog, lock, runtime, indexer, disk, cached, handler, busy, active, delete,
          reader, budget>>
daemonVars == <<catalog, lock, runtime, indexer>>
agentVars == <<cached, handler, busy, active, delete, reader>>

-----------------------------------------------------------------------------
NoIndexer == [pc |-> "none", closed |-> FALSE]
NoDelete == [pc |-> "idle", mode |-> "index", answer |-> "none"]

Spend(what) == budget[what] > 0 /\ budget' = [budget EXCEPT ![what] = @ - 1]
\* A deletion the daemon has not begun does not hold the lock.
Free == lock \in {"free", "asked"}
Deleting == delete.pc \in {"waiting", "closing", "sent"}

Init ==
  /\ catalog = [listed |-> TRUE, saved |-> TRUE]
  /\ lock = "free" /\ runtime = FALSE /\ indexer = NoIndexer
  /\ disk = [index |-> FALSE, home |-> TRUE]
  /\ cached = TRUE /\ handler = "none" /\ busy = FALSE /\ active = 0
  /\ delete = NoDelete /\ reader = "idle"
  /\ budget = Budget

-----------------------------------------------------------------------------
(* The supervisor                                                          *)

\* serveProject() and activate(): every request for the project passes here.
Activate ==
  /\ Free /\ catalog.listed /\ ~runtime
  /\ runtime' = TRUE
  /\ indexer' = [pc |-> "up", closed |-> FALSE]
  /\ UNCHANGED <<catalog, lock, disk, agentVars, budget>>

Index ==
  /\ indexer.pc \in {"up", "saving"}
  /\ disk' = [disk EXCEPT !.index = TRUE]
  /\ UNCHANGED <<daemonVars, agentVars, budget>>

IndexerCrash ==
  /\ indexer.pc = "up"
  /\ Spend("crashes")
  /\ indexer' = [indexer EXCEPT !.pc = "backoff"]
  /\ UNCHANGED <<catalog, lock, runtime, disk, agentVars>>

\* A mutant of Restart: watch() looks at closed only before it waits.
RestartUnseen ==
  /\ indexer.pc = "backoff"
  /\ indexer' = [indexer EXCEPT !.pc = "up"]
  /\ UNCHANGED <<catalog, lock, runtime, disk, agentVars, budget>>

\* watch(): after the backoff the process is started again, unless Stop() was called.
Restart ==
  /\ indexer.pc = "backoff"
  /\ indexer' = [indexer EXCEPT !.pc = IF indexer.closed THEN "left" ELSE "up"]
  /\ UNCHANGED <<catalog, lock, runtime, disk, agentVars, budget>>

\* A process that cannot be started is not tried again.
RestartFault ==
  /\ indexer.pc = "backoff" /\ ~indexer.closed
  /\ Spend("faults")
  /\ indexer' = [indexer EXCEPT !.pc = "left"]
  /\ UNCHANGED <<catalog, lock, runtime, disk, agentVars>>

\* An interrupted indexer has saved, or is killed after five seconds.
IndexerExit ==
  /\ indexer.pc = "saving"
  /\ indexer' = [indexer EXCEPT !.pc = "left"]
  /\ UNCHANGED <<catalog, lock, runtime, disk, agentVars, budget>>

-----------------------------------------------------------------------------
(* Manager.Delete() and Add(), under the manager's lock                     *)

DeleteBegin ==
  /\ lock = "asked" /\ catalog.listed
  /\ catalog' = [catalog EXCEPT !.listed = FALSE]
  /\ lock' = "saving"
  /\ UNCHANGED <<runtime, indexer, disk, agentVars, budget>>

\* "Verify catalog persistence before destroying any data."
DeleteSave ==
  /\ lock = "saving"
  /\ catalog' = [catalog EXCEPT !.saved = FALSE]
  /\ lock' = "stopping"
  /\ indexer' = [pc |-> IF indexer.pc = "up" THEN "saving" ELSE indexer.pc, closed |-> TRUE]
  /\ UNCHANGED <<runtime, disk, agentVars, budget>>

DeleteSaveFault ==
  /\ lock = "saving"
  /\ Spend("faults")
  /\ catalog' = [catalog EXCEPT !.listed = TRUE]
  /\ lock' = "failed"
  /\ UNCHANGED <<runtime, indexer, disk, agentVars>>

\* Stop() has returned: watch() is gone.
Stopped == indexer.pc \in {"none", "left"}

DeleteStop ==
  /\ lock = "stopping" /\ Stopped
  /\ runtime' = FALSE
  /\ indexer' = IF indexer.pc = "left" THEN NoIndexer ELSE indexer
  /\ lock' = "wiping"
  /\ UNCHANGED <<catalog, disk, agentVars, budget>>

\* A mutant of Kept: only the index is removed.
KeptHome == [index |-> FALSE, home |-> disk.home]

\* The index goes; the project's directory goes with it in the mode "all".
Kept == [index |-> FALSE, home |-> disk.home /\ delete.mode = "index"]

DeleteData ==
  /\ lock = "wiping"
  /\ disk' = Kept
  /\ lock' = "done"
  /\ UNCHANGED <<catalog, runtime, indexer, agentVars, budget>>

\* The index may be gone when the rest cannot be removed.
DeleteDataFault ==
  /\ lock = "wiping"
  /\ Spend("faults")
  /\ disk' \in [index : {FALSE, disk.index}, home : {disk.home}]
  /\ catalog' = [catalog EXCEPT !.listed = TRUE]
  /\ lock' = "restoring"
  /\ UNCHANGED <<runtime, indexer, agentVars>>

\* A mutant of Restored: the catalog on disk is left without the project.
RestoredNot == catalog.saved

Restored == TRUE

DeleteRestore ==
  /\ lock = "restoring"
  /\ catalog' = [catalog EXCEPT !.saved = Restored]
  /\ lock' = "failed"
  /\ UNCHANGED <<runtime, indexer, disk, agentVars, budget>>

DeleteRestoreFault ==
  /\ lock = "restoring"
  /\ Spend("faults")
  /\ lock' = "failed"
  /\ UNCHANGED <<catalog, runtime, indexer, disk, agentVars>>

\* A reply nobody waits for.
DeleteUnheard ==
  /\ delete.pc # "sent"
  /\ lock \in {"done", "failed"} \/ (lock = "asked" /\ ~catalog.listed)
  /\ lock' = "free"
  /\ UNCHANGED <<catalog, runtime, indexer, disk, agentVars, budget>>

Add ==
  /\ Free /\ ~catalog.listed
  /\ Spend("adds")
  /\ catalog' = [listed |-> TRUE, saved |-> TRUE]
  /\ delete' = [delete EXCEPT !.answer = "none"]
  /\ UNCHANGED <<lock, runtime, indexer, disk, cached, handler, busy, active, reader>>

\* The daemon ends, its children with it, and is started again.
DaemonRestart ==
  /\ Spend("crashes")
  /\ catalog' = [catalog EXCEPT !.listed = catalog.saved]
  /\ lock' = IF delete.pc = "sent" THEN "failed" ELSE "free"
  /\ runtime' = FALSE /\ indexer' = NoIndexer
  /\ UNCHANGED <<disk, agentVars>>

-----------------------------------------------------------------------------
(* The agent's server: requests and the runtime they need                   *)

\* dispatchHandler() and projectHandler(): the first request builds the runtime.
Request ==
  /\ cached /\ ~Deleting /\ active < MaxActive
  /\ active' = active + 1
  /\ handler' = IF handler = "none" THEN "building" ELSE handler
  /\ UNCHANGED <<daemonVars, disk, cached, busy, delete, reader, budget>>

\* An event stream is not counted: "closed by runtime disposal".  Like the restoring of
\* schedules at the start of the server, it only builds the runtime.
Listen ==
  /\ cached /\ ~Deleting /\ handler = "none"
  /\ handler' = "building"
  /\ UNCHANGED <<daemonVars, disk, cached, busy, active, delete, reader, budget>>

\* buildProjectHandler() opens the project's stores, whether or not they exist.
Build ==
  /\ handler = "building"
  /\ disk' = [disk EXCEPT !.home = TRUE]
  /\ handler' = "ready"
  /\ UNCHANGED <<daemonVars, cached, busy, active, delete, reader, budget>>

BuildFault ==
  /\ handler = "building"
  /\ Spend("faults")
  /\ disk' = [disk EXCEPT !.home = TRUE]
  /\ handler' = "none" /\ active' = 0
  /\ delete' = IF delete.pc = "waiting" THEN [delete EXCEPT !.pc = "idle", !.answer = "error"]
               ELSE delete
  /\ UNCHANGED <<daemonVars, cached, busy, reader>>

\* "finish" and "close" count a request off once.
Released == active - 1

EndRequest ==
  /\ active > 0 /\ handler # "building"
  /\ active' = Released
  /\ UNCHANGED <<daemonVars, disk, cached, handler, busy, delete, reader, budget>>

\* A schedule comes due, a background tool or a learning job runs, and ends.
Toggle ==
  /\ handler = "ready" /\ delete.pc # "closing"
  /\ busy' = ~busy
  /\ UNCHANGED <<daemonVars, disk, cached, handler, active, delete, reader, budget>>

\* GET /api/projects, and the answer it gets.
ReadCatalog ==
  /\ reader = "idle"
  /\ Spend("reads")
  /\ reader' = "sent"
  /\ UNCHANGED <<daemonVars, disk, cached, handler, busy, active, delete>>

ReadAnswer ==
  /\ reader = "sent" /\ Free
  /\ "stale" \in Windows \/ delete.pc = "idle"  \* window "stale" closed, see DeleteSend
  /\ reader' = IF catalog.listed THEN "listed" ELSE "unlisted"
  /\ UNCHANGED <<daemonVars, disk, cached, handler, busy, active, delete, budget>>

ReadReturn ==
  /\ reader \in {"listed", "unlisted"}
  /\ cached' = (reader = "listed")
  /\ reader' = "idle"
  /\ UNCHANGED <<daemonVars, disk, handler, busy, active, delete, budget>>

-----------------------------------------------------------------------------
(* deleteProject()                                                         *)

AskDelete ==
  /\ delete.pc = "idle" /\ delete.answer = "none"
  /\ Spend("deletes")
  /\ \E mode \in {"index", "all"} :
       /\ lock # "free" => mode = delete.mode  \* bound: of two deletions at a time
       /\ delete' = [pc |-> "reading", mode |-> mode, answer |-> "none"]
  /\ UNCHANGED <<daemonVars, disk, cached, handler, busy, active, reader>>

Answered(answer) == delete' = [delete EXCEPT !.pc = "idle", !.answer = answer]

\* A mutant of MayBegin: the project's requests are not counted.
MayBeginServing == TRUE

MayBegin == active = 0

\* The catalog is read anew; a project with requests is busy.
DeleteRead ==
  /\ delete.pc = "reading" /\ Free
  /\ cached' = catalog.listed
  /\ IF ~catalog.listed THEN Answered("missing")
     ELSE IF ~MayBegin THEN Answered("busy")
     ELSE delete' = [delete EXCEPT !.pc = "waiting"]
  /\ UNCHANGED <<daemonVars, disk, handler, busy, active, reader, budget>>

\* disposeProjectRuntime(): a handler being built is awaited, busy work is left alone.
DeleteDispose ==
  /\ delete.pc = "waiting" /\ handler # "building"
  /\ IF busy THEN Answered("busy") ELSE delete' = [delete EXCEPT !.pc = "closing"]
  /\ UNCHANGED <<daemonVars, disk, cached, handler, busy, active, reader, budget>>

DeleteSend ==
  /\ delete.pc = "closing"
  /\ lock = "free"  \* bound: one deletion at the daemon at a time
  /\ "stale" \in Windows \/ reader \in {"idle", "sent"}  \* window "stale" closed
  /\ handler' = "none"
  /\ delete' = [delete EXCEPT !.pc = "sent"]
  /\ lock' = "asked"
  /\ UNCHANGED <<catalog, runtime, indexer, disk, cached, busy, active, reader, budget>>

DeleteDone ==
  /\ delete.pc = "sent" /\ lock = "done"
  /\ cached' = FALSE
  /\ lock' = "free"
  /\ Answered("ok")
  /\ UNCHANGED <<catalog, runtime, indexer, disk, handler, busy, active, reader, budget>>

DeleteFailed ==
  /\ delete.pc = "sent"
  /\ lock = "failed" \/ (lock = "asked" /\ ~catalog.listed)
  /\ lock' = "free"
  /\ Answered(IF catalog.listed THEN "error" ELSE "missing")
  /\ UNCHANGED <<catalog, runtime, indexer, disk, cached, handler, busy, active, reader, budget>>

\* "Project operation did not respond in time and may still complete."
DeleteTimeout ==
  /\ delete.pc = "sent"
  /\ Spend("timeouts")
  /\ Answered("timeout")
  /\ UNCHANGED <<daemonVars, disk, cached, handler, busy, active, reader>>

\* The next DELETE may be asked for once the answer was seen.
Again ==
  /\ delete.pc = "idle" /\ delete.answer \notin {"none", "ok"}
  /\ delete' = [delete EXCEPT !.answer = "none"]
  /\ UNCHANGED <<daemonVars, disk, cached, handler, busy, active, reader, budget>>

-----------------------------------------------------------------------------
Supervise == Restart \/ IndexerExit
Manage == DeleteBegin \/ DeleteSave \/ DeleteStop \/ DeleteData \/ DeleteRestore \/ DeleteUnheard
ManageFault == DeleteSaveFault \/ DeleteDataFault \/ DeleteRestoreFault
Serve == Build \/ EndRequest \/ ReadAnswer \/ ReadReturn
Remove == DeleteRead \/ DeleteDispose \/ DeleteSend \/ DeleteDone \/ DeleteFailed

Next ==
  \/ Activate \/ Index \/ IndexerCrash \/ RestartFault \/ Supervise
  \/ Manage \/ ManageFault \/ Add \/ DaemonRestart
  \/ Request \/ Listen \/ BuildFault \/ Serve \/ Toggle \/ ReadCatalog
  \/ AskDelete \/ Remove \/ DeleteTimeout \/ Again

\* Both processes go on, an interrupted indexer exits or is killed, requests end.
Fairness == WF_vars(Supervise) /\ WF_vars(Manage) /\ WF_vars(Serve) /\ WF_vars(Remove)

Spec == Init /\ [][Next]_vars
FairSpec == Spec /\ Fairness

-----------------------------------------------------------------------------
\* The types.
Catalog == [listed : BOOLEAN, saved : BOOLEAN]
Process == [pc : {"none", "up", "saving", "backoff", "left"}, closed : BOOLEAN]
Deletion == [pc : {"idle", "reading", "waiting", "closing", "sent"}, mode : {"index", "all"},
             answer : {"none", "ok", "busy", "missing", "error", "timeout"}]

TypeOK ==
  /\ catalog \in Catalog
  /\ lock \in {"free", "asked", "saving", "stopping", "wiping", "restoring", "done", "failed"}
  /\ runtime \in BOOLEAN
  /\ indexer \in Process
  /\ disk \in [index : BOOLEAN, home : BOOLEAN]
  /\ cached \in BOOLEAN /\ busy \in BOOLEAN
  /\ handler \in {"none", "building", "ready"}
  /\ active \in 0..MaxActive
  /\ delete \in Deletion
  /\ reader \in {"idle", "sent", "listed", "unlisted"}

\* A project whose deletion was answered stays deleted until it is added again: no
\* runtime of either process, no indexer that could write, no index, and none of the
\* agent's data if all was to go.
DeletedStaysDeleted ==
  delete.answer = "ok" =>
    /\ ~runtime /\ indexer.pc \in {"none", "left"} /\ handler = "none"
    /\ ~disk.index /\ (delete.mode = "all" => ~disk.home)

\* The daemon deletes a project's data only when nothing of it works: no indexer, no
\* runtime of the agent and no request while the agent waits.  "Active requests and
\* background learning must finish before deletion."
WipedAlone ==
  lock = "wiping" =>
    /\ indexer.pc \in {"none", "left"}
    /\ delete.pc = "sent" => handler = "none" /\ active = 0 /\ ~busy

\* A deletion that was refused or failed leaves the project in the catalog; also over
\* a restart of the daemon, unless the catalog could not be written either or a
\* deletion that nobody waited for was completed.
RefusedIsKept ==
  /\ delete.answer \in {"busy", "error"}
  /\ budget.faults + 2 > Budget.faults /\ budget.timeouts = Budget.timeouts
  => catalog.listed /\ catalog.saved

\* A deletion is answered, and an indexer that crashed comes back or was stopped once
\* nothing fails any more.
DeleteReturns ==
  /\ delete.pc # "idle" ~> delete.pc = "idle"
  /\ (indexer.pc = "backoff" /\ budget.faults = 0) ~> indexer.pc \in {"up", "none"}
=============================================================================
