----------------------------- MODULE CanvasTurns -----------------------------
(***************************************************************************)
(* The turns of a project's server and what they share: the generations of *)
(* agents (AgentPool) and the chat's canvas (Canvas), which an agent draws  *)
(* on if the canvas was on in the settings when the agent was built         *)
(* (agent/src/web/runtime/project.ts, agent/src/core/canvas/tools.ts).      *)
(* A turn of the CLI draws on the same files.                               *)
(***************************************************************************)
EXTENDS AgentPool, Canvas

\* The revision that agents are built from is whether the canvas is on.
ASSUME TurnsAssumption == Revisions = BOOLEAN /\ Leases = Turns \ Outside

turnsVars == <<vars, canvasVars>>

TurnsInit == Init /\ CanvasInit /\ revision = enabled

-----------------------------------------------------------------------------
(* The pool's steps, with bounds.                                           *)

Pooled(A) == A /\ UNCHANGED canvasVars
Bounded(A, what) == A /\ Spend(what) /\ UNCHANGED canvas

\* A turn starts; a job keeps its turn's agents; the server closes.
Starts(l) == Bounded(ReadRevision(l), "turns")
Keeps(l, m) == Bounded(RetainFor(l, m), "jobs")
Closes == Bounded(Close, "closes")

Acquires(l) == Pooled(AcquireCurrent(l) \/ AcquireNew(l) \/ BuildAgent(l))

\* withCanvasChat(): each turn has conflicts of its own.
Runs(l) == AcquireDone(l) /\ Begin(l)

\* executeRun() awaits the calls of its tools before it closes the generation.
Ends(l) == Release(l) /\ IF turn[l].pc = "out" THEN UNCHANGED canvasVars ELSE End(l)

-----------------------------------------------------------------------------
(* The canvas's steps.                                                      *)

Draws(A) == A /\ UNCHANGED vars

\* The agent has canvas tools if the canvas was on when it was built; a CLI has them.
HasTools(l) == l \in Leases => lease[l].pc = "using" /\ gen[lease[l].gen].tools = {TRUE}

CallsTool(l) == HasTools(l) /\ Draws(Drawing(l))

\* The settings are saved: what is a commit to the store is an edit to the pool.
SettingsSaved == Commit("settings") /\ Edit(enabled')

Stores(w) ==
  \/ Draws(Enter(w) \/ Leave(w) \/ GiveUp(w) \/ CommitFault(w) \/ Served(w))
  \/ w # "settings" /\ Draws(Commit(w))

RunsCli(l) == Draws(Begin(l) \/ End(l) \/ Kill(l))

TurnsNext ==
  \/ \E l \in Leases : Starts(l) \/ Acquires(l) \/ Runs(l) \/ Ends(l)
  \/ \E l, m \in Leases : Keeps(l, m)
  \/ \E g \in Gens : Pooled(PoolClosed(g))
  \/ Closes
  \/ SettingsSaved
  \/ \E w \in Writers : Stores(w)
  \/ \E l \in Turns : CallsTool(l)
  \/ \E l \in Outside : RunsCli(l)
  \/ \E t \in Tabs : Draws(Editing(t))
  \/ Draws(Toggle \/ Fork \/ RemoveLock \/ Feeding)

\* Requests are served and answered, timers fire, events arrive, a browser connects
\* again.  Nobody need edit, call a tool, reload, or remove a lock.
Fairness ==
  /\ \A w \in Writers : WF_turnsVars(Stores(w) \/ (w = "settings" /\ SettingsSaved))
  /\ \A l \in Turns : WF_turnsVars(Draws(GetRead(l) \/ Changed(l)))
  /\ \A t \in Tabs :
       /\ WF_turnsVars(Draws(Save(t))) /\ WF_turnsVars(Draws(SaveDone(t) \/ SaveFailed(t)))
       /\ WF_turnsVars(Draws(Event(t))) /\ WF_turnsVars(Draws(Connect(t)))
       /\ WF_turnsVars(Draws(ReloadRead(t) \/ ReloadClear(t) \/ ReloadShow(t)))
  /\ WF_turnsVars(Draws(FeedRead)) /\ WF_turnsVars(Draws(FeedPublish))

TurnsSpec == TurnsInit /\ [][TurnsNext]_turnsVars
TurnsFair == TurnsSpec /\ Fairness
=============================================================================
