-------------------------------- MODULE Work --------------------------------
(***************************************************************************)
(* The work of a project's server that goes on without a browser: its      *)
(* background tools (BackgroundJobs) and its scheduled runs (Scheduler),   *)
(* with what keeps them, the requests that write and the clean-up of old   *)
(* data apart: agent/src/web/server/write-gate.ts, the deletion of a chat  *)
(* in web/server/routes.ts and the order in which SearchRuns closes.       *)
(***************************************************************************)
EXTENDS Integers, FiniteSets, SequencesExt

CONSTANTS Calls, ChatOf, ChatLimit, ProjectLimit, Budgets,
          Jobs, Delay, Every, OnTool, Sleeps, MaxTime, Limits, Windows

\* One chat is modelled: the tools are its own.
ASSUME ToolsAssumption ==
  /\ IsFiniteSet(Calls) /\ ChatLimit \in Nat \ {0} /\ ProjectLimit \in Nat \ {0}
  /\ \A c \in Calls : ChatOf[c] = "chat"
ASSUME SchedulesAssumption ==
  /\ IsFiniteSet(Jobs) /\ Jobs \cap {"human", "none"} = {}
  /\ OnTool \subseteq Jobs /\ Sleeps \subseteq Jobs
  /\ Delay \in [Jobs -> Nat \ {0}] /\ Every \in [Jobs -> Nat]
  /\ \A j \in OnTool : Every[j] = 0
ASSUME BoundsAssumption ==
  /\ MaxTime \in Nat
  /\ Budgets \subseteq [starts : Nat, cancels : Nat, reports : Nat, faults : Nat, stops : Nat]
  /\ Limits \subseteq [creates : Nat, posts : Nat, cancels : Nat, faults : Nat, stops : Nat,
                       writes : Nat, cleans : Nat]
ASSUME WindowsAssumption == Windows \subseteq {"shutdown"}

VARIABLES record, entry, queue, writing, closed, host, calls, budget,
          sched, line, tick, route, turn, ended, chat, server, now, slots, limit, gate,
          removal, \* memory: a DELETE of the chat, which looked at its work and has yet to remove it
          late     \* history: a person's run was admitted between the two

B == INSTANCE BackgroundJobs
S == INSTANCE Scheduler

toolVars == <<record, entry, queue, writing, closed, host, calls, budget>>
runVars == <<sched, line, tick, route, turn, ended, chat, server, now, slots, limit, gate,
            removal, late>>
deletion == <<removal, late>>
vars == <<toolVars, runVars>>

\* Both stop together: a bound of one on stops is the same bound on the other.
Init == B!Init /\ S!Init /\ budget.stops = limit.stops /\ removal = "idle" /\ late = FALSE

-----------------------------------------------------------------------------
(* RequestWriteGate                                                        *)

\* SearchRuns.busy
Searching == turn # S!NoTurn \/ S!Pending \/ B!Busy

\* The write that a DELETE in progress holds: no other request's.
Deleting == IF removal = "checked" THEN 1 ELSE 0

GateMoves ==
  UNCHANGED <<toolVars, sched, line, tick, route, turn, ended, server, now, slots>>

BeginWrite ==
  /\ server = "up"
  /\ ~gate.cleaning
  /\ S!Spend("writes")
  /\ gate' = [gate EXCEPT !.writes = @ + 1]
  /\ GateMoves /\ UNCHANGED <<chat, deletion>>

\* The response has ended, or its client is gone: its run may go on.
EndWrite ==
  /\ gate.writes > Deleting
  /\ gate' = [gate EXCEPT !.writes = @ - 1]
  /\ GateMoves /\ UNCHANGED <<chat, limit, deletion>>

MayClean == gate.writes = 0 /\ ~gate.cleaning /\ ~Searching

BeginCleanup ==
  /\ server = "up"
  /\ MayClean
  /\ S!Spend("cleans")
  /\ gate' = [gate EXCEPT !.cleaning = TRUE]
  /\ GateMoves /\ UNCHANGED <<chat, deletion>>

\* The chat is old enough, or not.
EndCleanup ==
  /\ gate.cleaning
  /\ gate' = [gate EXCEPT !.cleaning = FALSE]
  /\ chat' \in {chat, "gone"}
  /\ GateMoves /\ UNCHANGED <<limit, deletion>>

\* A mutant of MayDelete: background tools are not asked for.
MayDeleteBusy == ~S!Pending /\ turn = S!NoTurn

\* protectedSessionRoute(): the chat has no work.
MayDelete == ~S!Pending /\ ~B!HasActive("chat") /\ turn = S!NoTurn

\* A DELETE looks, and holds a write until it is answered: no schedule is dispatched.
CheckDelete ==
  /\ server = "up" /\ chat = "here" /\ removal = "idle"
  /\ gate.writes > 0
  /\ MayDelete
  /\ removal' = "checked"
  /\ GateMoves /\ UNCHANGED <<chat, limit, gate, late>>

\* remove(), after awaits in which a person's submission may be admitted.  A run whose
\* journal find() has read after all refuses the deletion.
RemoveChat ==
  /\ removal = "checked"
  /\ removal' = "idle"
  /\ \/ chat' = "gone"
     \/ turn # S!NoTurn /\ chat' = chat
  /\ late' = (late /\ chat' = "gone")
  /\ GateMoves /\ UNCHANGED <<limit, gate>>

-----------------------------------------------------------------------------
(* The two parts, and the process they share.                               *)

\* A tool is started by the chat's run, which does not look whether the chat is there.
StartTool(c) == turn # S!NoTurn /\ B!Start(c) /\ UNCHANGED runVars

Tools ==
  /\ \/ \E c \in Calls : B!Cancel(c) \/ B!Report(c) \/ B!Return(c)
     \/ B!Turn \/ B!Fault
  /\ UNCHANGED runVars

\* A run does not end while one of its calls is being started.  A submission holds a
\* write of its own.
Submitted == turn = S!NoTurn /\ turn' # S!NoTurn /\ turn'.job = "human"
Schedules ==
  /\ S!Outside \/ S!Step \/ S!Fault
  /\ Submitted => gate.writes > Deleting
  /\ late' = (late \/ (Submitted /\ removal = "checked"))
  /\ turn' = S!NoTurn /\ turn # S!NoTurn => ~\E i \in 1..Len(queue) : queue[i].kind = "start"
  /\ UNCHANGED <<toolVars, removal>>

\* SearchRuns.close(): the schedules, then the background tools.
CloseSchedules == (S!Close \/ S!CloseReturn) /\ UNCHANGED <<toolVars, deletion>>
CloseTools == server = "closed" /\ B!Close /\ UNCHANGED runVars

Opened == gate' = [writes |-> 0, cleaning |-> FALSE] /\ removal' = "idle" /\ late' = FALSE
Exit ==
  /\ B!Exit
  /\ \/ server = "closed" /\ S!Halt /\ Opened
     \/ server = "down" /\ UNCHANGED runVars
Crash == B!Crash /\ S!Crash /\ Opened

\* SearchRuns.recover() recovers the background tools first.
BootTools == (B!Restart \/ B!RecoverFault) /\ UNCHANGED runVars
BootSchedules == host = "ready" /\ S!Boot /\ UNCHANGED <<toolVars, deletion>>

Next ==
  \/ BeginWrite \/ EndWrite \/ BeginCleanup \/ EndCleanup
  \/ CheckDelete \/ RemoveChat
  \/ \E c \in Calls : StartTool(c)
  \/ Tools \/ Schedules
  \/ CloseSchedules \/ CloseTools \/ Exit \/ Crash
  \/ BootTools \/ BootSchedules

\* Awaits return and timers fire; a write and a clean-up end, a run ends, a process
\* that stopped is started.  A background tool need not return.
Fairness ==
  /\ WF_vars(EndWrite) /\ WF_vars(EndCleanup) /\ WF_vars(RemoveChat)
  /\ WF_vars(B!Turn /\ UNCHANGED runVars)
  /\ WF_vars((S!Step \/ S!Fire) /\ UNCHANGED <<toolVars, deletion>>)
  /\ WF_vars(S!EndTurn /\ UNCHANGED <<toolVars, deletion>>)
  /\ WF_vars(S!Pass /\ UNCHANGED <<toolVars, deletion>>)
  /\ WF_vars(S!CloseReturn /\ UNCHANGED <<toolVars, deletion>>)
  /\ WF_vars(CloseTools) /\ WF_vars(Exit)
  /\ WF_vars(B!Restart /\ UNCHANGED runVars) /\ WF_vars(BootSchedules)

Spec == Init /\ [][Next]_vars
FairSpec == Spec /\ Fairness

-----------------------------------------------------------------------------
TypeOK == B!TypeOK /\ S!TypeOK /\ removal \in {"idle", "checked"} /\ late \in BOOLEAN

\* While data is being cleaned up nothing else of the project works: no run, no tick
\* that could admit one, no request that writes, no background tool.  A chat that was
\* deleted or cleaned up has no run and no tool left that would save into it, unless a
\* person's run was admitted while its deletion was on the way from its look to the removal.
WorkIsApart ==
  /\ gate.cleaning => tick.pc \in {"idle", "queued"} /\ gate.writes = 0
  /\ gate.cleaning \/ (chat = "gone" /\ ~late) =>
       turn = S!NoTurn /\ \A c \in Calls : entry[c].exec = "none"

AtMostOnce == B!AtMostOnce
LeasesInBounds == B!LeasesInBounds
OutcomeIsFinal == B!OutcomeIsFinal
OccurrencesInOrder == S!OccurrencesInOrder
CancelledStaysQuiet == S!CancelledStaysQuiet
FailsForItsRun == S!FailsForItsRun

\* What was begun comes to an end: close(), the records of tools that a server left
\* running when it stopped, and a schedule's reserved occurrence.
EndsCleanly == B!StopsCleanly /\ S!ReservedMovesOn
=============================================================================
