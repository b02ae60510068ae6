----------------------------- MODULE Scheduler -----------------------------
(***************************************************************************)
(* The scheduled runs of a project: agent/src/web/schedules.  A schedule   *)
(* is an entry of one file, read and written whole.  A timer ticks; a tick *)
(* goes through the schedules, settles those whose run has ended and       *)
(* admits a run for those that are due.  Ticks, cancellations and new      *)
(* schedules take turns in one queue; between the awaits of a tick the     *)
(* chat's runs, its people and the clean-up go on.  One chat is modelled.  *)
(***************************************************************************)
EXTENDS Integers, FiniteSets, SequencesExt

CONSTANTS
  Jobs,    \* schedules
  Delay,   \* time from a schedule's creation to its first occurrence
  Every,   \* interval of a repeating schedule, 0 of one that runs once
  OnTool,  \* the schedules that wait for a tool's outcome instead of a time
  Sleeps,  \* the schedules made by sleep_agent: their run goes to sleep
  MaxTime, \* bound: the clock
  Limits,  \* bounds: how often each disturbance may happen in a behaviour
  Windows  \* unguarded windows of the code that are explored

\* "shutdown": the server may be told to stop while a tick loads the chat to admit a
\* run.  Left out, it is closed by an extra guard, named where it stands.

VARIABLES
  sched,  \* disk: .schedules/queue.json
  line,   \* memory: ScheduleStore.serial(), without the tick's own turn
  tick,   \* memory: the tick, with its copy of the file
  route,  \* memory: a person's cancellation, POST /api/schedules/x/cancel
  turn,   \* the chat's unsettled run
  ended,  \* disk: how the run of each occurrence ended
  chat,   \* disk: whether the chat still exists
  server, \* how far the process has come
  now,    \* the clock
  slots,  \* history: when each occurrence was due, and when it was admitted
  limit,  \* bounds that are left
  gate    \* memory: RequestWriteGate, changed only by who writes and cleans up

vars == <<sched, line, tick, route, turn, ended, chat, server, now, slots, limit, gate>>
outside == <<chat, server, now, limit, gate>>

-----------------------------------------------------------------------------
NoJob == [status |-> "none", due |-> 0, occ |-> 0]
Waiting == {"scheduled", "running"}
Occs == 0..MaxTime
RunOf(j, occ) == [job |-> j, occ |-> occ, aborted |-> FALSE, wake |-> "none"]
Human == RunOf("human", 0)
NoTurn == RunOf("none", 0)

\* queued: the tick waits for its turn; look, reserve, admit, save: it is at a job.
IdleTick == [pc |-> "idle", now |-> 0, mem |-> [j \in Jobs |-> NoJob], todo |-> {},
             job |-> "none", before |-> NoJob, fault |-> FALSE]
NoRoute == [pc |-> "idle", job |-> "none", occ |-> 0]

\* findRequest(): the run of a job's occurrence, by its stable request id.
Unsettled(j, occ) == turn.job = j /\ turn.occ = occ
Request(j, occ) ==
  CASE chat = "gone" -> "none"
    [] chat # "gone" /\ Unsettled(j, occ) -> "running"
    [] OTHER -> ended[j][occ]

Closed == server # "up"
CanDispatch == gate.writes = 0 /\ ~gate.cleaning
InTurn == tick.pc \notin {"idle", "queued"}

\* RunScheduler.busy.
Pending == line # <<>> \/ tick.pc # "idle"

Spend(what) == limit[what] > 0 /\ limit' = [limit EXCEPT ![what] = @ - 1]

Init ==
  /\ sched = [j \in Jobs |-> NoJob]
  /\ line = <<>> /\ tick = IdleTick /\ route = NoRoute
  /\ turn = NoTurn
  /\ ended = [j \in Jobs |-> [occ \in Occs |-> "none"]]
  /\ chat = "here" /\ server = "up" /\ now = 0
  /\ slots = [j \in Jobs |-> <<>>]
  /\ limit \in Limits
  /\ gate = [writes |-> 0, cleaning |-> FALSE]

-----------------------------------------------------------------------------
(* create() and cancel(), called by the agent or a person.                  *)

\* A tool of the chat's run asks for a schedule; the run waits for it.
Create(j) ==
  /\ server = "up" /\ turn # NoTurn /\ sched[j] = NoJob
  /\ ~\E i \in 1..Len(line) : line[i] = [kind |-> "create", job |-> j]
  /\ Spend("creates")
  /\ line' = Append(line, [kind |-> "create", job |-> j])
  /\ UNCHANGED <<sched, tick, route, turn, ended, chat, server, now, slots, gate>>

Queued(kind) == \E i \in 1..Len(line) : line[i].kind = kind
Serve(kind) == line # <<>> /\ line[1].kind = kind /\ ~InTurn

ServeCreate ==
  /\ Serve("create")
  /\ LET j == line[1].job
     IN  IF Closed THEN UNCHANGED <<sched, turn>>
         ELSE /\ sched' = [sched EXCEPT ![j] = [status |-> "scheduled", occ |-> 0,
                                                due |-> now + Delay[j]]]
              /\ turn' = IF j \in Sleeps THEN [turn EXCEPT !.wake = j] ELSE turn
  /\ line' = Tail(line)
  /\ UNCHANGED <<tick, route, ended, outside, slots>>

\* The route lists the schedules and ...
RouteCancel(j) ==
  /\ server = "up" /\ route.pc = "idle" /\ sched[j] # NoJob
  /\ Spend("cancels")
  /\ route' = [pc |-> "listing", job |-> j, occ |-> 0]
  /\ line' = Append(line, [kind |-> "list", job |-> j])
  /\ UNCHANGED <<sched, tick, turn, ended, chat, server, now, slots, gate>>

\* ... has the one it found cancelled, whatever its status: nothing but promises that
\* resolve is between the two, and no timer fires.
ServeList ==
  /\ Serve("list")
  /\ route' = [route EXCEPT !.pc = "cancelling", !.occ = sched[route.job].occ]
  /\ line' = Append(Tail(line), [kind |-> "cancel", job |-> route.job])
  /\ UNCHANGED <<sched, tick, turn, ended, outside, slots>>

ServeCancel ==
  /\ Serve("cancel")
  /\ sched' = [sched EXCEPT ![line[1].job].status = "cancelled"]
  /\ line' = Tail(line)
  /\ route' = [route EXCEPT !.pc = "cancelled"]
  /\ UNCHANGED <<tick, turn, ended, outside, slots>>

CancelFault ==
  /\ Serve("cancel")
  /\ Spend("faults")
  /\ line' = Tail(line)
  /\ route' = NoRoute
  /\ UNCHANGED <<sched, tick, turn, ended, chat, server, now, slots, gate>>

\* A mutant of RouteAbort: the run of the occurrence after the listed one is stopped.
RouteAbortNext ==
  /\ route.pc = "cancelled"
  /\ turn' = IF Unsettled(route.job, route.occ + 1) THEN [turn EXCEPT !.aborted = TRUE] ELSE turn
  /\ route' = [route EXCEPT !.pc = "answered"]
  /\ UNCHANGED <<sched, line, tick, ended, outside, slots>>

\* Then it stops the run of the occurrence it had listed.
RouteAbort ==
  /\ route.pc = "cancelled"
  /\ turn' = IF Unsettled(route.job, route.occ) THEN [turn EXCEPT !.aborted = TRUE] ELSE turn
  /\ route' = [route EXCEPT !.pc = "answered"]
  /\ UNCHANGED <<sched, line, tick, ended, outside, slots>>

-----------------------------------------------------------------------------
(* tick()                                                                  *)

Fire ==
  /\ server = "up" /\ tick.pc = "idle"
  /\ \E j \in Jobs : sched[j].status \in Waiting
  /\ tick' = [IdleTick EXCEPT !.pc = "queued", !.now = now]
  /\ line' = Append(line, [kind |-> "tick"])
  /\ UNCHANGED <<sched, route, turn, ended, outside, slots>>

ServeTick ==
  /\ Serve("tick")
  /\ line' = Tail(line)
  /\ tick' = IF Closed \/ ~CanDispatch THEN IdleTick
             ELSE [tick EXCEPT !.pc = "scan", !.mem = sched, !.todo = Jobs]
  /\ UNCHANGED <<sched, route, turn, ended, outside, slots>>

Eligible(j) ==
  /\ tick.mem[j].status \in Waiting
  /\ tick.mem[j].status = "scheduled" /\ j \notin OnTool => tick.mem[j].due <= tick.now

\* The next schedule of the file that is due; the order of the file is left open.
Scan ==
  /\ tick.pc = "scan"
  /\ LET found == {j \in tick.todo : Eligible(j)}
     IN  \/ /\ found # {} /\ ~Closed /\ CanDispatch
            /\ \E j \in found : tick' = [tick EXCEPT !.pc = "look", !.job = j,
                                           !.todo = @ \ {j}, !.before = tick.mem[j]]
         \/ (found = {} \/ Closed \/ ~CanDispatch) /\ tick' = IdleTick
  /\ UNCHANGED <<sched, line, route, turn, ended, outside, slots>>

\* A mutant of NextDue: every missed slot is made up for.
NextDueEach(job, every) == job.due + every

NextDue(job, every) ==
  job.due + ((IF tick.now > job.due THEN tick.now - job.due ELSE 0) \div every + 1) * every

\* settleSchedule()
Settled(j, job, how) ==
  IF how # "completed" THEN [job EXCEPT !.status = "failed"]
  ELSE IF Every[j] = 0 THEN [job EXCEPT !.status = "completed"]
  ELSE [status |-> "scheduled", occ |-> job.occ + 1, due |-> NextDue(job, Every[j])]

ToSave(job) == tick' = [tick EXCEPT !.mem[tick.job] = job, !.pc = "save"]
ToNext == tick' = [tick EXCEPT !.pc = "scan", !.job = "none"]

\* advance(), up to the reservation.
Look ==
  /\ tick.pc = "look"
  /\ LET j == tick.job
         job == tick.mem[j]
         request == Request(j, job.occ)
     IN  \/ request \notin {"none", "running"} /\ ToSave(Settled(j, job, request))
         \/ request = "running" /\ ToNext
         \/ /\ request = "none"
            /\ \/ turn # NoTurn /\ ToNext
               \* the outcome the schedule waits for is missing
               \/ turn = NoTurn /\ j \in OnTool /\ ToSave([job EXCEPT !.status = "failed"])
               \/ /\ turn = NoTurn
                  /\ IF Closed \/ ~CanDispatch \/ (j \notin OnTool /\ job.due > tick.now)
                     THEN ToNext
                     ELSE tick' = [tick EXCEPT !.mem[j].status = "running", !.pc = "reserve"]
  /\ UNCHANGED <<sched, line, route, turn, ended, outside, slots>>

Reserve ==
  /\ tick.pc = "reserve"
  /\ sched' = tick.mem
  /\ tick' = [tick EXCEPT !.pc = "admit"]
  /\ UNCHANGED <<line, route, turn, ended, outside, slots>>

ReserveFault ==
  /\ tick.pc = "reserve"
  /\ Spend("faults")
  /\ tick' = [tick EXCEPT !.mem[tick.job].status = "failed", !.pc = "save", !.fault = TRUE]
  /\ UNCHANGED <<sched, line, route, turn, ended, chat, server, now, slots, gate>>

\* The second check, after the reservation was written.
Recheck ==
  /\ tick.pc = "admit"
  /\ IF ~Closed /\ CanDispatch THEN tick' = [tick EXCEPT !.pc = "load"]
     ELSE IF tick.mem[tick.job] = tick.before THEN ToNext
     ELSE ToSave(tick.mem[tick.job])
  /\ UNCHANGED <<sched, line, route, turn, ended, outside, slots>>

\* A mutant of Refused: a schedule that lost the chat to a person has failed.
RefusedFails(job) == [job EXCEPT !.status = "failed"]

\* "A human turn won admission or changed history. Retry from its saved answer."
Refused(job) == [job EXCEPT !.status = "scheduled"]

\* admitScheduled(): the session was loaded.  The gate is not looked at again; a
\* server that is closing refuses the run, and the schedule has failed.
Admit ==
  /\ tick.pc = "load"
  /\ LET j == tick.job
         job == tick.mem[j]
     IN  \/ /\ chat = "gone"
            /\ ToSave([job EXCEPT !.status = "cancelled"])
            /\ UNCHANGED <<turn, slots>>
         \/ /\ chat = "here" /\ Closed
            /\ ToSave([job EXCEPT !.status = "failed"])
            /\ UNCHANGED <<turn, slots>>
         \/ /\ chat = "here" /\ ~Closed /\ turn # NoTurn
            /\ IF Refused(job) = tick.before
               THEN tick' = [tick EXCEPT !.mem[j] = tick.before, !.pc = "scan", !.job = "none"]
               ELSE ToSave(Refused(job))
            /\ UNCHANGED <<turn, slots>>
         \/ /\ chat = "here" /\ ~Closed /\ turn = NoTurn
            /\ turn' = RunOf(j, job.occ)
            /\ slots' = [slots EXCEPT ![j] = Append(@, [occ |-> job.occ, due |-> job.due, at |-> now])]
            /\ ToSave(job)
  /\ UNCHANGED <<sched, line, route, ended, outside>>

\* The admission fails for another reason.
AdmitFault ==
  /\ tick.pc = "load" /\ chat = "here"
  /\ Spend("faults")
  /\ tick' = [tick EXCEPT !.mem[tick.job].status = "failed", !.pc = "save", !.fault = TRUE]
  /\ UNCHANGED <<sched, line, route, turn, ended, chat, server, now, slots, gate>>

Save ==
  /\ tick.pc = "save"
  /\ sched' = tick.mem
  /\ ToNext
  /\ UNCHANGED <<line, route, turn, ended, outside, slots>>

\* The tick rejects; the next one reads the file again.
SaveFault ==
  /\ tick.pc = "save"
  /\ Spend("faults")
  /\ tick' = IdleTick
  /\ UNCHANGED <<sched, line, route, turn, ended, chat, server, now, slots, gate>>

-----------------------------------------------------------------------------
(* The chat's runs: SearchRuns, as the scheduler uses them.                  *)

Post ==
  /\ server = "up" /\ turn = NoTurn /\ chat = "here"
  /\ gate.writes > 0
  /\ Spend("posts")
  /\ turn' = Human
  /\ UNCHANGED <<sched, line, tick, route, ended, chat, server, now, slots, gate>>

\* A run that stopped or failed has the wake-up it asked for cancelled, before it ends.
AskUnsleep ==
  /\ turn.wake # "none" /\ ~Queued("create") /\ ~Queued("unsleep")
  /\ turn' = [turn EXCEPT !.aborted = TRUE]
  /\ line' = Append(line, [kind |-> "unsleep"])
  /\ UNCHANGED <<sched, tick, route, ended, outside, slots>>

ServeUnsleep ==
  /\ Serve("unsleep")
  /\ sched' = [sched EXCEPT ![turn.wake].status = "cancelled"]
  /\ turn' = [turn EXCEPT !.wake = "none"]
  /\ line' = Tail(line)
  /\ UNCHANGED <<tick, route, ended, outside, slots>>

\* A run waits for the tools it has called, also when it was stopped.
EndTurn ==
  /\ turn # NoTurn
  /\ ~Queued("create")
  /\ turn' = NoTurn
  /\ \E how \in {"completed", "failed"} :
       /\ turn.aborted => how = "failed"
       /\ how = "failed" => turn.wake = "none"
       /\ ended' = IF turn.job \in Jobs THEN [ended EXCEPT ![turn.job][turn.occ] = how] ELSE ended
  /\ UNCHANGED <<sched, line, tick, route, outside, slots>>

Pass ==
  /\ now < MaxTime
  /\ now' = now + 1
  /\ UNCHANGED <<sched, line, tick, route, turn, ended, chat, server, slots, limit, gate>>

-----------------------------------------------------------------------------
(* close() waits for the tick and for the queue.  Runs that were unsettled   *)
(* when the process stopped are interrupted when it starts.                  *)

Close ==
  /\ server = "up"
  /\ "shutdown" \in Windows \/ tick.pc # "load"  \* window "shutdown" closed
  /\ Spend("stops")
  /\ server' = "closing"
  /\ UNCHANGED <<sched, line, tick, route, turn, ended, chat, now, slots, gate>>

CloseReturn ==
  /\ server = "closing" /\ ~Pending
  /\ server' = "closed"
  /\ UNCHANGED <<sched, line, tick, route, turn, ended, chat, now, slots, limit, gate>>

Forget ==
  /\ line' = <<>> /\ tick' = IdleTick /\ route' = NoRoute
  /\ turn' = NoTurn
  /\ ended' = IF turn.job \in Jobs THEN [ended EXCEPT ![turn.job][turn.occ] = "interrupted"]
              ELSE ended
  /\ server' = "down"

\* Halt: the process ends when it was asked to.
Halt ==
  /\ server # "down"
  /\ Forget
  /\ UNCHANGED <<sched, chat, now, slots, limit>>

Crash ==
  /\ server # "down"
  /\ Spend("stops")
  /\ Forget
  /\ UNCHANGED <<sched, chat, now, slots>>

Boot ==
  /\ server = "down"
  /\ server' = "up"
  /\ UNCHANGED <<sched, line, tick, route, turn, ended, chat, now, slots, limit, gate>>

-----------------------------------------------------------------------------
Outside == \/ \E j \in Jobs : Create(j) \/ RouteCancel(j)
           \/ Fire \/ Post \/ AskUnsleep \/ EndTurn \/ Pass
ServeLine == ServeCreate \/ ServeUnsleep \/ ServeList \/ ServeCancel \/ ServeTick
TickStep == Scan \/ Look \/ Reserve \/ Recheck \/ Admit \/ Save
Fault == CancelFault \/ ReserveFault \/ AdmitFault \/ SaveFault
Step == ServeLine \/ TickStep \/ RouteAbort

-----------------------------------------------------------------------------
Job == [status : {"none", "cancelled", "completed", "failed"} \cup Waiting, due : Nat, occ : Nat]

TypeOK ==
  /\ sched \in [Jobs -> Job]
  /\ line \in Seq([kind : {"create", "list", "cancel"}, job : Jobs] 
                    \cup [kind : {"tick", "unsleep"}])
  /\ tick.pc \in {"idle", "queued", "scan", "look", "reserve", "admit", "load", "save"}
  /\ tick.mem \in [Jobs -> Job] /\ tick.todo \subseteq Jobs
  /\ route.pc \in {"idle", "listing", "cancelling", "cancelled", "answered"}
  /\ turn.job \in Jobs \cup {"human", "none"} /\ turn.aborted \in BOOLEAN
  /\ ended \in [Jobs -> [Occs -> {"none", "completed", "failed", "interrupted"}]]
  /\ chat \in {"here", "gone"} /\ server \in {"up", "closing", "closed", "down"}
  /\ gate.writes \in Nat /\ gate.cleaning \in BOOLEAN

\* Each occurrence is admitted once, in order and not before it is due, over crashes
\* between its reservation, its admission and its record.  Slots that passed while the
\* server was down or the chat busy are made up for by one run: the next one is due
\* later than the last was admitted, on the same grid.
OccurrencesInOrder ==
  \A j \in Jobs : \A i \in 1..Len(slots[j]) :
    LET slot == slots[j][i] IN
    /\ slot.occ = i - 1
    /\ j \notin OnTool => slot.due <= slot.at
    /\ i > 1 => slot.due > slots[j][i - 1].at /\ (slot.due - slots[j][1].due) % Every[j] = 0

\* A schedule whose cancellation was answered has no run that goes on, and gets none.
CancelledStaysQuiet ==
  route.pc = "answered" /\ turn.job = route.job => turn.aborted

\* A schedule fails for its run, or for a fault: a person who took the chat first, a
\* write in progress or a restart only delay it.  (slots: its run was admitted.)
FailsForItsRun ==
  [][\A j \in Jobs :
       sched'[j].status = "failed" /\ sched[j].status # "failed" /\ ~tick.fault =>
         \/ j \in OnTool
         \/ ended[j][sched[j].occ] \in {"failed", "interrupted"}]_vars

\* A schedule that was reserved is not left so: its run comes, or another end.
ReservedMovesOn ==
  \A j \in Jobs : sched[j].status = "running" ~>
    sched[j].status # "running" \/ turn.job = j
=============================================================================
