--------------------------- MODULE BackgroundJobs ---------------------------
(***************************************************************************)
(* The background tools of a project: agent/src/web/background.  A model's *)
(* call of start_background_tool becomes a job, whose record is on disk    *)
(* and whose execution lives in the process.  Starts, cancellations and    *)
(* the saves of progress and outcomes go through one queue, in order; an   *)
(* execution runs beside it and puts its own saves in the queue.  A job's  *)
(* id is a hash of chat, run and call id: the call stands for the job.     *)
(***************************************************************************)
EXTENDS Naturals, FiniteSets, SequencesExt

CONSTANTS
  Calls,        \* calls of start_background_tool; one may be made twice
  ChatOf,       \* the chat of each call
  ChatLimit,    \* active jobs of a chat (8)
  ProjectLimit, \* active jobs of a project (32)
  Budgets       \* bounds: how often each disturbance may happen in a behaviour

VARIABLES
  record,  \* disk: the status of each job
  entry,   \* memory: the job object of each execution
  queue,   \* memory: BackgroundStore.serial()
  writing, \* memory: the head of the queue waits for its write
  closed,  \* memory: close() was called
  host,    \* how far the process has come
  calls,   \* history: times the tool of a job was called
  budget   \* bounds that are left

vars == <<record, entry, queue, writing, closed, host, calls, budget>>

-----------------------------------------------------------------------------
Live == {"running", "cancelling"}
Terminal == {"completed", "failed", "cancelled", "interrupted"}
Statuses == {"absent"} \cup Live \cup Terminal

\* exec: what the execution does; lease: the agent it retains; closing: in close()'s
\* snapshot.
NoEntry == [status |-> "absent", active |-> FALSE, aborted |-> FALSE,
            exec |-> "none", lease |-> FALSE, closing |-> FALSE]
Op(kind, c) == [kind |-> kind, call |-> c]

Active == {c \in Calls : entry[c].active}
ActiveIn(chat) == {c \in Active : ChatOf[c] = chat}
Closing == {c \in Calls : entry[c].closing}

\* BackgroundJobs.busy and hasActive().
Busy == Active # {} \/ queue # <<>>
HasActive(chat) == ActiveIn(chat) # {}

Enqueue(op) == queue' = Append(queue, op)
AtHead(kinds) == queue # <<>> /\ queue[1].kind \in kinds
Begins(kinds) == AtHead(kinds) /\ ~writing
Lands(kinds) == AtHead(kinds) /\ writing
Spend(what) == budget[what] > 0 /\ budget' = [budget EXCEPT ![what] = @ - 1]

Init ==
  /\ record = [c \in Calls |-> "absent"]
  /\ entry = [c \in Calls |-> NoEntry]
  /\ queue = <<>> /\ writing = FALSE
  /\ closed = FALSE /\ host = "ready"
  /\ calls = [c \in Calls |-> 0]
  /\ budget \in Budgets

-----------------------------------------------------------------------------
(* start()                                                                 *)

Start(c) ==
  /\ host \in {"ready", "closing"}
  /\ Spend("starts")
  /\ Enqueue(Op("start", c))
  /\ UNCHANGED <<record, entry, writing, closed, host, calls>>

\* Mutants of Admits: the call is executed whether or not it has a record; the
\* limits are passed by one.
AdmitsAgain(c) ==
  /\ Cardinality(Active) < ProjectLimit
  /\ Cardinality(ActiveIn(ChatOf[c])) < ChatLimit
AdmitsOneMore(c) ==
  /\ record[c] = "absent"
  /\ Cardinality(Active) < ProjectLimit
  /\ Cardinality(ActiveIn(ChatOf[c])) <= ChatLimit

\* A job that has a record is answered from it, whatever its state.
Admits(c) ==
  /\ record[c] = "absent"
  /\ Cardinality(Active) < ProjectLimit
  /\ Cardinality(ActiveIn(ChatOf[c])) < ChatLimit

\* The agent is retained before the record is written.
StartBegin ==
  /\ Begins({"start"})
  /\ LET c == queue[1].call
     IN  IF ~closed /\ Admits(c)
         THEN /\ entry' = [entry EXCEPT ![c] = [NoEntry EXCEPT !.lease = TRUE]]
              /\ writing' = TRUE /\ UNCHANGED queue
         ELSE queue' = Tail(queue) /\ UNCHANGED <<entry, writing>>
  /\ UNCHANGED <<record, closed, host, calls, budget>>

StartWrite ==
  /\ Lands({"start"})
  /\ LET c == queue[1].call
     IN  /\ record' = [record EXCEPT ![c] = "running"]
         /\ entry' = [entry EXCEPT ![c].status = "running", ![c].active = TRUE,
                                   ![c].exec = "running"]
         /\ calls' = [calls EXCEPT ![c] = @ + 1]
  /\ queue' = Tail(queue) /\ writing' = FALSE
  /\ UNCHANGED <<closed, host, budget>>

StartFault ==
  /\ Lands({"start"})
  /\ Spend("faults")
  /\ entry' = [entry EXCEPT ![queue[1].call] = NoEntry]
  /\ queue' = Tail(queue) /\ writing' = FALSE
  /\ UNCHANGED <<record, closed, host, calls>>

-----------------------------------------------------------------------------
(* executeBackground(): the tool yields progress, and returns or throws.    *)

Report(c) ==
  /\ entry[c].exec = "running"
  /\ Spend("reports")
  /\ entry' = [entry EXCEPT ![c].exec = "reporting"]
  /\ Enqueue(Op("report", c))
  /\ UNCHANGED <<record, writing, closed, host, calls>>

Return(c) ==
  /\ entry[c].exec = "running"
  /\ \E kind \in {"completed", "failed"} :
       /\ entry' = [entry EXCEPT ![c].exec = kind]
       /\ Enqueue(Op(kind, c))
  /\ UNCHANGED <<record, writing, closed, host, calls, budget>>

\* Released: onceRelease() and active.delete().
Released(e) == [e EXCEPT !.lease = FALSE, !.active = FALSE, !.exec = "none"]

\* A mutant of SaveBegin: an outcome is saved after close() as before it.
SaveBeginLate ==
  /\ Begins({"report", "completed", "failed"})
  /\ LET c == queue[1].call
         kind == queue[1].kind
     IN  entry' = IF kind = "report" THEN entry
                  ELSE [entry EXCEPT ![c].status =
                          IF entry[c].aborted THEN "cancelled" ELSE kind]
  /\ writing' = TRUE
  /\ UNCHANGED <<record, queue, closed, host, calls, budget>>

SaveBegin ==
  /\ Begins({"report", "completed", "failed"})
  /\ LET c == queue[1].call
         kind == queue[1].kind
     IN  IF closed
         THEN /\ entry' = [entry EXCEPT ![c] = IF kind = "report" THEN [@ EXCEPT !.exec = "running"]
                                               ELSE Released(@)]
              /\ queue' = Tail(queue) /\ UNCHANGED writing
         ELSE /\ entry' = IF kind = "report" THEN entry
                          ELSE [entry EXCEPT ![c].status =
                                  IF entry[c].aborted THEN "cancelled" ELSE kind]
              /\ writing' = TRUE /\ UNCHANGED queue
  /\ UNCHANGED <<record, closed, host, calls, budget>>

\* The job is written as it is in memory, cancelling included.
SaveWrite ==
  /\ Lands({"report", "completed", "failed"})
  /\ LET c == queue[1].call
     IN  /\ record' = [record EXCEPT ![c] = entry[c].status]
         /\ entry' = [entry EXCEPT ![c] = IF queue[1].kind = "report"
                                          THEN [@ EXCEPT !.exec = "running"]
                                          ELSE Released(@)]
  /\ queue' = Tail(queue) /\ writing' = FALSE
  /\ UNCHANGED <<closed, host, calls, budget>>

\* A save that fails is caught as a failure of the tool; the failure's own save is not.
SaveFault ==
  /\ Lands({"report", "completed", "failed"})
  /\ Spend("faults")
  /\ LET c == queue[1].call
     IN  IF queue[1].kind = "failed"
         THEN entry' = [entry EXCEPT ![c] = Released(@)] /\ queue' = Tail(queue)
         ELSE /\ entry' = [entry EXCEPT ![c].exec = "failed"]
              /\ queue' = Append(Tail(queue), Op("failed", c))
  /\ writing' = FALSE
  /\ UNCHANGED <<record, closed, host, calls>>

-----------------------------------------------------------------------------
(* cancel()                                                                *)

Cancel(c) ==
  /\ host \in {"ready", "closing"}
  /\ Spend("cancels")
  /\ Enqueue(Op("cancel", c))
  /\ UNCHANGED <<record, entry, writing, closed, host, calls>>

Cancels(c) == entry[c].active /\ record[c] \in Live

CancelBegin ==
  /\ Begins({"cancel"})
  /\ LET c == queue[1].call
     IN  IF Cancels(c)
         THEN /\ entry' = [entry EXCEPT ![c].aborted = TRUE, ![c].status = "cancelling"]
              /\ writing' = TRUE /\ UNCHANGED queue
         ELSE queue' = Tail(queue) /\ UNCHANGED <<entry, writing>>
  /\ UNCHANGED <<record, closed, host, calls, budget>>

CancelWrite ==
  /\ Lands({"cancel"})
  /\ record' = [record EXCEPT ![queue[1].call] = "cancelling"]
  /\ queue' = Tail(queue) /\ writing' = FALSE
  /\ UNCHANGED <<entry, closed, host, calls, budget>>

CancelFault ==
  /\ Lands({"cancel"})
  /\ Spend("faults")
  /\ queue' = Tail(queue) /\ writing' = FALSE
  /\ UNCHANGED <<record, entry, closed, host, calls>>

-----------------------------------------------------------------------------
(* close(): the active jobs are aborted and, in the queue's turn, recorded  *)
(* as interrupted, one write each; a write that fails fails close().        *)

Close ==
  /\ host = "ready"
  /\ Spend("stops")
  /\ closed' = TRUE /\ host' = "closing"
  /\ entry' = [c \in Calls |-> [entry[c] EXCEPT !.closing = @ \/ entry[c].active,
                                                !.aborted = @ \/ entry[c].active]]
  /\ Enqueue([kind |-> "close"])
  /\ UNCHANGED <<record, writing, calls>>

Interrupts == {c \in Closing : entry[c].status \in Live}

CloseBegin ==
  /\ Begins({"close"}) /\ Interrupts # {}
  /\ writing' = TRUE
  /\ UNCHANGED <<record, entry, queue, closed, host, calls, budget>>

CloseWrite ==
  /\ Lands({"close"})
  /\ \E c \in Interrupts :
       /\ record' = [record EXCEPT ![c] = "interrupted"]
       /\ entry' = [entry EXCEPT ![c].status = "interrupted"]
  /\ writing' = FALSE
  /\ UNCHANGED <<queue, closed, host, calls, budget>>

CloseFault ==
  /\ Lands({"close"})
  /\ Spend("faults")
  /\ queue' = Tail(queue) /\ writing' = FALSE
  /\ host' = "failed"
  /\ UNCHANGED <<record, entry, closed, calls>>

\* The agents are released and the jobs forgotten; their tools may still run.
CloseReturn ==
  /\ Begins({"close"}) /\ Interrupts = {}
  /\ queue' = Tail(queue)
  /\ entry' = [c \in Calls |->
                 [entry[c] EXCEPT !.active = FALSE, !.lease = @ /\ ~entry[c].closing]]
  /\ host' = "closed"
  /\ UNCHANGED <<record, writing, closed, calls, budget>>

-----------------------------------------------------------------------------
(* The process ends, or dies, and recover() runs before anything else.      *)

Forget ==
  /\ entry' = [c \in Calls |-> NoEntry]
  /\ queue' = <<>> /\ writing' = FALSE /\ closed' = FALSE
  /\ host' = "down"

Exit ==
  /\ host \in {"closed", "failed", "broken"}
  /\ Forget
  /\ UNCHANGED <<record, calls, budget>>

Crash ==
  /\ host # "down"
  /\ Spend("stops")
  /\ Forget
  /\ UNCHANGED <<record, calls>>

Boot ==
  /\ host = "down"
  /\ host' = "recovering"
  /\ UNCHANGED <<record, entry, queue, writing, closed, calls, budget>>

\* A mutant of Uncertain: recover() passes over what was running.
UncertainCancelling == {c \in Calls : record[c] = "cancelling"}

Uncertain == {c \in Calls : record[c] \in Live}

Recover ==
  /\ host = "recovering"
  /\ \E c \in Uncertain : record' = [record EXCEPT ![c] = "interrupted"]
  /\ UNCHANGED <<entry, queue, writing, closed, host, calls, budget>>

\* initialize() keeps the promise that was rejected.
RecoverFault ==
  /\ host = "recovering" /\ Uncertain # {}
  /\ Spend("faults")
  /\ host' = "broken"
  /\ UNCHANGED <<record, entry, queue, writing, closed, calls>>

Recovered ==
  /\ host = "recovering" /\ Uncertain = {}
  /\ host' = "ready"
  /\ UNCHANGED <<record, entry, queue, writing, closed, calls, budget>>

-----------------------------------------------------------------------------
Turn == \/ StartBegin \/ StartWrite \/ SaveBegin \/ SaveWrite \/ CancelBegin
        \/ CancelWrite \/ CloseBegin \/ CloseWrite \/ CloseReturn
Fault == StartFault \/ SaveFault \/ CancelFault \/ CloseFault
Restart == Boot \/ Recover \/ Recovered

Next ==
  \/ \E c \in Calls : Start(c) \/ Cancel(c) \/ Report(c) \/ Return(c)
  \/ Turn \/ Fault \/ Close
  \/ Exit \/ Crash \/ Restart \/ RecoverFault

\* Writes end and timers fire.  A tool need not return, and a process that stopped
\* is started again.
Fairness == WF_vars(Turn) /\ WF_vars(Exit) /\ WF_vars(Restart)

Spec == Init /\ [][Next]_vars
FairSpec == Spec /\ Fairness

-----------------------------------------------------------------------------
Entry == [status : Statuses, active : BOOLEAN, aborted : BOOLEAN, lease : BOOLEAN,
          exec : {"none", "running", "reporting", "completed", "failed"},
          closing : BOOLEAN]
Ops == [kind : {"start", "report", "completed", "failed", "cancel"}, call : Calls]
         \cup {[kind |-> "close"]}

TypeOK ==
  /\ record \in [Calls -> Statuses]
  /\ entry \in [Calls -> Entry]
  /\ queue \in Seq(Ops)
  /\ writing \in BOOLEAN /\ closed \in BOOLEAN
  /\ host \in {"ready", "closing", "closed", "failed", "down", "recovering", "broken"}
  /\ calls \in [Calls -> Nat]
  /\ budget \in [starts : Nat, cancels : Nat, reports : Nat, faults : Nat, stops : Nat]

\* A call is executed once, over crashes, restarts and calls made again: "Calls run
\* once while this process lives. Recovery never repeats uncertain effects."
AtMostOnce == \A c \in Calls : calls[c] <= 1

\* A record that says how a job ended never says anything else: not by a late report,
\* a cancellation, close() or the next start.  It says "completed" only if the tool
\* returned and no cancellation of it was recorded.
OutcomeIsFinal ==
  [][\A c \in Calls :
       /\ record[c] \in Terminal => record'[c] = record[c]
       /\ record'[c] = "completed" /\ record[c] # "completed" =>
            entry[c].exec = "completed" /\ record[c] = "running"]_vars

\* The agent a tool runs on is kept until the tool has ended, or close() was called;
\* and no chat or project keeps more than its limit, those being started included.
LeasesInBounds ==
  LET Leased == {c \in Calls : entry[c].lease} IN
  /\ \A c \in Calls : ~closed /\ entry[c].exec # "none" => c \in Leased
  /\ Cardinality(Leased) <= ProjectLimit
  /\ \A c \in Leased : Cardinality({d \in Leased : ChatOf[d] = ChatOf[c]}) <= ChatLimit

\* close() returns or fails though no tool has to end, and a job left running by a
\* server that stopped is recorded as interrupted: also the one whose record was being
\* written when close() listed the active ones.
StopsCleanly ==
  /\ closed ~> host \in {"closed", "failed", "down"}
  /\ \A c \in Calls : (host = "down" /\ record[c] \in Live) ~> record[c] \in Terminal
=============================================================================
