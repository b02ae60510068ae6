------------------------------ MODULE JobQueue ------------------------------
(***************************************************************************)
(* The durable queue of background learning jobs, of the agent's server:   *)
(* agent/src/core/learning/queue, the worker that drains it and the        *)
(* reconciliation at startup.                                              *)
(*                                                                         *)
(* A job's id is a hash of what it is about, so each job is its own state: *)
(* one is modelled.  It is a file in one of four directories (or in two of *)
(* them, between a write and an unlink).  Three activities of the process  *)
(* touch it, interleaved at their awaits: whoever records feedback and     *)
(* enqueues, the worker, and the timer that recovers expired leases.       *)
(***************************************************************************)
EXTENDS Naturals, FiniteSets, SequencesExt

CONSTANTS
  Asks,        \* events that concern the job, each recorded and enqueued once
  MaxAttempts, \* MAX_ATTEMPTS
  MaxMishaps   \* bound: crashes, pauses, and recoveries of a job that is worked on

ASSUME AsksAssumption == IsFiniteSet(Asks)
ASSUME AttemptsAssumption == MaxAttempts \in Nat \ {0} /\ MaxMishaps \in Nat

VARIABLES
  file,    \* disk: the job as each directory has it
  recent,  \* disk: the directories that have it, latest updated_at first
  rev,     \* disk: events recorded so far (sourceRevision)
  ask,     \* memory: the enqueues and the job each one found
  worker,  \* memory: the worker and the job it has claimed
  timer,   \* memory: the recovery of expired leases
  boot,    \* memory: how far the start of the process has come
  done,    \* history: the latest revision a finished job has taken in
  mishaps, \* bound
  overlap  \* history: since the last start a mark met the end of a run, or a claim a recovery

vars == <<file, recent, rev, ask, worker, timer, boot, done, mishaps, overlap>>
diskVars == <<file, recent>>

-----------------------------------------------------------------------------
Statuses == {"pending", "processing", "completed", "failed"}
NoJob == [lease |-> "none", rerun |-> FALSE, tries |-> 0, due |-> TRUE, seen |-> 0]

\* A lease of "none" in processing: renamed there, and not yet written.
Job == [lease : {"none", "held", "expired"}, rerun : BOOLEAN, tries : Nat,
        due : BOOLEAN, seen : Nat]

Exists(s) == s \in ToSet(recent)

\* writeJsonAtomic() with a new updated_at, and unlink().
Stored(s, job) == [file EXCEPT ![s] = job]

Without(s) ==
  IF Exists(s) THEN RemoveAt(recent, CHOOSE i \in DOMAIN recent : recent[i] = s) ELSE recent
Latest(s) == <<s>> \o Without(s)

Put(s, job) == file' = Stored(s, job) /\ recent' = Latest(s)
Unlink(s) == file' = Stored(s, NoJob) /\ recent' = Without(s)

\* A write that keeps updated_at.
Amend(s, job) ==
  /\ file' = Stored(s, job)
  /\ recent' = IF Exists(s) THEN recent ELSE Append(recent, s)

\* find(): the first directory that has the job.
Found ==
  CASE Exists("pending") -> "pending"
    [] ~Exists("pending") /\ Exists("processing") -> "processing"
    [] ~Exists("pending") /\ ~Exists("processing") /\ Exists("completed") -> "completed"
    [] OTHER -> IF Exists("failed") THEN "failed" ELSE "none"

Idle == [pc |-> "idle", job |-> NoJob, to |-> "none"]
NoAsk == [pc |-> "idle", job |-> NoJob, at |-> "none"]

Marking == \E a \in Asks : ask[a].pc = "marking"
Settling == worker.pc \in {"settling", "moving"}
Unlinking == timer.pc = "moving"

Init ==
  /\ file = [s \in Statuses |-> NoJob] /\ recent = <<>>
  /\ rev = 0
  /\ ask = [a \in Asks |-> NoAsk]
  /\ worker = Idle /\ timer = Idle
  /\ boot = "ready"
  /\ done = 0 /\ mishaps = 0 /\ overlap = FALSE

-----------------------------------------------------------------------------
(* enqueue(..., requeueCompleted): a feedback or an attempt is recorded     *)
(* first, then the job is queued, marked for a rerun, or found queued.      *)

Record(a) ==
  /\ boot = "ready" /\ ask[a].pc = "idle"
  /\ rev' = rev + 1
  /\ ask' = [ask EXCEPT ![a].pc = "finding"]
  /\ UNCHANGED <<diskVars, worker, timer, boot, done, mishaps, overlap>>

\* find() and retainExisting(): a job being processed is marked, a pending one
\* is left, and one that ended is queued anew.  The job may be settled meanwhile.
AskFind(a) ==
  /\ ask[a].pc = "finding"
  /\ LET s == Found
         job == IF s = "none" THEN NoJob ELSE file[s]
     IN  ask' = [ask EXCEPT ![a] =
                   CASE s = "processing" /\ job.lease # "none" ->
                          [pc |-> "marking", job |-> job, at |-> "none"]
                     [] s \in {"none", "completed", "failed"} ->
                          [pc |-> "writing", job |-> job, at |-> s]
                     [] OTHER -> [NoAsk EXCEPT !.pc = "queued"]]
  /\ overlap' = (overlap \/ (Settling /\ ask'[a].pc = "marking"))
  /\ UNCHANGED <<diskVars, rev, worker, timer, boot, done, mishaps>>

AskMark(a) ==
  /\ ask[a].pc = "marking"
  /\ Amend("processing", [ask[a].job EXCEPT !.rerun = TRUE])
  /\ ask' = [ask EXCEPT ![a] = [NoAsk EXCEPT !.pc = "queued"]]
  /\ UNCHANGED <<rev, worker, timer, boot, done, mishaps, overlap>>

AskWrite(a) ==
  /\ ask[a].pc = "writing"
  /\ Put("pending", [NoJob EXCEPT !.seen = ask[a].job.seen])
  /\ ask' = [ask EXCEPT ![a].pc = IF ask[a].at = "none" THEN "queued" ELSE "unlinking",
                        ![a].job = NoJob]
  /\ UNCHANGED <<rev, worker, timer, boot, done, mishaps, overlap>>

AskUnlink(a) ==
  /\ ask[a].pc = "unlinking"
  /\ Unlink(ask[a].at)
  /\ ask' = [ask EXCEPT ![a] = [NoAsk EXCEPT !.pc = "queued"]]
  /\ UNCHANGED <<rev, worker, timer, boot, done, mishaps, overlap>>

-----------------------------------------------------------------------------
(* drain(): claim, run, settle.                                            *)

\* claim() lists the pending jobs, ...
ClaimList ==
  /\ boot = "ready" /\ worker.pc = "idle"
  /\ Exists("pending") /\ file["pending"].due
  /\ worker' = [worker EXCEPT !.pc = "listed", !.job = file["pending"]]
  /\ UNCHANGED <<diskVars, rev, ask, timer, boot, done, mishaps, overlap>>

\* ... takes one by renaming its file, or finds it taken (recoverExpired() may have the
\* processing file that the rename replaces still to unlink), ...
ClaimRename ==
  /\ worker.pc = "listed"
  /\ IF Exists("pending")
     THEN /\ file' = [file EXCEPT !["processing"] = file["pending"], !["pending"] = NoJob]
          /\ recent' = [i \in 1..Len(Without("processing")) |->
                          IF Without("processing")[i] = "pending" THEN "processing"
                          ELSE Without("processing")[i]]
          /\ worker' = [worker EXCEPT !.pc = "renamed"]
     ELSE worker' = Idle /\ UNCHANGED diskVars
  /\ overlap' = (overlap \/ Unlinking)
  /\ UNCHANGED <<rev, ask, timer, boot, done, mishaps>>

\* ... and writes its lease.
ClaimLease ==
  /\ worker.pc = "renamed"
  /\ LET claimed == [worker.job EXCEPT !.lease = "held", !.tries = @ + 1]
     IN  /\ Put("processing", claimed)
         /\ worker' = [worker EXCEPT !.pc = "claimed", !.job = claimed]
  /\ UNCHANGED <<rev, ask, timer, boot, done, mishaps, overlap>>

\* runJob() notes the revision it takes in.
RunRead ==
  /\ worker.pc = "claimed"
  /\ worker' = [worker EXCEPT !.pc = "running", !.job.seen = rev]
  /\ UNCHANGED <<diskVars, rev, ask, timer, boot, done, mishaps, overlap>>

\* A mutant of RerunAsked: the mark is not looked at.
RerunNever == FALSE

RerunAsked == Found = "processing" /\ file["processing"].lease # "none"
                /\ file["processing"].rerun

GivesUp(job) == job.tries >= MaxAttempts

\* complete() and fail() look for a rerun; release() takes what it finds.  A mark may
\* be on its way.
Settle(to, job) ==
  /\ worker' = [pc |-> "settling", job |-> job, to |-> to]
  /\ overlap' = (overlap \/ Marking)
  /\ UNCHANGED <<diskVars, rev, ask, timer, boot, done>>

Requeued == [file["processing"] EXCEPT !.lease = "none", !.rerun = FALSE, !.due = TRUE]

Complete ==
  /\ worker.pc = "running"
  /\ IF RerunAsked THEN Settle("pending", Requeued)
     ELSE Settle("completed", [worker.job EXCEPT !.lease = "none"])
  /\ UNCHANGED mishaps

\* A permanent failure, or a transient one of the last attempt, is final; the
\* others wait for their backoff.
Fail(permanent) ==
  /\ worker.pc = "running"
  /\ IF RerunAsked THEN Settle("pending", Requeued)
     ELSE IF permanent \/ GivesUp(worker.job)
     THEN Settle("failed", [worker.job EXCEPT !.lease = "none"])
     ELSE Settle("pending", [worker.job EXCEPT !.lease = "none", !.due = FALSE])
  /\ UNCHANGED mishaps

\* release(): learning was paused while the job was claimed or run.
Release ==
  /\ worker.pc \in {"claimed", "running"}
  /\ mishaps < MaxMishaps /\ mishaps' = mishaps + 1
  /\ LET current == IF Found = "none" THEN worker.job ELSE file[Found]
     IN  Settle("pending", [current EXCEPT !.lease = "none", !.rerun = FALSE, !.due = TRUE,
                                           !.tries = worker.job.tries - 1])

\* transition(): write the destination, then unlink the processing file.
SettleWrite ==
  /\ worker.pc = "settling"
  /\ Put(worker.to, worker.job)
  /\ worker' = [Idle EXCEPT !.pc = "moving"]
  /\ done' = IF worker.to \in {"completed", "failed"} /\ worker.job.seen > done
             THEN worker.job.seen ELSE done
  /\ UNCHANGED <<rev, ask, timer, boot, mishaps, overlap>>

SettleUnlink ==
  /\ worker.pc = "moving"
  /\ Unlink("processing")
  /\ worker' = Idle
  /\ UNCHANGED <<rev, ask, timer, boot, done, mishaps, overlap>>

-----------------------------------------------------------------------------
(* Time, and recoverExpired(): by the timer, and when the process starts.   *)

\* The lease runs out, of a dead process's job or of one that runs long.
Expire ==
  /\ Exists("processing") /\ file["processing"].lease = "held"
  /\ file' = [file EXCEPT !["processing"].lease = "expired"]
  /\ UNCHANGED <<recent, rev, ask, worker, timer, boot, done, mishaps, overlap>>

Due ==
  /\ Exists("pending") /\ ~file["pending"].due
  /\ file' = [file EXCEPT !["pending"].due = TRUE]
  /\ UNCHANGED <<recent, rev, ask, worker, timer, boot, done, mishaps, overlap>>

\* A mutant of Recoverable: a job that was renamed but not leased is left there.
RecoverableLeased == Exists("processing") /\ file["processing"].lease = "expired"

Recoverable == Exists("processing") /\ file["processing"].lease # "held"

\* A job the worker has claimed may be taken from it: renamed and not yet leased,
\* or leased for too short.
RecoverList ==
  /\ boot \in {"leases", "ready"} /\ timer.pc = "idle"
  /\ Recoverable
  /\ IF worker.pc = "idle" THEN UNCHANGED mishaps
     ELSE mishaps < MaxMishaps /\ mishaps' = mishaps + 1
  /\ timer' = [Idle EXCEPT !.pc = "listed",
                           !.job = [file["processing"] EXCEPT !.lease = "none", !.due = TRUE]]
  /\ UNCHANGED <<diskVars, rev, ask, worker, boot, done, overlap>>

RecoverWrite ==
  /\ timer.pc = "listed"
  /\ Put("pending", timer.job)
  /\ timer' = [Idle EXCEPT !.pc = "moving"]
  /\ UNCHANGED <<rev, ask, worker, boot, done, mishaps, overlap>>

RecoverUnlink ==
  /\ timer.pc = "moving"
  /\ Unlink("processing")
  /\ timer' = Idle
  /\ UNCHANGED <<rev, ask, worker, boot, done, mishaps, overlap>>

-----------------------------------------------------------------------------
(* A crash, and start(): reconcileStates, reconcileJobs, recoverExpired.    *)

Crash ==
  /\ mishaps < MaxMishaps /\ mishaps' = mishaps + 1
  /\ boot' = "states" /\ overlap' = FALSE
  /\ ask' = [a \in Asks |-> IF ask[a].pc \in {"idle", "queued"} THEN ask[a]
                            ELSE [NoAsk EXCEPT !.pc = "lost"]]
  /\ worker' = Idle /\ timer' = Idle
  /\ UNCHANGED <<diskVars, rev, done>>

\* The latest record stays, the others go; one unlink at a time.
BootStates ==
  /\ boot = "states"
  /\ IF Len(recent) > 1
     THEN Unlink(Last(recent)) /\ UNCHANGED boot
     ELSE boot' = "jobs" /\ UNCHANGED diskVars
  /\ UNCHANGED <<rev, ask, worker, timer, done, mishaps, overlap>>

Stale(s) == s \in {"completed", "failed"} /\ file[s].seen # rev

\* reconcileJob(): queue the job if it has gone, or ended before the last event.
BootJobs ==
  /\ boot = "jobs"
  /\ IF rev > 0 /\ (Found = "none" \/ Stale(Found))
     THEN /\ Put("pending", [NoJob EXCEPT !.seen = IF Found = "none" THEN 0 ELSE file[Found].seen])
          /\ boot' = IF Found = "none" THEN "leases" ELSE "unlinking"
     ELSE boot' = "leases" /\ UNCHANGED diskVars
  /\ UNCHANGED <<rev, ask, worker, timer, done, mishaps, overlap>>

BootUnlink ==
  /\ boot = "unlinking"
  /\ Unlink(CHOOSE s \in {"completed", "failed"} : Exists(s))
  /\ boot' = "leases"
  /\ UNCHANGED <<rev, ask, worker, timer, done, mishaps, overlap>>

BootReady ==
  /\ boot = "leases" /\ timer.pc = "idle" /\ ~Recoverable
  /\ boot' = "ready"
  /\ UNCHANGED <<diskVars, rev, ask, worker, timer, done, mishaps, overlap>>

-----------------------------------------------------------------------------
Asking(a) == AskFind(a) \/ AskMark(a) \/ AskWrite(a) \/ AskUnlink(a)

Claiming == ClaimList \/ ClaimRename \/ ClaimLease \/ RunRead
Running == Complete \/ (\E permanent \in BOOLEAN : Fail(permanent))
Working == Claiming \/ Running \/ SettleWrite \/ SettleUnlink

Timing == RecoverList \/ RecoverWrite \/ RecoverUnlink

Booting == BootStates \/ BootJobs \/ BootUnlink \/ BootReady

Next ==
  \/ \E a \in Asks : Record(a) \/ Asking(a)
  \/ Working \/ Release \/ Timing \/ Expire \/ Due
  \/ Crash \/ Booting

Spec == Init /\ [][Next]_vars

\* Awaits are answered, a run of a job ends one way or another, and time passes.
Fairness ==
  /\ \A a \in Asks : WF_vars(Asking(a))
  /\ WF_vars(Working) /\ WF_vars(Timing) /\ WF_vars(Booting)
  /\ WF_vars(Expire) /\ WF_vars(Due)

FairSpec == Spec /\ Fairness

-----------------------------------------------------------------------------
(* Properties.                                                             *)

TypeOK ==
  /\ file \in [Statuses -> Job]
  /\ recent \in Seq(Statuses) /\ IsInjective(recent)
  /\ rev \in Nat /\ done \in 0..rev
  /\ ask \in [Asks -> [pc : {"idle", "finding", "marking", "writing", "unlinking",
                             "queued", "lost"},
                       job : Job, at : Statuses \cup {"none"}]]
  /\ worker \in [pc : {"idle", "listed", "renamed", "claimed", "running", "settling", "moving"},
                 job : Job, to : {"none", "pending", "completed", "failed"}]
  /\ timer \in [pc : {"idle", "listed", "moving"}, job : Job, to : {"none"}]
  /\ boot \in {"states", "jobs", "unlinking", "leases", "ready"}
  /\ mishaps \in 0..MaxMishaps /\ overlap \in BOOLEAN

\* A request recorded while the job runs is lost with the run's end in two ways only: its
\* mark is written while complete(), fail() or release() is at work, which have looked for
\* it already, or on a job that the timer, which queued it once more, is about to unlink.
\* Nothing in the code keeps these apart.  Otherwise, as long as the latest event is not
\* taken in, the job is queued, being run, or being enqueued; and the next start makes a
\* lost request good, as it does one whose enqueue a crash cut off.
NoLostRequest ==
  boot = "ready" /\ done < rev /\ ~overlap =>
    \/ Exists("pending") \/ Exists("processing")
    \/ worker.pc # "idle"
    \/ \E a \in Asks : ask[a].pc \in {"finding", "marking", "writing"}

\* The queue empties, even if each run fails, and the process crashes, in between; and
\* then every event is taken in or the job has failed for good, but for such an overlap.
QueueDrains ==
  <>[](~Exists("pending") /\ ~Exists("processing") /\ (overlap \/ done = rev))
=============================================================================
