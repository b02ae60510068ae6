----------------------------- MODULE SearchRuns -----------------------------
(***************************************************************************)
(* The search runs of one chat: agent/src/web/runs, with the session store *)
(* they write (agent/src/web/sessions) and the routes that reach them.     *)
(*                                                                         *)
(* Every piece of SearchRuns' state is keyed by the chat, so one chat is   *)
(* modelled.  The server is single-threaded: an action is the code between *)
(* two awaits, and what happens between two actions is what may happen     *)
(* while an await is pending.  A run's id is a hash of its chat and request*)
(* id, so the request id stands for the run.                               *)
(***************************************************************************)
EXTENDS Naturals, FiniteSets, SequencesExt

CONSTANTS
  Posts,        \* submissions (POST /api/chat), each sent once
  Requests,     \* request ids; two submissions may carry the same one
  NoRun,        \* no request
  Clients,      \* what clients ask for besides submissions
  Provided,     \* the kinds of chunk the provider may stream
  MaxChunks,    \* bound: chunks the provider streams in one run
  MaxRestarts,  \* bound: crashes and restarts of the server
  MaxFaults,    \* bound: storage calls that fail
  Windows       \* unguarded windows of the code that are explored

\* "poll": a read of a journal begun before the run it reads was admitted may
\* be served after.  "delete": a chat may be deleted while it admits a run.
\* A window left out is closed by an extra guard, named where it stands.

ASSUME RequestsAssumption == NoRun \notin Requests
ASSUME BoundsAssumption == MaxChunks \in Nat /\ MaxRestarts \in Nat /\ MaxFaults \in Nat
ASSUME ClientsAssumption == Clients \subseteq {"poll", "put", "stop", "delete", "close"}
ASSUME WindowsAssumption == Windows \subseteq {"poll", "delete"}
ASSUME ProvidedAssumption ==
  Provided \subseteq {"text", "call", "result", "finish", "error", "abort"}

VARIABLES
  journal,    \* disk: .runs/<chat>/<run>/{run.json, events.jsonl}, by request
  session,    \* disk: <chat>.json
  active,     \* memory: the run that owns the chat
  run,        \* memory: the SearchRun objects
  chain,      \* memory: the chat's admissions, oldest first
  post,       \* the submissions and how far their admission has come
  writes,     \* memory: the session store's queued writes of this chat
  loading,    \* memory: journal reads in flight, one per directory
  boot,       \* memory: how far initialize() has come
  closing,    \* memory: how far close() has come
  closeWaits, \* memory: the admissions close() waits for
  stopper,    \* memory: the stop request of each run and what it waits for
  requested,  \* memory: runs stopped by request id
  deleting,   \* memory: a DELETE of the chat whose checks have passed
  executed,   \* history: executions of a run since its chat last was deleted
  effects,    \* history: runs whose tool has taken effect
  doomed,     \* history: runs that owned the chat while it was deleted
  restarts, faults \* bounds

diskVars == <<journal, session>>
admitVars == <<chain, post>>
procVars == <<boot, closing, closeWaits>>
stopVars == <<stopper, requested>>
ghostVars == <<executed, effects, doomed>>
boundVars == <<restarts, faults>>
vars == <<journal, session, active, run, chain, post, writes, loading, boot,
          closing, closeWaits, stopper, requested, deleting, executed, effects,
          doomed, restarts, faults>>

-----------------------------------------------------------------------------
(* Data.  A message is the turn's prompt or its answer; an answer's size is *)
(* the number of chunks it was built from.                                  *)

Runs == Requests \cup {NoRun}
RunStatus == {"running", "completed", "stopped", "failed", "interrupted"}
Chunks == {"text", "call", "result", "closed", "finish", "error", "abort"}
NoChunk == "none"
Message == [run : Requests, role : {"user", "assistant"}, size : Nat]
Record == [prompt : Seq(Message), print : Seq(Message)]

Prompt(r) == [run |-> r, role |-> "user", size |-> 0]
Answer(r, chunks) == [run |-> r, role |-> "assistant", size |-> Len(chunks)]

Ended(chunks) == \E i \in 1..Len(chunks) : chunks[i] \in {"finish", "error", "abort"}

\* track(): a call is open until a result or a settling error closes it.
OpenCall(chunks) ==
  \E i \in 1..Len(chunks) :
    /\ chunks[i] = "call"
    /\ \A j \in (i + 1)..Len(chunks) : chunks[j] \notin {"result", "closed"}

\* runMessages(): the prompt, and the answer if the provider began one.
RunMessages(r, prompt, chunks) ==
  IF chunks # <<>> /\ chunks[1] \notin {"error", "abort"}
  THEN Append(prompt, Answer(r, chunks))
  ELSE prompt

NoRecord == [prompt |-> <<>>, print |-> <<>>]
Absent == [status |-> "absent", record |-> NoRecord, chunks |-> <<>>, tool |-> "none"]
NoSession == [exists |-> FALSE, run |-> NoRun, messages |-> <<>>]
Idle == [phase |-> "none", status |-> "running", record |-> NoRecord, events |-> <<>>,
         pushing |-> NoChunk, abort |-> "no", tool |-> "idle"]
Unsent == [pc |-> "unsent", req |-> NoRun, messages |-> <<>>, print |-> <<>>]

\* The server owns the saved transcript.
Owns == session.exists /\ session.run # NoRun

\* From active.set to active.delete.
Owned == {"creating", "live", "settling", "closing", "saving", "sessioning",
          "upserting", "ending"}

Write(kind, r) == [kind |-> kind, run |-> r]
DeletePending ==
  deleting \/ \E i \in 1..Len(writes) : writes[i].kind \in {"remove", "clear"}

\* Window "delete" closed: nothing else happens to the chat while it is deleted.
Undisturbed == "delete" \in Windows \/ ~DeletePending

Init ==
  /\ journal = [r \in Requests |-> Absent]
  /\ session = NoSession
  /\ active = NoRun
  /\ run = [r \in Requests |-> Idle]
  /\ chain = <<>>
  /\ post = [p \in Posts |-> Unsent]
  /\ writes = <<>>
  /\ loading = [r \in Requests |-> "idle"]
  /\ boot = "ready" /\ closing = "open" /\ closeWaits = {}
  /\ stopper = [r \in Requests |-> [pc |-> "idle", waits |-> {}]]
  /\ requested = {}
  /\ deleting = FALSE
  /\ executed = [r \in Requests |-> 0] /\ effects = {} /\ doomed = {}
  /\ restarts = 0 /\ faults = 0

-----------------------------------------------------------------------------
(* Reading a journal that is not live: load(), readRun() and               *)
(* recoverInterruptedRun(), one read per directory at a time.              *)

\* load(r) by some caller: join the read in flight or begin one.
Joined(r) == [loading EXCEPT ![r] = IF @ = "idle" THEN "reading" ELSE @]

\* A mutant of Loaded: a run that is found is started again.
LoadedForgetful(r, answer) ==
  /\ loading' = [loading EXCEPT ![r] = "idle"]
  /\ post' = [p \in Posts |->
                IF post[p].pc = "finding" /\ post[p].req = r
                THEN [post[p] EXCEPT !.pc = "absent"] ELSE post[p]]

\* A read ends: the admission that waits for it learns whether a run is there.
Loaded(r, answer) ==
  /\ loading' = [loading EXCEPT ![r] = "idle"]
  /\ post' = [p \in Posts |->
                IF post[p].pc = "finding" /\ post[p].req = r
                THEN [post[p] EXCEPT !.pc = answer] ELSE post[p]]

\* GET /run, GET /stream, the check of a DELETE: find() of a run not live.
Poll(r) ==
  /\ "poll" \in Clients
  /\ boot = "ready" /\ active # r /\ loading[r] = "idle"
  /\ loading' = Joined(r)
  /\ UNCHANGED <<diskVars, active, run, admitVars, writes, procVars, stopVars,
                 deleting, ghostVars, boundVars>>

\* A mutant of Orphaned: recovery does not look at the status.
OrphanedAny(r) == journal[r].status # "absent"

\* recoverInterruptedRun() acts on the runs no process finished.
Orphaned(r) == journal[r].status = "running"

LoadRead(r) ==
  /\ loading[r] = "reading"
  /\ "poll" \in Windows \/ active # r  \* window "poll" closed
  /\ Undisturbed
  /\ \/ /\ journal[r].status = "absent"
        /\ Loaded(r, "absent")
     \/ /\ journal[r].status # "absent" /\ ~Orphaned(r)
        /\ Loaded(r, "existing")
     \/ /\ Orphaned(r)
        /\ loading' = [loading EXCEPT ![r] =
                         IF OpenCall(journal[r].chunks) THEN "closing" ELSE "failing"]
        /\ UNCHANGED post
  /\ UNCHANGED <<diskVars, active, run, chain, writes, procVars, stopVars,
                 deleting, ghostVars, boundVars>>

\* publish() of one recovery observation.
LoadPublish(r) ==
  /\ loading[r] \in {"closing", "failing"} /\ journal[r].status # "absent"
  /\ journal' = [journal EXCEPT ![r].chunks =
                   Append(@, IF loading[r] = "closing" THEN "closed" ELSE "error")]
  /\ loading' = [loading EXCEPT ![r] = IF @ = "closing" THEN "failing" ELSE "saving"]
  /\ UNCHANGED <<session, active, run, admitVars, writes, procVars, stopVars,
                 deleting, ghostVars, boundVars>>

\* A write of the recovery fails, as an append does once the directory is gone.
\* initialize() fails with it, and the project's next request tries it again.
LoadFail(r) ==
  /\ \/ /\ loading[r] \in {"closing", "failing", "saving"}
        /\ faults < MaxFaults /\ faults' = faults + 1
     \/ /\ loading[r] \in {"closing", "failing"} /\ journal[r].status = "absent"
        /\ UNCHANGED faults
  /\ Loaded(r, "failed")
  /\ boot' = IF boot = "loading" THEN "starting" ELSE boot
  /\ UNCHANGED <<diskVars, active, run, chain, writes, closing, closeWaits, stopVars,
                 deleting, ghostVars, restarts>>

\* journal.save(), which makes the directory anew if it was removed meanwhile.
LoadSave(r) ==
  /\ loading[r] = "saving"
  /\ journal' = [journal EXCEPT ![r].status = "interrupted"]
  /\ Loaded(r, "existing")
  /\ UNCHANGED <<session, active, run, chain, writes, procVars, stopVars,
                 deleting, ghostVars, boundVars>>

-----------------------------------------------------------------------------
(* Admission: admit() chains start() behind the chat's earlier admissions. *)

Answering(p, pc) == post' = [post EXCEPT ![p].pc = pc]

\* start() ends for the head of the chain.
Reply(p, pc) ==
  /\ Answering(p, pc)
  /\ chain' = Tail(chain)

AtHead(p, pc) == chain # <<>> /\ Head(chain) = p /\ post[p].pc = pc

\* What is regenerated from: the chat without its last answer, if it has one.
Regenerated(saved) ==
  IF saved # <<>> /\ Last(saved).role = "assistant" THEN Front(saved) ELSE saved

\* What a tab can submit: its view of the chat and a new prompt, the same with
\* the last answer dropped (regenerate), or an earlier submission again.
Submittable(r) ==
  LET seen == session.messages
  IN  {Append(seen, Prompt(r))} \cup ({Regenerated(seen)} \ {<<>>})
        \cup {post[q].print : q \in {q \in Posts : post[q].req = r}}

Submit(p, r, messages) ==
  /\ boot = "ready" /\ post[p].pc = "unsent"
  /\ post' = [post EXCEPT ![p] = [pc |-> "queued", req |-> r,
                                  messages |-> messages, print |-> messages]]
  /\ chain' = Append(chain, p)
  /\ UNCHANGED <<diskVars, active, run, writes, loading, procVars, stopVars,
                 deleting, ghostVars, boundVars>>

\* start(): refused once close() began, else find() the run of this request.
StartFind(p) ==
  LET r == post[p].req IN
  /\ AtHead(p, "queued") /\ Undisturbed
  /\ \/ /\ closing # "open"
        /\ Reply(p, "refused")
        /\ UNCHANGED loading
     \/ /\ closing = "open" /\ active = r
        /\ Answering(p, "existing")
        /\ UNCHANGED <<chain, loading>>
     \/ /\ closing = "open" /\ active # r
        /\ Answering(p, "finding")
        /\ loading' = Joined(r)
        /\ UNCHANGED chain
  /\ UNCHANGED <<diskVars, active, run, writes, procVars, stopVars, deleting,
                 ghostVars, boundVars>>

\* The request has a run: hand it back, unless it was for other messages.
StartExisting(p) ==
  LET r == post[p].req
      print == IF active = r THEN run[r].record.print ELSE journal[r].record.print
  IN
  /\ AtHead(p, "existing")
  /\ Reply(p, IF print = post[p].print THEN "accepted" ELSE "conflict")
  /\ UNCHANGED <<diskVars, active, run, writes, loading, procVars, stopVars,
                 deleting, ghostVars, boundVars>>

\* Reading the existing run failed: the submission fails with it.
StartBroken(p) ==
  /\ AtHead(p, "failed")
  /\ Reply(p, "failed")
  /\ UNCHANGED <<diskVars, active, run, writes, loading, procVars, stopVars,
                 deleting, ghostVars, boundVars>>

\* validateHistory(): the submitted messages extend the saved ones (or, to
\* regenerate, are the saved ones without the last answer, or all of them when the
\* last prompt has none); prompts and answers are compared by id, and the server's
\* own copies are kept.
Keys(messages) == [i \in 1..Len(messages) |-> <<messages[i].run, messages[i].role>>]

\* A mutant of Continues: any history is taken.
ContinuesAny(saved, submitted) == TRUE

Continues(saved, submitted) ==
  \/ Len(submitted) > Len(saved) /\ IsPrefix(Keys(saved), Keys(submitted))
  \/ Keys(submitted) = Keys(Regenerated(saved))

Kept(saved, submitted) ==
  [i \in 1..Len(submitted) |-> IF i <= Len(saved) THEN saved[i] ELSE submitted[i]]

\* A mutant of Busy: the owner of the chat is not looked at.
BusyNever == FALSE

Busy == active # NoRun

StartValidate(p) ==
  /\ AtHead(p, "absent")
  /\ IF Busy THEN Reply(p, "conflict")
     ELSE IF Owns
     THEN IF Continues(session.messages, post[p].messages)
          THEN /\ post' = [post EXCEPT ![p].pc = "validated",
                                       ![p].messages = Kept(session.messages, @)]
               /\ UNCHANGED chain
          ELSE Reply(p, "conflict")
     ELSE Answering(p, "validated") /\ UNCHANGED chain
  /\ UNCHANGED <<diskVars, active, run, writes, loading, procVars, stopVars,
                 deleting, ghostVars, boundVars>>

\* A mutant of Stopped: early stops are forgotten.
StoppedNever(r) == FALSE

Stopped(r) == r \in requested

\* stops.check() and active.set(), with no await between them.
StartActivate(p) ==
  LET r == post[p].req IN
  /\ AtHead(p, "validated")
  /\ IF Stopped(r)
     THEN Reply(p, "conflict") /\ UNCHANGED <<active, run, doomed>>
     ELSE /\ Answering(p, "creating")
          /\ active' = r
          /\ run' = [run EXCEPT ![r] = [Idle EXCEPT !.phase = "creating",
                       !.record = [prompt |-> post[p].messages, print |-> post[p].print]]]
          /\ doomed' = doomed \ {r}
          /\ UNCHANGED chain
  /\ UNCHANGED <<diskVars, writes, loading, procVars, stopVars, deleting,
                 executed, effects, boundVars>>

StartCreate(p) ==
  LET r == post[p].req IN
  /\ AtHead(p, "creating")
  /\ journal' = [journal EXCEPT ![r] =
                   [status |-> "running", record |-> run[r].record,
                    chunks |-> <<>>, tool |-> "none"]]
  /\ Answering(p, "created")
  /\ UNCHANGED <<session, active, run, chain, writes, loading, procVars, stopVars,
                 deleting, ghostVars, boundVars>>

\* sessions.load() for the title, then upsert() joins the session's writes.
StartUpsert(p) ==
  /\ AtHead(p, "created")
  /\ Answering(p, "upserting")
  /\ writes' = Append(writes, Write("admit", post[p].req))
  /\ UNCHANGED <<diskVars, active, run, chain, loading, procVars, stopVars,
                 deleting, ghostVars, boundVars>>

\* journal.create() or upsert() fails: discard the journal, free the chat.
StartFail(p) ==
  LET r == post[p].req IN
  /\ faults < MaxFaults
  /\ \/ AtHead(p, "creating") /\ UNCHANGED writes
     \/ /\ AtHead(p, "upserting") /\ writes # <<>> /\ Head(writes) = Write("admit", r)
        /\ writes' = Tail(writes)
  /\ journal' = [journal EXCEPT ![r] = Absent]
  /\ active' = NoRun
  /\ run' = [run EXCEPT ![r] = Idle]
  /\ Reply(p, "failed")
  /\ faults' = faults + 1
  /\ UNCHANGED <<session, loading, procVars, stopVars, deleting, ghostVars, restarts>>

-----------------------------------------------------------------------------
(* The session store: writes of one chat run one after another.            *)

Serve(kind) == writes # <<>> /\ Head(writes).kind = kind

\* upsert() by start(); then executeRun() begins and the submission is answered.
WriteAdmit(p) ==
  LET r == post[p].req IN
  /\ AtHead(p, "upserting") /\ Serve("admit")
  /\ writes' = Tail(writes)
  /\ session' = [exists |-> TRUE, run |-> r, messages |-> run[r].record.prompt]
  /\ run' = [run EXCEPT ![r].phase = "live"]
  /\ executed' = [executed EXCEPT ![r] = @ + 1]
  /\ Reply(p, "accepted")
  /\ UNCHANGED <<journal, active, loading, procVars, stopVars, deleting, effects,
                 doomed, boundVars>>

\* upsert() by saveRunSession(); when it fails the run fails, its journal saved.
WriteSave ==
  LET r == Head(writes).run IN
  /\ Serve("save")
  /\ writes' = Tail(writes)
  /\ \/ /\ session' = [exists |-> TRUE, run |-> r,
                      messages |-> RunMessages(r, run[r].record.prompt, run[r].events)]
        /\ run' = [run EXCEPT ![r].phase = "ending"]
        /\ UNCHANGED faults
     \/ /\ faults < MaxFaults /\ faults' = faults + 1
        /\ run' = [run EXCEPT ![r].phase = "ending", ![r].status = "failed"]
        /\ UNCHANGED session
  /\ UNCHANGED <<journal, active, admitVars, loading, procVars, stopVars, deleting,
                 ghostVars, restarts>>

\* PUT /api/sessions/<chat>: a browser's own copy never replaces a transcript
\* the server owns.
Put ==
  /\ "put" \in Clients
  /\ boot = "ready"
  /\ \A i \in 1..Len(writes) : writes[i].kind # "put"
  /\ writes' = Append(writes, Write("put", NoRun))
  /\ UNCHANGED <<diskVars, active, run, admitVars, loading, procVars, stopVars,
                 deleting, ghostVars, boundVars>>

WritePut ==
  /\ Serve("put")
  /\ writes' = Tail(writes)
  /\ session' = IF Owns THEN session
                ELSE [exists |-> TRUE, run |-> NoRun, messages |-> <<>>]
  /\ UNCHANGED <<journal, active, run, admitVars, loading, procVars, stopVars,
                 deleting, ghostVars, boundVars>>

\* DELETE: refused while the run the session points at is live.  The check and
\* remove() are separated by find()'s reads, so it is stale when remove() acts.
DeleteCheck ==
  /\ "delete" \in Clients
  /\ boot = "ready" /\ ~DeletePending
  /\ Owns => /\ session.run # active
             /\ ~Orphaned(session.run)  \* find() would have recovered it: Poll
  /\ \/ "delete" \in Windows
     \/ /\ chain = <<>> /\ active = NoRun  \* window "delete" closed
        /\ \A r \in Requests : loading[r] = "idle"
  /\ deleting' = TRUE
  /\ UNCHANGED <<diskVars, active, run, admitVars, writes, loading, procVars,
                 stopVars, ghostVars, boundVars>>

DeleteEnqueue ==
  /\ deleting
  /\ deleting' = FALSE
  /\ writes' = Append(writes, Write("remove", NoRun))
  /\ UNCHANGED <<diskVars, active, run, admitVars, loading, procVars, stopVars,
                 ghostVars, boundVars>>

\* remove(): unlink the session first; nothing more if it is already gone.
WriteRemove ==
  /\ Serve("remove")
  /\ writes' = IF session.exists THEN <<Write("clear", NoRun)>> \o Tail(writes)
               ELSE Tail(writes)
  /\ session' = NoSession
  /\ doomed' = IF session.exists /\ active # NoRun THEN doomed \cup {active} ELSE doomed
  /\ UNCHANGED <<journal, active, run, admitVars, loading, procVars, stopVars,
                 deleting, executed, effects, boundVars>>

\* ... and then every run of the chat.
WriteClear ==
  /\ Serve("clear")
  /\ writes' = Tail(writes)
  /\ journal' = [r \in Requests |-> Absent]
  /\ executed' = [r \in Requests |-> IF r = active THEN executed[r] ELSE 0]
  /\ effects' = effects \cap {active}
  /\ UNCHANGED <<session, active, run, admitVars, loading, procVars, stopVars,
                 deleting, doomed, boundVars>>

-----------------------------------------------------------------------------
(* executeRun(): consume the provider's stream, run its tool, settle, save. *)

Step(r, phase) == run[r].phase = phase /\ run[r].pushing = NoChunk

\* journal.append() succeeds only where the run's directory still stands.
Durable(r) == journal[r].status # "absent"

Published(r, c) == [journal EXCEPT ![r].chunks = Append(@, c)]

\* consumeRun(): journal a chunk of the stream; Push delivers it.
Emit(r, c) ==
  /\ Step(r, "live") /\ run[r].abort = "no" /\ Durable(r)
  /\ Len(run[r].events) < MaxChunks /\ ~Ended(run[r].events)
  /\ c = "call" => ~\E i \in 1..Len(run[r].events) : run[r].events[i] = "call"
  /\ c = "result" => OpenCall(run[r].events) /\ run[r].tool = "recorded"
  /\ c = "finish" => run[r].events # <<>>
  /\ journal' = Published(r, c)
  /\ run' = [run EXCEPT ![r].pushing = c,
                        ![r].status = CASE c = "error" -> "failed"
                                        [] c = "abort" -> "stopped"
                                        [] OTHER -> @]
  /\ UNCHANGED <<session, active, admitVars, writes, loading, procVars, stopVars,
                 deleting, ghostVars, boundVars>>

\* publish() after its append: the subscribers of the run see the chunk.
Push(r) ==
  /\ run[r].pushing # NoChunk
  /\ run' = [run EXCEPT ![r].events = Append(@, run[r].pushing), ![r].pushing = NoChunk]
  /\ UNCHANGED <<diskVars, active, admitVars, writes, loading, procVars, stopVars,
                 deleting, ghostVars, boundVars>>

\* The append of a chunk fails: the run is aborted and fails.
EmitFail(r) ==
  /\ Step(r, "live") /\ run[r].abort = "no"
  /\ Len(run[r].events) < MaxChunks
  /\ IF Durable(r) THEN faults < MaxFaults /\ faults' = faults + 1 ELSE UNCHANGED faults
  /\ run' = [run EXCEPT ![r].abort = "error", ![r].status = "failed", ![r].phase = "settling"]
  /\ UNCHANGED <<diskVars, active, admitVars, writes, loading, procVars, stopVars,
                 deleting, ghostVars, restarts>>

\* The stream ends, or generate() throws before it began.
StreamEnd(r) ==
  /\ Step(r, "live") /\ run[r].abort = "no"
  /\ run' = [run EXCEPT
       ![r].phase = "settling",
       ![r].abort = IF Ended(run[r].events) THEN @ ELSE "error",
       ![r].status = IF ~Ended(run[r].events) THEN "failed"
                     ELSE IF @ = "running" THEN "completed" ELSE @]
  /\ UNCHANGED <<diskVars, active, admitVars, writes, loading, procVars, stopVars,
                 deleting, ghostVars, boundVars>>

\* throwIfAborted() around each read.
AbortSeen(r) ==
  /\ Step(r, "live") /\ run[r].abort # "no"
  /\ run' = [run EXCEPT
       ![r].phase = "settling",
       ![r].status = CASE run[r].abort = "shutdown" -> "interrupted"
                       [] run[r].abort = "stop" -> "stopped"
                       [] OTHER -> "failed"]
  /\ UNCHANGED <<diskVars, active, admitVars, writes, loading, procVars, stopVars,
                 deleting, ghostVars, boundVars>>

\* A mutant of Noted: the tool's start is not journalled.
NotedNever(r, state) == IF state = "started" THEN journal ELSE [journal EXCEPT ![r].tool = state]

Noted(r, state) == [journal EXCEPT ![r].tool = state]

\* executeRecorded(): the start is durable before the tool runs, ...
ToolStart(r) ==
  /\ run[r].phase = "live" /\ run[r].abort = "no" /\ run[r].tool = "idle"
  /\ "call" \in Provided
  /\ \/ /\ Durable(r)
        /\ journal' = Noted(r, "started")
        /\ run' = [run EXCEPT ![r].tool = "started"]
        /\ UNCHANGED faults
     \/ /\ IF Durable(r) THEN faults < MaxFaults /\ faults' = faults + 1
           ELSE UNCHANGED faults
        /\ run' = [run EXCEPT ![r].tool = "lost", ![r].abort = "error"]
        /\ UNCHANGED journal
  /\ UNCHANGED <<session, active, admitVars, writes, loading, procVars, stopVars,
                 deleting, ghostVars, restarts>>

ToolEffect(r) ==
  /\ run[r].tool = "started"
  /\ run' = [run EXCEPT ![r].tool = "effect"]
  /\ effects' = effects \cup {r}
  /\ UNCHANGED <<diskVars, active, admitVars, writes, loading, procVars, stopVars,
                 deleting, executed, doomed, boundVars>>

\* ... and its outcome is durable before the agent sees it.
ToolRecord(r) ==
  /\ run[r].tool = "effect"
  /\ \/ /\ Durable(r)
        /\ journal' = Noted(r, "completed")
        /\ run' = [run EXCEPT ![r].tool = "recorded"]
        /\ UNCHANGED faults
     \/ /\ IF Durable(r) THEN faults < MaxFaults /\ faults' = faults + 1
           ELSE UNCHANGED faults
        /\ run' = [run EXCEPT ![r].tool = "lost",
                              ![r].abort = IF @ = "no" THEN "error" ELSE @]
        /\ UNCHANGED journal
  /\ UNCHANGED <<session, active, admitVars, writes, loading, procVars, stopVars,
                 deleting, ghostVars, restarts>>

\* A mutant of Settle: every run goes straight to its save.
SettleHasty(r) ==
  /\ Step(r, "settling") /\ run[r].tool \notin {"started", "effect"}
  /\ run' = [run EXCEPT ![r].phase = "saving"]
  /\ UNCHANGED <<diskVars, active, admitVars, writes, loading, procVars, stopVars,
                 deleting, ghostVars, boundVars>>

\* Promise.allSettled(pending): the tools have ended.
Settle(r) ==
  /\ Step(r, "settling") /\ run[r].tool \notin {"started", "effect"}
  /\ run' = [run EXCEPT ![r].phase =
               IF run[r].status = "completed" THEN "saving" ELSE "closing"]
  /\ UNCHANGED <<diskVars, active, admitVars, writes, loading, procVars, stopVars,
                 deleting, ghostVars, boundVars>>

\* finishInterruptedRun(): close the open call, then publish why the run ended.
\* A failing append is swallowed.
CloseEvents(r) ==
  LET open == OpenCall(run[r].events)
      c == IF open THEN "closed"
           ELSE IF run[r].status = "stopped" THEN "abort" ELSE "error"
  IN
  /\ Step(r, "closing")
  /\ \/ /\ Durable(r)
        /\ journal' = Published(r, c)
        /\ run' = [run EXCEPT ![r].pushing = c,
                              ![r].phase = IF open THEN @ ELSE "saving"]
        /\ UNCHANGED faults
     \/ /\ IF Durable(r) THEN faults < MaxFaults /\ faults' = faults + 1
           ELSE UNCHANGED faults
        /\ run' = [run EXCEPT ![r].phase = "saving"]
        /\ UNCHANGED journal
  /\ UNCHANGED <<session, active, admitVars, writes, loading, procVars, stopVars,
                 deleting, ghostVars, restarts>>

\* journal.save() of the terminal record; it creates the directory if need be.
\* When it fails the transcript is not saved either, and the run fails.
Save(r) ==
  /\ Step(r, "saving")
  /\ \/ /\ journal' = [journal EXCEPT ![r].status = run[r].status,
                                      ![r].record = run[r].record]
        /\ run' = [run EXCEPT ![r].phase = "sessioning"]
        /\ UNCHANGED faults
     \/ /\ faults < MaxFaults /\ faults' = faults + 1
        /\ run' = [run EXCEPT ![r].phase = "ending", ![r].status = "failed"]
        /\ UNCHANGED journal
  /\ UNCHANGED <<session, active, admitVars, writes, loading, procVars, stopVars,
                 deleting, ghostVars, restarts>>

\* saveRunSession(): only while the session still points at this run.
SaveSession(r) ==
  LET messages == RunMessages(r, run[r].record.prompt, run[r].events)
      due == session.exists /\ session.run = r /\ session.messages # messages
  IN
  /\ Step(r, "sessioning")
  /\ writes' = IF due THEN Append(writes, Write("save", r)) ELSE writes
  /\ run' = [run EXCEPT ![r].phase = IF due THEN "upserting" ELSE "ending"]
  /\ UNCHANGED <<diskVars, active, admitVars, loading, procVars, stopVars, deleting,
                 ghostVars, boundVars>>

\* active.delete(), settled and notify(): run.done resolves.
End(r) ==
  /\ Step(r, "ending")
  /\ active' = NoRun
  /\ run' = [run EXCEPT ![r].phase = "done"]
  /\ UNCHANGED <<diskVars, admitVars, writes, loading, procVars, stopVars, deleting,
                 ghostVars, boundVars>>

-----------------------------------------------------------------------------
(* RunStops: a Stop by request id is remembered; a Stop by run id needs one. *)

Stop(r, byRequest) ==
  /\ "stop" \in Clients
  /\ boot = "ready" /\ stopper[r].pc = "idle"
  /\ byRequest \/ run[r].phase # "none"
  /\ stopper' = [stopper EXCEPT ![r] = [pc |-> "waiting", waits |-> ToSet(chain)]]
  /\ requested' = IF byRequest THEN requested \cup {r} ELSE requested
  /\ UNCHANGED <<diskVars, active, run, admitVars, writes, loading, procVars,
                 deleting, ghostVars, boundVars>>

\* A mutant of Aborted: the abort does not reach the run.
AbortedNever(r, reason) == run

Aborted(r, reason) == [run EXCEPT ![r].abort = IF @ = "no" THEN reason ELSE @]

\* The captured admission ended: find() the run and abort it.  Until its
\* admission ends a run's done is an empty promise, which waits for nothing.
StopFind(r) ==
  /\ stopper[r].pc = "waiting" /\ stopper[r].waits \cap ToSet(chain) = {}
  /\ IF active = r
     THEN /\ run' = Aborted(r, "stop")
          /\ stopper' = [stopper EXCEPT ![r].pc =
                           IF run[r].phase = "creating" THEN "returned" ELSE "aborted"]
          /\ UNCHANGED loading
     ELSE /\ stopper' = [stopper EXCEPT ![r].pc = "returned"]
          /\ loading' = Joined(r)
          /\ UNCHANGED run
  /\ UNCHANGED <<diskVars, active, admitVars, writes, procVars, requested, deleting,
                 ghostVars, boundVars>>

\* await run.done.
StopDone(r) ==
  /\ stopper[r].pc = "aborted" /\ run[r].phase = "done"
  /\ stopper' = [stopper EXCEPT ![r].pc = "returned"]
  /\ UNCHANGED <<diskVars, active, run, admitVars, writes, loading, procVars,
                 requested, deleting, ghostVars, boundVars>>

-----------------------------------------------------------------------------
(* close(), crashes, and initialize() of the next process.                 *)

CloseBegin ==
  /\ "close" \in Clients
  /\ boot = "ready" /\ closing = "open"
  /\ closing' = "closing"
  /\ UNCHANGED <<diskVars, active, run, admitVars, writes, loading, boot, closeWaits,
                 stopVars, deleting, ghostVars, boundVars>>

\* Schedules and background jobs have closed: wait for the admissions, ...
CloseWait ==
  /\ closing = "closing"
  /\ closing' = "waiting"
  /\ closeWaits' = ToSet(chain)
  /\ UNCHANGED <<diskVars, active, run, admitVars, writes, loading, boot, stopVars,
                 deleting, ghostVars, boundVars>>

\* A mutant of Admitted: close() does not wait for the admissions.
AdmittedAlways == TRUE

Admitted == closeWaits \cap ToSet(chain) = {}

\* ... abort the run that is live, ...
CloseAbort ==
  /\ closing = "waiting" /\ Admitted
  /\ closing' = "aborting"
  /\ run' = IF active = NoRun THEN run ELSE Aborted(active, "shutdown")
  /\ UNCHANGED <<diskVars, active, admitVars, writes, loading, boot, closeWaits,
                 stopVars, deleting, ghostVars, boundVars>>

\* ... and wait for it.
CloseDone ==
  /\ closing = "aborting" /\ active = NoRun
  /\ closing' = "closed"
  /\ UNCHANGED <<diskVars, active, run, admitVars, writes, loading, boot, closeWaits,
                 stopVars, deleting, ghostVars, boundVars>>

\* The process ends, in an orderly way or not, and another takes over the disk.
Restart ==
  /\ restarts < MaxRestarts
  /\ restarts' = restarts + 1
  /\ boot' = "starting" /\ closing' = "open" /\ closeWaits' = {}
  /\ active' = NoRun
  /\ run' = [r \in Requests |-> Idle]
  /\ chain' = <<>> /\ writes' = <<>>
  /\ post' = [p \in Posts |-> IF p \in ToSet(chain)
                              THEN [post[p] EXCEPT !.pc = "lost"] ELSE post[p]]
  /\ loading' = [r \in Requests |-> "idle"]
  /\ stopper' = [r \in Requests |-> [pc |-> "idle", waits |-> {}]]
  /\ requested' = {}
  /\ deleting' = FALSE
  /\ UNCHANGED <<diskVars, ghostVars, faults>>

\* recover(): load the run the session points at, ...
BootLoad ==
  /\ boot = "starting"
  /\ IF Owns
     THEN boot' = "loading" /\ loading' = Joined(session.run)
     ELSE boot' = "ready" /\ UNCHANGED loading
  /\ UNCHANGED <<diskVars, active, run, admitVars, writes, closing, closeWaits,
                 stopVars, deleting, ghostVars, boundVars>>

\* ... and save its transcript if it differs.
BootSave ==
  LET r == session.run
      messages == RunMessages(r, journal[r].record.prompt, journal[r].chunks)
  IN
  /\ boot = "loading" /\ loading[r] = "idle"
  /\ boot' = "ready"
  /\ session' = IF Durable(r) THEN [session EXCEPT !.messages = messages] ELSE session
  /\ UNCHANGED <<journal, active, run, admitVars, writes, loading, closing, closeWaits,
                 stopVars, deleting, ghostVars, boundVars>>

-----------------------------------------------------------------------------
Admission(p) ==
  \/ StartFind(p) \/ StartExisting(p) \/ StartBroken(p) \/ StartValidate(p)
  \/ StartActivate(p) \/ StartCreate(p) \/ StartUpsert(p) \/ WriteAdmit(p)

Loader(r) == LoadRead(r) \/ LoadPublish(r) \/ LoadFail(r) \/ LoadSave(r)

\* What the server does on its own once a run is asked to end.
Worker(r) ==
  \/ Push(r) \/ AbortSeen(r) \/ ToolEffect(r) \/ ToolRecord(r) \/ Settle(r)
  \/ CloseEvents(r) \/ Save(r) \/ SaveSession(r) \/ End(r)

Stream(r) == (\E c \in Provided : Emit(r, c)) \/ EmitFail(r) \/ StreamEnd(r) \/ ToolStart(r)

Store == WriteSave \/ WritePut \/ DeleteEnqueue \/ WriteRemove \/ WriteClear

Closing == CloseWait \/ CloseAbort \/ CloseDone

Next ==
  \/ \E p \in Posts, r \in Requests : \E m \in Submittable(r) : Submit(p, r, m)
  \/ \E p \in Posts : Admission(p) \/ StartFail(p)
  \/ \E r \in Requests : Poll(r) \/ Loader(r) \/ Worker(r) \/ Stream(r)
  \/ \E r \in Requests, b \in BOOLEAN : Stop(r, b)
  \/ \E r \in Requests : StopFind(r) \/ StopDone(r)
  \/ Put \/ DeleteCheck \/ Store
  \/ CloseBegin \/ Closing
  \/ Restart \/ BootLoad \/ BootSave

Spec == Init /\ [][Next]_vars

\* The event loop runs every continuation whose await has been answered: each
\* file operation ends, and so does a tool once it was started.  Nothing is
\* assumed of clients or of the provider, who may never send another chunk.
Fairness ==
  /\ \A p \in Posts : WF_vars(Admission(p))
  /\ \A r \in Requests : WF_vars(Loader(r)) /\ WF_vars(Worker(r))
  /\ \A r \in Requests : WF_vars(StopFind(r)) /\ WF_vars(StopDone(r))
  /\ WF_vars(Store) /\ WF_vars(Closing) /\ WF_vars(BootLoad) /\ WF_vars(BootSave)

FairSpec == Spec /\ Fairness

-----------------------------------------------------------------------------
(* Properties.                                                              *)

TypeOK ==
  /\ journal \in [Requests -> [status : RunStatus \cup {"absent"}, record : Record,
                               chunks : Seq(Chunks), tool : {"none", "started", "completed"}]]
  /\ session \in [exists : BOOLEAN, run : Runs, messages : Seq(Message)]
  /\ active \in Runs
  /\ run \in [Requests -> [phase : Owned \cup {"none", "done"}, status : RunStatus,
        record : Record, events : Seq(Chunks), pushing : Chunks \cup {NoChunk},
        abort : {"no", "stop", "shutdown", "error"},
        tool : {"idle", "started", "effect", "recorded", "lost"}]]
  /\ chain \in Seq(Posts)
  /\ post \in [Posts -> [pc : {"unsent", "queued", "finding", "existing", "absent",
                              "validated", "creating", "created", "upserting", "failed",
                              "accepted", "conflict", "refused", "lost"},
                         req : Runs, messages : Seq(Message), print : Seq(Message)]]
  /\ writes \in Seq([kind : {"admit", "save", "put", "remove", "clear"}, run : Runs])
  /\ loading \in [Requests -> {"idle", "reading", "closing", "failing", "saving"}]
  /\ boot \in {"starting", "loading", "ready"}
  /\ closing \in {"open", "closing", "waiting", "aborting", "closed"}
  /\ closeWaits \subseteq Posts
  /\ stopper \in [Requests -> [pc : {"idle", "waiting", "aborted", "returned"},
                               waits : SUBSET Posts]]
  /\ requested \subseteq Requests
  /\ deleting \in BOOLEAN
  /\ executed \in [Requests -> Nat] /\ effects \subseteq Requests /\ doomed \subseteq Requests
  /\ restarts \in 0..MaxRestarts /\ faults \in 0..MaxFaults

\* One owner per chat: a run between active.set and active.delete is the active
\* one, so two runs of a chat never generate, journal or save at the same time,
\* however their submissions, stops and restarts interleave.
OneOwner == \A r \in Requests : run[r].phase \in Owned => active = r

\* A submission is executed at most once, whether it is sent twice at the same
\* time, again after its answer, or again after a crash at any point: completed
\* calls are replayed as observations, never executed.
OneExecution == \A r \in Requests : executed[r] <= 1

\* Once a Stop by request id has answered, its run is not live and never will be,
\* even if the submission was still being read when the Stop came.
StopIsFinal ==
  \A r \in Requests : stopper[r].pc = "returned" /\ r \in requested => run[r].phase \notin Owned

\* When close() has returned nothing of the chat is running, and no admission
\* that was still on its way starts a run after it.
CloseQuiesces == closing = "closed" => \A r \in Requests : run[r].phase \notin Owned

\* A tool that took effect left a durable start, so no effect goes unreported;
\* a result in the transcript was recorded before the agent saw it; and what a
\* subscriber of a live run was sent is on disk, so that after any crash the journal
\* replays at least what every browser has seen.
EffectsAreRecorded ==
  \A r \in Requests :
    /\ run[r].phase \in Owned \ {"creating"} => IsPrefix(run[r].events, journal[r].chunks)
    /\ r \in effects => journal[r].tool # "none"
    /\ (\E i \in 1..Len(journal[r].chunks) : journal[r].chunks[i] = "result")
         => journal[r].tool = "completed"

\* A transcript that ended by a stop, an error or a restart is settled: its open
\* call is closed and its last chunk says why it ended.  And while nothing runs, the
\* saved chat shows all its last run journalled, also when the process died between
\* the run's last write and the chat's.
SettledTranscript ==
  /\ \A r \in Requests :
       journal[r].status \in {"stopped", "failed", "interrupted"} =>
         /\ ~OpenCall(journal[r].chunks)
         /\ journal[r].chunks # <<>> /\ Last(journal[r].chunks) \in {"error", "abort"}
  /\ boot = "ready" /\ active = NoRun /\ Owns =>
       LET j == journal[session.run]
       IN  j.status \in RunStatus \ {"running"} =>
             session.messages = RunMessages(session.run, j.record.prompt, j.chunks)

\* A saved prompt is never lost or reordered: neither a stale tab, a browser's
\* autosave, a retry nor an older run shortens the history of an owned chat; and a
\* new run answers all the prompts its tab submitted, and no others.
Prompts[messages \in Seq(Message)] ==
  IF messages = <<>> THEN <<>>
  ELSE LET earlier == Prompts[Front(messages)]
       IN  IF Last(messages).role = "user" THEN Append(earlier, Last(messages).run) ELSE earlier
HistoryKept ==
  [][Owns /\ session'.exists =>
       /\ IsPrefix(Prompts[session.messages], Prompts[session'.messages])
       /\ session'.run # session.run =>
            Prompts[session'.messages] = Prompts[run[session'.run].record.print]]_<<session, run>>

\* persistence.ts: a run cannot "resurrect a deleted chat".  A run that was admitted
\* when the chat was deleted does not bring it back.
DeletedStaysDeleted == Owns => session.run \notin doomed

\* recovery.ts: "Loaded journals have no live owner".
LoadedHasNoOwner ==
  \A r \in Requests : loading[r] \in {"closing", "failing", "saving"} => run[r].phase \notin Owned

\* A Stop answers, and close() ends, even while the provider is silent, unless the
\* process dies first; and a submission is answered, unless it dies while admitting it.
RequestsEnd ==
  /\ \A r \in Requests : stopper[r].pc # "idle" ~> stopper[r].pc \in {"returned", "idle"}
  /\ closing # "open" ~> closing \in {"closed", "open"}
  /\ \A p \in Posts : post[p].pc = "queued" ~>
       post[p].pc \in {"accepted", "conflict", "refused", "failed", "lost"}

\* What a run promises whoever asks for it later: RunOutcomes.
Outcomes == INSTANCE RunOutcomes WITH outcome <- [r \in Requests |-> journal[r].status]
OutcomesAreKept == Outcomes!Spec
=============================================================================
