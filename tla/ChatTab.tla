------------------------------ MODULE ChatTab ------------------------------
(***************************************************************************)
(* A browser's tab and its chat (agent/web-ui/src/sessions): the queue of  *)
(* turns (turn-queue.ts), the transport that submits them, follows their   *)
(* runs, reconnects, retries and stops (run-transport.ts), and the updates *)
(* of a chat that others extend (scheduled-chat-updates.ts), against the   *)
(* server's runs of that chat as the tab sees them (agent/src/web/runs).   *)
(* SearchRuns models the inside of that server.                            *)
(*                                                                         *)
(* A prompt and a request are numbers, a run its place in `runs'.  What an *)
(* answer shows is a sequence of pairs: a run and the event of it.         *)
(***************************************************************************)
EXTENDS Naturals, Sequences, SequencesExt

CONSTANTS
  Attempts, \* retries of an admission, and reconnections of a stream: 3 in the code
  Events,   \* of a run, at most
  Limits,   \* bounds, see below
  Windows   \* what is explored of what the code leaves open

\* "overtaken": the chat is extended between the tab's reads of its messages and its run;
\* "withdrawn": a regeneration is stopped while the chat is saved; "impatient": an answer
\* whose connection failed is regenerated although its run may go on; "settling": the tab goes on
\* when it knows that a run has ended, before what there is of it is saved.
ASSUME TabConstants == /\ Attempts \in Nat /\ Events \in Nat \ {0}
                       /\ Windows \subseteq {"overtaken", "withdrawn", "impatient", "settling"}

\* asked: prompts of the tab, others: turns of other tabs and schedules.
Bounds == [asked : Nat, others : Nat, stops : Nat, again : Nat, lost : Nat,
           reloads : Nat, restarts : Nat]
ASSUME TabLimits == Limits \subseteq Bounds

VARIABLES
  runs,    \* of this chat, as they were admitted
  session, \* its saved messages and the run that owns them
  refused, \* requests that were stopped, whenever they are read
  mail,    \* submissions on their way, with the server's reply
  tab,
  poll,    \* the session a look for scheduled turns has read
  limit

vars == <<runs, session, refused, mail, tab, poll, limit>>

-----------------------------------------------------------------------------
(* Messages                                                                *)

Question(p) == [prompt |-> p, run |-> 0, parts |-> <<>>]
Answer(r, parts) == [prompt |-> 0, run |-> r, parts |-> parts]
Answered(ms) == ms # <<>> /\ Last(ms).run # 0
Unanswered(ms) == IF Answered(ms) THEN Front(ms) ELSE ms
Asked(ms) == {ms[i].prompt : i \in 1..Len(ms)} \ {0}

\* The parser's state of a stream starts from the last message, and is written over it
\* when it has its id.
Draft(ms) == IF Answered(ms) THEN Last(ms).parts ELSE <<>>
Written(ms, r, parts) ==
  Append(IF Answered(ms) /\ Last(ms).run = r THEN Front(ms) ELSE ms, Answer(r, parts))

-----------------------------------------------------------------------------
(* The server                                                              *)

Ended(r) == runs[r].status # "running"
Active == {r \in 1..Len(runs) : ~runs[r].settled}
Requested(q) == {r \in 1..Len(runs) : q # 0 /\ runs[r].req = q}

NewRun(m) ==
  [req |-> m.req, regen |-> m.regen, mine |-> m.mine, messages |-> m.messages, n |-> 0,
   status |-> "running", stop |-> FALSE, settled |-> FALSE]
Prompt(r) == Last(runs[r].messages).prompt
Transcript(r) ==
  runs[r].messages \o
    (IF runs[r].n = 0 THEN <<>> ELSE <<Answer(r, [k \in 1..runs[r].n |-> <<r, k>>])>>)

\* A follow-up contains the saved history, a regeneration all of it but the last answer;
\* the run goes on from the saved one.
History(m) == IF session.run = 0 THEN <<>>
              ELSE IF m.regen THEN Unanswered(session.messages) ELSE session.messages
SameHistory(m) ==
  LET saved == History(m)
      Id(x) == <<x.prompt, x.run>>
  IN session.run # 0 =>
       /\ IF m.regen THEN Len(m.messages) = Len(saved) ELSE Len(m.messages) > Len(saved)
       /\ \A i \in 1..Len(saved) : Id(saved[i]) = Id(m.messages[i])
Continued(m) ==
  [m EXCEPT !.messages = History(m) \o SubSeq(@, Len(History(m)) + 1, Len(@))]

Reply(m) == IF Requested(m.req) # {} THEN "run"
            ELSE IF Active # {} THEN "busy"
            ELSE IF ~SameHistory(m) THEN "conflict"
            ELSE IF m.req \in refused THEN "stopped" ELSE "admitted"

Admitted(m) ==
  /\ runs' = Append(runs, NewRun(Continued(m)))
  /\ session' = [run |-> Len(runs) + 1, messages |-> Continued(m).messages]

\* The tab has read the chat's messages, and not yet which run is theirs.
Overtakable ==
  \/ poll.on
  \/ /\ tab.link.run = 0 /\ tab.link.req = 0
     /\ tab.op.kind # "none" \/ tab.status = "error" \/ tab.error

\* A submission is read.  Nobody waits for the reply to one that was given up.
ServerRead(m) ==
  LET reply == Reply(m) IN
  /\ m.reply = "none"
  /\ ~m.mine /\ Overtakable => "overtaken" \in Windows
  /\ mail' = (mail \ {m}) \cup
       (IF m.waited THEN {[m EXCEPT !.reply = IF reply = "admitted" THEN "run" ELSE reply]} ELSE {})
  /\ IF reply = "admitted" THEN Admitted(m) ELSE UNCHANGED <<runs, session>>
  /\ UNCHANGED <<refused, tab, poll, limit>>

RunEmit(r) ==
  /\ ~Ended(r) /\ ~runs[r].stop /\ runs[r].n < Events
  /\ runs' = [runs EXCEPT ![r].n = @ + 1]
  /\ UNCHANGED <<session, refused, mail, tab, poll, limit>>

\* The last event of a run is out, with what became of it; another tab may have stopped it.
RunEnd(r, status) ==
  /\ ~Ended(r)
  /\ runs[r].stop => status = "stopped"
  /\ status = "completed" => runs[r].n > 0
  /\ runs' = [runs EXCEPT ![r].status = status]
  /\ UNCHANGED <<session, refused, mail, tab, poll, limit>>

\* Its answer is saved; then it no longer owns the chat, and its streams are closed.
Settle(r) ==
  /\ Ended(r) /\ ~runs[r].settled
  /\ runs' = [runs EXCEPT ![r].settled = TRUE]
  /\ session' = IF session.run = r THEN [session EXCEPT !.messages = Transcript(r)] ELSE session
  /\ UNCHANGED <<refused, mail, tab, poll, limit>>

-----------------------------------------------------------------------------
(* The tab: what a step makes of it                                        *)

NoOp == [kind |-> "none", pc |-> "none", tries |-> 0, draft |-> <<>>, kept |-> <<>>]
NoLink == [run |-> 0, req |-> 0, after |-> 0, messages |-> <<>>, regen |-> FALSE]
NoStop == [pc |-> "none", req |-> 0, run |-> 0, then |-> "none", item |-> 0]
NoPoll == [on |-> FALSE, session |-> [run |-> 0, messages |-> <<>>]]

Opened(saved) ==
  [messages |-> saved.messages, status |-> "ready", items |-> <<>>, paused |-> FALSE,
   steering |-> FALSE, error |-> FALSE, sync |-> FALSE, link |-> NoLink, stop |-> NoStop,
   op |-> IF saved.run = 0 THEN NoOp ELSE [NoOp EXCEPT !.kind = "resume", !.pc = "asking"]]

Idle(t) == t.op = NoOp
Busy(t) == t.status = "busy" \/ t.steering

\* The SDK adds the question, or takes the answer away, before the transport is called.
Send(t, p) ==
  [t EXCEPT !.messages = Append(@, Question(p)), !.status = "busy",
            !.op = [NoOp EXCEPT !.kind = "send", !.pc = "saving"]]
Again(t, kind) ==
  [t EXCEPT !.messages = Unanswered(@), !.status = "busy", !.paused = FALSE, !.error = FALSE,
            !.op = [NoOp EXCEPT !.kind = kind, !.pc = "saving", !.kept = t.messages]]

Drained(t) ==
  IF Idle(t) /\ ~t.paused /\ ~t.steering /\ t.status = "ready" /\ t.items # <<>>
  THEN Send([t EXCEPT !.items = Tail(@)], Head(t.items)) ELSE t
Resumed(t) ==
  IF t.status = "error" \/ t.stop # NoStop \/ t.sync THEN t
  ELSE Drained([t EXCEPT !.paused = FALSE, !.error = FALSE])

\* A replay that ended with less than there was before it puts that back.
Restored(t) ==
  IF t.op.kind = "replay" /\ Len(t.messages) < Len(t.op.kept)
  THEN [t EXCEPT !.messages = t.op.kept] ELSE t
\* Mutant: the next question is not sent.
FinishedAlone(t, status) ==
  [Restored(t) EXCEPT !.op = NoOp, !.status = status, !.paused = @ \/ status = "error"]

Finished(t, status) ==
  Drained([Restored(t) EXCEPT !.op = NoOp, !.status = status,
                              !.paused = @ \/ status = "error"])
\* The action itself failed: the SDK's status is what it was.
Thrown(t) == [t EXCEPT !.op = NoOp, !.paused = TRUE, !.error = TRUE]

\* A connection of the tab breaks, each where it is.
Broken(t) ==
  CASE t.op.pc = "closing" -> Finished(t, "ready")
    [] t.op.pc = "status" -> Thrown(t)
    [] t.op.pc \in {"posting", "reading", "reconnecting"} /\ t.op.tries < Attempts ->
         [t EXCEPT !.op.tries = @ + 1,
                   !.op.pc = IF @ = "posting" THEN "posting" ELSE "reconnecting"]
    [] t.op.pc \in {"none", "saving"} -> t
    [] OTHER -> Finished(t, "error")
StopFailed(t) ==
  [t EXCEPT !.stop = NoStop, !.paused = TRUE, !.steering = FALSE, !.error = TRUE]

\* What follows a Stop that was confirmed.
Stopped(t) ==
  LET s == [t EXCEPT !.stop = NoStop, !.sync = FALSE]
  IN CASE t.stop.then = "steer" ->
            Send([s EXCEPT !.paused = FALSE, !.steering = FALSE, !.error = FALSE,
                           !.items = RemoveFirst(@, t.stop.item)], t.stop.item)
       [] t.stop.then = "resume" -> Resumed(s)
       [] OTHER -> s

\* The subscription ends at once.  A submission that is still being saved is not known to
\* the server; otherwise the server is asked, by run or by request.
Aborted(t, then, item) ==
  LET unsent == t.op.pc = "saving" /\ t.op.kind # "replay"
      s == [Restored(t) EXCEPT
              !.op = NoOp, !.status = IF @ = "busy" THEN "ready" ELSE @, !.sync = ~unsent,
              !.stop = [pc |-> "asking", then |-> then, item |-> item, run |-> t.link.run,
                        req |-> IF t.link.run = 0 THEN t.link.req ELSE 0]]
  IN IF unsent THEN Stopped(s) ELSE s

\* reloadable: nothing of the tab's own is under way.
Settled(t) == /\ Idle(t) /\ t.stop = NoStop /\ t.status = "ready" /\ t.items = <<>>
              /\ ~t.steering /\ ~t.error

\* What other steps of the tab are taken on; a look whose messages changed is dropped.
Tab(t) ==
  /\ tab' = t
  /\ poll' = IF t.messages = tab.messages THEN poll ELSE NoPoll
Local(t) == Tab(t) /\ UNCHANGED <<runs, session, refused, mail>>
Spend(bound) == limit[bound] > 0 /\ limit' = [limit EXCEPT ![bound] = @ - 1]

\* Given up: the server may still read what nobody waits for.
Abandoned == {[m EXCEPT !.waited = FALSE] : m \in {x \in mail : x.reply = "none"}}

-----------------------------------------------------------------------------
(* The user                                                                *)

Submit ==
  /\ Spend("asked")
  /\ Local(Drained([tab EXCEPT !.items = Append(@, limit.asked)]))

Dequeue(p) ==
  /\ p \in ToSet(tab.items)
  /\ Spend("again")
  /\ Local([tab EXCEPT !.items = RemoveFirst(@, p)])

ResumeQueue ==
  /\ tab.paused /\ ~Busy(tab) /\ tab.items # <<>>
  /\ Resumed(tab) # tab
  /\ Local(Resumed(tab)) /\ UNCHANGED limit

\* Another Stop, or one that follows a steering, joins the one under way.
StopWith(then, item, items) ==
  /\ Busy(tab)
  /\ ~(tab.op.kind = "regenerate" /\ tab.op.pc = "saving" /\ "withdrawn" \notin Windows)
  /\ LET t == [tab EXCEPT !.paused = TRUE, !.steering = then = "steer", !.items = items]
     IN Tab(IF t.stop = NoStop THEN Aborted(t, then, item)
            ELSE [t EXCEPT !.stop.then = then, !.stop.item = item])
  /\ mail' = Abandoned
  /\ UNCHANGED <<runs, session, refused>>

Stop == Spend("stops") /\ StopWith("stop", 0, tab.items)
Steer ==
  /\ ~tab.steering
  /\ Spend("asked")
  /\ StopWith("steer", limit.asked, <<limit.asked>> \o tab.items)
SteerQueued(p) ==
  /\ ~tab.steering /\ p \in ToSet(tab.items)
  /\ Spend("stops")
  /\ StopWith("steer", p, <<p>> \o RemoveFirst(tab.items, p))

Retry ==
  /\ Idle(tab) /\ tab.stop = NoStop
  /\ tab.status = "error" \/ tab.error
  /\ Spend("again")
  /\ Local(
       IF tab.sync THEN Aborted(tab, "resume", 0)
       ELSE IF tab.error /\ tab.items # <<>>
       THEN Drained([tab EXCEPT !.paused = FALSE, !.error = FALSE])
       ELSE [tab EXCEPT !.paused = FALSE, !.error = FALSE,
                        !.op = [NoOp EXCEPT !.kind = "retry", !.pc = "status"]])

Regenerate ==
  /\ Idle(tab) /\ tab.stop = NoStop /\ ~tab.sync
  /\ ~Busy(tab) /\ Answered(tab.messages)
  /\ tab.status = "error" => "impatient" \in Windows
  /\ Spend("again")
  /\ Local(Again(tab, "regenerate"))

\* The page is loaded again: what was not sent is lost.
PageReload ==
  /\ Spend("reloads")
  /\ tab' = Opened(session) /\ poll' = NoPoll
  /\ mail' = {[m EXCEPT !.mine = FALSE] : m \in Abandoned}
  /\ UNCHANGED <<runs, session, refused>>

-----------------------------------------------------------------------------
(* A turn of the tab                                                       *)

Follow(t, r) ==
  [t EXCEPT !.link.run = r, !.status = "busy", !.op.pc = "reading", !.op.tries = 0,
            !.op.draft = Draft(t.messages)]

NewRequest ==
  1 + Max({0, tab.link.req} \cup refused \cup {m.req : m \in mail}
          \cup {runs[r].req : r \in 1..Len(runs)})
Post(t, q) ==
  {[req |-> q, messages |-> t.link.messages, regen |-> t.link.regen, mine |-> TRUE,
    waited |-> TRUE, reply |-> "none"]}

\* The chat is saved before its request, or that failed; a saved run owns its chat, and
\* then the server keeps what it has.  A replay submits nothing.
SaveDone(ok) ==
  /\ tab.op.pc = "saving"
  /\ session' = IF ok /\ session.run = 0 THEN [session EXCEPT !.messages = tab.messages]
                ELSE session
  /\ LET q == NewRequest
         t == [tab EXCEPT !.op.pc = "posting",
                 !.link = [run |-> 0, req |-> q, after |-> 0, messages |-> tab.messages,
                           regen |-> tab.op.kind = "regenerate"]]
     IN IF tab.op.kind = "replay"
        THEN Tab([tab EXCEPT !.op.pc = "opening", !.link.after = 0]) /\ UNCHANGED mail
        ELSE Tab(t) /\ mail' = mail \cup Post(t, q)
  /\ UNCHANGED <<runs, refused, limit>>

PostAnswered(m) ==
  /\ m.waited /\ m.reply # "none"
  /\ mail' = mail \ {m}
  /\ IF m.reply = "run" THEN \E r \in Requested(m.req) : Tab(Follow(tab, r))
     ELSE Tab(Finished(tab, "error"))
  /\ UNCHANGED <<runs, session, refused, limit>>

\* The run a status read is about: the tab's own, that of its request, or the chat's latest.
Looked ==
  IF tab.link.run # 0 THEN {tab.link.run}
  ELSE IF tab.link.req # 0 THEN Requested(tab.link.req) ELSE {session.run} \ {0}
Unread == Looked = {} /\ tab.link.run = 0 /\ tab.link.messages # <<>>

\* Retry: what goes on or was completed is replayed, what failed is asked again, and a
\* request the server does not know is submitted again, as the same.
RetryAnswer ==
  /\ tab.op.pc = "status"
  /\ \A r \in Looked \cap Active : Ended(r) => "settling" \in Windows
  /\ Local(
       IF Unread THEN [tab EXCEPT !.op.kind = "resume", !.op.pc = "asking"]
       ELSE IF Looked = {} \/ tab.messages = <<>> THEN Thrown(tab)
       ELSE LET r == CHOOSE x \in Looked : TRUE
            IN IF runs[r].status \in {"running", "completed"}
               THEN [Again(tab, "replay") EXCEPT !.link.run = r]
               ELSE [Again(tab, "regenerate") EXCEPT !.link.after = 0])
  /\ UNCHANGED limit

\* prepareResume: an answer that is there already is not read again.
Current(r) ==
  Ended(r) /\ runs[r].n > 0 /\ Answered(tab.messages) /\ Last(tab.messages).run = r
ResumeAnswer ==
  /\ tab.op.pc = "asking"
  /\ IF Unread
     THEN LET t == [tab EXCEPT !.op.pc = "posting", !.op.tries = 0]
          IN Tab(t) /\ mail' = mail \cup Post(t, t.link.req)
     ELSE /\ Tab(IF \A r \in Looked : Current(r) THEN Finished(tab, tab.status)
                ELSE [tab EXCEPT !.op.pc = "opening", !.link.after = 0,
                                 !.link.run = CHOOSE r \in Looked : TRUE])
          /\ UNCHANGED mail
  /\ UNCHANGED <<runs, session, refused, limit>>

\* Mutant: a stream is reopened at its start.
ConnectedAfresh ==
  /\ \/ tab.op.pc = "opening" /\ Local(Follow(tab, tab.link.run))
     \/ tab.op.pc = "reconnecting"
        /\ Local([tab EXCEPT !.op.pc = "reading", !.link.after = 0])
  /\ UNCHANGED limit

Connected ==
  /\ \/ tab.op.pc = "opening" /\ Local(Follow(tab, tab.link.run))
     \/ tab.op.pc = "reconnecting" /\ Local([tab EXCEPT !.op.pc = "reading"])
  /\ UNCHANGED limit

\* The next event; after the last a stream is open until its run is settled, but an error
\* ends the turn at once.
ReadEvent ==
  LET r == tab.link.run
      parts == Append(tab.op.draft, <<r, tab.link.after + 1>>)
  IN /\ tab.op.pc = "reading"
     /\ \/ /\ tab.link.after < runs[r].n
           /\ Local([tab EXCEPT !.link.after = @ + 1, !.op.draft = parts,
                                !.messages = Written(@, r, parts)])
        \/ /\ tab.link.after = runs[r].n /\ Ended(r)
           /\ Local(IF runs[r].status \in {"completed", "stopped"}
                    THEN [tab EXCEPT !.op.pc = "closing"] ELSE Finished(tab, "error"))
     /\ UNCHANGED limit

StreamClosed ==
  /\ tab.op.pc = "closing" /\ runs[tab.link.run].settled
  /\ Local(Finished(tab, "ready")) /\ UNCHANGED limit

Unanswering(m) == IF m.waited THEN [m EXCEPT !.reply = "none"] ELSE m
ConnectionLost ==
  /\ Spend("lost")
  /\ \/ /\ Broken(tab) # tab
        /\ tab.op.pc = "closing" => "settling" \in Windows
        /\ Tab(Broken(tab))
        /\ mail' = IF Broken(tab).op.pc = "posting" THEN {Unanswering(m) : m \in mail}
                   ELSE Abandoned
        /\ UNCHANGED <<runs, session, refused>>
     \/ tab.stop # NoStop /\ Local(StopFailed(tab))

-----------------------------------------------------------------------------
(* Stop                                                                    *)

OfStop == IF tab.stop.run # 0 THEN {tab.stop.run} ELSE Requested(tab.stop.req)

\* Mutant: a Stop by request is not remembered.
StopForgotten ==
  /\ tab.stop.pc = "asking"
  /\ runs' = [r \in 1..Len(runs) |->
                [runs[r] EXCEPT !.stop = @ \/ (r \in OfStop /\ ~Ended(r))]]
  /\ Tab([tab EXCEPT !.stop.pc = "waiting"])
  /\ UNCHANGED <<session, refused, mail, limit>>

\* A Stop by request is remembered for a submission that is still to be read.
StopServed ==
  /\ tab.stop.pc = "asking"
  /\ refused' = refused \cup ({tab.stop.req} \ {0})
  /\ runs' = [r \in 1..Len(runs) |->
                [runs[r] EXCEPT !.stop = @ \/ (r \in OfStop /\ ~Ended(r))]]
  /\ Tab([tab EXCEPT !.stop.pc = "waiting"])
  /\ UNCHANGED <<session, mail, limit>>

StopConfirmed ==
  /\ tab.stop.pc = "waiting"
  /\ \A r \in OfStop : runs[r].settled
  /\ Local([tab EXCEPT !.stop.pc = "reading"]) /\ UNCHANGED limit

\* Mutant: what was shown in part stays.
Unsynchronized ==
  /\ tab.stop.pc = "reading"
  /\ tab' = Stopped(tab) /\ poll' = NoPoll
  /\ UNCHANGED <<runs, session, refused, mail, limit>>

\* synchronize: what was shown in part is replaced by what is saved.
Synchronized ==
  /\ tab.stop.pc = "reading"
  /\ tab' = Stopped([tab EXCEPT !.messages = session.messages]) /\ poll' = NoPoll
  /\ UNCHANGED <<runs, session, refused, mail, limit>>

-----------------------------------------------------------------------------
(* Others                                                                  *)

\* A look for scheduled turns reads the chat, and replaces it when nothing went on.
PollRead ==
  /\ ~poll.on /\ Settled(tab)
  /\ \E r \in 1..Len(runs) : ~runs[r].mine
  /\ Spend("reloads")
  /\ poll' = [on |-> TRUE, session |-> session]
  /\ UNCHANGED <<runs, session, refused, mail, tab>>
\* Mutant: what began during the look is not looked at.
PollApplyBlind ==
  /\ poll.on
  /\ tab' = [Opened(poll.session) EXCEPT !.paused = tab.paused]
  /\ poll' = NoPoll
  /\ UNCHANGED <<runs, session, refused, mail, limit>>

PollApply ==
  /\ poll.on
  /\ tab' = IF Settled(tab) THEN [Opened(poll.session) EXCEPT !.paused = tab.paused] ELSE tab
  /\ poll' = NoPoll
  /\ UNCHANGED <<runs, session, refused, mail, limit>>

\* Another tab or a schedule goes on from the saved chat.
OtherTurn(regen) ==
  /\ Active = {} /\ (Overtakable => "overtaken" \in Windows)
  /\ Spend("others")
  /\ regen => session.messages # <<>>
  /\ Admitted([req |-> 0, mine |-> FALSE, regen |-> regen,
               messages |-> IF regen THEN Unanswered(session.messages)
                            ELSE Append(session.messages, Question(100 + limit.others))])
  /\ UNCHANGED <<refused, mail, tab, poll>>

\* Runs are interrupted, requests that were to be refused forgotten, connections lost.
Restart ==
  /\ Spend("restarts")
  /\ runs' = [r \in 1..Len(runs) |->
       [runs[r] EXCEPT !.settled = TRUE, !.status = IF @ = "running" THEN "interrupted" ELSE @]]
  /\ session' = IF session.run \in Active
                THEN [session EXCEPT !.messages = Transcript(session.run)] ELSE session
  /\ refused' = {}
  /\ LET t == Broken(tab)
     IN /\ Tab(IF t.stop = NoStop THEN t ELSE StopFailed(t))
        /\ mail' = IF t.op.pc = "posting" THEN {Unanswering(m) : m \in {x \in mail : x.waited}}
                   ELSE {}

-----------------------------------------------------------------------------
Init ==
  /\ limit \in Limits
  /\ runs = <<>> /\ session = [run |-> 0, messages |-> <<>>]
  /\ refused = {} /\ mail = {}
  /\ tab = Opened(session) /\ poll = NoPoll

User == \/ Submit \/ ResumeQueue \/ Stop \/ Steer \/ Retry \/ Regenerate \/ PageReload
        \/ \E p \in ToSet(tab.items) : Dequeue(p) \/ SteerQueued(p)
Turn == \/ \E ok \in BOOLEAN : SaveDone(ok)
        \/ \E m \in mail : PostAnswered(m)
        \/ RetryAnswer \/ ResumeAnswer \/ Connected \/ ReadEvent \/ StreamClosed
Stopping == StopServed \/ StopConfirmed \/ Synchronized
Server == \/ \E m \in mail : ServerRead(m)
          \/ \E r \in 1..Len(runs) :
               \/ RunEmit(r) \/ Settle(r)
               \/ \E status \in {"completed", "failed", "stopped"} : RunEnd(r, status)
Others == PollRead \/ PollApply \/ \E regen \in BOOLEAN : OtherTurn(regen)

Next == User \/ Turn \/ Stopping \/ Server \/ Others \/ ConnectionLost \/ Restart

Spec == Init /\ [][Next]_vars

\* The server answers, runs end or time out, and the tab goes on; nobody needs to act.
Fairness ==
  /\ WF_vars(Turn) /\ WF_vars(Stopping) /\ WF_vars(PollApply)
  /\ WF_vars(\E m \in mail : m.waited /\ ServerRead(m))
  /\ WF_vars(\E r \in 1..Len(runs) : Settle(r) \/ RunEnd(r, "completed") \/ RunEnd(r, "stopped"))
FairSpec == Spec /\ Fairness

-----------------------------------------------------------------------------
(* Properties                                                              *)

Message == [prompt : Nat, run : Nat, parts : Seq(Nat \X Nat)]
Mail == [req : Nat, messages : Seq(Message), regen : BOOLEAN, mine : BOOLEAN, waited : BOOLEAN,
         reply : {"none", "run", "busy", "conflict", "stopped"}]
Run == [req : Nat, regen : BOOLEAN, mine : BOOLEAN, messages : Seq(Message), n : 0..Events,
        status : {"running", "completed", "failed", "stopped", "interrupted"},
        stop : BOOLEAN, settled : BOOLEAN]
Session == [run : Nat, messages : Seq(Message)]
Tabs == [
  messages : Seq(Message), status : {"ready", "busy", "error"}, items : Seq(Nat),
  paused : BOOLEAN, steering : BOOLEAN, error : BOOLEAN, sync : BOOLEAN,
  link : [run : Nat, req : Nat, after : Nat, messages : Seq(Message), regen : BOOLEAN],
  stop : [pc : {"none", "asking", "waiting", "reading"}, req : Nat, run : Nat,
          then : {"none", "stop", "steer", "resume"}, item : Nat],
  op : [kind : {"none", "send", "regenerate", "replay", "resume", "retry"},
        pc : {"none", "saving", "posting", "status", "asking", "opening", "reading",
              "reconnecting", "closing"},
        tries : 0..Attempts, draft : Seq(Nat \X Nat), kept : Seq(Message)]]

TypeOK ==
  /\ runs \in Seq(Run) /\ session \in Session /\ refused \subseteq Nat
  /\ mail \subseteq Mail /\ tab \in Tabs
  /\ poll \in [on : BOOLEAN, session : Session] /\ limit \in Bounds

\* An answer is the events of one run from its first, in order, under the question that
\* run was asked; however often it was reconnected, replayed, stopped or read again.
AnswersAreTheirs ==
  \A i \in 1..Len(tab.messages) :
    LET a == tab.messages[i] IN
    a.run # 0 =>
      /\ a.parts = [k \in 1..Len(a.parts) |-> <<a.run, k>>]
      /\ i > 1 /\ tab.messages[i - 1] = Question(Prompt(a.run))

\* When the tab says that it is ready, no search of its own goes on: one whose stream,
\* whose submission or whose Stop was cut off or comes late has ended, or does not begin.
ReadyIsQuiet ==
  tab.status = "ready" /\ Idle(tab) /\ tab.stop = NoStop /\ ~tab.sync =>
    \A r \in Active : ~runs[r].mine

\* A queued question leaves the queue when the user takes it out, loads the page again, or
\* when it is asked; one that has a run stays in the chat.
PromptsAreKept ==
  [][ /\ \A p \in ToSet(tab.items) :
           \/ p \in ToSet(tab.items') \cup Asked(tab.messages')
           \/ Dequeue(p) \/ PageReload
      /\ \A r \in 1..Len(runs) :
           Prompt(r) \in Asked(tab.messages) => Prompt(r) \in Asked(tab.messages') ]_vars

\* What the tab sends fits what the server has, unless others went on with the chat: its
\* own turns never make it stale, and it never asks while its own run goes on.
FollowUpsFit ==
  \A m \in mail :
    m.waited /\ m.reply = "none" =>
      /\ Reply(m) = "busy" => \A r \in Active : ~runs[r].mine
      /\ Reply(m) = "conflict" => \E r \in 1..Len(runs) : ~runs[r].mine

\* The tab comes to rest: every turn and every Stop ends, and nothing stays in a queue
\* that goes on.
TabRests ==
  []<>(Idle(tab) /\ tab.stop = NoStop /\ (tab.items # <<>> => tab.paused \/ tab.status = "error"))
=============================================================================
