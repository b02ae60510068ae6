-------------------------- MODULE SearchRunsProofs --------------------------
(***************************************************************************)
(* Theorems about SearchRuns, for any submissions, request ids, clients,   *)
(* windows and bounds.                                                     *)
(***************************************************************************)
EXTENDS SearchRuns, NaturalsInduction, SequenceTheorems, WellFoundedInduction, TLAPS

-----------------------------------------------------------------------------
(* The parts of the type invariant.                                        *)

Entry == [status : RunStatus \cup {"absent"}, record : Record,
          chunks : Seq(Chunks), tool : {"none", "started", "completed"}]
Phases == Owned \cup {"none", "done"}
RunState == [phase : Phases, status : RunStatus, record : Record,
             events : Seq(Chunks), pushing : Chunks \cup {NoChunk},
             abort : {"no", "stop", "shutdown", "error"},
             tool : {"idle", "started", "effect", "recorded", "lost"}]
Pcs == {"unsent", "queued", "finding", "existing", "absent", "validated", "creating",
        "created", "upserting", "failed", "accepted", "conflict", "refused", "lost"}
PostState == [pc : Pcs, req : Runs, messages : Seq(Message), print : Seq(Message)]
Writes == [kind : {"admit", "save", "put", "remove", "clear"}, run : Runs]

JournalType == journal \in [Requests -> Entry]
SessionType == session \in [exists : BOOLEAN, run : Runs, messages : Seq(Message)]
RunType == run \in [Requests -> RunState]
ChainType == chain \in Seq(Posts)
PostType == post \in [Posts -> PostState]
WritesType == writes \in Seq(Writes)
LoadingType == loading \in [Requests -> {"idle", "reading", "closing", "failing", "saving"}]
StopperType == stopper \in [Requests -> [pc : {"idle", "waiting", "aborted", "returned"},
                                         waits : SUBSET Posts]]
ProcessType ==
  /\ boot \in {"starting", "loading", "ready"}
  /\ closing \in {"open", "closing", "waiting", "aborting", "closed"}
  /\ closeWaits \subseteq Posts
GhostType ==
  /\ executed \in [Requests -> Nat] /\ effects \subseteq Requests /\ doomed \subseteq Requests
  /\ restarts \in 0..MaxRestarts /\ faults \in 0..MaxFaults
OtherType == active \in Runs /\ requested \subseteq Requests /\ deleting \in BOOLEAN

Types ==
  /\ JournalType /\ SessionType /\ RunType /\ ChainType /\ PostType /\ WritesType
  /\ LoadingType /\ StopperType /\ ProcessType /\ GhostType /\ OtherType

\* The parts are the type invariant.
LEMMA TypesAre == TypeOK <=> Types
  BY DEF TypeOK, Types, Entry, Phases, RunState, PostState, Pcs, Writes, JournalType,
     SessionType, RunType, ChainType, PostType, WritesType, LoadingType, StopperType,
     ProcessType, GhostType, OtherType

\* A post that was sent has a request, a queued save has a run, and the run that
\* initialize() loads is one.
Known ==
  /\ \A p \in Posts : post[p].pc \notin {"unsent", "lost"} => post[p].req \in Requests
  /\ \A i \in 1..Len(writes) : writes[i].kind = "save" => writes[i].run \in Requests
  /\ boot = "loading" => session.run \in Requests

-----------------------------------------------------------------------------
(* Data.                                                                    *)

\* The values a journal, a run and a record begin with have their types.
LEMMA RecordOfNone == NoRecord \in Record
  BY DEF NoRecord, Record

\* So has a journal that is not there,
LEMMA AbsentIs == Absent \in Entry
  BY RecordOfNone DEF Absent, Entry

\* and a run that is not live.
LEMMA IdleIs == Idle \in RunState
<1>1. "running" \in RunStatus /\ "none" \in Phases
  BY DEF RunStatus, Phases
<1>2. NoChunk \in Chunks \cup {NoChunk} /\ <<>> \in Seq(Chunks)
  OBVIOUS
<1> QED BY <1>1, <1>2, RecordOfNone DEF Idle, RunState

\* runMessages() yields messages: the prompt's, and the answer.
LEMMA MessagesOfRun ==
  ASSUME NEW r \in Requests, NEW d \in Seq(Message), NEW c \in Seq(Chunks)
  PROVE  RunMessages(r, d, c) \in Seq(Message)
<1>1. Answer(r, c) \in Message
  BY DEF Answer, Message
<1> QED BY <1>1 DEF RunMessages

\* validateHistory() yields messages: the server's copies, then the tab's.
LEMMA KeptMessages ==
  ASSUME NEW saved \in Seq(Message), NEW submitted \in Seq(Message)
  PROVE  Kept(saved, submitted) \in Seq(Message)
  BY DEF Kept

\* What a tab submits is made of messages.
LEMMA SubmittableMessages ==
  ASSUME SessionType, PostType, NEW r \in Requests, NEW m \in Submittable(r)
  PROVE  m \in Seq(Message)
<1>1. session.messages \in Seq(Message)
  BY DEF SessionType
<1>2. Prompt(r) \in Message
  BY DEF Prompt, Message
<1>3. CASE m = Append(session.messages, Prompt(r))
  BY <1>1, <1>2, <1>3
<1>4. CASE session.messages # <<>> /\ m = Front(session.messages)
  BY <1>1, <1>4 DEF Front
<1>5. CASE \E q \in Posts : m = post[q].print
  BY <1>5 DEF PostType, PostState
<1>6. CASE m = session.messages
  BY <1>1, <1>6
<1> QED BY <1>3, <1>4, <1>5, <1>6 DEF Submittable, Regenerated

\* A journal with one more chunk is a journal.
LEMMA AppendedChunk ==
  ASSUME NEW j \in [Requests -> Entry], NEW r \in Requests, NEW c \in Chunks
  PROVE  [j EXCEPT ![r].chunks = Append(@, c)] \in [Requests -> Entry]
<1>1. j[r].chunks \in Seq(Chunks)
  BY DEF Entry
<1>2. Append(j[r].chunks, c) \in Seq(Chunks)
  BY <1>1
<1> DEFINE cs == Append(j[r].chunks, c)
<1> HIDE DEF cs
<1>3. [j EXCEPT ![r].chunks = cs] \in [Requests -> Entry]
  BY <1>2 DEF Entry, cs
<1> QED BY <1>3 DEF cs

\* A journal whose tool entry is written anew.
LEMMA NotedTool ==
  ASSUME JournalType, NEW r \in Requests, NEW tl \in {"none", "started", "completed"},
         journal' = [journal EXCEPT ![r].tool = tl]
  PROVE  JournalType'
<1> DEFINE x == [journal[r] EXCEPT !.tool = tl]
<1>1. journal[r] \in Entry
  BY DEF JournalType
<1>2. x \in Entry
  BY <1>1 DEF Entry
<1>3. journal' = [journal EXCEPT ![r] = x]
  BY DEF JournalType
<1> HIDE DEF x
<1> QED BY <1>2, <1>3 DEF JournalType

\* A journal whose run is ended.
LEMMA EndedEntry ==
  ASSUME JournalType, NEW r \in Requests, NEW st \in RunStatus, NEW rec \in Record,
         journal' = [journal EXCEPT ![r].status = st, ![r].record = rec]
  PROVE  /\ JournalType' /\ journal'[r].status = st
         /\ journal' = [journal EXCEPT ![r] = journal'[r]]
<1> DEFINE x == [journal[r] EXCEPT !.status = st, !.record = rec]
<1>1. journal[r] \in Entry
  BY DEF JournalType
<1>2. x \in Entry
  BY <1>1 DEF Entry
<1>3. journal' = [journal EXCEPT ![r] = x]
  BY DEF JournalType
<1>4. x.status = st
  BY <1>1 DEF Entry
<1> HIDE DEF x
<1>5. journal'[r] = x
  BY <1>3 DEF JournalType
<1> QED BY <1>2, <1>3, <1>4, <1>5 DEF JournalType

\* An admission that is replaced by one of its type.
LEMMA PostSet ==
  ASSUME PostType, NEW p \in Posts, NEW pc \in Pcs, NEW m \in Seq(Message),
         post' = [post EXCEPT ![p].pc = pc, ![p].messages = m]
  PROVE  PostType'
<1> DEFINE x == [post[p] EXCEPT !.pc = pc, !.messages = m]
<1>1. post[p] \in PostState
  BY DEF PostType
<1>2. x \in PostState
  BY <1>1 DEF PostState
<1>3. post' = [post EXCEPT ![p] = x]
  BY DEF PostType
<1> HIDE DEF x
<1> QED BY <1>2, <1>3 DEF PostType

\* An answer changes how far one admission has come, and nothing else of it.
LEMMA AnsweredPost ==
  ASSUME PostType, NEW p \in Posts, NEW pc \in Pcs, Answering(p, pc)
  PROVE  /\ PostType'
         /\ post'[p].pc = pc /\ post'[p].req = post[p].req
         /\ \A q \in Posts \ {p} : post'[q] = post[q]
  BY DEF PostType, PostState, Answering

\* A read that ends moves only the admissions that wait for it.
LEMMA LoadedPosts ==
  ASSUME PostType, LoadingType, NEW r \in Requests, NEW pc \in Pcs, Loaded(r, pc)
  PROVE  /\ PostType' /\ LoadingType'
         /\ \A p \in Posts : /\ post'[p].req = post[p].req
                             /\ \/ post'[p].pc = post[p].pc
                                \/ post[p].pc = "finding" /\ post'[p].pc = pc
<1>1. \A p \in Posts : [post[p] EXCEPT !.pc = pc] \in PostState
  BY DEF PostType, PostState
<1>2. PostType'
  BY <1>1 DEF PostType, Loaded
<1>3. LoadingType'
  BY DEF LoadingType, Loaded
<1>4. ASSUME NEW p \in Posts
      PROVE  /\ post'[p].req = post[p].req
             /\ \/ post'[p].pc = post[p].pc
                \/ post[p].pc = "finding" /\ post'[p].pc = pc
  <2>1. post[p] \in PostState
    BY DEF PostType
  <2>2. CASE post[p].pc = "finding" /\ post[p].req = r
    <3>1. post'[p] = [post[p] EXCEPT !.pc = pc]
      BY <2>2 DEF Loaded
    <3> QED BY <2>1, <2>2, <3>1 DEF PostState
  <2>3. CASE ~(post[p].pc = "finding" /\ post[p].req = r)
    <3>1. post'[p] = post[p]
      BY <2>3 DEF Loaded
    <3>2. post'[p].req = post[p].req /\ post'[p].pc = post[p].pc
      BY <3>1
    <3> QED BY <3>2
  <2> QED BY <2>2, <2>3
<1> QED BY <1>2, <1>3, <1>4

\* A read that is joined or begun is a read.
LEMMA JoinedLoading ==
  ASSUME LoadingType, NEW r
  PROVE  Joined(r) \in [Requests -> {"idle", "reading", "closing", "failing", "saving"}]
  BY DEF LoadingType, Joined

-----------------------------------------------------------------------------
(* What a step does to the runs: it keeps their types, and run r alone may     *)
(* come to another phase.                                                   *)

Moves(r, ph) ==
  /\ RunType'
  /\ \A q \in Requests : run'[q].phase = IF q = r THEN ph ELSE run[q].phase

\* A run that is replaced by one of its type.
LEMMA RunSet ==
  ASSUME RunType, NEW r \in Requests, NEW x \in RunState, run' = [run EXCEPT ![r] = x]
  PROVE  Moves(r, x.phase)
<1>1. run \in [Requests -> RunState]
  BY DEF RunType
<1>2. RunType'
  BY <1>1 DEF RunType
<1>3. \A q \in Requests : run'[q].phase = IF q = r THEN x.phase ELSE run[q].phase
  BY <1>1
<1> QED BY <1>2, <1>3 DEF Moves

\* The updates the actions make to a run, one lemma for each shape they come in: the
\* phase alone,
LEMMA RunPhased ==
  ASSUME RunType, NEW r \in Requests, NEW ph \in Phases,
         run' = [run EXCEPT ![r].phase = ph]
  PROVE  Moves(r, ph)
<1> DEFINE x == [run[r] EXCEPT !.phase = ph]
<1>1. run[r] \in RunState
  BY DEF RunType
<1>2. x \in RunState /\ x.phase = ph
  BY <1>1 DEF RunState
<1>3. run' = [run EXCEPT ![r] = x]
  BY DEF RunType
<1> HIDE DEF x
<1> QED BY <1>2, <1>3, RunSet

\* the phase and the status,
LEMMA RunPhasedStatus ==
  ASSUME RunType, NEW r \in Requests, NEW ph \in Phases, NEW st \in RunStatus,
         run' = [run EXCEPT ![r].phase = ph, ![r].status = st]
  PROVE  Moves(r, ph)
<1> DEFINE x == [run[r] EXCEPT !.phase = ph, !.status = st]
<1>1. run[r] \in RunState
  BY DEF RunType
<1>2. x \in RunState /\ x.phase = ph
  BY <1>1 DEF RunState
<1>3. run' = [run EXCEPT ![r] = x]
  BY DEF RunType
<1> HIDE DEF x
<1> QED BY <1>2, <1>3, RunSet

\* the end of a run whose append failed,
LEMMA RunBroken ==
  ASSUME RunType, NEW r \in Requests, NEW ab \in {"no", "stop", "shutdown", "error"},
         NEW st \in RunStatus, NEW ph \in Phases,
         run' = [run EXCEPT ![r].abort = ab,
                               ![r].status = st,
                               ![r].phase = ph]
  PROVE  Moves(r, ph)
<1> DEFINE x == [run[r] EXCEPT !.abort = ab, !.status = st, !.phase = ph]
<1>1. run[r] \in RunState
  BY DEF RunType
<1>2. x \in RunState /\ x.phase = ph
  BY <1>1 DEF RunState
<1>3. run' = [run EXCEPT ![r] = x]
  BY DEF RunType
<1> HIDE DEF x
<1> QED BY <1>2, <1>3, RunSet

\* the end of a stream,
LEMMA RunStreamed ==
  ASSUME RunType, NEW r \in Requests, NEW ph \in Phases,
         NEW ab \in {"no", "stop", "shutdown", "error"}, NEW st \in RunStatus,
         run' = [run EXCEPT ![r].phase = ph,
                               ![r].abort = ab,
                               ![r].status = st]
  PROVE  Moves(r, ph)
<1> DEFINE x == [run[r] EXCEPT !.phase = ph, !.abort = ab, !.status = st]
<1>1. run[r] \in RunState
  BY DEF RunType
<1>2. x \in RunState /\ x.phase = ph
  BY <1>1 DEF RunState
<1>3. run' = [run EXCEPT ![r] = x]
  BY DEF RunType
<1> HIDE DEF x
<1> QED BY <1>2, <1>3, RunSet

\* a chunk that is journalled,
LEMMA RunChunked ==
  ASSUME RunType, NEW r \in Requests, NEW pu \in Chunks \cup {NoChunk},
         NEW st \in RunStatus,
         run' = [run EXCEPT ![r].pushing = pu, ![r].status = st]
  PROVE  Moves(r, run[r].phase)
<1> DEFINE x == [run[r] EXCEPT !.pushing = pu, !.status = st]
<1>1. run[r] \in RunState
  BY DEF RunType
<1>2. x \in RunState /\ x.phase = run[r].phase
  BY <1>1 DEF RunState
<1>3. run' = [run EXCEPT ![r] = x]
  BY DEF RunType
<1> HIDE DEF x
<1> QED BY <1>2, <1>3, RunSet

\* a chunk that is delivered,
LEMMA RunPushed ==
  ASSUME RunType, NEW r \in Requests, NEW ev \in Seq(Chunks),
         NEW pu \in Chunks \cup {NoChunk},
         run' = [run EXCEPT ![r].events = ev, ![r].pushing = pu]
  PROVE  Moves(r, run[r].phase)
<1> DEFINE x == [run[r] EXCEPT !.events = ev, !.pushing = pu]
<1>1. run[r] \in RunState
  BY DEF RunType
<1>2. x \in RunState /\ x.phase = run[r].phase
  BY <1>1 DEF RunState
<1>3. run' = [run EXCEPT ![r] = x]
  BY DEF RunType
<1> HIDE DEF x
<1> QED BY <1>2, <1>3, RunSet

\* a chunk that closes the transcript,
LEMMA RunClosed ==
  ASSUME RunType, NEW r \in Requests, NEW pu \in Chunks \cup {NoChunk}, NEW ph \in Phases,
         run' = [run EXCEPT ![r].pushing = pu, ![r].phase = ph]
  PROVE  Moves(r, ph)
<1> DEFINE x == [run[r] EXCEPT !.pushing = pu, !.phase = ph]
<1>1. run[r] \in RunState
  BY DEF RunType
<1>2. x \in RunState /\ x.phase = ph
  BY <1>1 DEF RunState
<1>3. run' = [run EXCEPT ![r] = x]
  BY DEF RunType
<1> HIDE DEF x
<1> QED BY <1>2, <1>3, RunSet

\* a step of the tool,
LEMMA RunTooled ==
  ASSUME RunType, NEW r \in Requests,
         NEW tl \in {"idle", "started", "effect", "recorded", "lost"},
         run' = [run EXCEPT ![r].tool = tl]
  PROVE  Moves(r, run[r].phase)
<1> DEFINE x == [run[r] EXCEPT !.tool = tl]
<1>1. run[r] \in RunState
  BY DEF RunType
<1>2. x \in RunState /\ x.phase = run[r].phase
  BY <1>1 DEF RunState
<1>3. run' = [run EXCEPT ![r] = x]
  BY DEF RunType
<1> HIDE DEF x
<1> QED BY <1>2, <1>3, RunSet

\* a tool whose outcome is lost,
LEMMA RunToolLost ==
  ASSUME RunType, NEW r \in Requests,
         NEW tl \in {"idle", "started", "effect", "recorded", "lost"},
         NEW ab \in {"no", "stop", "shutdown", "error"},
         run' = [run EXCEPT ![r].tool = tl, ![r].abort = ab]
  PROVE  Moves(r, run[r].phase)
<1> DEFINE x == [run[r] EXCEPT !.tool = tl, !.abort = ab]
<1>1. run[r] \in RunState
  BY DEF RunType
<1>2. x \in RunState /\ x.phase = run[r].phase
  BY <1>1 DEF RunState
<1>3. run' = [run EXCEPT ![r] = x]
  BY DEF RunType
<1> HIDE DEF x
<1> QED BY <1>2, <1>3, RunSet

\* an abort,
LEMMA RunAbortedRun ==
  ASSUME RunType, NEW r \in Requests, NEW ab \in {"no", "stop", "shutdown", "error"},
         run' = [run EXCEPT ![r].abort = ab]
  PROVE  Moves(r, run[r].phase)
<1> DEFINE x == [run[r] EXCEPT !.abort = ab]
<1>1. run[r] \in RunState
  BY DEF RunType
<1>2. x \in RunState /\ x.phase = run[r].phase
  BY <1>1 DEF RunState
<1>3. run' = [run EXCEPT ![r] = x]
  BY DEF RunType
<1> HIDE DEF x
<1> QED BY <1>2, <1>3, RunSet

\* a run made anew,
LEMMA RunReset ==
  ASSUME RunType, NEW r \in Requests, NEW y \in RunState, run' = [run EXCEPT ![r] = y]
  PROVE  Moves(r, y.phase)
  BY DEF RunType, Moves

\* or none.
LEMMA RunUnmoved ==
  ASSUME RunType, UNCHANGED run, NEW r \in Requests
  PROVE  Moves(r, run[r].phase)
  BY DEF RunType, Moves

\* What each action does to the runs.  A delivery moves no run,
LEMMA PushMoves ==
  ASSUME RunType, NEW r \in Requests, Push(r)
  PROVE  Moves(r, run[r].phase)
<1>1. Append(run[r].events, run[r].pushing) \in Seq(Chunks)
  BY DEF Push, RunType, RunState
<1> QED BY <1>1, RunPushed DEF Push

\* nor does a chunk of the stream.
LEMMA EmitMoves ==
  ASSUME RunType, NEW r \in Requests, NEW c \in Provided, Emit(r, c)
  PROVE  Moves(r, run[r].phase)
<1>1. c \in Chunks
  BY ProvidedAssumption DEF Chunks
<1>2. \E st \in RunStatus : run' = [run EXCEPT ![r].pushing = c, ![r].status = st]
  BY DEF Emit, RunType, RunState, RunStatus
<1> QED BY <1>1, <1>2, RunChunked

\* An append that fails settles its run,
LEMMA EmitFailMoves ==
  ASSUME RunType, NEW r \in Requests, EmitFail(r)
  PROVE  Moves(r, "settling")
<1>1. "settling" \in Phases /\ "failed" \in RunStatus
  BY DEF Phases, Owned, RunStatus
<1> QED BY <1>1, RunBroken DEF EmitFail

\* as the end of the stream does,
LEMMA StreamEndMoves ==
  ASSUME RunType, NEW r \in Requests, StreamEnd(r)
  PROVE  Moves(r, "settling")
<1>1. "settling" \in Phases
  BY DEF Phases, Owned
<1>2. \E ab \in {"no", "stop", "shutdown", "error"}, st \in RunStatus :
        run' = [run EXCEPT ![r].phase = "settling", ![r].abort = ab, ![r].status = st]
  BY DEF StreamEnd, RunType, RunState, RunStatus
<1> QED BY <1>1, <1>2, RunStreamed

\* and an abort that is seen.
LEMMA AbortSeenMoves ==
  ASSUME RunType, NEW r \in Requests, AbortSeen(r)
  PROVE  Moves(r, "settling")
<1>1. "settling" \in Phases
  BY DEF Phases, Owned
<1>2. \E st \in RunStatus : run' = [run EXCEPT ![r].phase = "settling", ![r].status = st]
  BY DEF AbortSeen, RunStatus
<1> QED BY <1>1, <1>2, RunPhasedStatus

\* A tool moves no run.
LEMMA ToolMoves ==
  ASSUME RunType, NEW r \in Requests, ToolStart(r) \/ ToolEffect(r) \/ ToolRecord(r)
  PROVE  Moves(r, run[r].phase)
<1>1. \E tl \in {"idle", "started", "effect", "recorded", "lost"},
         ab \in {"no", "stop", "shutdown", "error"} :
        \/ run' = [run EXCEPT ![r].tool = tl]
        \/ run' = [run EXCEPT ![r].tool = tl, ![r].abort = ab]
  BY DEF ToolStart, ToolEffect, ToolRecord, RunType, RunState
<1> QED BY <1>1, RunTooled, RunToolLost

\* A settled run closes its transcript or saves,
LEMMA SettleMoves ==
  ASSUME RunType, NEW r \in Requests, Settle(r)
  PROVE  \E ph \in {"saving", "closing"} : Moves(r, ph)
<1>1. \A ph \in {"saving", "closing"} : ph \in Phases
  BY DEF Phases, Owned
<1>2. \E ph \in {"saving", "closing"} : run' = [run EXCEPT ![r].phase = ph]
  BY DEF Settle
<1> QED BY <1>1, <1>2, RunPhased

\* closing it may take another chunk,
LEMMA CloseEventsMoves ==
  ASSUME RunType, NEW r \in Requests, CloseEvents(r)
  PROVE  \E ph \in {"closing", "saving"} : Moves(r, ph)
<1>1. \A ph \in {"saving", "closing"} : ph \in Phases
  BY DEF Phases, Owned
<1>2. run[r].phase = "closing"
  BY DEF CloseEvents, Step
<1>3. \E ph \in {"saving", "closing"}, pu \in Chunks \cup {NoChunk} :
        \/ run' = [run EXCEPT ![r].pushing = pu, ![r].phase = ph]
        \/ run' = [run EXCEPT ![r].phase = ph]
  BY <1>2 DEF CloseEvents, Chunks
<1> QED BY <1>1, <1>3, RunClosed, RunPhased

\* a saved run goes on to the chat or ends,
LEMMA SaveMoves ==
  ASSUME RunType, NEW r \in Requests, Save(r)
  PROVE  \E ph \in {"sessioning", "ending"} : Moves(r, ph)
<1>1. "sessioning" \in Phases /\ "ending" \in Phases /\ "failed" \in RunStatus
  BY DEF Phases, Owned, RunStatus
<1> QED BY <1>1, RunPhased, RunPhasedStatus DEF Save

\* and waits there for its write, if one is due.
LEMMA SaveSessionMoves ==
  ASSUME RunType, NEW r \in Requests, SaveSession(r)
  PROVE  \/ Moves(r, "upserting") /\ writes' = Append(writes, Write("save", r))
         \/ Moves(r, "ending") /\ writes' = writes
<1>1. "upserting" \in Phases /\ "ending" \in Phases
  BY DEF Phases, Owned
<1>2. \/ /\ run' = [run EXCEPT ![r].phase = "upserting"]
         /\ writes' = Append(writes, Write("save", r))
      \/ run' = [run EXCEPT ![r].phase = "ending"] /\ writes' = writes
  BY DEF SaveSession
<1> QED BY <1>1, <1>2, RunPhased

\* A run that ends is done.
LEMMA EndMoves ==
  ASSUME RunType, NEW r \in Requests, End(r)
  PROVE  Moves(r, "done")
<1>1. "done" \in Phases
  BY DEF Phases
<1> QED BY <1>1, RunPhased DEF End

\* An abort moves no run; the run sees it later.
LEMMA AbortMoves ==
  ASSUME RunType, NEW r \in Requests, NEW why \in {"stop", "shutdown"},
         run' = Aborted(r, why)
  PROVE  Moves(r, run[r].phase)
<1>1. \E ab \in {"no", "stop", "shutdown", "error"} : run' = [run EXCEPT ![r].abort = ab]
  BY DEF Aborted, RunType, RunState
<1> QED BY <1>1, RunAbortedRun

\* The upsert of an admission makes its run live.
LEMMA WriteAdmitMoves ==
  ASSUME RunType, NEW p \in Posts, post[p].req \in Requests, WriteAdmit(p)
  PROVE  Moves(post[p].req, "live")
<1>1. "live" \in Phases
  BY DEF Phases, Owned
<1> QED BY <1>1, RunPhased DEF WriteAdmit

\* The upsert of a run lets it end, whether it succeeds or not.
LEMMA WriteSaveMoves ==
  ASSUME RunType, Head(writes).run \in Requests, WriteSave
  PROVE  Moves(Head(writes).run, "ending")
<1>1. "ending" \in Phases /\ "failed" \in RunStatus
  BY DEF Phases, Owned, RunStatus
<1> QED BY <1>1, RunPhased, RunPhasedStatus DEF WriteSave

\* An activation creates the run of its request.
LEMMA StartActivateMoves ==
  ASSUME RunType, PostType, NEW p \in Posts, post[p].req \in Requests, StartActivate(p),
         ~Stopped(post[p].req)
  PROVE  Moves(post[p].req, "creating")
<1> DEFINE r == post[p].req
           d == [prompt |-> post[p].messages, print |-> post[p].print]
           y == [Idle EXCEPT !.phase = "creating", !.record = d]
<1>1. d \in Record
  BY DEF Record, PostType, PostState
<1>2. "creating" \in Phases
  BY DEF Phases, Owned
<1> HIDE DEF d
<1>3. y \in RunState /\ y.phase = "creating"
  BY <1>1, <1>2, IdleIs DEF RunState
<1>4. run' = [run EXCEPT ![r] = y]
  BY DEF StartActivate, d
<1> HIDE DEF y
<1> QED BY <1>3, <1>4, RunReset

\* An admission that fails discards its run.
LEMMA StartFailMoves ==
  ASSUME RunType, NEW p \in Posts, post[p].req \in Requests, StartFail(p)
  PROVE  Moves(post[p].req, "none")
<1>1. Idle.phase = "none"
  BY DEF Idle
<1> QED BY <1>1, IdleIs, RunReset DEF StartFail

-----------------------------------------------------------------------------
(* Every step keeps the types.                                             *)

\* A read of a journal.
LEMMA LoaderTypes ==
  ASSUME Types, Known, NEW r \in Requests, Poll(r) \/ Loader(r)
  PROVE  Types'
<1> USE DEF Types, diskVars, admitVars, procVars, stopVars, ghostVars, boundVars
<1>1. CASE Poll(r)
  <2>1. LoadingType'
    BY <1>1, JoinedLoading DEF Poll, LoadingType
  <2> QED BY <1>1, <2>1 DEF Poll, JournalType, SessionType, RunType, ChainType,
    PostType, WritesType, StopperType, ProcessType, GhostType, OtherType
<1>2. CASE LoadRead(r)
  <2>1. PostType' /\ LoadingType'
    BY <1>2, LoadedPosts DEF LoadRead, Pcs, PostType, LoadingType
  <2> QED BY <1>2, <2>1 DEF LoadRead, JournalType, SessionType, RunType, ChainType,
    WritesType, StopperType, ProcessType, GhostType, OtherType
<1>3. CASE LoadPublish(r)
  <2>1. JournalType'
    BY <1>3, AppendedChunk DEF LoadPublish, JournalType, Chunks
  <2>2. LoadingType'
    BY <1>3 DEF LoadPublish, LoadingType
  <2> QED BY <1>3, <2>1, <2>2 DEF LoadPublish, SessionType, RunType, ChainType,
    PostType, WritesType, StopperType, ProcessType, GhostType, OtherType
<1>4. CASE LoadFail(r)
  <2>1. PostType' /\ LoadingType'
    BY <1>4, LoadedPosts DEF LoadFail, Pcs
  <2>2. GhostType'
    BY <1>4, BoundsAssumption DEF LoadFail, GhostType
  <2>3. ProcessType'
    BY <1>4 DEF LoadFail, ProcessType
  <2> QED BY <1>4, <2>1, <2>2, <2>3 DEF LoadFail, JournalType, SessionType, RunType,
    ChainType, WritesType, StopperType, OtherType
<1>5. CASE LoadSave(r)
  <2>1. PostType' /\ LoadingType'
    BY <1>5, LoadedPosts DEF LoadSave, Pcs
  <2>2. JournalType'
    BY <1>5 DEF LoadSave, JournalType, Entry, RunStatus
  <2> QED BY <1>5, <2>1, <2>2 DEF LoadSave, SessionType, RunType, ChainType,
    WritesType, StopperType, ProcessType, GhostType, OtherType
<1> QED BY <1>1, <1>2, <1>3, <1>4, <1>5 DEF Loader

\* A step of an admission.
LEMMA AdmissionTypes ==
  ASSUME Types, Known, NEW p \in Posts, Admission(p) \/ StartFail(p)
  PROVE  Types'
<1> USE DEF Types, diskVars, admitVars, procVars, stopVars, ghostVars, boundVars
<1>1. CASE StartFind(p)
  <2>1. PostType' /\ ChainType'
    BY <1>1, AnsweredPost DEF StartFind, Reply, ChainType, AtHead, Pcs
  <2>2. LoadingType'
    BY <1>1, JoinedLoading DEF StartFind, LoadingType
  <2> QED BY <1>1, <2>1, <2>2 DEF StartFind, JournalType, SessionType, RunType,
    WritesType, StopperType, ProcessType, GhostType, OtherType
<1>2. CASE StartExisting(p)
  <2>1. PostType' /\ ChainType'
    BY <1>2, AnsweredPost DEF StartExisting, Reply, ChainType, AtHead, Pcs
  <2> QED BY <1>2, <2>1 DEF StartExisting, JournalType, SessionType, RunType,
    WritesType, LoadingType, StopperType, ProcessType, GhostType, OtherType
<1>3. CASE StartBroken(p)
  <2>1. PostType' /\ ChainType'
    BY <1>3, AnsweredPost DEF StartBroken, Reply, ChainType, AtHead, Pcs
  <2> QED BY <1>3, <2>1 DEF StartBroken, JournalType, SessionType, RunType,
    WritesType, LoadingType, StopperType, ProcessType, GhostType, OtherType
<1>4. CASE StartValidate(p)
  <2>1. ChainType'
    <3>1. chain # <<>> /\ (chain' = chain \/ chain' = Tail(chain))
      BY <1>4 DEF StartValidate, Reply, AtHead
    <3> QED BY <3>1 DEF ChainType
  <2>2. PostType'
    <3>1. "validated" \in Pcs /\ "conflict" \in Pcs
      BY DEF Pcs
    <3> DEFINE m == Kept(session.messages, post[p].messages)
    <3>2. m \in Seq(Message)
      BY KeptMessages DEF SessionType, PostType, PostState
    <3> HIDE DEF m
    <3>3. \/ \E pc \in Pcs : Answering(p, pc)
          \/ \E pc \in Pcs : post' = [post EXCEPT ![p].pc = pc, ![p].messages = m]
      BY <1>4, <3>1 DEF StartValidate, Reply, m
    <3> QED BY <3>2, <3>3, AnsweredPost, PostSet
  <2> QED BY <1>4, <2>1, <2>2 DEF StartValidate, JournalType, SessionType, RunType,
    WritesType, LoadingType, StopperType, ProcessType, GhostType, OtherType
<1>5. CASE StartActivate(p)
  <2>1. PostType' /\ ChainType'
    BY <1>5, AnsweredPost DEF StartActivate, Reply, ChainType, AtHead, Pcs
  <2>2. RunType'
    <3>1. post[p].req \in Requests
      BY <1>5 DEF StartActivate, AtHead, Known
    <3> QED BY <1>5, <3>1, StartActivateMoves DEF StartActivate, Moves, RunType
  <2>3. OtherType'
    BY <1>5 DEF StartActivate, OtherType, Known, AtHead, PostType, PostState
  <2>4. GhostType'
    BY <1>5 DEF StartActivate, GhostType
  <2> QED BY <1>5, <2>1, <2>2, <2>3, <2>4 DEF StartActivate, JournalType, SessionType,
    WritesType, LoadingType, StopperType, ProcessType
<1>6. CASE StartCreate(p)
  <2>1. PostType'
    BY <1>6, AnsweredPost DEF StartCreate, Pcs
  <2>2. JournalType'
    BY <1>6 DEF StartCreate, JournalType, Entry, RunType, RunState, Known, AtHead, RunStatus
  <2> QED BY <1>6, <2>1, <2>2 DEF StartCreate, SessionType, RunType, ChainType,
    WritesType, LoadingType, StopperType, ProcessType, GhostType, OtherType
<1>7. CASE StartUpsert(p)
  <2>1. PostType'
    BY <1>7, AnsweredPost DEF StartUpsert, Pcs
  <2>2. WritesType'
    BY <1>7 DEF StartUpsert, WritesType, Writes, Write, PostType, PostState
  <2> QED BY <1>7, <2>1, <2>2 DEF StartUpsert, JournalType, SessionType, RunType,
    ChainType, LoadingType, StopperType, ProcessType, GhostType, OtherType
<1>8. CASE WriteAdmit(p)
  <2>1. PostType' /\ ChainType'
    BY <1>8, AnsweredPost DEF WriteAdmit, Reply, ChainType, AtHead, Pcs
  <2>2. WritesType'
    BY <1>8 DEF WriteAdmit, WritesType, Serve
  <2>3. SessionType'
    BY <1>8 DEF WriteAdmit, SessionType, AtHead, Known, RunType, RunState, Record, Runs
  <2>4. RunType'
    <3>1. post[p].req \in Requests
      BY <1>8 DEF WriteAdmit, AtHead, Known
    <3> QED BY <1>8, <3>1, WriteAdmitMoves DEF Moves
  <2>5. GhostType'
    <3> DEFINE r == post[p].req
    <3>1. post[p].req \in Requests
      BY <1>8 DEF WriteAdmit, AtHead, Known
    <3>2. executed[r] + 1 \in Nat
      BY <3>1 DEF GhostType
    <3>3. executed' \in [Requests -> Nat]
      BY <1>8, <3>2 DEF WriteAdmit, GhostType
    <3> QED BY <1>8, <3>3 DEF WriteAdmit, GhostType
  <2> QED BY <1>8, <2>1, <2>2, <2>3, <2>4, <2>5 DEF WriteAdmit, JournalType,
    LoadingType, StopperType, ProcessType, OtherType
<1>9. CASE StartFail(p)
  <2>1. PostType' /\ ChainType'
    BY <1>9, AnsweredPost DEF StartFail, Reply, ChainType, AtHead, Pcs
  <2>2. WritesType'
    <3>1. writes' = writes \/ (writes # <<>> /\ writes' = Tail(writes))
      BY <1>9 DEF StartFail
    <3> QED BY <3>1 DEF WritesType
  <2>3. JournalType'
    BY <1>9, AbsentIs DEF StartFail, JournalType
  <2>4. RunType'
    <3>1. post[p].req \in Requests
      BY <1>9 DEF StartFail, AtHead, Known
    <3> QED BY <1>9, <3>1, StartFailMoves DEF Moves
  <2>5. OtherType'
    BY <1>9 DEF StartFail, OtherType, Runs
  <2>6. GhostType'
    BY <1>9, BoundsAssumption DEF StartFail, GhostType
  <2> QED BY <1>9, <2>1, <2>2, <2>3, <2>4, <2>5, <2>6 DEF StartFail, SessionType,
    LoadingType, StopperType, ProcessType
<1> QED BY <1>1, <1>2, <1>3, <1>4, <1>5, <1>6, <1>7, <1>8, <1>9 DEF Admission

\* The run of a session write that is served is one.
LEMMA SavedRun ==
  ASSUME WritesType, Known, Serve("save")
  PROVE  Head(writes).run \in Requests
<1>1. Len(writes) \in Nat /\ Len(writes) # 0 /\ Head(writes) = writes[1]
  BY DEF WritesType, Serve
<1>2. 1 \in 1..Len(writes)
  BY <1>1
<1> QED BY <1>1, <1>2 DEF Known, Serve

\* A request of a browser, or a write of the session store.
LEMMA StoreTypes ==
  ASSUME Types, Known, Put \/ DeleteCheck \/ Store
  PROVE  Types'
<1> USE DEF Types, diskVars, admitVars, procVars, stopVars, ghostVars, boundVars
<1>1. CASE WriteSave
  <2>1. WritesType'
    BY <1>1 DEF WriteSave, WritesType, Serve
  <2>2. SessionType'
    <3> DEFINE r == Head(writes).run
    <3>1. r \in Requests
      BY <1>1, SavedRun DEF WriteSave
    <3>2. RunMessages(r, run[r].record.prompt, run[r].events) \in Seq(Message)
      <4>1. run[r].record.prompt \in Seq(Message) /\ run[r].events \in Seq(Chunks)
        BY <3>1 DEF RunType, RunState, Record
      <4> QED BY <3>1, <4>1, MessagesOfRun
    <3> DEFINE m == RunMessages(r, run[r].record.prompt, run[r].events)
    <3>3. session' = session \/ session' = [exists |-> TRUE, run |-> r, messages |-> m]
      BY <1>1 DEF WriteSave
    <3>4. m \in Seq(Message) /\ r \in Runs
      BY <3>1, <3>2 DEF Runs
    <3> HIDE DEF m, r
    <3>5. [exists |-> TRUE, run |-> r, messages |-> m]
            \in [exists : BOOLEAN, run : Runs, messages : Seq(Message)]
      BY <3>4
    <3> QED BY <3>3, <3>5 DEF SessionType
  <2>3. RunType'
    BY <1>1, SavedRun, WriteSaveMoves DEF WriteSave, Moves
  <2>4. GhostType'
    BY <1>1, BoundsAssumption DEF WriteSave, GhostType
  <2> QED BY <1>1, <2>1, <2>2, <2>3, <2>4 DEF WriteSave, JournalType, ChainType,
    PostType, LoadingType, StopperType, ProcessType, OtherType
<1>2. CASE Put
  <2>1. WritesType'
    BY <1>2 DEF Put, WritesType, Writes, Write, Runs
  <2> QED BY <1>2, <2>1 DEF Put, JournalType, SessionType, RunType, ChainType,
    PostType, LoadingType, StopperType, ProcessType, GhostType, OtherType
<1>3. CASE WritePut
  <2>1. WritesType'
    BY <1>3 DEF WritePut, WritesType, Serve
  <2>2. SessionType'
    BY <1>3 DEF WritePut, SessionType, Runs
  <2> QED BY <1>3, <2>1, <2>2 DEF WritePut, JournalType, RunType, ChainType, PostType,
    LoadingType, StopperType, ProcessType, GhostType, OtherType
<1>4. CASE DeleteCheck
  <2>1. OtherType'
    BY <1>4 DEF DeleteCheck, OtherType
  <2> QED BY <1>4, <2>1 DEF DeleteCheck, JournalType, SessionType, RunType, ChainType,
    PostType, WritesType, LoadingType, StopperType, ProcessType, GhostType
<1>5. CASE DeleteEnqueue
  <2>1. WritesType'
    BY <1>5 DEF DeleteEnqueue, WritesType, Writes, Write, Runs
  <2>2. OtherType'
    BY <1>5 DEF DeleteEnqueue, OtherType
  <2> QED BY <1>5, <2>1, <2>2 DEF DeleteEnqueue, JournalType, SessionType, RunType,
    ChainType, PostType, LoadingType, StopperType, ProcessType, GhostType
<1>6. CASE WriteRemove
  <2>1. WritesType'
    <3>1. Write("clear", NoRun) \in Writes /\ Tail(writes) \in Seq(Writes)
      BY <1>6 DEF WriteRemove, WritesType, Serve, Writes, Write, Runs
    <3> QED BY <1>6, <3>1 DEF WriteRemove, WritesType
  <2>2. SessionType'
    BY <1>6 DEF WriteRemove, SessionType, NoSession, Runs
  <2>3. GhostType'
    BY <1>6 DEF WriteRemove, GhostType, OtherType, Runs
  <2> QED BY <1>6, <2>1, <2>2, <2>3 DEF WriteRemove, JournalType, RunType, ChainType,
    PostType, LoadingType, StopperType, ProcessType, OtherType
<1>7. CASE WriteClear
  <2>1. WritesType'
    BY <1>7 DEF WriteClear, WritesType, Serve
  <2>2. JournalType'
    BY <1>7, AbsentIs DEF WriteClear, JournalType
  <2>3. GhostType'
    BY <1>7 DEF WriteClear, GhostType
  <2> QED BY <1>7, <2>1, <2>2, <2>3 DEF WriteClear, SessionType, RunType, ChainType,
    PostType, LoadingType, StopperType, ProcessType, OtherType
<1> QED BY <1>1, <1>2, <1>3, <1>4, <1>5, <1>6, <1>7 DEF Store

\* A step of a run.
LEMMA WorkerTypes ==
  ASSUME Types, Known, NEW r \in Requests, Worker(r) \/ Stream(r)
  PROVE  Types'
<1> USE DEF Types, diskVars, admitVars, procVars, stopVars, ghostVars, boundVars
<1>1. CASE Push(r)
  <2>1. RunType'
    BY <1>1, PushMoves DEF Moves
  <2> QED BY <1>1, <2>1 DEF Push, JournalType, SessionType, ChainType, PostType,
    WritesType, LoadingType, StopperType, ProcessType, GhostType, OtherType
<1>2. CASE EmitFail(r)
  <2>1. RunType'
    BY <1>2, EmitFailMoves DEF Moves
  <2>2. GhostType'
    BY <1>2, BoundsAssumption DEF EmitFail, GhostType
  <2> QED BY <1>2, <2>1, <2>2 DEF EmitFail, JournalType, SessionType, ChainType,
    PostType, WritesType, LoadingType, StopperType, ProcessType, OtherType
<1>3. CASE StreamEnd(r)
  <2>1. RunType'
    BY <1>3, StreamEndMoves DEF Moves
  <2> QED BY <1>3, <2>1 DEF StreamEnd, JournalType, SessionType, ChainType, PostType,
    WritesType, LoadingType, StopperType, ProcessType, GhostType, OtherType
<1>4. CASE AbortSeen(r)
  <2>1. RunType'
    BY <1>4, AbortSeenMoves DEF Moves
  <2> QED BY <1>4, <2>1 DEF AbortSeen, JournalType, SessionType, ChainType, PostType,
    WritesType, LoadingType, StopperType, ProcessType, GhostType, OtherType
<1>5. CASE ToolStart(r)
  <2>1. RunType'
    BY <1>5, ToolMoves DEF Moves
  <2>2. JournalType'
    <3>1. \E tl \in {"none", "started", "completed"} :
            journal' = [journal EXCEPT ![r].tool = tl]
          \/ journal' = journal
      BY <1>5 DEF ToolStart, Noted
    <3> QED BY <3>1, NotedTool DEF JournalType
  <2>3. GhostType'
    BY <1>5, BoundsAssumption DEF ToolStart, GhostType
  <2> QED BY <1>5, <2>1, <2>2, <2>3 DEF ToolStart, SessionType, ChainType, PostType,
    WritesType, LoadingType, StopperType, ProcessType, OtherType
<1>6. CASE ToolEffect(r)
  <2>1. RunType'
    BY <1>6, ToolMoves DEF Moves
  <2>2. GhostType'
    BY <1>6 DEF ToolEffect, GhostType
  <2> QED BY <1>6, <2>1, <2>2 DEF ToolEffect, JournalType, SessionType, ChainType,
    PostType, WritesType, LoadingType, StopperType, ProcessType, OtherType
<1>7. CASE ToolRecord(r)
  <2>1. RunType'
    BY <1>7, ToolMoves DEF Moves
  <2>2. JournalType'
    <3>1. \E tl \in {"none", "started", "completed"} :
            journal' = [journal EXCEPT ![r].tool = tl]
          \/ journal' = journal
      BY <1>7 DEF ToolRecord, Noted
    <3> QED BY <3>1, NotedTool DEF JournalType
  <2>3. GhostType'
    BY <1>7, BoundsAssumption DEF ToolRecord, GhostType
  <2> QED BY <1>7, <2>1, <2>2, <2>3 DEF ToolRecord, SessionType, ChainType, PostType,
    WritesType, LoadingType, StopperType, ProcessType, OtherType
<1>8. CASE Settle(r)
  <2>1. RunType'
    BY <1>8, SettleMoves DEF Moves
  <2> QED BY <1>8, <2>1 DEF Settle, JournalType, SessionType, ChainType, PostType,
    WritesType, LoadingType, StopperType, ProcessType, GhostType, OtherType
<1>9. CASE CloseEvents(r)
  <2>1. RunType'
    BY <1>9, CloseEventsMoves DEF Moves
  <2>2. JournalType'
    <3>1. \/ \E c \in Chunks : journal' = [journal EXCEPT ![r].chunks = Append(@, c)]
          \/ journal' = journal
      BY <1>9 DEF CloseEvents, Published, Chunks
    <3> QED BY <3>1, AppendedChunk DEF JournalType
  <2>3. GhostType'
    BY <1>9, BoundsAssumption DEF CloseEvents, GhostType
  <2> QED BY <1>9, <2>1, <2>2, <2>3 DEF CloseEvents, SessionType, ChainType, PostType,
    WritesType, LoadingType, StopperType, ProcessType, OtherType
<1>10. CASE Save(r)
  <2>1. RunType'
    BY <1>10, SaveMoves DEF Moves
  <2>2. JournalType'
    <3>1. \/ journal' = [journal EXCEPT ![r].status = run[r].status,
                                          ![r].record = run[r].record]
          \/ journal' = journal
      BY <1>10 DEF Save
    <3> DEFINE st == run[r].status
               d == run[r].record
    <3>2. st \in RunStatus /\ d \in Record
      BY DEF RunType, RunState
    <3> HIDE DEF st, d
    <3>3. ASSUME journal' = [journal EXCEPT ![r].status = st, ![r].record = d]
          PROVE  JournalType'
      BY <3>2, <3>3, EndedEntry
    <3> QED BY <3>1, <3>3 DEF JournalType, st, d
  <2>3. GhostType'
    BY <1>10, BoundsAssumption DEF Save, GhostType
  <2> QED BY <1>10, <2>1, <2>2, <2>3 DEF Save, SessionType, ChainType, PostType,
    WritesType, LoadingType, StopperType, ProcessType, OtherType
<1>11. CASE SaveSession(r)
  <2>1. RunType'
    BY <1>11, SaveSessionMoves DEF Moves
  <2>2. WritesType'
    <3>1. Write("save", r) \in Writes
      BY DEF Writes, Write, Runs
    <3>2. writes' = writes \/ writes' = Append(writes, Write("save", r))
      BY <1>11, SaveSessionMoves
    <3> QED BY <3>1, <3>2 DEF WritesType
  <2> QED BY <1>11, <2>1, <2>2 DEF SaveSession, JournalType, SessionType, ChainType,
    PostType, LoadingType, StopperType, ProcessType, GhostType, OtherType
<1>12. CASE End(r)
  <2>1. RunType'
    BY <1>12, EndMoves DEF Moves
  <2>2. OtherType'
    BY <1>12 DEF End, OtherType, Runs
  <2> QED BY <1>12, <2>1, <2>2 DEF End, JournalType, SessionType, ChainType, PostType,
    WritesType, LoadingType, StopperType, ProcessType, GhostType
<1>13. CASE \E c \in Provided : Emit(r, c)
  <2>1. RunType'
    BY <1>13, EmitMoves DEF Moves
  <2>2. JournalType'
    <3>1. \E c \in Chunks : journal' = [journal EXCEPT ![r].chunks = Append(@, c)]
      BY <1>13, ProvidedAssumption DEF Emit, Published, Chunks
    <3>2. PICK c \in Chunks : journal' = [journal EXCEPT ![r].chunks = Append(@, c)]
      BY <3>1
    <3>3. journal \in [Requests -> Entry]
      BY DEF JournalType
    <3>4. [journal EXCEPT ![r].chunks = Append(@, c)] \in [Requests -> Entry]
      BY <3>3, AppendedChunk
    <3> QED BY <3>2, <3>4 DEF JournalType
  <2> QED BY <1>13, <2>1, <2>2 DEF Emit, SessionType, ChainType, PostType, WritesType,
    LoadingType, StopperType, ProcessType, GhostType, OtherType
<1> QED BY <1>1, <1>2, <1>3, <1>4, <1>5, <1>6, <1>7, <1>8, <1>9, <1>10, <1>11, <1>12, <1>13
    DEF Worker, Stream

\* A stop.
LEMMA StopTypes ==
  ASSUME Types, Known, NEW r \in Requests,
         (\E b \in BOOLEAN : Stop(r, b)) \/ StopFind(r) \/ StopDone(r)
  PROVE  Types'
<1> USE DEF Types, diskVars, admitVars, procVars, stopVars, ghostVars, boundVars
<1>1. CASE \E b \in BOOLEAN : Stop(r, b)
  <2>1. StopperType'
    BY <1>1 DEF Stop, StopperType, ChainType, ToSet
  <2>2. OtherType'
    BY <1>1 DEF Stop, OtherType
  <2> QED BY <1>1, <2>1, <2>2 DEF Stop, JournalType, SessionType, RunType, ChainType,
    PostType, WritesType, LoadingType, ProcessType, GhostType
<1>2. CASE StopFind(r)
  <2>1. StopperType'
    BY <1>2 DEF StopFind, StopperType
  <2>2. LoadingType'
    BY <1>2, JoinedLoading DEF StopFind, LoadingType
  <2>3. RunType'
    BY <1>2, AbortMoves DEF StopFind, Moves, RunType
  <2> QED BY <1>2, <2>1, <2>2, <2>3 DEF StopFind, JournalType, SessionType, ChainType,
    PostType, WritesType, ProcessType, GhostType, OtherType
<1>3. CASE StopDone(r)
  <2>1. StopperType'
    BY <1>3 DEF StopDone, StopperType
  <2> QED BY <1>3, <2>1 DEF StopDone, JournalType, SessionType, RunType, ChainType,
    PostType, WritesType, LoadingType, ProcessType, GhostType, OtherType
<1> QED BY <1>1, <1>2, <1>3

\* A step of close() or initialize(), or a restart.
LEMMA ProcessTypes ==
  ASSUME Types, Known, CloseBegin \/ Closing \/ Restart \/ BootLoad \/ BootSave
  PROVE  Types'
<1> USE DEF Types, diskVars, admitVars, procVars, stopVars, ghostVars, boundVars
<1>1. CASE CloseBegin
  <2>1. ProcessType'
    BY <1>1 DEF CloseBegin, ProcessType
  <2> QED BY <1>1, <2>1 DEF CloseBegin, JournalType, SessionType, RunType, ChainType,
    PostType, WritesType, LoadingType, StopperType, GhostType, OtherType
<1>2. CASE CloseWait
  <2>1. ProcessType'
    BY <1>2 DEF CloseWait, ProcessType, ChainType, ToSet
  <2> QED BY <1>2, <2>1 DEF CloseWait, JournalType, SessionType, RunType, ChainType,
    PostType, WritesType, LoadingType, StopperType, GhostType, OtherType
<1>3. CASE CloseAbort
  <2>1. ProcessType'
    BY <1>3 DEF CloseAbort, ProcessType
  <2>2. RunType'
    BY <1>3, AbortMoves DEF CloseAbort, Moves, RunType, OtherType, Runs
  <2> QED BY <1>3, <2>1, <2>2 DEF CloseAbort, JournalType, SessionType, ChainType,
    PostType, WritesType, LoadingType, StopperType, GhostType, OtherType
<1>4. CASE CloseDone
  <2>1. ProcessType'
    BY <1>4 DEF CloseDone, ProcessType
  <2> QED BY <1>4, <2>1 DEF CloseDone, JournalType, SessionType, RunType, ChainType,
    PostType, WritesType, LoadingType, StopperType, GhostType, OtherType
<1>5. CASE Restart
  <2>1. ProcessType'
    BY <1>5 DEF Restart, ProcessType
  <2>2. RunType'
    BY <1>5, IdleIs DEF Restart, RunType
  <2>3. ChainType' /\ WritesType'
    BY <1>5 DEF Restart, ChainType, WritesType
  <2>4. PostType'
    BY <1>5 DEF Restart, PostType, PostState, Pcs
  <2>5. LoadingType' /\ StopperType'
    BY <1>5 DEF Restart, LoadingType, StopperType
  <2>6. OtherType'
    BY <1>5 DEF Restart, OtherType, Runs
  <2>7. GhostType'
    BY <1>5, BoundsAssumption DEF Restart, GhostType
  <2> QED BY <1>5, <2>1, <2>2, <2>3, <2>4, <2>5, <2>6, <2>7 DEF Restart, JournalType,
    SessionType
<1>6. CASE BootLoad
  <2>1. ProcessType'
    BY <1>6 DEF BootLoad, ProcessType
  <2>2. LoadingType'
    BY <1>6, JoinedLoading DEF BootLoad, LoadingType
  <2> QED BY <1>6, <2>1, <2>2 DEF BootLoad, JournalType, SessionType, RunType,
    ChainType, PostType, WritesType, StopperType, GhostType, OtherType
<1>7. CASE BootSave
  <2>1. ProcessType'
    BY <1>7 DEF BootSave, ProcessType
  <2>2. SessionType'
    <3> DEFINE r == session.run
    <3>1. RunMessages(r, journal[r].record.prompt, journal[r].chunks) \in Seq(Message)
      BY <1>7, MessagesOfRun DEF BootSave, Known, JournalType, Entry, Record
    <3> QED BY <1>7, <3>1 DEF BootSave, SessionType
  <2> QED BY <1>7, <2>1, <2>2 DEF BootSave, JournalType, RunType, ChainType, PostType,
    WritesType, LoadingType, StopperType, GhostType, OtherType
<1> QED BY <1>1, <1>2, <1>3, <1>4, <1>5, <1>6, <1>7 DEF Closing

\* A submission.
LEMMA SubmitTypes ==
  ASSUME Types, NEW p \in Posts, NEW r \in Requests, NEW m \in Submittable(r),
         Submit(p, r, m)
  PROVE  Types'
<1>1. m \in Seq(Message)
  BY SubmittableMessages DEF Types
<1>2. PostType'
  BY <1>1 DEF Types, Submit, PostType, PostState, Pcs, Runs
<1>3. ChainType'
  BY DEF Types, Submit, ChainType
<1> QED BY <1>2, <1>3 DEF Types, Submit, JournalType, SessionType, RunType, WritesType,
  LoadingType, StopperType, ProcessType, GhostType, OtherType, diskVars, procVars, stopVars,
  ghostVars, boundVars

\* The types hold initially.
LEMMA InitTypes == Init => Types
<1> SUFFICES ASSUME Init PROVE Types
  OBVIOUS
<1>1. JournalType
  BY AbsentIs DEF Init, JournalType
<1>2. RunType
  BY IdleIs DEF Init, RunType
<1>3. PostType
  BY DEF Init, PostType, PostState, Pcs, Unsent, Runs
<1>4. SessionType
  BY DEF Init, SessionType, NoSession, Runs
<1>5. StopperType /\ LoadingType
  BY DEF Init, StopperType, LoadingType
<1>6. ProcessType /\ OtherType
  BY DEF Init, ProcessType, OtherType, Runs
<1>7. GhostType
  BY BoundsAssumption DEF Init, GhostType
<1>8. ChainType /\ WritesType
  BY DEF Init, ChainType, WritesType
<1> QED BY <1>1, <1>2, <1>3, <1>4, <1>5, <1>6, <1>7, <1>8 DEF Types

\* Every step keeps the types.
LEMMA NextTypes ==
  ASSUME Types, Known, [Next]_vars
  PROVE  Types'
<1>1. CASE UNCHANGED vars
  BY <1>1 DEF vars, Types, JournalType, SessionType, RunType, ChainType, PostType,
     WritesType,
     LoadingType, StopperType, ProcessType, GhostType, OtherType
<1>2. CASE Next
  BY <1>2, SubmitTypes, AdmissionTypes, LoaderTypes, WorkerTypes, StopTypes, StoreTypes,
     ProcessTypes DEF Next
<1> QED BY <1>1, <1>2

-----------------------------------------------------------------------------
(* The inductive invariant.                                                *)

\* Between active.set and the answer of start(); and from find() on.
Creating == {"creating", "created", "upserting"}
Starting == {"finding", "existing", "absent", "validated"} \cup Creating

\* Only the oldest admission of the chat is past its wait, the chat is free when
\* it is about to become active, and it owns the run that is being created.
HeadStarts == \A p \in Posts : post[p].pc \in Starting => chain # <<>> /\ Head(chain) = p
Free == \A p \in Posts : post[p].pc = "validated" => active = NoRun
Created ==
  \A p \in Posts : post[p].pc \in Creating =>
    /\ post[p].req \in Requests
    /\ active = post[p].req /\ run[post[p].req].phase = "creating"
Creates ==
  \A r \in Requests : run[r].phase = "creating" =>
    \E p \in Posts : post[p].pc \in Creating /\ post[p].req = r
Admissions == HeadStarts /\ Free /\ Created /\ Creates

\* The one queued save is the save of a run that waits for it.
Saving ==
  \A i \in 1..Len(writes) : writes[i].kind = "save" =>
    writes[i].run \in Requests /\ run[writes[i].run].phase = "upserting"
SavesOnce ==
  \A i, j \in 1..Len(writes) : writes[i].kind = "save" /\ writes[j].kind = "save" => i = j
Saves == Saving /\ SavesOnce

\* Until initialize() ends the server does nothing else.
Booting ==
  /\ boot # "ready" =>
       /\ writes = <<>> /\ chain = <<>> /\ ~deleting
       /\ \A r \in Requests : run[r].phase = "none"
  /\ boot = "loading" => session.run \in Requests

\* close() waits for every admission past find(), and none comes after it.
Drained ==
  /\ closing = "waiting" => \A p \in Posts : post[p].pc \in Starting => p \in closeWaits
  /\ closing \in {"aborting", "closed"} => \A p \in Posts : post[p].pc \notin Starting
  /\ closing = "closed" => active = NoRun

\* A Stop by request id waits for the admission that may create its run.
StopsWait ==
  \A r \in requested :
    /\ stopper[r].pc # "idle"
    /\ \A p \in Posts : post[p].pc \in Creating /\ post[p].req = r => p \in stopper[r].waits
Stops == StopsWait /\ StopIsFinal

Sent == \A p \in Posts : post[p].pc \notin {"unsent", "lost"} => post[p].req \in Requests

Control == Sent /\ Admissions /\ OneOwner /\ Saves /\ Booting /\ Drained /\ Stops
IInv == Types /\ Control

\* The control part tells what the types rest on.
LEMMA InvariantKnows == Control => Known
  BY DEF Control, Known, Sent, Saves, Saving, Booting

-----------------------------------------------------------------------------
(* How each part is kept, by what a step does to what it is about.         *)

SamePosts == \A p \in Posts : post'[p].pc = post[p].pc /\ post'[p].req = post[p].req
PostMoves(p, pc) ==
  \A q \in Posts : /\ post'[q].req = post[q].req
                   /\ post'[q].pc = IF q = p THEN pc ELSE post[q].pc
SamePhases == \A r \in Requests : run'[r].phase = run[r].phase

\* No admission advances but the ones that read, and the same run is created.
LEMMA AdmissionsStay ==
  ASSUME Admissions, chain' = chain, active' = active,
         \A p \in Posts : /\ post'[p].req = post[p].req
                          /\ \/ post'[p].pc = post[p].pc
                             \/ /\ post[p].pc = "finding"
                                /\ post'[p].pc \in {"absent", "existing", "failed"},
         \A r \in Requests : run'[r].phase = "creating" <=> run[r].phase = "creating"
  PROVE  Admissions'
<1>1. HeadStarts'
  BY DEF Admissions, HeadStarts, Starting
<1>2. Free'
  BY DEF Admissions, Free
<1>3. Created'
  BY DEF Admissions, Created, Creating
<1>4. Creates'
  BY DEF Admissions, Creates, Creating
<1> QED BY <1>1, <1>2, <1>3, <1>4 DEF Admissions

\* The oldest admission goes on, the chat unowned or its run still being created.
LEMMA AdmissionsAdvance ==
  ASSUME Admissions, NEW p \in Posts, NEW pc \in Starting, chain # <<>>, Head(chain) = p,
         PostMoves(p, pc), chain' = chain, active' = active, SamePhases,
         pc \in Creating <=> post[p].pc \in Creating,
         pc = "validated" => active = NoRun
  PROVE  Admissions'
<1>1. HeadStarts'
  BY DEF Admissions, HeadStarts, PostMoves
<1>2. Free'
  BY DEF Admissions, Free, PostMoves
<1>3. Created'
  BY DEF Admissions, Created, PostMoves, SamePhases
<1>4. Creates'
  BY DEF Admissions, Creates, PostMoves, SamePhases
<1> QED BY <1>1, <1>2, <1>3, <1>4 DEF Admissions

\* The oldest admission ends; what it created, if anything, is no longer created.
LEMMA AdmissionsEnd ==
  ASSUME Admissions, NEW p \in Posts, NEW pc, pc \notin Starting, chain # <<>>,
         Head(chain) = p,
         PostMoves(p, pc),
         \A r \in Requests : run'[r].phase = "creating" =>
           run[r].phase = "creating" /\ (r # post[p].req \/ post[p].pc \notin Creating)
  PROVE  Admissions'
<1>1. \A q \in Posts : post'[q].pc \notin Starting
  BY DEF Admissions, HeadStarts, PostMoves
<1>2. Creating \subseteq Starting /\ "validated" \in Starting
  BY DEF Starting
<1>3. \A r \in Requests : run'[r].phase # "creating"
  BY <1>1, <1>2 DEF Admissions, Creates, HeadStarts, PostMoves
<1>4. HeadStarts' /\ Free' /\ Created'
  BY <1>1, <1>2 DEF HeadStarts, Free, Created
<1>5. Creates'
  BY <1>3 DEF Creates
<1> QED BY <1>4, <1>5 DEF Admissions

\* No run becomes an owner, and the chat keeps the one it has.
LEMMA OwnerStays ==
  ASSUME OneOwner, active' = active,
         \A r \in Requests : run'[r].phase \in Owned => run[r].phase \in Owned
  PROVE  OneOwner'
  BY DEF OneOwner

\* The owner gives the chat up.
LEMMA OwnerLeaves ==
  ASSUME OneOwner, NEW r \in Requests, active = r, run'[r].phase \notin Owned,
         \A q \in Requests \ {r} : run'[q].phase = run[q].phase
  PROVE  OneOwner'
  BY DEF OneOwner

\* Writes are served or join, but none is a save, and no run stops waiting for its.
LEMMA SavesStay ==
  ASSUME WritesType, Saves, NEW w \in Writes, w.kind # "save",
         \/ writes' = writes
         \/ writes' = <<>>
         \/ writes' = Append(writes, w)
         \/ writes # <<>> /\ writes' = Tail(writes)
         \/ writes # <<>> /\ writes' = <<w>> \o Tail(writes),
         \A r \in Requests : run[r].phase = "upserting" => run'[r].phase = "upserting"
  PROVE  Saves'
<1> DEFINE Holds(ws) ==
      /\ \A i \in 1..Len(ws) : ws[i].kind = "save" =>
           ws[i].run \in Requests /\ run[ws[i].run].phase = "upserting"
      /\ \A i, j \in 1..Len(ws) : ws[i].kind = "save" /\ ws[j].kind = "save" => i = j
<1>1. writes \in Seq(Writes) /\ Holds(writes)
  BY DEF WritesType, Saves, Saving, SavesOnce
<1>2. Holds(writes')
  <2>1. CASE writes' = writes
    BY <1>1, <2>1
  <2>2. CASE writes' = <<>>
    BY <2>2
  <2>3. CASE writes' = Append(writes, w)
    BY <1>1, <2>3
  <2>4. CASE writes # <<>> /\ writes' = Tail(writes)
    BY <1>1, <2>4
  <2>5. CASE writes # <<>> /\ writes' = <<w>> \o Tail(writes)
    BY <1>1, <2>5
  <2> QED BY <2>1, <2>2, <2>3, <2>4, <2>5
<1> QED BY <1>2 DEF Saves, Saving, SavesOnce

\* The server is up, or nothing of what it may not do meanwhile happens.
LEMMA BootStays ==
  ASSUME Booting, boot' = boot,
         \/ boot = "ready"
         \/ UNCHANGED <<writes, chain, session, deleting>> /\ SamePhases
  PROVE  Booting'
  BY DEF Booting, SamePhases

\* No admission starts, and the chat gets no new owner.
LEMMA DrainedStays ==
  ASSUME Drained, UNCHANGED <<closing, closeWaits>>, active' = active \/ active' = NoRun,
         \A p \in Posts : post'[p].pc \in Starting => post[p].pc \in Starting
  PROVE  Drained'
  BY DEF Drained

\* No run comes into being.
LEMMA StopsStay ==
  ASSUME Stops, UNCHANGED <<stopper, requested>>,
         \A p \in Posts : post'[p].pc \in Creating =>
           post[p].pc \in Creating /\ post'[p].req = post[p].req,
         \A r \in Requests : run'[r].phase \in Owned => run[r].phase \in Owned
  PROVE  Stops'
  BY DEF Stops, StopsWait, StopIsFinal

-----------------------------------------------------------------------------
(* Steps of the same kind.                                                 *)

ProcessStays == UNCHANGED <<boot, closing, closeWaits, stopper, requested>>

\* Nothing of what the invariant is about changes.
LEMMA QuietStep ==
  ASSUME IInv, ProcessStays, UNCHANGED <<chain, active, writes, session>>,
         SamePosts, SamePhases, boot = "ready" \/ UNCHANGED deleting
  PROVE  Control'
<1>1. Admissions'
  BY AdmissionsStay DEF IInv, Control, SamePosts, SamePhases
<1>2. OneOwner' /\ Drained' /\ Stops' /\ Booting'
  BY OwnerStays, DrainedStays, StopsStay, BootStays
  DEF IInv, Control, SamePosts, SamePhases, ProcessStays
<1>3. Saves'
  BY DEF IInv, Control, Saves, Saving, SavesOnce, SamePhases
<1>4. Sent'
  BY DEF IInv, Control, Sent, SamePosts
<1> QED BY <1>1, <1>2, <1>3, <1>4 DEF Control

\* A read of a journal ends.
LEMMA ReadStep ==
  ASSUME IInv, NEW r \in Requests, NEW pc \in {"absent", "existing", "failed"},
         Loaded(r, pc),
         UNCHANGED <<chain, active, run, writes, session, deleting>>,
         UNCHANGED <<closing, closeWaits, stopper, requested>>,
         boot' = boot \/ (boot = "loading" /\ boot' = "starting")
  PROVE  Control'
<1>1. \A p \in Posts : /\ post'[p].req = post[p].req
                       /\ \/ post'[p].pc = post[p].pc
                          \/ post[p].pc = "finding" /\ post'[p].pc = pc
  BY LoadedPosts DEF Pcs, IInv, Types
<1>2. Admissions'
  BY <1>1, AdmissionsStay DEF IInv, Control
<1>3. OneOwner' /\ Drained' /\ Stops'
  BY <1>1, OwnerStays, DrainedStays, StopsStay DEF IInv, Control, Starting, Creating
<1>4. Saves' /\ Booting'
  BY DEF IInv, Control, Saves, Saving, SavesOnce, Booting
<1>5. Sent'
  BY <1>1 DEF IInv, Control, Sent
<1> QED BY <1>2, <1>3, <1>4, <1>5 DEF Control

\* The oldest admission goes on without creating a run, or within its creation.
LEMMA AdvanceStep ==
  ASSUME IInv, NEW p \in Posts, NEW pc \in Starting, chain # <<>>, Head(chain) = p,
         PostMoves(p, pc), ProcessStays, UNCHANGED <<chain, active, run, session>>,
         \/ writes' = writes
         \/ \E w \in Writes : w.kind # "save" /\ writes' = Append(writes, w),
         post[p].pc \notin {"unsent", "lost"},
         pc \in Creating <=> post[p].pc \in Creating,
         pc = "validated" => active = NoRun,
         post[p].pc \in Starting \/ closing = "open"
  PROVE  Control'
<1>1. Admissions'
  BY AdmissionsAdvance DEF IInv, Control, SamePhases
<1>2. OneOwner'
  BY OwnerStays DEF IInv, Control
<1>3. Stops'
  BY StopsStay DEF IInv, Control, PostMoves, ProcessStays
<1>4. Drained'
  BY DEF IInv, Control, Drained, PostMoves, ProcessStays
<1>5. boot = "ready"
  BY DEF IInv, Control, Booting
<1>6. Booting'
  BY <1>5, BootStays DEF IInv, Control, ProcessStays
<1>7. Saves'
  <2>1. CASE writes' = writes
    BY <2>1 DEF IInv, Control, Saves, Saving, SavesOnce
  <2>2. CASE \E w \in Writes : w.kind # "save" /\ writes' = Append(writes, w)
    BY <2>2, SavesStay DEF IInv, Types, Control
  <2> QED BY <2>1, <2>2
<1>8. Sent'
  BY DEF IInv, Control, Sent, PostMoves
<1> QED BY <1>1, <1>2, <1>3, <1>4, <1>6, <1>7, <1>8 DEF Control

\* The oldest admission ends without a run.
LEMMA ReplyStep ==
  ASSUME IInv, NEW p \in Posts, NEW pc \in Pcs \ Starting, Reply(p, pc),
         chain # <<>>, Head(chain) = p, post[p].pc \notin Creating,
         post[p].pc \notin {"unsent", "lost"},
         ProcessStays, UNCHANGED <<active, run, writes, session>>
  PROVE  Control'
<1>1. PostMoves(p, pc)
  BY AnsweredPost DEF Reply, PostMoves, IInv, Types
<1>2. Admissions'
  BY <1>1, AdmissionsEnd DEF IInv, Control
<1>3. OneOwner' /\ Drained' /\ Stops'
  BY <1>1, OwnerStays, DrainedStays, StopsStay
  DEF IInv, Control, PostMoves, Starting, ProcessStays
<1>4. boot = "ready"
  BY DEF IInv, Control, Booting
<1>5. Booting'
  BY <1>4, BootStays DEF IInv, Control, ProcessStays
<1>6. Saves'
  BY DEF IInv, Control, Saves, Saving, SavesOnce
<1>7. Sent'
  BY <1>1 DEF IInv, Control, Sent, PostMoves
<1> QED BY <1>2, <1>3, <1>5, <1>6, <1>7 DEF Control

\* The owner comes to another phase after its creation, no save of it being queued.
LEMMA RunStep ==
  ASSUME IInv, NEW r \in Requests, NEW ph \in Owned \ {"creating"}, Moves(r, ph),
         run[r].phase \in Owned \ {"creating", "upserting"},
         ProcessStays, UNCHANGED <<chain, post, active, writes, session>>
  PROVE  Control'
<1>1. Admissions'
  BY AdmissionsStay DEF IInv, Control, Moves
<1>2. OneOwner' /\ Stops' /\ Drained'
  BY OwnerStays, StopsStay, DrainedStays DEF IInv, Control, Moves, ProcessStays
<1>3. Saves'
  BY DEF IInv, Control, Saves, Saving, SavesOnce, Moves
<1>4. boot = "ready"
  BY DEF IInv, Control, Booting, Owned
<1>5. Booting'
  BY <1>4, BootStays DEF IInv, Control, ProcessStays
<1>6. Sent'
  BY DEF IInv, Control, Sent
<1> QED BY <1>1, <1>2, <1>3, <1>5, <1>6 DEF Control

\* A write of the store that is not a run's joins or is served.
LEMMA StoreStep ==
  ASSUME IInv, NEW w \in Writes, w.kind # "save",
         \/ writes' = Append(writes, w)
         \/ writes # <<>> /\ writes' = Tail(writes)
         \/ writes # <<>> /\ writes' = <<w>> \o Tail(writes),
         boot = "ready", ProcessStays, UNCHANGED <<chain, post, active, run>>
  PROVE  Control'
<1>1. Admissions'
  BY AdmissionsStay DEF IInv, Control
<1>2. OneOwner' /\ Stops' /\ Drained' /\ Booting'
  BY OwnerStays, StopsStay, DrainedStays, BootStays DEF IInv, Control, ProcessStays
<1>3. Saves'
  BY SavesStay DEF IInv, Types, Control
<1>4. Sent'
  BY DEF IInv, Control, Sent
<1> QED BY <1>1, <1>2, <1>3, <1>4 DEF Control

-----------------------------------------------------------------------------
(* Every step keeps the invariant.                                         *)

\* The run of an admission that was sent is one.
LEMMA SentRequest ==
  ASSUME IInv, NEW p \in Posts, NEW pc, AtHead(p, pc), pc \notin {"unsent", "lost"}
  PROVE  /\ chain # <<>> /\ Head(chain) = p /\ post[p].pc = pc
         /\ post[p].req \in Requests
         /\ boot = "ready"
  BY DEF IInv, Control, Sent, Booting, AtHead

\* A read of a journal.
LEMMA LoaderKeeps ==
  ASSUME IInv, NEW r \in Requests, Poll(r) \/ Loader(r)
  PROVE  Control'
<1> USE DEF diskVars, admitVars, procVars, stopVars, ghostVars, boundVars
<1>1. CASE Poll(r)
  BY <1>1, QuietStep DEF Poll, ProcessStays, SamePosts, SamePhases
<1>2. CASE LoadRead(r)
  <2>1. CASE \E pc \in {"absent", "existing", "failed"} : Loaded(r, pc)
    <3>1. /\ UNCHANGED <<chain, active, run, writes, session, deleting>>
      /\ UNCHANGED <<closing, closeWaits, stopper, requested>>
      BY <1>2 DEF LoadRead
    <3>2. boot' = boot
      BY <1>2 DEF LoadRead
    <3> QED BY <2>1, <3>1, <3>2, ReadStep
  <2>2. CASE UNCHANGED post
    BY <1>2, <2>2, QuietStep DEF LoadRead, ProcessStays, SamePosts, SamePhases
  <2> QED BY <1>2, <2>1, <2>2 DEF LoadRead
<1>3. CASE LoadPublish(r)
  BY <1>3, QuietStep DEF LoadPublish, ProcessStays, SamePosts, SamePhases
<1>4. CASE LoadFail(r)
  <2>1. /\ UNCHANGED <<chain, active, run, writes, session, deleting>>
      /\ UNCHANGED <<closing, closeWaits, stopper, requested>>
    BY <1>4 DEF LoadFail
  <2>2. boot' = boot \/ (boot = "loading" /\ boot' = "starting")
    BY <1>4 DEF LoadFail
  <2>3. Loaded(r, "failed")
    BY <1>4 DEF LoadFail
  <2> QED BY <2>1, <2>2, <2>3, ReadStep
<1>5. CASE LoadSave(r)
  <2>1. /\ UNCHANGED <<chain, active, run, writes, session, deleting>>
      /\ UNCHANGED <<closing, closeWaits, stopper, requested>>
    BY <1>5 DEF LoadSave
  <2>2. boot' = boot /\ Loaded(r, "existing")
    BY <1>5 DEF LoadSave
  <2> QED BY <2>1, <2>2, ReadStep
<1> QED BY <1>1, <1>2, <1>3, <1>4, <1>5 DEF Loader

\* An admission up to the run's activation, and from there to its upsert.
LEMMA AdmissionKeeps ==
  ASSUME IInv, NEW p \in Posts,
         \/ StartFind(p) \/ StartExisting(p) \/ StartBroken(p) \/ StartValidate(p)
         \/ StartCreate(p) \/ StartUpsert(p)
  PROVE  Control'
<1> USE DEF diskVars, admitVars, procVars, stopVars, ghostVars, boundVars
<1>1. ASSUME NEW pc \in Pcs, Answering(p, pc)
      PROVE  PostMoves(p, pc)
  BY <1>1, AnsweredPost DEF IInv, Types, PostMoves
<1>2. CASE StartFind(p)
  <2>1. AtHead(p, "queued")
    BY <1>2 DEF StartFind
  <2>2. CASE Reply(p, "refused")
    <3>1. "refused" \in Pcs \ Starting /\ post[p].pc \notin Creating
      BY <2>1 DEF Pcs, Starting, Creating, AtHead
    <3> QED BY <1>2, <2>1, <2>2, <3>1, SentRequest, ReplyStep DEF StartFind, ProcessStays
  <2>3. CASE \E pc \in {"existing", "finding"} :
               closing = "open" /\ Answering(p, pc) /\ UNCHANGED chain
    <3>1. PICK pc \in {"existing", "finding"} :
            closing = "open" /\ Answering(p, pc) /\ UNCHANGED chain
      BY <2>3
    <3>2. pc \in Pcs /\ pc \in Starting /\ pc \notin Creating /\ pc # "validated"
      BY DEF Pcs, Starting, Creating
    <3>3. post[p].pc \notin Creating
      BY <2>1 DEF AtHead, Creating
    <3> QED BY <1>1, <1>2, <2>1, <3>1, <3>2, <3>3, SentRequest, AdvanceStep
        DEF StartFind, ProcessStays
  <2> QED BY <1>2, <2>2, <2>3 DEF StartFind
<1>3. CASE StartExisting(p)
  <2>1. PICK pc \in {"accepted", "conflict"} : Reply(p, pc)
    BY <1>3 DEF StartExisting
  <2>2. pc \in Pcs \ Starting
    BY DEF Pcs, Starting, Creating
  <2>3. AtHead(p, "existing") /\ post[p].pc \notin Creating
    BY <1>3 DEF StartExisting, AtHead, Creating
  <2> QED BY <1>3, <2>1, <2>2, <2>3, SentRequest, ReplyStep DEF StartExisting, ProcessStays
<1>4. CASE StartBroken(p)
  <2>1. "failed" \in Pcs \ Starting
    BY DEF Pcs, Starting, Creating
  <2>2. AtHead(p, "failed") /\ post[p].pc \notin Creating
    BY <1>4 DEF StartBroken, AtHead, Creating
  <2> QED BY <1>4, <2>1, <2>2, SentRequest, ReplyStep DEF StartBroken, ProcessStays
<1>5. CASE StartValidate(p)
  <2>1. AtHead(p, "absent")
    BY <1>5 DEF StartValidate
  <2>2. post[p].pc \notin Creating /\ post[p].pc \in Starting
    BY <2>1 DEF Starting, Creating, AtHead
  <2>3. CASE Reply(p, "conflict")
    <3>1. "conflict" \in Pcs \ Starting
      BY DEF Pcs, Starting, Creating
    <3> QED BY <1>5, <2>1, <2>2, <2>3, <3>1, SentRequest, ReplyStep
        DEF StartValidate, ProcessStays
  <2>4. CASE ~Reply(p, "conflict")
    <3>1. active = NoRun /\ chain' = chain
      BY <1>5, <2>4 DEF StartValidate, Busy
    <3>2. PostMoves(p, "validated")
      <4>1. CASE Answering(p, "validated")
        BY <1>1, <4>1 DEF Pcs
      <4>2. CASE post' = [post EXCEPT ![p].pc = "validated",
                            ![p].messages = Kept(session.messages, @)]
        <5> DEFINE m == Kept(session.messages, post[p].messages)
        <5>1. post' = [post EXCEPT ![p].pc = "validated", ![p].messages = m]
          BY <4>2 DEF IInv, Types, PostType, PostState
        <5> HIDE DEF m
        <5> QED BY <5>1 DEF IInv, Types, PostType, PostState, PostMoves
      <4> QED BY <1>5, <2>4, <4>1, <4>2 DEF StartValidate
    <3>3. "validated" \in Starting /\ "validated" \notin Creating
      BY DEF Starting, Creating
    <3> QED BY <1>5, <2>1, <2>2, <3>1, <3>2, <3>3, SentRequest, AdvanceStep
        DEF StartValidate, ProcessStays
  <2> QED BY <2>3, <2>4
<1>6. CASE StartCreate(p)
  <2>1. "created" \in Pcs /\ "created" \in Starting /\ "created" \in Creating
    BY DEF Pcs, Starting, Creating
  <2>2. AtHead(p, "creating") /\ post[p].pc \in Creating /\ post[p].pc \in Starting
    BY <1>6 DEF StartCreate, AtHead, Creating, Starting
  <2> QED BY <1>1, <1>6, <2>1, <2>2, SentRequest, AdvanceStep DEF StartCreate, ProcessStays
<1>7. CASE StartUpsert(p)
  <2>1. "upserting" \in Pcs /\ "upserting" \in Starting /\ "upserting" \in Creating
    BY DEF Pcs, Starting, Creating
  <2>2. AtHead(p, "created") /\ post[p].pc \in Creating /\ post[p].pc \in Starting
    BY <1>7 DEF StartUpsert, AtHead, Creating, Starting
  <2> DEFINE w == Write("admit", post[p].req)
  <2>3. w \in Writes /\ w.kind # "save"
    BY DEF Write, Writes, IInv, Types, PostType, PostState
  <2>4. writes' = Append(writes, w)
    BY <1>7 DEF StartUpsert
  <2> HIDE DEF w
  <2> QED BY <1>1, <1>7, <2>1, <2>2, <2>3, <2>4, SentRequest, AdvanceStep
      DEF StartUpsert, ProcessStays
<1> QED BY <1>2, <1>3, <1>4, <1>5, <1>6, <1>7

\* stops.check() and active.set(): the chat was free, and no Stop came before.
LEMMA ActivateKeeps ==
  ASSUME IInv, NEW p \in Posts, StartActivate(p)
  PROVE  Control'
<1> USE DEF diskVars, admitVars, procVars, stopVars, ghostVars, boundVars
<1> DEFINE r == post[p].req
<1>1. /\ chain # <<>> /\ Head(chain) = p /\ post[p].pc = "validated"
      /\ r \in Requests /\ boot = "ready"
  BY SentRequest DEF StartActivate
<1>2. CASE Stopped(r)
  <2>1. "conflict" \in Pcs \ Starting /\ post[p].pc \notin Creating
    BY <1>1 DEF Pcs, Starting, Creating
  <2> QED BY <1>1, <1>2, <2>1, ReplyStep DEF StartActivate, ProcessStays
<1>3. CASE ~Stopped(r)
  <2>1. Moves(r, "creating")
    BY <1>1, <1>3, StartActivateMoves DEF IInv, Types
  <2>2. PostMoves(p, "creating")
    BY <1>3, AnsweredPost DEF StartActivate, Pcs, PostMoves, IInv, Types
  <2>3. active = NoRun /\ active' = r
    BY <1>1, <1>3 DEF StartActivate, IInv, Control, Admissions, Free
  <2>4. UNCHANGED <<chain, writes, session>> /\ ProcessStays
    BY <1>3 DEF StartActivate, ProcessStays
  <2>5. \A q \in Requests : run[q].phase \notin Owned
    BY <2>3, RequestsAssumption DEF IInv, Control, OneOwner
  <2>6. OneOwner'
    BY <2>1, <2>3, <2>5 DEF OneOwner, Moves
  <2>7. \A q \in Posts \ {p} : post[q].pc \notin Starting
    BY <1>1 DEF IInv, Control, Admissions, HeadStarts
  <2>8. Admissions'
    <3>1. HeadStarts'
      BY <1>1, <2>2, <2>4, <2>7 DEF HeadStarts, PostMoves
    <3>2. Free'
      BY <2>2, <2>7 DEF Free, PostMoves, Starting
    <3>3. Created'
      BY <1>1, <2>1, <2>2, <2>3, <2>7 DEF Created, PostMoves, Moves, Starting
    <3>4. Creates'
      BY <1>1, <2>1, <2>2, <2>5 DEF Creates, PostMoves, Moves, Creating, Owned
    <3> QED BY <3>1, <3>2, <3>3, <3>4 DEF Admissions
  <2>9. Saves'
    BY <2>1, <2>4, <2>5 DEF IInv, Control, Saves, Saving, SavesOnce, Moves, Owned
  <2>10. Booting'
    BY <1>1, <2>4, BootStays DEF IInv, Control, ProcessStays
  <2>11. Drained'
    <3>1. post[p].pc \in Starting
      BY <1>1 DEF Starting
    <3> QED BY <2>2, <2>4, <2>7, <3>1 DEF IInv, Control, Drained, PostMoves, ProcessStays
  <2>12. Stops'
    BY <1>3, <2>1, <2>2, <2>4
    DEF IInv, Control, Stops, StopsWait, StopIsFinal, Stopped, PostMoves, Moves,
        ProcessStays
  <2>13. Sent'
    BY <1>1, <2>2 DEF IInv, Control, Sent, PostMoves
  <2> QED BY <2>6, <2>8, <2>9, <2>10, <2>11, <2>12, <2>13 DEF Control
<1> QED BY <1>2, <1>3

\* upsert() ends an admission: its run is live.
LEMMA WriteAdmitKeeps ==
  ASSUME IInv, NEW p \in Posts, WriteAdmit(p)
  PROVE  Control'
<1> USE DEF diskVars, admitVars, procVars, stopVars, ghostVars, boundVars
<1> DEFINE r == post[p].req
<1>1. /\ chain # <<>> /\ Head(chain) = p /\ post[p].pc = "upserting"
      /\ r \in Requests /\ boot = "ready"
  BY SentRequest DEF WriteAdmit
<1>2. Moves(r, "live")
  BY <1>1, WriteAdmitMoves DEF IInv, Types
<1>3. PostMoves(p, "accepted")
  BY AnsweredPost DEF WriteAdmit, Reply, Pcs, PostMoves, IInv, Types
<1>4. /\ UNCHANGED active /\ ProcessStays
      /\ writes # <<>> /\ writes' = Tail(writes)
  BY DEF WriteAdmit, ProcessStays, Serve
<1>5. active = r /\ run[r].phase = "creating"
  BY <1>1 DEF IInv, Control, Admissions, Created, Creating
<1>6. Admissions'
  <2>1. "accepted" \notin Starting
    BY DEF Starting, Creating
  <2> QED BY <1>1, <1>2, <1>3, <1>4, <2>1, AdmissionsEnd DEF IInv, Control, Moves
<1>7. OneOwner'
  BY <1>2, <1>4, <1>5, OwnerStays DEF IInv, Control, Moves, Owned
<1>8. Saves'
  <2>1. PICK w \in Writes : w.kind # "save"
    <3>1. Write("put", NoRun) \in Writes /\ Write("put", NoRun).kind # "save"
      BY DEF Write, Writes, Runs
    <3> QED BY <3>1
  <2> QED BY <1>2, <1>4, <1>5, <2>1, SavesStay DEF IInv, Types, Control, Moves
<1>9. Booting'
  BY <1>1, <1>4, BootStays DEF IInv, Control, ProcessStays
<1>10. Drained'
  BY <1>3, <1>4, DrainedStays DEF IInv, Control, PostMoves, ProcessStays, Starting, Creating
<1>11. Stops'
  <2>1. \A q \in Requests : run'[q].phase \in Owned => run[q].phase \in Owned
    BY <1>2, <1>5 DEF Moves, Owned
  <2> QED BY <1>3, <1>4, <2>1, StopsStay DEF IInv, Control, PostMoves, ProcessStays,
      Creating
<1>12. Sent'
  BY <1>1, <1>3 DEF IInv, Control, Sent, PostMoves
<1> QED BY <1>6, <1>7, <1>8, <1>9, <1>10, <1>11, <1>12 DEF Control

\* journal.create() or upsert() fails: the chat is free again.
LEMMA StartFailKeeps ==
  ASSUME IInv, NEW p \in Posts, StartFail(p)
  PROVE  Control'
<1> USE DEF diskVars, admitVars, procVars, stopVars, ghostVars, boundVars
<1> DEFINE r == post[p].req
<1>1. /\ chain # <<>> /\ Head(chain) = p /\ post[p].pc \in {"creating", "upserting"}
      /\ r \in Requests /\ boot = "ready"
  BY SentRequest DEF StartFail
<1>2. Moves(r, "none")
  BY <1>1, StartFailMoves DEF IInv, Types
<1>3. PostMoves(p, "failed")
  BY AnsweredPost DEF StartFail, Reply, Pcs, PostMoves, IInv, Types
<1>4. active' = NoRun /\ ProcessStays
  BY DEF StartFail, ProcessStays
<1>5. writes' = writes \/ (writes # <<>> /\ writes' = Tail(writes))
  BY DEF StartFail
<1>6. active = r /\ run[r].phase = "creating"
  BY <1>1 DEF IInv, Control, Admissions, Created, Creating
<1>7. Admissions'
  <2>1. "failed" \notin Starting
    BY DEF Starting, Creating
  <2> QED BY <1>1, <1>2, <1>3, <2>1, AdmissionsEnd DEF IInv, Control, Moves
<1>8. OneOwner'
  BY <1>1, <1>2, <1>6, OwnerLeaves DEF IInv, Control, Moves, Owned
<1>9. Saves'
  <2>1. PICK w \in Writes : w.kind # "save"
    <3>1. Write("put", NoRun) \in Writes /\ Write("put", NoRun).kind # "save"
      BY DEF Write, Writes, Runs
    <3> QED BY <3>1
  <2> QED BY <1>2, <1>5, <1>6, <2>1, SavesStay DEF IInv, Types, Control, Moves
<1>10. Booting'
  BY <1>1, <1>4, BootStays DEF IInv, Control, ProcessStays
<1>11. Drained'
  BY <1>3, <1>4, DrainedStays DEF IInv, Control, PostMoves, ProcessStays, Starting, Creating
<1>12. Stops'
  <2>1. \A q \in Requests : run'[q].phase \in Owned => run[q].phase \in Owned
    BY <1>2 DEF Moves, Owned
  <2> QED BY <1>3, <1>4, <2>1, StopsStay DEF IInv, Control, PostMoves, ProcessStays,
      Creating
<1>13. Sent'
  BY <1>1, <1>3 DEF IInv, Control, Sent, PostMoves
<1> QED BY <1>7, <1>8, <1>9, <1>10, <1>11, <1>12, <1>13 DEF Control

\* Requests of browsers, and the writes that are not a run's.
LEMMA StoreKeeps ==
  ASSUME IInv, Put \/ DeleteCheck \/ WritePut \/ DeleteEnqueue \/ WriteRemove \/ WriteClear
  PROVE  Control'
<1> USE DEF diskVars, admitVars, procVars, stopVars, ghostVars, boundVars
<1>1. ASSUME NEW kind \in {"put", "remove", "clear"}
      PROVE  Write(kind, NoRun) \in Writes /\ Write(kind, NoRun).kind # "save"
  BY DEF Write, Writes, Runs
<1>2. writes # <<>> => boot = "ready"
  BY DEF IInv, Control, Booting
<1>3. CASE Put
  BY <1>1, <1>3, StoreStep DEF Put, ProcessStays
<1>4. CASE DeleteCheck
  BY <1>4, QuietStep DEF DeleteCheck, ProcessStays, SamePosts, SamePhases
<1>5. CASE WritePut
  BY <1>1, <1>2, <1>5, StoreStep DEF WritePut, Serve, ProcessStays
<1>6. CASE DeleteEnqueue
  <2>1. boot = "ready"
    BY <1>6 DEF DeleteEnqueue, IInv, Control, Booting
  <2> QED BY <1>1, <1>6, <2>1, StoreStep DEF DeleteEnqueue, ProcessStays
<1>7. CASE WriteRemove
  BY <1>1, <1>2, <1>7, StoreStep DEF WriteRemove, Serve, ProcessStays
<1>8. CASE WriteClear
  BY <1>1, <1>2, <1>8, StoreStep DEF WriteClear, Serve, ProcessStays
<1> QED BY <1>3, <1>4, <1>5, <1>6, <1>7, <1>8

\* The queued save is served: its run is the owner, which goes on to its end.
LEMMA WriteSaveKeeps ==
  ASSUME IInv, WriteSave
  PROVE  Control'
<1> USE DEF diskVars, admitVars, procVars, stopVars, ghostVars, boundVars
<1> DEFINE r == Head(writes).run
<1>1. r \in Requests
  BY SavedRun, InvariantKnows DEF WriteSave, IInv, Types
<1>2. /\ writes \in Seq(Writes) /\ writes # <<>> /\ Head(writes).kind = "save"
      /\ writes' = Tail(writes)
  BY DEF WriteSave, Serve, IInv, Types, WritesType
<1>3. Moves(r, "ending")
  BY <1>1, WriteSaveMoves DEF IInv, Types
<1>4. 1 \in 1..Len(writes) /\ Head(writes) = writes[1]
  BY <1>2
<1>5. run[r].phase = "upserting"
  BY <1>2, <1>4 DEF IInv, Control, Saves, Saving
<1>6. UNCHANGED <<chain, post, active>> /\ ProcessStays
  BY DEF WriteSave, ProcessStays
<1>7. \A q \in Requests : run'[q].phase \in Owned => run[q].phase \in Owned
  BY <1>3, <1>5 DEF Moves, Owned
<1>8. Admissions'
  BY <1>3, <1>5, <1>6, AdmissionsStay DEF IInv, Control, Moves
<1>9. OneOwner' /\ Stops' /\ Drained'
  BY <1>6, <1>7, OwnerStays, StopsStay, DrainedStays DEF IInv, Control, ProcessStays
<1>10. Saves'
  <2>1. \A i \in 1..Len(writes) : writes[i].kind = "save" => i = 1
    BY <1>2, <1>4 DEF IInv, Control, Saves, SavesOnce
  <2>2. \A i \in 1..Len(Tail(writes)) :
          i + 1 \in 1..Len(writes) /\ Tail(writes)[i] = writes[i + 1]
    BY <1>2
  <2>3. \A i \in 1..Len(Tail(writes)) : i + 1 # 1
    BY <1>2
  <2>4. \A i \in 1..Len(writes') : writes'[i].kind # "save"
    BY <1>2, <2>1, <2>2, <2>3
  <2> QED BY <2>4 DEF Saves, Saving, SavesOnce
<1>11. Booting'
  BY <1>2, <1>6, BootStays DEF IInv, Control, Booting, ProcessStays
<1>12. Sent'
  BY <1>6 DEF IInv, Control, Sent
<1> QED BY <1>8, <1>9, <1>10, <1>11, <1>12 DEF Control

\* A step of a run that leaves it with its owner.
LEMMA WorkerKeeps ==
  ASSUME IInv, NEW r \in Requests, Worker(r) \/ Stream(r), ~End(r), ~SaveSession(r)
  PROVE  Control'
<1> USE DEF diskVars, admitVars, procVars, stopVars, ghostVars, boundVars
<1> DEFINE Others == /\ ProcessStays /\ UNCHANGED <<chain, post, active, writes>>
                     /\ session' = session /\ deleting' = deleting
<1>1. ASSUME Moves(r, run[r].phase), Others
      PROVE  Control'
  BY <1>1, QuietStep DEF Moves, SamePhases, SamePosts
<1>2. ASSUME NEW ph \in {"settling", "closing", "saving", "sessioning", "ending"},
             Moves(r, ph), Others,
             run[r].phase \in {"live", "settling", "closing", "saving"}
      PROVE  Control'
  <2>1. ph \in Owned \ {"creating"} /\ run[r].phase \in Owned \ {"creating", "upserting"}
    BY <1>2 DEF Owned
  <2> QED BY <1>2, <2>1, RunStep
<1>3. CASE Push(r)
  <2>1. Others
    BY <1>3 DEF Push, ProcessStays
  <2> QED BY <1>1, <1>3, <2>1, PushMoves DEF IInv, Types
<1>4. CASE \E c \in Provided : Emit(r, c)
  <2>1. Others
    BY <1>4 DEF Emit, ProcessStays
  <2> QED BY <1>1, <1>4, <2>1, EmitMoves DEF IInv, Types
<1>5. CASE ToolStart(r) \/ ToolEffect(r) \/ ToolRecord(r)
  <2>1. Others
    BY <1>5 DEF ToolStart, ToolEffect, ToolRecord, ProcessStays
  <2> QED BY <1>1, <1>5, <2>1, ToolMoves DEF IInv, Types
<1>6. CASE EmitFail(r)
  <2>1. Others /\ run[r].phase = "live"
    BY <1>6 DEF EmitFail, Step, ProcessStays
  <2> QED BY <1>2, <1>6, <2>1, EmitFailMoves DEF IInv, Types
<1>7. CASE StreamEnd(r)
  <2>1. Others /\ run[r].phase = "live"
    BY <1>7 DEF StreamEnd, Step, ProcessStays
  <2> QED BY <1>2, <1>7, <2>1, StreamEndMoves DEF IInv, Types
<1>8. CASE AbortSeen(r)
  <2>1. Others /\ run[r].phase = "live"
    BY <1>8 DEF AbortSeen, Step, ProcessStays
  <2> QED BY <1>2, <1>8, <2>1, AbortSeenMoves DEF IInv, Types
<1>9. CASE Settle(r)
  <2>1. Others /\ run[r].phase = "settling"
    BY <1>9 DEF Settle, Step, ProcessStays
  <2> QED BY <1>2, <1>9, <2>1, SettleMoves DEF IInv, Types
<1>10. CASE CloseEvents(r)
  <2>1. Others /\ run[r].phase = "closing"
    BY <1>10 DEF CloseEvents, Step, ProcessStays
  <2> QED BY <1>2, <1>10, <2>1, CloseEventsMoves DEF IInv, Types
<1>11. CASE Save(r)
  <2>1. Others /\ run[r].phase = "saving"
    BY <1>11 DEF Save, Step, ProcessStays
  <2> QED BY <1>2, <1>11, <2>1, SaveMoves DEF IInv, Types
<1> QED BY <1>3, <1>4, <1>5, <1>6, <1>7, <1>8, <1>9, <1>10, <1>11 DEF Worker, Stream

\* saveRunSession(): no save was queued, for its run would have waited for it.
LEMMA SaveSessionKeeps ==
  ASSUME IInv, NEW r \in Requests, SaveSession(r)
  PROVE  Control'
<1> USE DEF diskVars, admitVars, procVars, stopVars, ghostVars, boundVars
<1>1. /\ run[r].phase = "sessioning" /\ ProcessStays
      /\ UNCHANGED <<chain, post, active, session>>
  BY DEF SaveSession, Step, ProcessStays
<1>2. CASE Moves(r, "ending") /\ writes' = writes
  <2>1. /\ "ending" \in Owned \ {"creating"}
        /\ run[r].phase \in Owned \ {"creating", "upserting"}
    BY <1>1 DEF Owned
  <2> QED BY <1>1, <1>2, <2>1, RunStep
<1>3. CASE Moves(r, "upserting") /\ writes' = Append(writes, Write("save", r))
  <2>1. active = r
    BY <1>1 DEF IInv, Control, OneOwner, Owned
  <2>2. \A i \in 1..Len(writes) : writes[i].kind # "save"
    BY <1>1, <2>1 DEF IInv, Control, OneOwner, Owned, Saves, Saving
  <2>3. Saves'
    <3> DEFINE w == Write("save", r)
    <3>1. w.kind = "save" /\ w.run = r
      BY DEF Write
    <3> HIDE DEF w
    <3>2. writes \in Seq(Writes) /\ writes' = Append(writes, w)
      BY <1>3 DEF w, IInv, Types, WritesType
    <3>3. \A i \in 1..Len(writes') : writes'[i].kind = "save" =>
            i = Len(writes) + 1 /\ writes'[i] = w
      BY <2>2, <3>2
    <3>4. run'[r].phase = "upserting"
      BY <1>3 DEF Moves
    <3> QED BY <3>1, <3>3, <3>4 DEF Saves, Saving, SavesOnce
  <2>4. Admissions'
    BY <1>1, <1>3, AdmissionsStay DEF IInv, Control, Moves
  <2>5. OneOwner' /\ Stops' /\ Drained'
    BY <1>1, <1>3, OwnerStays, StopsStay, DrainedStays
    DEF IInv, Control, Moves, Owned, ProcessStays
  <2>6. Booting' /\ Sent'
    BY <1>1, BootStays DEF IInv, Control, Booting, ProcessStays, Sent
  <2> QED BY <2>3, <2>4, <2>5, <2>6 DEF Control
<1> QED BY <1>2, <1>3, SaveSessionMoves DEF IInv, Types

\* active.delete(): no admission owns the chat.
LEMMA EndKeeps ==
  ASSUME IInv, NEW r \in Requests, End(r)
  PROVE  Control'
<1> USE DEF diskVars, admitVars, procVars, stopVars, ghostVars, boundVars
<1>1. /\ run[r].phase = "ending" /\ ProcessStays /\ active' = NoRun
      /\ UNCHANGED <<chain, post, writes, session>>
  BY DEF End, Step, ProcessStays
<1>2. Moves(r, "done")
  BY EndMoves DEF IInv, Types
<1>3. active = r
  BY <1>1 DEF IInv, Control, OneOwner, Owned
<1>4. \A p \in Posts : post[p].pc \notin Creating
  BY <1>1, <1>3 DEF IInv, Control, Admissions, Created
<1>5. Admissions'
  BY <1>1, <1>2, <1>4
  DEF IInv, Control, Admissions, HeadStarts, Free, Created, Creates, Moves
<1>6. OneOwner'
  BY <1>2, <1>3, OwnerLeaves DEF IInv, Control, Moves, Owned
<1>7. Saves'
  BY <1>1, <1>2 DEF IInv, Control, Saves, Saving, SavesOnce, Moves
<1>8. Drained' /\ Stops'
  BY <1>1, <1>2, DrainedStays, StopsStay DEF IInv, Control, Moves, Owned, ProcessStays
<1>9. Booting' /\ Sent'
  BY <1>1, BootStays DEF IInv, Control, Booting, ProcessStays, Sent
<1> QED BY <1>5, <1>6, <1>7, <1>8, <1>9 DEF Control

\* A submission joins the chain.
LEMMA SubmitKeeps ==
  ASSUME IInv, NEW p \in Posts, NEW r \in Requests, NEW m, Submit(p, r, m)
  PROVE  Control'
<1> USE DEF diskVars, admitVars, procVars, stopVars, ghostVars, boundVars
<1>1. /\ boot = "ready" /\ post[p].pc = "unsent" /\ ProcessStays
      /\ UNCHANGED <<active, run, writes, session>>
  BY DEF Submit, ProcessStays
<1>2. /\ post'[p].pc = "queued" /\ post'[p].req = r
      /\ \A q \in Posts \ {p} : post'[q] = post[q]
  BY DEF Submit, IInv, Types, PostType, PostState
<1>3. "queued" \notin Starting /\ Creating \subseteq Starting /\ "validated" \in Starting
  BY DEF Starting, Creating
<1>4. post[p].pc \notin Starting
  BY <1>1 DEF Starting, Creating
<1>5. chain # <<>> => chain' # <<>> /\ Head(chain') = Head(chain)
  BY DEF Submit, IInv, Types, ChainType
<1>6. Admissions'
  <2>1. HeadStarts'
    BY <1>2, <1>3, <1>5 DEF IInv, Control, Admissions, HeadStarts
  <2>2. Free' /\ Created'
    BY <1>1, <1>2, <1>3 DEF IInv, Control, Admissions, Free, Created
  <2>3. Creates'
    BY <1>1, <1>2, <1>3, <1>4 DEF IInv, Control, Admissions, Creates
  <2> QED BY <2>1, <2>2, <2>3 DEF Admissions
<1>7. OneOwner' /\ Saves'
  BY <1>1 DEF IInv, Control, OneOwner, Saves, Saving, SavesOnce
<1>8. Drained' /\ Stops'
  BY <1>1, <1>2, <1>3, DrainedStays, StopsStay DEF IInv, Control, ProcessStays
<1>9. Booting' /\ Sent'
  BY <1>1, <1>2, BootStays DEF IInv, Control, ProcessStays, Sent
<1> QED BY <1>6, <1>7, <1>8, <1>9 DEF Control

\* The admission that is past find() is one of those in the chain.
LEMMA StarterInChain ==
  ASSUME IInv, NEW p \in Posts, post[p].pc \in Starting
  PROVE  p \in ToSet(chain)
<1>1. chain \in Seq(Posts) /\ chain # <<>> /\ Head(chain) = p
  BY DEF IInv, Types, ChainType, Control, Admissions, HeadStarts
<1> QED BY <1>1 DEF ToSet

\* A Stop captures the admissions it has to wait for.
LEMMA StopKeeps ==
  ASSUME IInv, NEW r \in Requests, NEW b \in BOOLEAN, Stop(r, b)
  PROVE  Control'
<1> USE DEF diskVars, admitVars, procVars, stopVars, ghostVars, boundVars
<1>1. /\ boot = "ready" /\ stopper[r].pc = "idle"
      /\ stopper' = [stopper EXCEPT ![r] = [pc |-> "waiting", waits |-> ToSet(chain)]]
      /\ requested' = requested \/ requested' = requested \cup {r}
      /\ UNCHANGED <<chain, post, active, run, writes, session>>
      /\ UNCHANGED <<boot, closing, closeWaits>>
  BY DEF Stop
<1>2. r \notin requested
  BY <1>1 DEF IInv, Control, Stops, StopsWait
<1>3. /\ stopper'[r].pc = "waiting" /\ stopper'[r].waits = ToSet(chain)
      /\ \A q \in Requests \ {r} : stopper'[q] = stopper[q]
  BY <1>1 DEF IInv, Types, StopperType
<1>4. requested \subseteq Requests
  BY DEF IInv, Types, OtherType
<1>5. StopsWait'
  <2>1. \A p \in Posts : post[p].pc \in Creating => p \in ToSet(chain)
    BY StarterInChain DEF Starting
  <2> QED BY <1>1, <1>2, <1>3, <1>4, <2>1 DEF IInv, Control, Stops, StopsWait
<1>6. StopIsFinal'
  BY <1>1, <1>2, <1>3 DEF IInv, Control, Stops, StopIsFinal
<1>7. Admissions' /\ OneOwner' /\ Saves' /\ Sent'
  BY <1>1 DEF IInv, Control, Admissions, HeadStarts, Free, Created, Creates, OneOwner,
     Saves,
     Saving, SavesOnce, Sent
<1>8. Drained' /\ Booting'
  BY <1>1 DEF IInv, Control, Drained, Booting
<1> QED BY <1>5, <1>6, <1>7, <1>8 DEF Control, Stops

\* The Stop finds its run, or that there is none and none to come.
LEMMA StopFindKeeps ==
  ASSUME IInv, NEW r \in Requests, StopFind(r)
  PROVE  Control'
<1> USE DEF diskVars, admitVars, procVars, stopVars, ghostVars, boundVars
<1>1. /\ stopper[r].waits \cap ToSet(chain) = {} /\ stopper[r].pc = "waiting"
      /\ UNCHANGED <<chain, post, active, writes, session, requested, deleting>>
      /\ UNCHANGED <<boot, closing, closeWaits>>
  BY DEF StopFind
<1>2. SamePhases
  <2>1. CASE active = r
    BY <2>1, AbortMoves DEF StopFind, Moves, SamePhases, IInv, Types
  <2>2. CASE active # r
    BY <2>2 DEF StopFind, SamePhases
  <2> QED BY <2>1, <2>2
<1>3. \E pc \in {"returned", "aborted"} :
        /\ stopper' = [stopper EXCEPT ![r].pc = pc]
        /\ pc = "returned" => active # r \/ run[r].phase = "creating"
  BY DEF StopFind
<1>4. PICK pc \in {"returned", "aborted"} :
        /\ stopper' = [stopper EXCEPT ![r].pc = pc]
        /\ pc = "returned" => active # r \/ run[r].phase = "creating"
  BY <1>3
<1>5. /\ stopper'[r].pc = pc
      /\ \A q \in Requests : stopper'[q].waits = stopper[q].waits
      /\ \A q \in Requests \ {r} : stopper'[q] = stopper[q]
  BY <1>4 DEF IInv, Types, StopperType
<1>6. r \in requested => run[r].phase # "creating"
  <2>1. ASSUME r \in requested, NEW p \in Posts, post[p].pc \in Creating, post[p].req = r
        PROVE  FALSE
    BY <1>1, <2>1, StarterInChain DEF IInv, Control, Stops, StopsWait, Starting
  <2> QED BY <2>1 DEF IInv, Control, Admissions, Creates
<1>7. StopsWait'
  BY <1>1, <1>4, <1>5 DEF IInv, Types, OtherType, Control, Stops, StopsWait
<1>8. StopIsFinal'
  <2>1. ASSUME r \in requested, pc = "returned"
        PROVE  run[r].phase \notin Owned
    BY <1>4, <1>6, <2>1 DEF IInv, Control, OneOwner
  <2> QED BY <1>1, <1>2, <1>5, <2>1 DEF IInv, Control, Stops, StopIsFinal, SamePhases
<1>9. Admissions'
  BY <1>1, <1>2, AdmissionsStay DEF IInv, Control, SamePhases
<1>10. OneOwner' /\ Drained' /\ Booting'
  BY <1>1, <1>2, OwnerStays, DrainedStays, BootStays DEF IInv, Control, SamePhases
<1>11. Saves' /\ Sent'
  BY <1>1, <1>2 DEF IInv, Control, Saves, Saving, SavesOnce, Sent, SamePhases
<1> QED BY <1>7, <1>8, <1>9, <1>10, <1>11 DEF Control, Stops

\* The run of a Stop is done.
LEMMA StopDoneKeeps ==
  ASSUME IInv, NEW r \in Requests, StopDone(r)
  PROVE  Control'
<1> USE DEF diskVars, admitVars, procVars, stopVars, ghostVars, boundVars
<1>1. /\ run[r].phase = "done"
      /\ stopper' = [stopper EXCEPT ![r].pc = "returned"]
      /\ UNCHANGED <<chain, post, active, run, writes, session, requested, deleting>>
      /\ UNCHANGED <<boot, closing, closeWaits>>
  BY DEF StopDone
<1>2. /\ stopper'[r].pc = "returned"
      /\ \A q \in Requests : stopper'[q].waits = stopper[q].waits
      /\ \A q \in Requests \ {r} : stopper'[q] = stopper[q]
  BY <1>1 DEF IInv, Types, StopperType
<1>3. StopsWait'
  BY <1>1, <1>2 DEF IInv, Types, OtherType, Control, Stops, StopsWait
<1>4. StopIsFinal'
  BY <1>1, <1>2 DEF IInv, Control, Stops, StopIsFinal, Owned
<1>5. Admissions' /\ OneOwner' /\ Saves' /\ Sent'
  BY <1>1 DEF IInv, Control, Admissions, HeadStarts, Free, Created, Creates, OneOwner,
     Saves,
     Saving, SavesOnce, Sent
<1>6. Drained' /\ Booting'
  BY <1>1 DEF IInv, Control, Drained, Booting
<1> QED BY <1>3, <1>4, <1>5, <1>6 DEF Control, Stops

\* close().
LEMMA CloseKeeps ==
  ASSUME IInv, CloseBegin \/ Closing
  PROVE  Control'
<1> USE DEF diskVars, admitVars, procVars, stopVars, ghostVars, boundVars
<1>1. /\ UNCHANGED <<chain, post, active, writes, session, deleting>>
      /\ UNCHANGED <<boot, stopper, requested>>
  BY DEF CloseBegin, Closing, CloseWait, CloseAbort, CloseDone
<1>2. SamePhases
  <2>1. CASE CloseAbort
    <3>1. CASE active = NoRun
      BY <2>1, <3>1 DEF CloseAbort, SamePhases
    <3>2. CASE active # NoRun
      BY <2>1, <3>2, AbortMoves DEF CloseAbort, SamePhases, Moves, IInv, Types, OtherType,
         Runs
    <3> QED BY <3>1, <3>2
  <2>2. CASE CloseBegin \/ CloseWait \/ CloseDone
    BY <2>2 DEF CloseBegin, CloseWait, CloseDone, SamePhases
  <2> QED BY <2>1, <2>2 DEF Closing
<1>3. Drained'
  <2>1. CASE CloseBegin
    BY <2>1 DEF CloseBegin, Drained
  <2>2. CASE CloseWait
    BY <2>2, StarterInChain DEF CloseWait, Drained
  <2>3. CASE CloseAbort
    <3>1. \A p \in Posts : post[p].pc \notin Starting
      BY <2>3, StarterInChain DEF CloseAbort, Admitted, IInv, Control, Drained
    <3> QED BY <1>1, <2>3, <3>1 DEF CloseAbort, Drained
  <2>4. CASE CloseDone
    BY <2>4 DEF CloseDone, IInv, Control, Drained
  <2> QED BY <2>1, <2>2, <2>3, <2>4 DEF Closing
<1>4. Admissions'
  BY <1>1, <1>2, AdmissionsStay DEF IInv, Control, SamePhases
<1>5. OneOwner' /\ Stops' /\ Booting'
  BY <1>1, <1>2, OwnerStays, StopsStay, BootStays DEF IInv, Control, SamePhases
<1>6. Saves' /\ Sent'
  BY <1>1, <1>2 DEF IInv, Control, Saves, Saving, SavesOnce, Sent, SamePhases
<1> QED BY <1>3, <1>4, <1>5, <1>6 DEF Control

\* The process ends and another begins.
LEMMA RestartKeeps ==
  ASSUME IInv, Restart
  PROVE  Control'
<1> USE DEF diskVars, admitVars, procVars, stopVars, ghostVars, boundVars
<1>1. /\ boot' = "starting" /\ closing' = "open" /\ active' = NoRun
      /\ chain' = <<>> /\ writes' = <<>> /\ requested' = {} /\ deleting' = FALSE
  BY DEF Restart
<1>2. \A r \in Requests : run'[r].phase = "none"
  BY DEF Restart, Idle
<1>3. ASSUME NEW p \in Posts
      PROVE  /\ post'[p].req = post[p].req /\ post'[p].pc \notin Starting
             /\ post'[p].pc = "lost" \/ post'[p].pc = post[p].pc
  <2>1. post[p] \in PostState
    BY DEF IInv, Types, PostType
  <2>2. CASE p \in ToSet(chain)
    <3>1. post'[p] = [post[p] EXCEPT !.pc = "lost"]
      BY <2>2 DEF Restart
    <3>2. post'[p].req = post[p].req /\ post'[p].pc = "lost"
      BY <2>1, <3>1 DEF PostState
    <3> QED BY <3>2 DEF Starting, Creating
  <2>3. CASE p \notin ToSet(chain)
    <3>1. post'[p] = post[p]
      BY <2>3 DEF Restart
    <3> QED BY <2>3, <3>1, StarterInChain
  <2> QED BY <2>2, <2>3
<1>4. Admissions'
  BY <1>2, <1>3 DEF Admissions, HeadStarts, Free, Created, Creates, Starting
<1>5. OneOwner'
  BY <1>2 DEF OneOwner, Owned
<1>6. Saves' /\ Booting'
  BY <1>1, <1>2 DEF Saves, Saving, SavesOnce, Booting
<1>7. Drained' /\ Stops'
  BY <1>1 DEF Drained, Stops, StopsWait, StopIsFinal
<1>8. Sent'
  BY <1>3 DEF IInv, Control, Sent
<1> QED BY <1>4, <1>5, <1>6, <1>7, <1>8 DEF Control

\* initialize().
LEMMA BootKeeps ==
  ASSUME IInv, BootLoad \/ BootSave
  PROVE  Control'
<1> USE DEF diskVars, admitVars, procVars, stopVars, ghostVars, boundVars
<1>1. /\ UNCHANGED <<chain, post, active, run, writes, deleting>>
      /\ UNCHANGED <<closing, closeWaits, stopper, requested>>
  BY DEF BootLoad, BootSave
<1>2. Booting'
  <2>1. CASE BootLoad
    BY <2>1 DEF BootLoad, Owns, IInv, Types, SessionType, Runs, Control, Booting
  <2>2. CASE BootSave
    BY <2>2 DEF BootSave, Booting
  <2> QED BY <2>1, <2>2
<1>3. Admissions' /\ OneOwner' /\ Saves' /\ Sent'
  BY <1>1 DEF IInv, Control, Admissions, HeadStarts, Free, Created, Creates, OneOwner,
     Saves,
     Saving, SavesOnce, Sent
<1>4. Drained' /\ Stops'
  BY <1>1, DrainedStays, StopsStay DEF IInv, Control
<1> QED BY <1>2, <1>3, <1>4 DEF Control

\* The control part holds initially.
LEMMA InitControl == Init => Control
<1> SUFFICES ASSUME Init PROVE Control
  OBVIOUS
<1>1. /\ boot = "ready" /\ closing = "open" /\ requested = {} /\ writes = <<>>
  BY DEF Init
<1>2. \A r \in Requests : run[r].phase = "none"
  BY DEF Init, Idle
<1>3. \A p \in Posts : post[p].pc = "unsent" /\ post[p].pc \notin Starting
  BY DEF Init, Unsent, Starting, Creating
<1>4. Admissions
  BY <1>2, <1>3 DEF Admissions, HeadStarts, Free, Created, Creates, Starting
<1>5. OneOwner
  BY <1>2 DEF OneOwner, Owned
<1>6. Saves /\ Booting /\ Drained /\ Stops
  BY <1>1 DEF Saves, Saving, SavesOnce, Booting, Drained, Stops, StopsWait, StopIsFinal
<1> QED BY <1>3, <1>4, <1>5, <1>6 DEF Control, Sent

\* Every step keeps the control part.
LEMMA NextControl ==
  ASSUME IInv, [Next]_vars
  PROVE  Control'
<1>1. CASE UNCHANGED vars
  BY <1>1, QuietStep DEF vars, ProcessStays, SamePosts, SamePhases
<1>2. CASE \E p \in Posts : Admission(p) \/ StartFail(p)
  BY <1>2, AdmissionKeeps, ActivateKeeps, WriteAdmitKeeps, StartFailKeeps DEF Admission
<1>3. CASE \E r \in Requests : Poll(r) \/ Loader(r) \/ Worker(r) \/ Stream(r)
  BY <1>3, LoaderKeeps, WorkerKeeps, SaveSessionKeeps, EndKeeps
<1>4. CASE \E r \in Requests : (\E b \in BOOLEAN : Stop(r, b)) \/ StopFind(r) \/ StopDone(r)
  BY <1>4, StopKeeps, StopFindKeeps, StopDoneKeeps
<1>5. CASE Put \/ DeleteCheck \/ Store
  BY <1>5, StoreKeeps, WriteSaveKeeps DEF Store
<1>6. CASE CloseBegin \/ Closing \/ Restart \/ BootLoad \/ BootSave
  BY <1>6, CloseKeeps, RestartKeeps, BootKeeps
<1>7. CASE \E p \in Posts, r \in Requests : \E m \in Submittable(r) : Submit(p, r, m)
  BY <1>7, SubmitKeeps
<1> QED BY <1>1, <1>2, <1>3, <1>4, <1>5, <1>6, <1>7 DEF Next

-----------------------------------------------------------------------------
(* Theorems.                                                               *)

\* The invariant holds in every reachable state.
THEOREM Invariant == Spec => []IInv
<1>1. Init => IInv
  BY InitTypes, InitControl DEF IInv
<1>2. IInv /\ [Next]_vars => IInv'
  BY NextTypes, NextControl, InvariantKnows DEF IInv
<1> QED BY <1>1, <1>2, PTL DEF Spec

\* Every variable of SearchRuns has its type: the phases of a run, the steps of an
\* admission, a read or a stop, and what is on disk are the ones named.
THEOREM TypeCorrect == Spec => []TypeOK
<1>1. IInv => TypeOK
  BY TypesAre DEF IInv
<1> QED BY <1>1, Invariant, PTL

\* However submissions, stops, deletions, failures and restarts interleave, a run
\* between active.set and active.delete is the chat's one owner.
THEOREM OneRunPerChat == Spec => []OneOwner
<1>1. IInv => OneOwner
  BY DEF IInv, Control
<1> QED BY <1>1, Invariant, PTL

\* When a Stop by request id has answered, its run is not live and never will be,
\* also if the Stop came before the submission it names.
THEOREM StoppedStays == Spec => []StopIsFinal
<1>1. IInv => StopIsFinal
  BY DEF IInv, Control, Stops
<1> QED BY <1>1, Invariant, PTL

\* When close() has returned no run of the chat is live, and none will be.
THEOREM ClosedIsQuiet == Spec => []CloseQuiesces
<1>1. IInv => CloseQuiesces
  <2> SUFFICES ASSUME IInv, closing = "closed", NEW r \in Requests
               PROVE  run[r].phase \notin Owned
    BY DEF CloseQuiesces
  <2>1. active = NoRun
    BY DEF IInv, Control, Drained
  <2> QED BY <2>1, RequestsAssumption DEF IInv, Control, OneOwner
<1> QED BY <1>1, Invariant, PTL
-----------------------------------------------------------------------------
(* What a step does to the admissions, whatever it is.                      *)

\* start() goes on: it finds out whether there is a run, is free to begin one,
\* makes it the chat's owner, creates its journal and saves the chat.
Turned(p) ==
  \/ post'[p].pc = post[p].pc
  \/ /\ post'[p].pc \in {"finding", "existing"}
     /\ \/ post[p].pc = "queued" /\ Undisturbed
        \/ post[p].pc = "finding"
  \/ /\ post[p].pc = "finding" /\ post'[p].pc = "absent"
     /\ LoadRead(post[p].req) /\ journal[post[p].req].status = "absent"
  \/ post[p].pc = "absent" /\ post'[p].pc = "validated"
       /\ UNCHANGED <<journal, run, active>>
  \/ post[p].pc = "validated" /\ post'[p].pc = "creating" /\ StartActivate(p)
  \/ post[p].pc = "creating" /\ post'[p].pc = "created" /\ StartCreate(p)
  \/ post[p].pc = "created" /\ post'[p].pc = "upserting" /\ UNCHANGED <<journal, run, active>>

\* An admission that has begun keeps its request, and advances one step at a time.
LEMMA LoaderTurns ==
  ASSUME IInv, NEW r \in Requests, Poll(r) \/ Loader(r), NEW p \in Posts
  PROVE  post'[p].req = post[p].req /\ (post'[p].pc \in Starting => Turned(p))
<1> USE DEF diskVars, admitVars, procVars, stopVars, ghostVars, boundVars
<1>1. ASSUME NEW pc \in {"absent", "existing", "failed"}, Loaded(r, pc)
      PROVE  /\ post'[p].req = post[p].req
             /\ \/ post'[p].pc = post[p].pc
                \/ post[p].pc = "finding" /\ post[p].req = r /\ post'[p].pc = pc
  <2>1. post[p] \in PostState
    BY DEF IInv, Types, PostType
  <2>2. CASE post[p].pc = "finding" /\ post[p].req = r
    <3>1. post'[p] = [post[p] EXCEPT !.pc = pc]
      BY <1>1, <2>2 DEF Loaded
    <3> QED BY <2>1, <2>2, <3>1 DEF PostState
  <2>3. CASE ~(post[p].pc = "finding" /\ post[p].req = r)
    <3>1. post'[p] = post[p]
      BY <1>1, <2>3 DEF Loaded
    <3> QED BY <3>1
  <2> QED BY <2>2, <2>3
<1>2. CASE Poll(r)
  BY <1>2 DEF Poll, Turned
<1>3. CASE LoadRead(r)
  <2>1. CASE journal[r].status = "absent" /\ Loaded(r, "absent")
    BY <1>1, <1>3, <2>1 DEF Turned
  <2>2. CASE Loaded(r, "existing")
    BY <1>1, <2>2 DEF Turned
  <2>3. CASE UNCHANGED post
    BY <2>3 DEF Turned
  <2> QED BY <1>3, <2>1, <2>2, <2>3 DEF LoadRead
<1>4. CASE LoadPublish(r)
  BY <1>4 DEF LoadPublish, Turned
<1>5. CASE LoadFail(r)
  <2>1. Loaded(r, "failed")
    BY <1>5 DEF LoadFail
  <2> QED BY <1>1, <2>1 DEF Turned, Starting, Creating
<1>6. CASE LoadSave(r)
  <2>1. Loaded(r, "existing")
    BY <1>6 DEF LoadSave
  <2> QED BY <1>1, <2>1 DEF Turned
<1> QED BY <1>2, <1>3, <1>4, <1>5, <1>6 DEF Loader

\* (A step of start() is the step of the chain's head.)
LEMMA AdmissionTurns ==
  ASSUME IInv, NEW p \in Posts, Admission(p) \/ StartFail(p), NEW q \in Posts
  PROVE  post'[q].req = post[q].req /\ (post'[q].pc \in Starting => Turned(q))
<1> USE DEF diskVars, admitVars, procVars, stopVars, ghostVars, boundVars
<1>1. ASSUME NEW pc \in Pcs, Answering(p, pc)
      PROVE  /\ post'[p].pc = pc /\ post'[p].req = post[p].req
             /\ q # p => post'[q] = post[q]
  BY <1>1, AnsweredPost DEF IInv, Types
<1>2. ASSUME NEW pc \in Pcs, post'[p].pc = pc, post'[p].req = post[p].req,
             q # p => post'[q] = post[q], pc \in Starting => Turned(p)
      PROVE  post'[q].req = post[q].req /\ (post'[q].pc \in Starting => Turned(q))
  BY <1>2 DEF Turned
<1>3. ASSUME NEW pc \in Pcs \ Starting, Answering(p, pc)
      PROVE  post'[q].req = post[q].req /\ (post'[q].pc \in Starting => Turned(q))
  BY <1>1, <1>2, <1>3
<1>4. {"refused", "accepted", "conflict", "failed"} \subseteq Pcs \ Starting
  BY DEF Pcs, Starting, Creating
<1>5. {"existing", "finding", "validated", "creating", "created", "upserting"} \subseteq Pcs
  BY DEF Pcs
<1>6. CASE StartFind(p)
  <2>1. post[p].pc = "queued" /\ Undisturbed
    BY <1>6 DEF StartFind, AtHead
  <2>2. \E pc \in {"refused", "existing", "finding"} : Answering(p, pc)
    BY <1>6 DEF StartFind, Reply
  <2>3. CASE Answering(p, "refused")
    BY <1>3, <1>4, <2>3
  <2>4. ASSUME NEW pc \in {"existing", "finding"}, Answering(p, pc) PROVE Turned(p)
    BY <1>1, <1>5, <2>1, <2>4 DEF Turned
  <2> QED BY <1>1, <1>2, <1>5, <2>2, <2>3, <2>4
<1>7. CASE StartExisting(p) \/ StartBroken(p) \/ StartFail(p) \/ WriteAdmit(p)
  <2>1. \E pc \in {"accepted", "conflict", "failed"} : Answering(p, pc)
    BY <1>7 DEF StartExisting, StartBroken, StartFail, WriteAdmit, Reply
  <2> QED BY <1>3, <1>4, <2>1
<1>8. CASE StartValidate(p)
  <2>1. CASE Answering(p, "conflict")
    BY <1>3, <1>4, <2>1
  <2>2. CASE ~Answering(p, "conflict")
    <3>1. /\ post'[p].pc = "validated" /\ post'[p].req = post[p].req
          /\ q # p => post'[q] = post[q]
      <4>1. CASE Answering(p, "validated")
        BY <1>1, <1>5, <4>1
      <4>2. CASE post' = [post EXCEPT ![p].pc = "validated",
                            ![p].messages = Kept(session.messages, @)]
        <5> DEFINE m == Kept(session.messages, post[p].messages)
        <5>1. post' = [post EXCEPT ![p].pc = "validated", ![p].messages = m]
          BY <4>2 DEF IInv, Types, PostType, PostState
        <5> HIDE DEF m
        <5> QED BY <5>1 DEF IInv, Types, PostType, PostState
      <4> QED BY <1>8, <2>2, <4>1, <4>2 DEF StartValidate, Reply
    <3>2. post[p].pc = "absent" /\ UNCHANGED <<journal, run, active>>
      BY <1>8 DEF StartValidate, AtHead
    <3>3. Turned(p)
      BY <3>1, <3>2 DEF Turned
    <3> QED BY <1>2, <1>5, <3>1, <3>3
  <2> QED BY <2>1, <2>2
<1>9. CASE StartActivate(p)
  <2>1. post[p].pc = "validated"
    BY <1>9 DEF StartActivate, AtHead
  <2>2. CASE Answering(p, "conflict")
    BY <1>3, <1>4, <2>2
  <2>3. CASE Answering(p, "creating")
    <3>1. Turned(p)
      BY <1>1, <1>5, <1>9, <2>1, <2>3 DEF Turned
    <3> QED BY <1>1, <1>2, <1>5, <2>3, <3>1
  <2> QED BY <1>9, <2>2, <2>3 DEF StartActivate, Reply
<1>10. CASE StartCreate(p)
  <2>1. post[p].pc = "creating" /\ Answering(p, "created")
    BY <1>10 DEF StartCreate, AtHead
  <2>2. Turned(p)
    BY <1>1, <1>5, <1>10, <2>1 DEF Turned
  <2> QED BY <1>1, <1>2, <1>5, <2>1, <2>2
<1>11. CASE StartUpsert(p)
  <2>1. post[p].pc = "created" /\ Answering(p, "upserting") /\ UNCHANGED <<journal, run, active>>
    BY <1>11 DEF StartUpsert, AtHead
  <2>2. Turned(p)
    BY <1>1, <1>5, <2>1 DEF Turned
  <2> QED BY <1>1, <1>2, <1>5, <2>1, <2>2
<1> QED BY <1>6, <1>7, <1>8, <1>9, <1>10, <1>11 DEF Admission

\* The same of every step: a submission that joins the chain has not begun.
LEMMA NextTurns ==
  ASSUME IInv, [Next]_vars, NEW p \in Posts, post'[p].pc \in Starting
  PROVE  post'[p].req = post[p].req /\ Turned(p)
<1> USE DEF diskVars, admitVars, procVars, stopVars, ghostVars, boundVars
<1>1. CASE UNCHANGED post
  BY <1>1 DEF Turned
<1>2. CASE \E q \in Posts : Admission(q) \/ StartFail(q)
  BY <1>2, AdmissionTurns
<1>3. CASE \E r \in Requests : Poll(r) \/ Loader(r)
  BY <1>3, LoaderTurns
<1>4. ASSUME NEW r \in Requests, Worker(r) \/ Stream(r)
      PROVE  UNCHANGED post
  BY <1>4 DEF Worker, Stream, Push, AbortSeen, ToolEffect, ToolRecord, Settle, CloseEvents,
     Save, SaveSession, End, Emit, EmitFail, StreamEnd, ToolStart
<1>5. ASSUME NEW r \in Requests, (\E b \in BOOLEAN : Stop(r, b)) \/ StopFind(r) \/ StopDone(r)
      PROVE  UNCHANGED post
  BY <1>5 DEF Stop, StopFind, StopDone
<1>6. CASE Put \/ DeleteCheck \/ Store \/ CloseBegin \/ Closing \/ BootLoad \/ BootSave
  <2>1. UNCHANGED post
    BY <1>6 DEF Put, DeleteCheck, Store, WriteSave, WritePut, DeleteEnqueue, WriteRemove,
       WriteClear, CloseBegin, Closing, CloseWait, CloseAbort, CloseDone, BootLoad, BootSave
  <2> QED BY <1>1, <2>1
<1>7. CASE Restart
  <2>1. CASE p \in ToSet(chain)
    <3>1. post'[p] = [post[p] EXCEPT !.pc = "lost"]
      BY <1>7, <2>1 DEF Restart
    <3>2. post'[p].pc = "lost"
      BY <3>1 DEF IInv, Types, PostType, PostState
    <3> QED BY <3>2 DEF Starting, Creating
  <2>2. CASE p \notin ToSet(chain)
    BY <1>7, <2>2 DEF Restart, Turned
  <2> QED BY <2>1, <2>2
<1>8. CASE \E q \in Posts, r \in Requests : \E m \in Submittable(r) : Submit(q, r, m)
  <2>0. PICK q \in Posts, r \in Requests : \E m \in Submittable(r) : Submit(q, r, m)
    BY <1>8
  <2>1. PICK m \in Submittable(r) : Submit(q, r, m)
    BY <2>0
  <2>2. CASE p = q
    <3>1. post'[p].pc = "queued"
      BY <2>1, <2>2 DEF Submit, IInv, Types, PostType
    <3> QED BY <3>1 DEF Starting, Creating
  <2>3. CASE p # q
    <3>1. post'[p] = post[p]
      BY <2>1, <2>3 DEF Submit, IInv, Types, PostType
    <3> QED BY <3>1 DEF Turned
  <2> QED BY <2>2, <2>3
<1>9. CASE UNCHANGED vars
  BY <1>1, <1>9 DEF vars
<1> QED BY <1>1, <1>2, <1>3, <1>4, <1>5, <1>6, <1>7, <1>8, <1>9 DEF Next

\* What a step does to a journal: only these steps touch it.
LEMMA JournalTurns ==
  ASSUME IInv, [Next]_vars, NEW q \in Requests
  PROVE  \/ journal'[q] = journal[q]
         \/ WriteClear
         \/ \E p \in Posts : post[p].req = q /\ (StartCreate(p) \/ StartFail(p))
         \/ LoadPublish(q) \/ LoadSave(q)
         \/ (\E c \in Provided : Emit(q, c)) \/ ToolStart(q) \/ ToolRecord(q)
         \/ CloseEvents(q) \/ Save(q)
<1> USE DEF diskVars, admitVars, procVars, stopVars, ghostVars, boundVars
<1> DEFINE Goal == \/ journal'[q] = journal[q]
                   \/ WriteClear
                   \/ \E p \in Posts : post[p].req = q /\ (StartCreate(p) \/ StartFail(p))
                   \/ LoadPublish(q) \/ LoadSave(q)
                   \/ (\E c \in Provided : Emit(q, c)) \/ ToolStart(q) \/ ToolRecord(q)
                   \/ CloseEvents(q) \/ Save(q)
<1>0. journal \in [Requests -> Entry]
  BY DEF IInv, Types, JournalType
<1>1. ASSUME UNCHANGED journal PROVE Goal
  BY <1>1
<1>2. ASSUME NEW p \in Posts, Admission(p) \/ StartFail(p) PROVE Goal
  <2>1. CASE StartCreate(p) \/ StartFail(p)
    <3>1. CASE post[p].req = q
      BY <2>1, <3>1
    <3>2. CASE post[p].req # q
      BY <1>0, <2>1, <3>2 DEF StartCreate, StartFail
    <3> QED BY <3>1, <3>2
  <2>2. CASE ~(StartCreate(p) \/ StartFail(p))
    <3>1. UNCHANGED journal
      BY <1>2, <2>2 DEF Admission, StartFind, StartExisting, StartBroken, StartValidate,
         StartActivate, StartUpsert, WriteAdmit
    <3> QED BY <1>1, <3>1
  <2> QED BY <2>1, <2>2
<1>3. ASSUME NEW r \in Requests, Poll(r) \/ Loader(r) PROVE Goal
  <2>1. CASE LoadPublish(r) \/ LoadSave(r)
    BY <1>0, <2>1 DEF LoadPublish, LoadSave
  <2>2. CASE ~(LoadPublish(r) \/ LoadSave(r))
    <3>1. UNCHANGED journal
      BY <1>3, <2>2 DEF Poll, Loader, LoadRead, LoadFail
    <3> QED BY <1>1, <3>1
  <2> QED BY <2>1, <2>2
<1>4. ASSUME NEW r \in Requests, Worker(r) \/ Stream(r) PROVE Goal
  <2>1. CASE CloseEvents(r) \/ Save(r) \/ ToolRecord(r) \/ ToolStart(r)
    <3>1. CASE r = q
      BY <2>1, <3>1
    <3>2. CASE r # q
      <4>1. journal'[q] = journal[q]
        BY <1>0, <2>1, <3>2 DEF CloseEvents, Save, ToolRecord, ToolStart, Published, Noted
      <4> QED BY <4>1
    <3> QED BY <3>1, <3>2
  <2>2. CASE \E c \in Provided : Emit(r, c)
    <3>1. CASE r = q
      BY <2>2, <3>1
    <3>2. CASE r # q
      BY <1>0, <2>2, <3>2 DEF Emit, Published
    <3> QED BY <3>1, <3>2
  <2>3. CASE Push(r) \/ AbortSeen(r) \/ ToolEffect(r) \/ Settle(r) \/ SaveSession(r) \/ End(r)
             \/ EmitFail(r) \/ StreamEnd(r)
    <3>1. UNCHANGED journal
      BY <2>3 DEF Push, AbortSeen, ToolEffect, Settle, SaveSession, End, EmitFail, StreamEnd
    <3> QED BY <1>1, <3>1
  <2> QED BY <1>4, <2>1, <2>2, <2>3 DEF Worker, Stream
<1>5. ASSUME NEW r \in Requests, (\E b \in BOOLEAN : Stop(r, b)) \/ StopFind(r) \/ StopDone(r)
      PROVE  Goal
  BY <1>1, <1>5 DEF Stop, StopFind, StopDone
<1>6. CASE Put \/ DeleteCheck \/ Store \/ CloseBegin \/ Closing \/ Restart \/ BootLoad \/ BootSave
  <2>1. CASE WriteClear
    BY <2>1
  <2>2. CASE ~WriteClear
    <3>1. UNCHANGED journal
      BY <1>6, <2>2 DEF Put, DeleteCheck, Store, WriteSave, WritePut, DeleteEnqueue,
         WriteRemove, CloseBegin, Closing, CloseWait, CloseAbort, CloseDone, Restart,
         BootLoad, BootSave
    <3> QED BY <1>1, <3>1
  <2> QED BY <2>1, <2>2
<1>7. CASE \E p \in Posts, r \in Requests : \E m \in Submittable(r) : Submit(p, r, m)
  BY <1>1, <1>7 DEF Submit
<1>8. CASE UNCHANGED vars
  BY <1>1, <1>8 DEF vars
<1> QED BY <1>2, <1>3, <1>4, <1>5, <1>6, <1>7, <1>8 DEF Next

\* A run is told to stop.
Aborting(r) ==
  /\ \E why \in {"stop", "shutdown"} : run' = Aborted(r, why)
  /\ UNCHANGED <<journal, active, post, writes, session, effects, boot, faults, executed>>
\* What a step does to a run: the steps of its admission, its own steps, a served
\* save, an abort, and the end of the process.
LEMMA RunTurns ==
  ASSUME IInv, [Next]_vars, NEW q \in Requests
  PROVE  \/ run'[q] = run[q]
         \/ Restart
         \/ \E p \in Posts : /\ post[p].req = q
                             /\ StartActivate(p) \/ StartFail(p) \/ WriteAdmit(p)
         \/ WriteSave /\ Head(writes).run = q
         \/ Worker(q) \/ Stream(q) \/ Aborting(q)
<1> USE DEF diskVars, admitVars, procVars, stopVars, ghostVars, boundVars
<1> DEFINE Goal == \/ run'[q] = run[q]
                   \/ Restart
                   \/ \E p \in Posts : /\ post[p].req = q
                                       /\ StartActivate(p) \/ StartFail(p) \/ WriteAdmit(p)
                   \/ WriteSave /\ Head(writes).run = q
                   \/ Worker(q) \/ Stream(q) \/ Aborting(q)
<1>0. run \in [Requests -> RunState]
  BY DEF IInv, Types, RunType
<1>1. ASSUME UNCHANGED run PROVE Goal
  BY <1>1
<1>2. ASSUME NEW p \in Posts, Admission(p) \/ StartFail(p) PROVE Goal
  <2>1. CASE StartActivate(p) \/ StartFail(p) \/ WriteAdmit(p)
    <3>1. CASE post[p].req = q
      BY <2>1, <3>1
    <3>2. CASE post[p].req # q
      <4>1. run'[q] = run[q]
        BY <1>0, <2>1, <3>2 DEF StartActivate, StartFail, WriteAdmit
      <4> QED BY <4>1
    <3> QED BY <3>1, <3>2
  <2>2. CASE ~(StartActivate(p) \/ StartFail(p) \/ WriteAdmit(p))
    <3>1. UNCHANGED run
      BY <1>2, <2>2 DEF Admission, StartFind, StartExisting, StartBroken, StartValidate,
         StartCreate, StartUpsert
    <3> QED BY <1>1, <3>1
  <2> QED BY <2>1, <2>2
<1>3. ASSUME NEW r \in Requests, Poll(r) \/ Loader(r) PROVE Goal
  BY <1>1, <1>3 DEF Poll, Loader, LoadRead, LoadFail, LoadPublish, LoadSave
<1>4. ASSUME NEW r \in Requests, Worker(r) \/ Stream(r) PROVE Goal
  <2>1. CASE r = q
    BY <1>4, <2>1
  <2>2. CASE r # q
    <3>1. CASE Worker(r)
      <4>1. run'[q] = run[q]
        BY <1>0, <2>2, <3>1 DEF Worker, Push, AbortSeen, ToolEffect, ToolRecord, Settle,
           CloseEvents, Save, SaveSession, End
      <4> QED BY <4>1
    <3>2. CASE Stream(r)
      <4>1. run'[q] = run[q]
        BY <1>0, <2>2, <3>2 DEF Stream, Emit, EmitFail, StreamEnd, ToolStart
      <4> QED BY <4>1
    <3> QED BY <1>4, <3>1, <3>2
  <2> QED BY <2>1, <2>2
<1>5. ASSUME NEW r \in Requests, (\E b \in BOOLEAN : Stop(r, b)) \/ StopFind(r) \/ StopDone(r)
      PROVE  Goal
  <2>1. CASE StopFind(r) /\ active = r
    <3>1. Aborting(r)
      BY <2>1 DEF StopFind, Aborting
    <3>2. r # q => run'[q] = run[q]
      BY <1>0, <2>1 DEF StopFind, Aborted
    <3> QED BY <3>1, <3>2
  <2>2. CASE ~(StopFind(r) /\ active = r)
    <3>1. UNCHANGED run
      BY <1>5, <2>2 DEF Stop, StopFind, StopDone
    <3> QED BY <1>1, <3>1
  <2> QED BY <2>1, <2>2
<1>6. CASE CloseAbort
  <2>1. CASE active = NoRun
    BY <1>1, <1>6, <2>1 DEF CloseAbort
  <2>2. CASE active # NoRun
    <3>1. Aborting(active) /\ run' = Aborted(active, "shutdown")
      BY <1>6, <2>2 DEF CloseAbort, Aborting
    <3>2. active # q => run'[q] = run[q]
      BY <1>0, <3>1 DEF Aborted
    <3> QED BY <3>1, <3>2
  <2> QED BY <2>1, <2>2
<1>7. CASE WriteSave
  <2>1. Head(writes).run # q => run'[q] = run[q]
    BY <1>0, <1>7 DEF WriteSave
  <2> QED BY <1>7, <2>1
<1>8. CASE \/ Put \/ DeleteCheck \/ WritePut \/ DeleteEnqueue \/ WriteRemove \/ WriteClear
           \/ CloseBegin \/ CloseWait \/ CloseDone \/ BootLoad \/ BootSave
  <2>1. UNCHANGED run
    BY <1>8 DEF Put, DeleteCheck, WritePut, DeleteEnqueue, WriteRemove, WriteClear,
       CloseBegin, CloseWait, CloseDone, BootLoad, BootSave
  <2> QED BY <1>1, <2>1
<1>9. CASE \E p \in Posts, r \in Requests : \E m \in Submittable(r) : Submit(p, r, m)
  BY <1>1, <1>9 DEF Submit
<1>10. CASE UNCHANGED vars
  BY <1>1, <1>10 DEF vars
<1> QED BY <1>2, <1>3, <1>4, <1>5, <1>6, <1>7, <1>8, <1>9, <1>10 DEF Next, Store, Closing

\* What a step does to the executions and the effects of a run.
LEMMA HistoryTurns ==
  ASSUME IInv, [Next]_vars, NEW q \in Requests
  PROVE  /\ \/ executed'[q] = executed[q]
            \/ WriteClear
            \/ \E p \in Posts : post[p].req = q /\ WriteAdmit(p)
         /\ \/ q \in effects' => q \in effects
            \/ ToolEffect(q)
<1> USE DEF diskVars, admitVars, procVars, stopVars, ghostVars, boundVars
<1>1. CASE UNCHANGED <<executed, effects>>
  BY <1>1
<1>2. ASSUME NEW p \in Posts, Admission(p) \/ StartFail(p)
      PROVE  /\ executed'[q] = executed[q] \/ (post[p].req = q /\ WriteAdmit(p))
             /\ UNCHANGED effects
  <2>1. CASE WriteAdmit(p)
    BY <2>1 DEF WriteAdmit
  <2>2. CASE ~WriteAdmit(p)
    BY <1>2, <2>2 DEF Admission, StartFind, StartExisting, StartBroken, StartValidate,
       StartActivate, StartCreate, StartUpsert, StartFail
  <2> QED BY <2>1, <2>2
<1>3. ASSUME NEW r \in Requests, Poll(r) \/ Loader(r)
      PROVE  UNCHANGED <<executed, effects>>
  BY <1>3 DEF Poll, Loader, LoadRead, LoadFail, LoadPublish, LoadSave
<1>4. ASSUME NEW r \in Requests, Worker(r) \/ Stream(r)
      PROVE  /\ UNCHANGED executed
             /\ effects' = effects \/ (ToolEffect(r) /\ effects' = effects \cup {r})
  <2>1. CASE Worker(r)
    BY <2>1 DEF Worker, Push, AbortSeen, ToolEffect, ToolRecord, Settle, CloseEvents, Save,
       SaveSession, End
  <2>2. CASE Stream(r)
    BY <2>2 DEF Stream, Emit, EmitFail, StreamEnd, ToolStart
  <2> QED BY <1>4, <2>1, <2>2
<1>5. ASSUME NEW r \in Requests, (\E b \in BOOLEAN : Stop(r, b)) \/ StopFind(r) \/ StopDone(r)
      PROVE  UNCHANGED <<executed, effects>>
  BY <1>5 DEF Stop, StopFind, StopDone
<1>6. CASE WriteClear
  BY <1>6 DEF WriteClear
<1>7. CASE \/ Put \/ DeleteCheck \/ WriteSave \/ WritePut \/ DeleteEnqueue \/ WriteRemove
           \/ CloseBegin \/ Closing \/ Restart \/ BootLoad \/ BootSave
  <2>1. UNCHANGED <<executed, effects>>
    BY <1>7 DEF Put, DeleteCheck, WriteSave, WritePut, DeleteEnqueue, WriteRemove,
       CloseBegin, Closing, CloseWait, CloseAbort, CloseDone, Restart, BootLoad, BootSave
  <2> QED BY <2>1
<1>8. CASE \E p \in Posts, r \in Requests : \E m \in Submittable(r) : Submit(p, r, m)
  BY <1>8 DEF Submit
<1>9. CASE UNCHANGED vars
  BY <1>9 DEF vars
<1>10. CASE \E p \in Posts : Admission(p) \/ StartFail(p)
  BY <1>2, <1>10
<1>11. CASE \E r \in Requests : Worker(r) \/ Stream(r)
  BY <1>4, <1>11
<1> QED BY <1>1, <1>3, <1>5, <1>6, <1>7, <1>8, <1>9, <1>10, <1>11 DEF Next, Store
-----------------------------------------------------------------------------
(* What happens once, while no deletion races with the chat's other work.   *)

\* The window "delete" is closed, or nobody deletes the chat.
NoRacedDelete == ~("delete" \in Clients /\ "delete" \in Windows)

\* While the chat is being deleted nothing else of it goes on.
Alone ==
  DeletePending =>
    /\ "delete" \in Clients
    /\ active = NoRun
    /\ \A p \in Posts : post[p].pc \notin Starting
    /\ \A r \in Requests : loading[r] \in {"idle", "reading"}

\* A run was executed only if its journal is there, and then once; until an admission
\* has its run executed it has found no journal, and then made one.
ExecutedOnce(r) ==
  executed[r] <= 1 /\ (executed[r] # 0 => journal[r].status # "absent")
Unexecuted(p) ==
  /\ post[p].pc \in {"absent", "validated"} \cup Creating => executed[post[p].req] = 0
  /\ post[p].pc \in {"created", "upserting"} => journal[post[p].req].status # "absent"

Executions ==
  /\ \A r \in Requests : ExecutedOnce(r)
  /\ \A p \in Posts : Unexecuted(p)
EInv == IInv /\ Alone /\ Executions

\* A deletion of the chat begins with DELETE's check.
LEMMA DeletionsBegin ==
  ASSUME IInv, [Next]_vars, DeletePending'
  PROVE  DeletePending \/ DeleteCheck
<1> USE DEF diskVars, admitVars, procVars, stopVars, ghostVars, boundVars
<1>1. CASE UNCHANGED <<deleting, writes>>
  BY <1>1 DEF DeletePending
<1>2. writes \in Seq(Writes)
  BY DEF IInv, Types, WritesType
<1>3. ASSUME deleting' = deleting \/ ~deleting', NEW w \in Writes,
             w.kind \notin {"remove", "clear"}, writes' = Append(writes, w)
      PROVE  DeletePending
  BY <1>2, <1>3 DEF DeletePending
<1>4. ASSUME deleting' = deleting, writes # <<>>, writes' = Tail(writes)
      PROVE  DeletePending
  <2>1. \A i \in 1..Len(writes') : i + 1 \in 1..Len(writes) /\ writes'[i] = writes[i + 1]
    BY <1>2, <1>4
  <2> QED BY <1>4, <2>1 DEF DeletePending
<1>5. CASE \E p \in Posts : Admission(p) \/ StartFail(p)
  <2>1. PICK p \in Posts : Admission(p) \/ StartFail(p)
    BY <1>5
  <2>2. CASE StartUpsert(p)
    <3> DEFINE w == Write("admit", post[p].req)
    <3>1. w \in Writes /\ w.kind \notin {"remove", "clear"}
      BY DEF Write, Writes, IInv, Types, PostType, PostState
    <3>2. writes' = Append(writes, w) /\ deleting' = deleting
      BY <2>2 DEF StartUpsert
    <3> HIDE DEF w
    <3> QED BY <1>3, <3>1, <3>2
  <2>3. CASE ~StartUpsert(p)
    <3>1. /\ deleting' = deleting
          /\ \/ writes' = writes
             \/ writes # <<>> /\ writes' = Tail(writes)
      BY <2>1, <2>3 DEF Admission, StartFind, StartExisting, StartBroken, StartValidate,
         StartActivate, StartCreate, WriteAdmit, StartFail, Serve
    <3> QED BY <1>1, <1>4, <3>1
  <2> QED BY <2>2, <2>3
<1>6. CASE \E r \in Requests : Poll(r) \/ Loader(r)
  BY <1>1, <1>6 DEF Poll, Loader, LoadRead, LoadPublish, LoadFail, LoadSave
<1>7. CASE \E r \in Requests : Worker(r) \/ Stream(r)
  <2>1. PICK r \in Requests : Worker(r) \/ Stream(r)
    BY <1>7
  <2>2. CASE SaveSession(r)
    <3> DEFINE w == Write("save", r)
    <3>1. w \in Writes /\ w.kind \notin {"remove", "clear"}
      BY DEF Write, Writes, Runs
    <3>2. deleting' = deleting /\ (writes' = writes \/ writes' = Append(writes, w))
      BY <2>2 DEF SaveSession
    <3> HIDE DEF w
    <3> QED BY <1>1, <1>3, <3>1, <3>2
  <2>3. CASE ~SaveSession(r)
    <3>1. UNCHANGED <<deleting, writes>>
      BY <2>1, <2>3 DEF Worker, Stream, Push, AbortSeen, ToolEffect, ToolRecord, Settle,
         CloseEvents, Save, End, Emit, EmitFail, StreamEnd, ToolStart
    <3> QED BY <1>1, <3>1
  <2> QED BY <2>2, <2>3
<1>8. CASE \E r \in Requests : (\E b \in BOOLEAN : Stop(r, b)) \/ StopFind(r) \/ StopDone(r)
  <2>1. UNCHANGED <<deleting, writes>>
    BY <1>8 DEF Stop, StopFind, StopDone
  <2> QED BY <1>1, <2>1
<1>9. CASE Put
  <2>1. Write("put", NoRun) \in Writes /\ Write("put", NoRun).kind \notin {"remove", "clear"}
    BY DEF Write, Writes, Runs
  <2>2. writes' = Append(writes, Write("put", NoRun)) /\ deleting' = deleting
    BY <1>9 DEF Put
  <2> QED BY <1>3, <2>1, <2>2
<1>10. CASE WriteSave \/ WritePut \/ WriteClear
  <2>1. deleting' = deleting /\ writes # <<>> /\ writes' = Tail(writes)
    BY <1>10 DEF WriteSave, WritePut, WriteClear, Serve
  <2> QED BY <1>4, <2>1
<1>11. CASE DeleteEnqueue
  BY <1>11 DEF DeleteEnqueue, DeletePending
<1>12. CASE WriteRemove
  <2>1. writes # <<>> /\ Head(writes).kind = "remove"
    BY <1>12 DEF WriteRemove, Serve
  <2>2. 1 \in 1..Len(writes) /\ Head(writes) = writes[1]
    BY <1>2, <2>1
  <2> QED BY <2>1, <2>2 DEF DeletePending
<1>13. CASE CloseBegin \/ Closing \/ BootLoad \/ BootSave
  BY <1>1, <1>13 DEF CloseBegin, Closing, CloseWait, CloseAbort, CloseDone, BootLoad, BootSave
<1>14. CASE Restart
  <2>1. writes' = <<>> /\ ~deleting'
    BY <1>14 DEF Restart
  <2> QED BY <2>1 DEF DeletePending
<1>15. CASE \E p \in Posts, r \in Requests : \E m \in Submittable(r) : Submit(p, r, m)
  BY <1>1, <1>15 DEF Submit
<1>16. CASE UNCHANGED vars
  BY <1>1, <1>16 DEF vars
<1> QED BY <1>5, <1>6, <1>7, <1>8, <1>9, <1>10, <1>11, <1>12, <1>13, <1>14, <1>15, <1>16
    DEF Next, Store

\* What a step does to the chat's owner.
LEMMA OwnerTurns ==
  ASSUME [Next]_vars
  PROVE  \/ active' \in {active, NoRun}
         \/ \E p \in Posts : post[p].pc = "validated" /\ active' = post[p].req
<1> USE DEF diskVars, admitVars, procVars, stopVars, ghostVars, boundVars
<1>1. CASE \E p \in Posts : Admission(p) \/ StartFail(p)
  BY <1>1 DEF Admission, StartFind, StartExisting, StartBroken, StartValidate,
     StartActivate, StartCreate, StartUpsert, WriteAdmit, StartFail, AtHead
<1>2. ASSUME NEW r \in Requests, Poll(r) \/ Loader(r) \/ Worker(r) \/ Stream(r)
      PROVE  active' \in {active, NoRun}
  <2>1. CASE Poll(r) \/ Loader(r)
    BY <2>1, Zenon DEF Poll, Loader, LoadRead, LoadPublish, LoadFail, LoadSave
  <2>2. CASE Stream(r)
    BY <2>2, Zenon DEF Stream, Emit, EmitFail, StreamEnd, ToolStart
  <2>3. CASE Worker(r)
    BY <2>3, Zenon DEF Worker, Push, AbortSeen, ToolEffect, ToolRecord, Settle, CloseEvents,
       Save, SaveSession, End
  <2> QED BY <1>2, <2>1, <2>2, <2>3
<1>3. CASE \E r \in Requests : (\E b \in BOOLEAN : Stop(r, b)) \/ StopFind(r) \/ StopDone(r)
  BY <1>3 DEF Stop, StopFind, StopDone
<1>4. CASE Put \/ DeleteCheck \/ Store \/ CloseBegin \/ Closing \/ Restart \/ BootLoad \/ BootSave
  BY <1>4 DEF Put, DeleteCheck, Store, WriteSave, WritePut, DeleteEnqueue, WriteRemove,
     WriteClear, CloseBegin, Closing, CloseWait, CloseAbort, CloseDone, Restart, BootLoad,
     BootSave
<1>5. CASE \E p \in Posts, r \in Requests : \E m \in Submittable(r) : Submit(p, r, m)
  BY <1>5 DEF Submit
<1>6. CASE UNCHANGED vars
  BY <1>6 DEF vars
<1> QED BY <1>1, <1>2, <1>3, <1>4, <1>5, <1>6 DEF Next

\* What a step does to the reads of the journals: recovery begins with a read.
LEMMA ReadTurns ==
  ASSUME IInv, [Next]_vars, NEW q \in Requests
  PROVE  \/ loading'[q] \in {loading[q], "idle", "reading"}
         \/ LoadRead(q) \/ LoadPublish(q)
<1> USE DEF diskVars, admitVars, procVars, stopVars, ghostVars, boundVars
<1>1. ASSUME NEW r, loading' = Joined(r)
      PROVE  loading'[q] \in {loading[q], "reading"}
  BY <1>1 DEF Joined, IInv, Types, LoadingType
<1>2. ASSUME NEW r \in Requests, NEW pc, Loaded(r, pc)
      PROVE  loading'[q] \in {loading[q], "idle"}
  BY <1>2 DEF Loaded, IInv, Types, LoadingType
<1>3. CASE UNCHANGED loading
  BY <1>3
<1>4. CASE \E p \in Posts : Admission(p) \/ StartFail(p)
  <2>1. UNCHANGED loading \/ \E r : loading' = Joined(r)
    BY <1>4 DEF Admission, StartFind, StartExisting, StartBroken, StartValidate,
       StartActivate, StartCreate, StartUpsert, WriteAdmit, StartFail
  <2> QED BY <1>1, <2>1
<1>5. ASSUME NEW r \in Requests, Poll(r) \/ Loader(r)
      PROVE  loading'[q] \in {loading[q], "idle", "reading"} \/ LoadRead(q) \/ LoadPublish(q)
  <2>1. CASE Poll(r)
    BY <1>1, <2>1 DEF Poll
  <2>2. CASE LoadRead(r)
    BY <1>2, <2>2 DEF LoadRead, IInv, Types, LoadingType
  <2>3. CASE LoadPublish(r)
    BY <2>3 DEF LoadPublish, IInv, Types, LoadingType
  <2>4. CASE LoadFail(r) \/ LoadSave(r)
    BY <1>2, <2>4 DEF LoadFail, LoadSave
  <2> QED BY <1>5, <2>1, <2>2, <2>3, <2>4 DEF Loader
<1>6. ASSUME NEW r \in Requests, Worker(r) \/ Stream(r)
      PROVE  loading'[q] = loading[q]
  <2>1. UNCHANGED loading
    BY <1>6, Zenon DEF Worker, Stream, Push, AbortSeen, ToolEffect, ToolRecord, Settle, CloseEvents,
       Save, SaveSession, End, Emit, EmitFail, StreamEnd, ToolStart
  <2> QED BY <2>1
<1>7. CASE \E r \in Requests : (\E b \in BOOLEAN : Stop(r, b)) \/ StopFind(r) \/ StopDone(r)
  <2>1. UNCHANGED loading \/ \E r : loading' = Joined(r)
    BY <1>7 DEF Stop, StopFind, StopDone
  <2> QED BY <1>1, <2>1
<1>8. CASE Put \/ DeleteCheck \/ Store \/ CloseBegin \/ Closing \/ BootSave
  <2>1. UNCHANGED loading
    BY <1>8 DEF Put, DeleteCheck, Store, WriteSave, WritePut, DeleteEnqueue, WriteRemove,
       WriteClear, CloseBegin, Closing, CloseWait, CloseAbort, CloseDone, BootSave
  <2> QED BY <2>1
<1>9. CASE BootLoad
  <2>1. UNCHANGED loading \/ \E r : loading' = Joined(r)
    BY <1>9 DEF BootLoad
  <2> QED BY <1>1, <2>1
<1>10. CASE Restart
  BY <1>10 DEF Restart
<1>11. CASE \E p \in Posts, r \in Requests : \E m \in Submittable(r) : Submit(p, r, m)
  BY <1>11 DEF Submit
<1>12. CASE UNCHANGED vars
  BY <1>12 DEF vars
<1> QED BY <1>4, <1>5, <1>6, <1>7, <1>8, <1>9, <1>10, <1>11, <1>12 DEF Next

\* While the chat is deleted its owner, admissions and recoveries stay away.
LEMMA AloneStays ==
  ASSUME NoRacedDelete, EInv, [Next]_vars
  PROVE  Alone'
<1> SUFFICES ASSUME DeletePending'
             PROVE  /\ "delete" \in Clients
                    /\ active' = NoRun
                    /\ \A p \in Posts : post'[p].pc \notin Starting
                    /\ \A r \in Requests : loading'[r] \in {"idle", "reading"}
  BY DEF Alone
<1> USE DEF diskVars, admitVars, procVars, stopVars, ghostVars, boundVars
<1>1. CASE DeleteCheck
  <2>1. "delete" \in Clients /\ chain = <<>> /\ active = NoRun
    BY <1>1 DEF DeleteCheck, NoRacedDelete
  <2>2. \A r \in Requests : loading[r] = "idle"
    BY <1>1, <2>1 DEF DeleteCheck, NoRacedDelete
  <2>3. \A p \in Posts : post[p].pc \notin Starting
    BY <2>1 DEF EInv, IInv, Control, Admissions, HeadStarts
  <2> QED BY <1>1, <2>1, <2>2, <2>3 DEF DeleteCheck
<1>2. CASE DeletePending
  <2>1. /\ "delete" \in Clients /\ active = NoRun /\ ~Undisturbed
        /\ \A p \in Posts : post[p].pc \notin Starting
        /\ \A r \in Requests : loading[r] \in {"idle", "reading"}
    BY <1>2 DEF EInv, Alone, Undisturbed, NoRacedDelete
  <2>2. \A p \in Posts : post[p].pc \notin {"finding", "absent", "validated", "creating", "created"}
    BY <2>1 DEF Starting, Creating
  <2>3. active' = NoRun
    BY <2>1, <2>2, OwnerTurns
  <2>4. ASSUME NEW p \in Posts PROVE post'[p].pc \notin Starting
    <3> SUFFICES ASSUME post'[p].pc \in Starting PROVE FALSE
      OBVIOUS
    <3>1. Turned(p)
      BY NextTurns DEF EInv
    <3> QED BY <2>1, <2>2, <3>1 DEF Turned
  <2>5. ASSUME NEW r \in Requests PROVE loading'[r] \in {"idle", "reading"}
    <3>1. ~LoadRead(r) /\ ~LoadPublish(r)
      BY <2>1 DEF LoadRead, LoadPublish
    <3> QED BY <2>1, <3>1, ReadTurns DEF EInv
  <2> QED BY <2>1, <2>3, <2>4, <2>5
<1> QED BY <1>1, <1>2, DeletionsBegin DEF EInv

\* An admission whose run is not yet executed keeps its journal, or has none.
LEMMA UnexecutedStays ==
  ASSUME NoRacedDelete, EInv, [Next]_vars, NEW p \in Posts
  PROVE  Unexecuted(p)'
<1> SUFFICES ASSUME post'[p].pc \in {"absent", "validated"} \cup Creating
             PROVE  /\ executed'[post'[p].req] = 0
                    /\ post'[p].pc \in {"created", "upserting"} =>
                         journal'[post'[p].req].status # "absent"
  BY DEF Unexecuted, Creating
<1> USE DEF diskVars, admitVars, procVars, stopVars, ghostVars, boundVars
<1> DEFINE r == post[p].req
<1>1. post'[p].pc \in Starting
  BY DEF Starting
<1>2. post'[p].req = r /\ Turned(p)
  BY <1>1, NextTurns DEF EInv
<1>3. post[p].pc \in Starting
  BY <1>2 DEF Turned, Starting, Creating
<1>4. r \in Requests /\ chain # <<>> /\ Head(chain) = p
  BY <1>3 DEF EInv, IInv, Control, Sent, Admissions, HeadStarts, Starting, Creating
<1>5. ~DeletePending
  BY <1>3 DEF EInv, Alone
<1>6. ~WriteClear
  <2> SUFFICES ASSUME WriteClear PROVE FALSE
    OBVIOUS
  <2>1. writes \in Seq(Writes) /\ writes # <<>> /\ Head(writes).kind = "clear"
    BY DEF WriteClear, Serve, EInv, IInv, Types, WritesType
  <2>2. 1 \in 1..Len(writes) /\ Head(writes) = writes[1]
    BY <2>1
  <2> QED BY <1>5, <2>1, <2>2 DEF DeletePending
<1>7. ASSUME NEW q \in Posts, WriteAdmit(q) \/ StartFail(q) PROVE FALSE
  <2>1. q = p
    BY <1>4, <1>7 DEF WriteAdmit, StartFail, AtHead
  <2>2. \E pc \in {"accepted", "failed"} : Answering(p, pc)
    BY <1>7, <2>1 DEF WriteAdmit, StartFail, Reply
  <2>3. post'[p].pc \in {"accepted", "failed"}
    BY <2>2, AnsweredPost DEF Pcs, EInv, IInv, Types
  <2> QED BY <1>1, <2>3 DEF Starting, Creating
<1>8. executed'[r] = executed[r]
  BY <1>4, <1>6, <1>7, HistoryTurns DEF EInv
<1>9. executed[r] = 0
  <2>1. CASE post[p].pc \in {"absent", "validated"} \cup Creating
    BY <2>1 DEF EInv, Executions, Unexecuted
  <2>2. CASE post[p].pc = "finding" /\ journal[r].status = "absent"
    BY <1>4, <2>2 DEF EInv, Executions, ExecutedOnce
  <2> QED BY <1>2, <2>1, <2>2 DEF Turned, Creating
<1>10. ASSUME post'[p].pc \in {"created", "upserting"}
       PROVE  journal'[r].status # "absent"
  <2>1. CASE post[p].pc = "creating"
    <3>1. StartCreate(p)
      BY <1>2, <1>10, <2>1 DEF Turned
    <3> QED BY <1>4, <3>1 DEF StartCreate, EInv, IInv, Types, JournalType, Entry
  <2>2. CASE post[p].pc \in {"created", "upserting"}
    <3>1. journal[r].status # "absent"
      BY <2>2 DEF EInv, Executions, Unexecuted
    <3>2. journal \in [Requests -> Entry]
      BY DEF EInv, IInv, Types, JournalType
    <3>3. CASE LoadPublish(r) \/ LoadSave(r)
      BY <1>4, <3>1, <3>2, <3>3 DEF LoadPublish, LoadSave, Entry
    <3>4. CASE (\E c \in Provided : Emit(r, c)) \/ ToolStart(r) \/ ToolRecord(r)
                 \/ CloseEvents(r) \/ Save(r)
      <4>1. run[r].phase = "creating"
        BY <2>2 DEF EInv, IInv, Control, Admissions, Created, Creating
      <4>2. ToolRecord(r)
        BY <3>4, <4>1 DEF Emit, ToolStart, CloseEvents, Save, Step
      <4>3. journal' = journal \/ journal' = Noted(r, "completed")
        BY <4>2 DEF ToolRecord
      <4>4. Noted(r, "completed")[r].status = journal[r].status
        BY <1>4, <3>2 DEF Noted, Entry
      <4> QED BY <3>1, <4>3, <4>4
    <3>5. CASE \E q \in Posts : StartCreate(q)
      <4>1. PICK q \in Posts : StartCreate(q)
        BY <3>5
      <4>2. q = p
        BY <1>4, <4>1 DEF StartCreate, AtHead
      <4> QED BY <2>2, <4>1, <4>2 DEF StartCreate, AtHead
    <3> QED BY <1>4, <1>6, <1>7, <3>1, <3>3, <3>4, <3>5, JournalTurns DEF EInv
  <2> QED BY <1>2, <1>10, <2>1, <2>2 DEF Turned
<1> QED BY <1>2, <1>8, <1>9, <1>10

\* A run that was executed keeps its journal until its chat goes.
LEMMA ExecutedStays ==
  ASSUME NoRacedDelete, EInv, [Next]_vars, NEW r \in Requests
  PROVE  ExecutedOnce(r)'
<1> USE DEF diskVars, admitVars, procVars, stopVars, ghostVars, boundVars
<1>0. /\ journal \in [Requests -> Entry] /\ executed \in [Requests -> Nat]
      /\ writes \in Seq(Writes)
  BY DEF EInv, IInv, Types, JournalType, GhostType, WritesType
<1>1. CASE WriteClear
  <2>1. writes # <<>> /\ Head(writes).kind = "clear"
    BY <1>1 DEF WriteClear, Serve
  <2>2. 1 \in 1..Len(writes) /\ Head(writes) = writes[1]
    BY <1>0, <2>1
  <2>3. DeletePending
    BY <2>1, <2>2 DEF DeletePending
  <2>4. active # r
    BY <2>3, RequestsAssumption DEF EInv, Alone
  <2>5. executed'[r] = 0
    BY <1>1, <2>4 DEF WriteClear
  <2> QED BY <2>5 DEF ExecutedOnce
<1>2. CASE \E p \in Posts : post[p].req = r /\ WriteAdmit(p)
  <2>1. PICK p \in Posts : post[p].req = r /\ WriteAdmit(p)
    BY <1>2
  <2>2. post[p].pc = "upserting"
    BY <2>1 DEF WriteAdmit, AtHead
  <2>3. executed[r] = 0 /\ journal[r].status # "absent"
    BY <2>1, <2>2 DEF EInv, Executions, Unexecuted, Creating
  <2>4. executed'[r] = 1 /\ journal' = journal
    BY <1>0, <2>1, <2>3 DEF WriteAdmit
  <2> QED BY <2>3, <2>4 DEF ExecutedOnce
<1>3. CASE \E p \in Posts : post[p].req = r /\ StartFail(p)
  <2>1. PICK p \in Posts : post[p].req = r /\ StartFail(p)
    BY <1>3
  <2>2. post[p].pc \in Creating
    BY <2>1 DEF StartFail, AtHead, Creating
  <2>3. executed[r] = 0
    BY <2>1, <2>2 DEF EInv, Executions, Unexecuted
  <2>4. executed'[r] = 0
    BY <2>1, <2>3 DEF StartFail
  <2> QED BY <2>4 DEF ExecutedOnce
<1>4. CASE executed'[r] = executed[r] /\ (journal'[r].status = "absent" => journal[r].status = "absent")
  BY <1>4 DEF EInv, Executions, ExecutedOnce
<1>5. ASSUME NEW p \in Posts, post[p].req = r, StartCreate(p)
      PROVE  journal'[r].status # "absent"
  BY <1>0, <1>5 DEF StartCreate
<1>6. ASSUME LoadPublish(r) \/ LoadSave(r) PROVE journal'[r].status # "absent"
  BY <1>0, <1>6 DEF LoadPublish, LoadSave, Entry
<1>7. ASSUME \/ (\E c \in Provided : Emit(r, c)) \/ ToolStart(r) \/ ToolRecord(r)
             \/ CloseEvents(r)
      PROVE  journal'[r].status = journal[r].status
  <2>1. \/ journal' = journal
        \/ \E c : journal' = Published(r, c)
        \/ \E t : journal' = Noted(r, t)
    BY <1>7 DEF Emit, ToolStart, ToolRecord, CloseEvents
  <2>2. ASSUME NEW c PROVE Published(r, c)[r].status = journal[r].status
    BY <1>0 DEF Published, Entry
  <2>3. ASSUME NEW t PROVE Noted(r, t)[r].status = journal[r].status
    BY <1>0 DEF Noted, Entry
  <2> QED BY <2>1, <2>2, <2>3
<1>8. ASSUME Save(r) PROVE journal'[r].status = "absent" => journal[r].status = "absent"
  <2>1. run[r].status # "absent"
    BY DEF EInv, IInv, Types, RunType, RunState, RunStatus
  <2> QED BY <1>0, <1>8, <2>1 DEF Save, Entry
<1>9. \/ WriteClear \/ \E p \in Posts : post[p].req = r /\ StartFail(p)
      \/ journal'[r].status = "absent" => journal[r].status = "absent"
  BY <1>5, <1>6, <1>7, <1>8, JournalTurns DEF EInv
<1>10. \/ executed'[r] = executed[r] \/ WriteClear
       \/ \E p \in Posts : post[p].req = r /\ WriteAdmit(p)
  BY HistoryTurns DEF EInv
<1> QED BY <1>1, <1>2, <1>3, <1>4, <1>9, <1>10

\* The first state, and every step.
LEMMA ExecutionsInvariant ==
  ASSUME NoRacedDelete
  PROVE  Spec => [](Alone /\ Executions)
<1>1. Init => Alone /\ Executions
  <2> SUFFICES ASSUME Init PROVE Alone /\ Executions
    OBVIOUS
  <2>1. ~DeletePending
    BY DEF Init, DeletePending
  <2>2. \A p \in Posts : post[p].pc = "unsent"
    BY DEF Init, Unsent
  <2> QED BY <2>1, <2>2 DEF Init, Alone, Executions, ExecutedOnce, Unexecuted, Creating
<1>2. IInv /\ (Alone /\ Executions) /\ [Next]_vars => (Alone /\ Executions)'
  <2> SUFFICES ASSUME EInv, [Next]_vars PROVE (Alone /\ Executions)'
    BY DEF EInv
  <2> QED BY AloneStays, UnexecutedStays, ExecutedStays DEF Executions
<1> QED BY <1>1, <1>2, Invariant, PTL DEF Spec

\* OneExecution: however its submissions are repeated, stopped, retried and answered
\* after a crash, a run is executed at most once.
THEOREM RunsExecuteOnce ==
  ASSUME NoRacedDelete
  PROVE  Spec => []OneExecution
<1>1. Alone /\ Executions => OneExecution
  BY DEF Executions, ExecutedOnce, OneExecution
<1> QED BY <1>1, ExecutionsInvariant, PTL
-----------------------------------------------------------------------------
(* What is on disk, while no unguarded window of the code is open.          *)

\* No deletion races with the chat's other work, and no read of a journal is served
\* after the run it reads was admitted.
NoWindows == NoRacedDelete /\ "poll" \notin Windows

HasResult(chunks) == \E i \in 1..Len(chunks) : chunks[i] = "result"
Acting == {"live", "settling", "closing", "saving"}

\* A journal that is not there is empty.
Blank(r) == journal[r].status = "absent" => journal[r].chunks = <<>> /\ journal[r].tool = "none"

\* A run that is being created has done nothing yet; ...
Quiet(r) ==
  run[r].phase = "creating" =>
    /\ run[r].events = <<>> /\ run[r].pushing = NoChunk
    /\ run[r].tool = "idle" /\ r \notin effects

\* ... while it goes on its journal has its chunks, the one being delivered last, and
\* nobody else has ended it; ...
Chunked(r) ==
  run[r].phase \in Owned \ {"creating"} =>
    /\ run[r].pushing = NoChunk => journal[r].chunks = run[r].events
    /\ run[r].pushing # NoChunk => journal[r].chunks = Append(run[r].events, run[r].pushing)
Unfinished(r) == run[r].phase \in Acting => journal[r].status = "running"

\* ... and the journal tells how far its tool has come.
Tooled(r) ==
  /\ run[r].tool \in {"started", "effect"} =>
       run[r].phase \in {"live", "settling"} /\ journal[r].tool = "started"
  /\ run[r].phase \in Owned /\ run[r].tool = "recorded" => journal[r].tool = "completed"
  /\ run[r].phase = "live" /\ run[r].tool = "idle" => journal[r].tool = "none"
EffectNoted(r) == r \in effects => journal[r].tool # "none"
ResultNoted(r) == HasResult(journal[r].chunks) => journal[r].tool = "completed"

\* A run that ends knows why.
Ending(r) ==
  /\ run[r].phase \in Acting \ {"live"} => run[r].status # "running"
  /\ run[r].phase = "closing" => run[r].status # "completed"

Told(r) ==
  /\ Blank(r) /\ Quiet(r) /\ Chunked(r) /\ Unfinished(r) /\ Tooled(r)
  /\ EffectNoted(r) /\ ResultNoted(r) /\ Ending(r)

\* A recovery acts on the running journal of a run that is not live.
Recovered(r) ==
  loading[r] \in {"closing", "failing", "saving"} =>
    journal[r].status = "running" /\ active # r

\* An admission finds no journal, and makes an empty one.
Fresh(p) ==
  post[p].pc \in {"absent", "validated", "creating"} => journal[post[p].req].status = "absent"
Begun(p) ==
  post[p].pc \in {"created", "upserting"} =>
    LET j == journal[post[p].req]
    IN  j.status = "running" /\ j.chunks = <<>> /\ j.tool = "none"

Journals ==
  /\ \A r \in Requests : Told(r) /\ Recovered(r)
  /\ \A p \in Posts : Fresh(p) /\ Begun(p)
JInv == EInv /\ Journals

-----------------------------------------------------------------------------
\* A chunk that is appended brings a result only if it is one.
LEMMA ResultAppended ==
  ASSUME NEW s \in Seq(Chunks), NEW c \in Chunks
  PROVE  HasResult(Append(s, c)) <=> HasResult(s) \/ c = "result"
<1>1. ASSUME HasResult(Append(s, c)) PROVE HasResult(s) \/ c = "result"
  <2>1. PICK i \in 1..(Len(s) + 1) : Append(s, c)[i] = "result"
    BY <1>1 DEF HasResult
  <2> QED BY <2>1 DEF HasResult
<1>2. ASSUME HasResult(s) PROVE HasResult(Append(s, c))
  <2>1. PICK i \in 1..Len(s) : s[i] = "result"
    BY <1>2 DEF HasResult
  <2>2. Append(s, c)[i] = "result" /\ i \in 1..Len(Append(s, c))
    BY <2>1
  <2> QED BY <2>2 DEF HasResult
<1>3. ASSUME c = "result" PROVE HasResult(Append(s, c))
  <2>1. Append(s, c)[Len(s) + 1] = "result" /\ Len(s) + 1 \in 1..Len(Append(s, c))
    BY <1>3
  <2> QED BY <2>1 DEF HasResult
<1> QED BY <1>1, <1>2, <1>3

\* An empty journal has none.
LEMMA NoResult == ~HasResult(<<>>)
  BY DEF HasResult

\* What journalling a chunk, or a step of the tool, does to a journal.
LEMMA PublishedEntry ==
  ASSUME JournalType, NEW r \in Requests, NEW c
  PROVE  /\ Published(r, c)[r].status = journal[r].status
         /\ Published(r, c)[r].tool = journal[r].tool
         /\ Published(r, c)[r].record = journal[r].record
         /\ Published(r, c)[r].chunks = Append(journal[r].chunks, c)
  BY DEF JournalType, Entry, Published

\* (The same of a step of the tool.)
LEMMA NotedEntry ==
  ASSUME JournalType, NEW r \in Requests, NEW t
  PROVE  /\ Noted(r, t)[r].status = journal[r].status
         /\ Noted(r, t)[r].tool = t
         /\ Noted(r, t)[r].record = journal[r].record
         /\ Noted(r, t)[r].chunks = journal[r].chunks
  BY DEF JournalType, Entry, Noted

\* What a step does to a run and its journal: it leaves both, or it is one of these.
LEMMA BothTurn ==
  ASSUME IInv, [Next]_vars, NEW q \in Requests
  PROVE  \/ journal'[q] = journal[q] /\ run'[q] = run[q]
         \/ Restart \/ WriteClear
         \/ \E p \in Posts : /\ post[p].req = q
                             /\ \/ StartActivate(p) \/ StartCreate(p)
                                \/ StartFail(p) \/ WriteAdmit(p)
         \/ WriteSave /\ Head(writes).run = q
         \/ Worker(q) \/ Stream(q) \/ Aborting(q)
         \/ LoadPublish(q) \/ LoadSave(q)
<1>1. CASE journal'[q] = journal[q]
  BY <1>1, RunTurns
<1>2. CASE journal'[q] # journal[q]
  BY <1>2, JournalTurns DEF Worker, Stream
<1> QED BY <1>1, <1>2
-----------------------------------------------------------------------------
(* A run's own steps keep what its journal tells.                          *)

\* A run that publishes a chunk.
LEMMA EmitTells ==
  ASSUME JInv, NEW r \in Requests, NEW c \in Provided, Emit(r, c)
  PROVE  Told(r)'
<1>1. JournalType /\ Told(r) /\ journal[r].chunks \in Seq(Chunks)
  BY DEF JInv, Journals, EInv, IInv, Types, JournalType, Entry
<1>2. c \in Chunks /\ c # NoChunk
  BY ProvidedAssumption DEF Chunks, NoChunk
<1>3. journal' = Published(r, c)
  BY DEF Emit
<1>4. /\ journal'[r].status = journal[r].status /\ journal'[r].tool = journal[r].tool
      /\ journal'[r].chunks = Append(journal[r].chunks, c)
  BY <1>1, <1>3, PublishedEntry
<1>5. /\ run'[r].phase = "live" /\ run'[r].events = run[r].events
      /\ run'[r].pushing = c /\ run'[r].tool = run[r].tool
  BY DEF Emit, Step, JInv, EInv, IInv, Types, RunType, RunState
<1>6. run[r].phase = "live" /\ run[r].pushing = NoChunk /\ Durable(r)
  BY DEF Emit, Step
<1>7. HasResult(journal'[r].chunks) => HasResult(journal[r].chunks) \/ c = "result"
  BY <1>1, <1>2, <1>4, ResultAppended
<1>8. c = "result" => run[r].tool = "recorded"
  BY DEF Emit
<1>9. effects' = effects
  BY DEF Emit, ghostVars
<1> QED BY <1>1, <1>2, <1>4, <1>5, <1>6, <1>7, <1>8, <1>9
    DEF Told, Blank, Quiet, Chunked, Unfinished, Tooled, EffectNoted, ResultNoted, Ending,
        Acting, Owned, Durable

\* A run that delivers it.
LEMMA PushTells ==
  ASSUME JInv, NEW r \in Requests, Push(r)
  PROVE  Told(r)'
<1>1. Told(r) /\ journal' = journal /\ effects' = effects
  BY DEF JInv, Journals, Push, diskVars, ghostVars
<1>2. /\ run'[r].phase = run[r].phase /\ run'[r].status = run[r].status
      /\ run'[r].events = Append(run[r].events, run[r].pushing)
      /\ run'[r].pushing = NoChunk /\ run'[r].tool = run[r].tool
      /\ run[r].pushing # NoChunk
  BY DEF Push, JInv, EInv, IInv, Types, RunType, RunState
<1> QED BY <1>1, <1>2
    DEF Told, Blank, Quiet, Chunked, Unfinished, Tooled, EffectNoted, ResultNoted, Ending

\* A run whose stream ends, fails or is aborted.
LEMMA StreamEndTells ==
  ASSUME JInv, NEW r \in Requests, EmitFail(r) \/ StreamEnd(r) \/ AbortSeen(r)
  PROVE  Told(r)'
<1>1. Told(r) /\ journal' = journal /\ effects' = effects
  BY DEF JInv, Journals, EmitFail, StreamEnd, AbortSeen, diskVars, ghostVars
<1>2. /\ run'[r].phase = "settling" /\ run'[r].status # "running"
      /\ run'[r].events = run[r].events
      /\ run'[r].pushing = run[r].pushing /\ run'[r].tool = run[r].tool
  <2>1. CASE EmitFail(r)
    BY <2>1 DEF EmitFail, JInv, EInv, IInv, Types, RunType, RunState
  <2>2. CASE StreamEnd(r)
    BY <2>2 DEF StreamEnd, JInv, EInv, IInv, Types, RunType, RunState
  <2>3. CASE AbortSeen(r)
    BY <2>3 DEF AbortSeen, JInv, EInv, IInv, Types, RunType, RunState
  <2> QED BY <2>1, <2>2, <2>3
<1>3. run[r].phase = "live"
  BY DEF EmitFail, StreamEnd, AbortSeen, Step
<1> QED BY <1>1, <1>2, <1>3
    DEF Told, Blank, Quiet, Chunked, Unfinished, Tooled, EffectNoted, ResultNoted, Ending,
        Acting, Owned

\* A run that starts its tool, ...
LEMMA ToolStartTells ==
  ASSUME JInv, NEW r \in Requests, ToolStart(r)
  PROVE  Told(r)'
<1>1. JournalType /\ Told(r) /\ effects' = effects
  BY DEF JInv, Journals, EInv, IInv, Types, ToolStart, ghostVars
<1>2. /\ run[r].phase = "live" /\ run[r].tool = "idle"
      /\ run'[r].phase = "live" /\ run'[r].events = run[r].events
      /\ run'[r].pushing = run[r].pushing
  BY DEF ToolStart, JInv, EInv, IInv, Types, RunType, RunState
<1>3. CASE journal' = Noted(r, "started") /\ run' = [run EXCEPT ![r].tool = "started"]
  <2>1. /\ journal'[r].status = journal[r].status /\ journal'[r].tool = "started"
        /\ journal'[r].chunks = journal[r].chunks
    BY <1>1, <1>3, NotedEntry
  <2>2. run'[r].tool = "started"
    BY <1>3 DEF JInv, EInv, IInv, Types, RunType, RunState
  <2>3. journal[r].status # "absent"
    BY <1>1, <1>2 DEF Told, Unfinished, Acting
  <2> QED BY <1>1, <1>2, <2>1, <2>2, <2>3
      DEF Told, Blank, Quiet, Chunked, Unfinished, Tooled, EffectNoted, ResultNoted, Ending,
          Acting, Owned
<1>4. CASE UNCHANGED journal /\ run' = [run EXCEPT ![r].tool = "lost", ![r].abort = "error"]
  <2>1. run'[r].tool = "lost"
    BY <1>4 DEF JInv, EInv, IInv, Types, RunType, RunState
  <2> QED BY <1>1, <1>2, <1>4, <2>1
      DEF Told, Blank, Quiet, Chunked, Unfinished, Tooled, EffectNoted, ResultNoted, Ending,
          Acting, Owned
<1> QED BY <1>3, <1>4 DEF ToolStart

\* ... whose tool takes effect, ...
LEMMA ToolEffectTells ==
  ASSUME JInv, NEW r \in Requests, ToolEffect(r)
  PROVE  Told(r)'
<1>1. Told(r) /\ journal' = journal /\ run[r].tool = "started"
  BY DEF JInv, Journals, ToolEffect, diskVars
<1>2. /\ run'[r].phase = run[r].phase /\ run'[r].status = run[r].status
      /\ run'[r].events = run[r].events /\ run'[r].pushing = run[r].pushing
      /\ run'[r].tool = "effect"
  BY DEF ToolEffect, JInv, EInv, IInv, Types, RunType, RunState
<1> QED BY <1>1, <1>2
    DEF Told, Blank, Quiet, Chunked, Unfinished, Tooled, EffectNoted, ResultNoted, Ending

\* ... and that records its outcome.
LEMMA ToolRecordTells ==
  ASSUME JInv, NEW r \in Requests, ToolRecord(r)
  PROVE  Told(r)'
<1>1. JournalType /\ Told(r) /\ effects' = effects
  BY DEF JInv, Journals, EInv, IInv, Types, ToolRecord, ghostVars
<1>2. /\ run[r].tool = "effect" /\ run'[r].phase = run[r].phase
      /\ run'[r].status = run[r].status /\ run'[r].events = run[r].events
      /\ run'[r].pushing = run[r].pushing
  BY DEF ToolRecord, JInv, EInv, IInv, Types, RunType, RunState
<1>3. CASE Durable(r) /\ journal' = Noted(r, "completed") /\ run' = [run EXCEPT ![r].tool = "recorded"]
  <2>1. /\ journal'[r].status = journal[r].status /\ journal'[r].tool = "completed"
        /\ journal'[r].chunks = journal[r].chunks
    BY <1>1, <1>3, NotedEntry
  <2>2. run'[r].tool = "recorded"
    BY <1>3 DEF JInv, EInv, IInv, Types, RunType, RunState
  <2> QED BY <1>1, <1>2, <1>3, <2>1, <2>2
      DEF Told, Blank, Quiet, Chunked, Unfinished, Tooled, EffectNoted, ResultNoted, Ending,
          Durable
<1>4. CASE UNCHANGED journal /\ \E why \in {"error", run[r].abort} :
              run' = [run EXCEPT ![r].tool = "lost", ![r].abort = why]
  <2>1. run'[r].tool = "lost"
    BY <1>4 DEF JInv, EInv, IInv, Types, RunType, RunState
  <2> QED BY <1>1, <1>2, <1>4, <2>1
      DEF Told, Blank, Quiet, Chunked, Unfinished, Tooled, EffectNoted, ResultNoted, Ending
<1>5. \/ /\ Durable(r) /\ journal' = Noted(r, "completed")
         /\ run' = [run EXCEPT ![r].tool = "recorded"]
      \/ /\ UNCHANGED journal
         /\ \E why \in {"error", run[r].abort} :
              run' = [run EXCEPT ![r].tool = "lost", ![r].abort = why]
  <2>1. run[r] \in RunState
    BY DEF JInv, EInv, IInv, Types, RunType
  <2>2. CASE run' = [run EXCEPT ![r].tool = "lost",
                                ![r].abort = IF @ = "no" THEN "error" ELSE @]
    <3>1. run' = [run EXCEPT ![r].tool = "lost",
                             ![r].abort = IF run[r].abort = "no" THEN "error" ELSE run[r].abort]
      BY <2>1, <2>2 DEF JInv, EInv, IInv, Types, RunType, RunState
    <3> DEFINE why == IF run[r].abort = "no" THEN "error" ELSE run[r].abort
    <3>2. why \in {"error", run[r].abort}
      OBVIOUS
    <3> QED BY <2>2, <3>1, <3>2 DEF ToolRecord
  <2> QED BY <2>2 DEF ToolRecord
<1> QED BY <1>3, <1>4, <1>5

\* A run that settles.
LEMMA SettleTells ==
  ASSUME JInv, NEW r \in Requests, Settle(r)
  PROVE  Told(r)'
<1>1. Told(r) /\ journal' = journal /\ effects' = effects
  BY DEF JInv, Journals, Settle, diskVars, ghostVars
<1>2. /\ run'[r].phase = IF run[r].status = "completed" THEN "saving" ELSE "closing"
      /\ run'[r].status = run[r].status /\ run'[r].events = run[r].events
      /\ run'[r].pushing = run[r].pushing /\ run'[r].tool = run[r].tool
  BY DEF Settle, JInv, EInv, IInv, Types, RunType, RunState
<1>3. run[r].phase = "settling" /\ run[r].tool \notin {"started", "effect"}
  BY DEF Settle, Step
<1> QED BY <1>1, <1>2, <1>3
    DEF Told, Blank, Quiet, Chunked, Unfinished, Tooled, EffectNoted, ResultNoted, Ending,
        Acting, Owned

\* A run that closes its transcript.
LEMMA CloseEventsTells ==
  ASSUME JInv, NEW r \in Requests, CloseEvents(r)
  PROVE  Told(r)'
<1>1. JournalType /\ Told(r) /\ effects' = effects /\ journal[r].chunks \in Seq(Chunks)
  BY DEF JInv, Journals, EInv, IInv, Types, JournalType, Entry, CloseEvents, ghostVars
<1>2. run[r].phase = "closing" /\ run[r].pushing = NoChunk
  BY DEF CloseEvents, Step
<1>3. run'[r].status = run[r].status /\ run'[r].events = run[r].events /\ run'[r].tool = run[r].tool
  BY DEF CloseEvents, JInv, EInv, IInv, Types, RunType, RunState
<1>4. ASSUME NEW c \in {"closed", "abort", "error"}, NEW ph \in {"closing", "saving"}, Durable(r),
             journal' = Published(r, c), run' = [run EXCEPT ![r].pushing = c, ![r].phase = ph]
      PROVE  Told(r)'
  <2>1. c \in Chunks /\ c # NoChunk
    BY DEF Chunks, NoChunk
  <2>2. /\ journal'[r].status = journal[r].status /\ journal'[r].tool = journal[r].tool
        /\ journal'[r].chunks = Append(journal[r].chunks, c)
    BY <1>1, <1>4, PublishedEntry
  <2>3. run'[r].phase = ph /\ run'[r].pushing = c
    BY <1>4 DEF JInv, EInv, IInv, Types, RunType, RunState
  <2>4. HasResult(journal'[r].chunks) => HasResult(journal[r].chunks)
    BY <1>1, <2>1, <2>2, ResultAppended
  <2>5. run[r].tool \notin {"started", "effect"}
    BY <1>1, <1>2 DEF Told, Tooled
  <2> QED BY <1>1, <1>2, <1>3, <1>4, <2>1, <2>2, <2>3, <2>4, <2>5
      DEF Told, Blank, Quiet, Chunked, Unfinished, Tooled, EffectNoted, ResultNoted, Ending,
          Acting, Owned, Durable
<1>5. CASE UNCHANGED journal /\ run' = [run EXCEPT ![r].phase = "saving"]
  <2>1. run'[r].phase = "saving" /\ run'[r].pushing = run[r].pushing
    BY <1>5 DEF JInv, EInv, IInv, Types, RunType, RunState
  <2>2. run[r].tool \notin {"started", "effect"}
    BY <1>1, <1>2 DEF Told, Tooled
  <2> QED BY <1>1, <1>2, <1>3, <1>5, <2>1, <2>2
      DEF Told, Blank, Quiet, Chunked, Unfinished, Tooled, EffectNoted, ResultNoted, Ending,
          Acting, Owned
<1>6. \/ UNCHANGED journal /\ run' = [run EXCEPT ![r].phase = "saving"]
      \/ \E c \in {"closed", "abort", "error"}, ph \in {"closing", "saving"} :
           /\ Durable(r) /\ journal' = Published(r, c)
           /\ run' = [run EXCEPT ![r].pushing = c, ![r].phase = ph]
  BY <1>2 DEF CloseEvents
<1> QED BY <1>4, <1>5, <1>6

\* A run that saves its record.
LEMMA SaveTells ==
  ASSUME JInv, NEW r \in Requests, Save(r)
  PROVE  Told(r)'
<1>1. Told(r) /\ effects' = effects /\ run[r].phase = "saving" /\ run[r].status # "absent"
  BY DEF JInv, Journals, Save, Step, ghostVars, EInv, IInv, Types, RunType, RunState, RunStatus
<1>2. /\ run'[r].phase \in {"sessioning", "ending"} /\ run'[r].events = run[r].events
      /\ run'[r].pushing = run[r].pushing /\ run'[r].tool = run[r].tool
  BY DEF Save, JInv, EInv, IInv, Types, RunType, RunState
<1>3. /\ journal'[r].status # "absent" /\ journal'[r].chunks = journal[r].chunks
      /\ journal'[r].tool = journal[r].tool
  <2>1. journal[r].status # "absent"
    BY <1>1 DEF Told, Unfinished, Acting
  <2> QED BY <1>1, <2>1 DEF Save, JInv, EInv, IInv, Types, JournalType, Entry
<1> QED BY <1>1, <1>2, <1>3
    DEF Told, Blank, Quiet, Chunked, Unfinished, Tooled, EffectNoted, ResultNoted, Ending,
        Acting, Owned

\* A run that saves its transcript, that ends, or that is aborted.
LEMMA EndTells ==
  ASSUME JInv, NEW r \in Requests, SaveSession(r) \/ End(r) \/ Aborting(r)
  PROVE  Told(r)'
<1>1. Told(r) /\ journal' = journal /\ effects' = effects
  BY DEF JInv, Journals, SaveSession, End, Aborting, diskVars, ghostVars
<1>2. /\ \/ run'[r].phase = run[r].phase
         \/ run[r].phase = "sessioning" /\ run'[r].phase \in {"upserting", "ending"}
         \/ run[r].phase = "ending" /\ run'[r].phase = "done"
      /\ run'[r].status = run[r].status
      /\ run'[r].events = run[r].events /\ run'[r].pushing = run[r].pushing
      /\ run'[r].tool = run[r].tool
  <2>1. CASE SaveSession(r)
    BY <2>1 DEF SaveSession, Step, JInv, EInv, IInv, Types, RunType, RunState
  <2>2. CASE End(r)
    BY <2>2 DEF End, Step, JInv, EInv, IInv, Types, RunType, RunState
  <2>3. CASE Aborting(r)
    BY <2>3 DEF Aborting, Aborted, JInv, EInv, IInv, Types, RunType, RunState
  <2> QED BY <2>1, <2>2, <2>3
<1> QED BY <1>1, <1>2
    DEF Told, Blank, Quiet, Chunked, Unfinished, Tooled, EffectNoted, ResultNoted, Ending,
        Acting, Owned
-----------------------------------------------------------------------------
(* So do the steps others take.                                            *)

\* A deletion that is served finds the chat alone.
LEMMA ClearedAlone ==
  ASSUME EInv, WriteClear
  PROVE  /\ active = NoRun
         /\ \A p \in Posts : post[p].pc \notin Starting
         /\ \A r \in Requests : /\ run[r].phase \notin Owned
                                /\ loading[r] \in {"idle", "reading"}
                                /\ journal'[r] = Absent /\ r \notin effects'
<1>1. writes \in Seq(Writes) /\ writes # <<>> /\ Head(writes).kind = "clear"
  BY DEF WriteClear, Serve, EInv, IInv, Types, WritesType
<1>2. 1 \in 1..Len(writes) /\ Head(writes) = writes[1]
  BY <1>1
<1>3. DeletePending
  BY <1>1, <1>2 DEF DeletePending
<1>4. /\ active = NoRun /\ \A p \in Posts : post[p].pc \notin Starting
      /\ \A r \in Requests : loading[r] \in {"idle", "reading"}
  BY <1>3 DEF EInv, Alone
<1>5. \A r \in Requests : run[r].phase \notin Owned
  BY <1>4, RequestsAssumption DEF EInv, IInv, Control, OneOwner
<1>6. \A r \in Requests : journal'[r] = Absent /\ r \notin effects'
  BY <1>4, RequestsAssumption DEF WriteClear
<1> QED BY <1>4, <1>5, <1>6

\* The chat is deleted, or the process ends.
LEMMA ClearTells ==
  ASSUME JInv, WriteClear \/ Restart, NEW r \in Requests
  PROVE  Told(r)'
<1>1. Told(r)
  BY DEF JInv, Journals
<1>2. CASE WriteClear
  <2>1. run[r].phase \notin Owned /\ journal'[r] = Absent /\ r \notin effects' /\ run' = run
    BY <1>2, ClearedAlone DEF JInv, WriteClear
  <2>2. /\ journal'[r].status = "absent" /\ journal'[r].chunks = <<>>
        /\ journal'[r].tool = "none"
    BY <2>1 DEF Absent
  <2> QED BY <1>1, <2>1, <2>2, NoResult
      DEF Told, Blank, Quiet, Chunked, Unfinished, Tooled, EffectNoted, ResultNoted, Ending,
          Acting, Owned
<1>3. CASE Restart
  <2>1. run'[r].phase = "none" /\ run'[r].tool = "idle"
    BY <1>3 DEF Restart, Idle
  <2>2. journal' = journal /\ effects' = effects
    BY <1>3 DEF Restart, diskVars, ghostVars
  <2> QED BY <1>1, <2>1, <2>2
      DEF Told, Blank, Quiet, Chunked, Unfinished, Tooled, EffectNoted, ResultNoted, Ending,
          Acting, Owned
<1> QED BY <1>2, <1>3

\* A run is made the chat's owner, its journal created, or both are taken back, and
\* its execution begins.
LEMMA AdmissionTells ==
  ASSUME JInv, NEW p \in Posts, NEW r \in Requests, post[p].req = r,
         StartActivate(p) \/ StartCreate(p) \/ StartFail(p) \/ WriteAdmit(p)
  PROVE  Told(r)'
<1>1. r \in Requests
  OBVIOUS
<1>2. Told(r) /\ journal \in [Requests -> Entry] /\ run \in [Requests -> RunState]
  BY <1>1 DEF JInv, Journals, EInv, IInv, Types, JournalType, RunType
<1>3. post[p].pc \in Creating => run[r].phase = "creating"
  BY DEF JInv, EInv, IInv, Control, Admissions, Created
<1>4. CASE StartActivate(p)
  <2>1. journal' = journal /\ effects' = effects
    BY <1>4 DEF StartActivate, diskVars
  <2>2. post[p].pc = "validated"
    BY <1>4 DEF StartActivate, AtHead
  <2>3. journal[r].status = "absent" /\ r \notin effects
    BY <1>1, <1>2, <2>2 DEF JInv, Journals, Fresh, Told, Blank, EffectNoted
  <2>4. CASE run' = run
    BY <1>2, <2>1, <2>4
       DEF Told, Blank, Quiet, Chunked, Unfinished, Tooled, EffectNoted, ResultNoted, Ending
  <2>5. CASE run' # run
    <3>1. /\ run'[r].phase = "creating" /\ run'[r].events = <<>>
          /\ run'[r].pushing = NoChunk /\ run'[r].tool = "idle"
      <4> DEFINE y == [Idle EXCEPT !.phase = "creating",
                         !.record = [prompt |-> post[p].messages, print |-> post[p].print]]
      <4>1. run' = [run EXCEPT ![r] = y]
        BY <1>4, <2>5 DEF StartActivate
      <4>2. run'[r] = y
        BY <1>2, <4>1
      <4> QED BY <4>2 DEF Idle
    <3> QED BY <1>2, <2>1, <2>3, <3>1
        DEF Told, Blank, Quiet, Chunked, Unfinished, Tooled, EffectNoted, ResultNoted, Ending,
            Acting
  <2> QED BY <2>4, <2>5
<1>5. CASE StartCreate(p)
  <2>1. /\ journal'[r].status = "running" /\ journal'[r].chunks = <<>>
        /\ journal'[r].tool = "none"
    BY <1>1, <1>2, <1>5 DEF StartCreate
  <2>2. run' = run /\ effects' = effects /\ run[r].phase = "creating"
    BY <1>3, <1>5 DEF StartCreate, AtHead, Creating, ghostVars
  <2> QED BY <1>2, <2>1, <2>2, NoResult
      DEF Told, Blank, Quiet, Chunked, Unfinished, Tooled, EffectNoted, ResultNoted, Ending,
          Acting
<1>6. CASE StartFail(p)
  <2>1. journal'[r] = Absent /\ run'[r] = Idle
    BY <1>1, <1>2, <1>6 DEF StartFail
  <2>2. effects' = effects /\ run[r].phase = "creating"
    BY <1>3, <1>6 DEF StartFail, AtHead, Creating, ghostVars
  <2> QED BY <1>2, <2>1, <2>2, NoResult
      DEF Told, Blank, Quiet, Chunked, Unfinished, Tooled, EffectNoted, ResultNoted, Ending,
          Acting, Owned, Absent, Idle
<1>7. CASE WriteAdmit(p)
  <2>1. /\ run'[r].phase = "live" /\ run'[r].events = run[r].events
        /\ run'[r].pushing = run[r].pushing /\ run'[r].tool = run[r].tool
    BY <1>1, <1>2, <1>7 DEF WriteAdmit, RunState
  <2>2. /\ journal' = journal /\ effects' = effects /\ post[p].pc = "upserting"
        /\ run[r].phase = "creating"
    BY <1>3, <1>7 DEF WriteAdmit, AtHead, Creating
  <2>3. /\ journal[r].status = "running" /\ journal[r].chunks = <<>>
        /\ journal[r].tool = "none"
    BY <2>2 DEF JInv, Journals, Begun
  <2> QED BY <1>2, <2>1, <2>2, <2>3
      DEF Told, Blank, Quiet, Chunked, Unfinished, Tooled, EffectNoted, ResultNoted, Ending,
          Acting
<1> QED BY <1>4, <1>5, <1>6, <1>7

\* A recovery closes the journal of a run that is not live, and the chat is saved.
LEMMA RecoveryTells ==
  ASSUME JInv, NEW r \in Requests,
         LoadPublish(r) \/ LoadSave(r) \/ (WriteSave /\ Head(writes).run = r)
  PROVE  Told(r)'
<1>1. /\ Told(r) /\ Recovered(r) /\ JournalType /\ journal[r].chunks \in Seq(Chunks)
      /\ run \in [Requests -> RunState]
  BY DEF JInv, Journals, EInv, IInv, Types, JournalType, RunType, Entry
<1>2. ASSUME active # r PROVE run[r].phase \notin Owned
  BY <1>2 DEF JInv, EInv, IInv, Control, OneOwner
<1>3. CASE LoadPublish(r)
  <2>1. run' = run /\ effects' = effects /\ run[r].phase \notin Owned
    BY <1>1, <1>2, <1>3 DEF LoadPublish, ghostVars, Recovered
  <2>2. PICK c \in {"closed", "error"} : journal' = Published(r, c)
    BY <1>3 DEF LoadPublish, Published
  <2>3. /\ journal'[r].status = journal[r].status /\ journal'[r].tool = journal[r].tool
        /\ journal'[r].chunks = Append(journal[r].chunks, c)
    BY <1>1, <2>2, PublishedEntry
  <2>4. HasResult(journal'[r].chunks) => HasResult(journal[r].chunks)
    <3>1. c \in Chunks /\ c # "result"
      BY DEF Chunks
    <3> QED BY <1>1, <2>3, <3>1, ResultAppended
  <2>5. journal[r].status # "absent"
    BY <1>3 DEF LoadPublish
  <2> QED BY <1>1, <2>1, <2>3, <2>4, <2>5
      DEF Told, Blank, Quiet, Chunked, Unfinished, Tooled, EffectNoted, ResultNoted, Ending,
          Acting, Owned
<1>4. CASE LoadSave(r)
  <2>1. run' = run /\ effects' = effects /\ run[r].phase \notin Owned
    BY <1>1, <1>2, <1>4 DEF LoadSave, ghostVars, Recovered
  <2>2. /\ journal'[r].status = "interrupted" /\ journal'[r].tool = journal[r].tool
        /\ journal'[r].chunks = journal[r].chunks
    BY <1>1, <1>4 DEF LoadSave, JournalType, Entry
  <2> QED BY <1>1, <2>1, <2>2
      DEF Told, Blank, Quiet, Chunked, Unfinished, Tooled, EffectNoted, ResultNoted, Ending,
          Acting, Owned
<1>5. CASE WriteSave /\ Head(writes).run = r
  <2>1. writes \in Seq(Writes) /\ writes # <<>> /\ Head(writes).kind = "save"
    BY <1>5 DEF WriteSave, Serve, JInv, EInv, IInv, Types, WritesType
  <2>2. 1 \in 1..Len(writes) /\ Head(writes) = writes[1]
    BY <2>1
  <2>3. run[r].phase = "upserting"
    BY <1>5, <2>1, <2>2 DEF JInv, EInv, IInv, Control, Saves, Saving
  <2>4. /\ run'[r].phase = "ending" /\ run'[r].events = run[r].events
        /\ run'[r].pushing = run[r].pushing /\ run'[r].tool = run[r].tool
        /\ journal' = journal /\ effects' = effects
    BY <1>1, <1>5 DEF WriteSave, RunState, ghostVars
  <2> QED BY <1>1, <2>3, <2>4
      DEF Told, Blank, Quiet, Chunked, Unfinished, Tooled, EffectNoted, ResultNoted, Ending,
          Acting, Owned
<1> QED BY <1>3, <1>4, <1>5

\* Every step keeps what a run's journal tells.
LEMMA NextTells ==
  ASSUME JInv, [Next]_vars, NEW r \in Requests
  PROVE  Told(r)'
<1>1. CASE Worker(r) \/ Stream(r)
  BY <1>1, EmitTells, PushTells, StreamEndTells, ToolStartTells, ToolEffectTells,
     ToolRecordTells, SettleTells, CloseEventsTells, SaveTells, EndTells DEF Worker, Stream
<1>2. CASE journal'[r] = journal[r] /\ run'[r] = run[r] /\ ~ToolEffect(r)
  <2>1. r \in effects' => r \in effects
    BY <1>2, HistoryTurns DEF JInv, EInv
  <2>2. Told(r)
    BY DEF JInv, Journals
  <2> QED BY <1>2, <2>1, <2>2
      DEF Told, Blank, Quiet, Chunked, Unfinished, Tooled, EffectNoted, ResultNoted, Ending
<1>3. CASE \E p \in Posts : /\ post[p].req = r
                            /\ \/ StartActivate(p) \/ StartCreate(p)
                               \/ StartFail(p) \/ WriteAdmit(p)
  BY <1>3, AdmissionTells
<1> QED BY <1>1, <1>2, <1>3, ClearTells, RecoveryTells, EndTells, BothTurn
    DEF JInv, EInv, Worker

\* Nobody else touches the journal a recovery has read.
LEMMA ReadAlone ==
  ASSUME JInv, [Next]_vars, NEW r \in Requests, ~LoadPublish(r),
         loading'[r] = loading[r], loading[r] \in {"closing", "failing", "saving"}
  PROVE  journal'[r] = journal[r] /\ active' # r
<1>0. /\ journal \in [Requests -> Entry] /\ Recovered(r) /\ Told(r)
      /\ loading \in [Requests -> {"idle", "reading", "closing", "failing", "saving"}]
  BY DEF JInv, Journals, EInv, IInv, Types, JournalType, LoadingType
<1>1. journal[r].status = "running" /\ active # r /\ r # NoRun
  BY <1>0, RequestsAssumption DEF Recovered
<1>2. run[r].phase \notin Owned
  BY <1>1 DEF JInv, EInv, IInv, Control, OneOwner
<1>3. ASSUME NEW p \in Posts, post[p].req = r PROVE post[p].pc \notin {"validated"} \cup Creating
  BY <1>1, <1>3 DEF JInv, Journals, Fresh, EInv, IInv, Control, Admissions, Created, Creating
<1>4. active' # r
  BY <1>1, <1>3, OwnerTurns
<1>5. ~WriteClear
  BY ClearedAlone DEF JInv
<1>6. ~(\E p \in Posts : post[p].req = r /\ (StartCreate(p) \/ StartFail(p)))
  BY <1>3 DEF StartCreate, StartFail, AtHead, Creating
<1>7. ~LoadSave(r)
  BY <1>0 DEF LoadSave, Loaded
<1>8. /\ ~(\E c \in Provided : Emit(r, c)) /\ ~ToolStart(r) /\ ~ToolRecord(r)
      /\ ~CloseEvents(r) /\ ~Save(r)
  BY <1>0, <1>2 DEF Emit, ToolStart, ToolRecord, CloseEvents, Save, Step, Owned, Told, Tooled
<1>9. journal'[r] = journal[r]
  BY <1>5, <1>6, <1>7, <1>8, JournalTurns DEF JInv, EInv
<1> QED BY <1>4, <1>9

\* A recovery goes on with the journal it read.
LEMMA RecoveredStays ==
  ASSUME NoWindows, JInv, [Next]_vars, NEW r \in Requests
  PROVE  Recovered(r)'
<1> SUFFICES ASSUME loading'[r] \in {"closing", "failing", "saving"}
             PROVE  journal'[r].status = "running" /\ active' # r
  BY DEF Recovered
<1> USE DEF diskVars, admitVars, procVars, stopVars, ghostVars, boundVars
<1>0. /\ journal \in [Requests -> Entry] /\ Recovered(r) /\ Told(r)
      /\ loading \in [Requests -> {"idle", "reading", "closing", "failing", "saving"}]
  BY DEF JInv, Journals, EInv, IInv, Types, JournalType, LoadingType
<1>1. CASE LoadRead(r)
  <2>1. UNCHANGED <<journal, active>> /\ active # r
    BY <1>1 DEF LoadRead, NoWindows
  <2>2. Orphaned(r)
    BY <1>0, <1>1 DEF LoadRead, Loaded
  <2> QED BY <2>1, <2>2 DEF Orphaned
<1>2. CASE LoadPublish(r)
  <2>1. journal[r].status = "running" /\ active' # r
    BY <1>0, <1>2 DEF LoadPublish, Recovered
  <2>2. \E c : journal' = Published(r, c)
    BY <1>2 DEF LoadPublish, Published
  <2> QED BY <1>0, <2>1, <2>2, PublishedEntry DEF JournalType
<1>3. CASE loading'[r] = loading[r] /\ ~LoadPublish(r)
  BY <1>0, <1>3, ReadAlone DEF Recovered
<1> QED BY <1>1, <1>2, <1>3, ReadTurns DEF JInv, EInv

\* An admission that found no journal has the request to itself.
LEMMA FreshStays ==
  ASSUME NoWindows, JInv, [Next]_vars, NEW p \in Posts
  PROVE  Fresh(p)'
<1> SUFFICES ASSUME post'[p].pc \in {"absent", "validated", "creating"}
             PROVE  journal'[post'[p].req].status = "absent"
  BY DEF Fresh
<1> USE DEF diskVars, admitVars, procVars, stopVars, ghostVars, boundVars
<1> DEFINE r == post[p].req
<1>1. post'[p].req = r /\ Turned(p)
  BY NextTurns DEF JInv, EInv, Starting, Creating
<1>2. post[p].pc \in Starting
  BY <1>1 DEF Turned, Starting, Creating
<1>3. r \in Requests /\ chain # <<>> /\ Head(chain) = p
  BY <1>2 DEF JInv, EInv, IInv, Control, Sent, Admissions, HeadStarts, Starting, Creating
<1>4. journal[r].status = "absent"
  BY <1>1 DEF Turned, JInv, Journals, Fresh
<1>5. journal \in [Requests -> Entry] /\ Told(r) /\ Recovered(r)
  BY <1>3 DEF JInv, Journals, EInv, IInv, Types, JournalType
<1>6. ASSUME NEW q \in Posts, StartCreate(q) PROVE FALSE
  <2>1. q = p
    BY <1>3, <1>6 DEF StartCreate, AtHead
  <2>2. Answering(p, "created")
    BY <1>6, <2>1 DEF StartCreate
  <2>3. post'[p].pc = "created"
    BY <2>2, AnsweredPost DEF Pcs, JInv, EInv, IInv, Types
  <2> QED BY <2>3
<1>7. ASSUME WriteClear \/ \E q \in Posts : post[q].req = r /\ StartFail(q)
      PROVE  journal'[r].status = "absent"
  BY <1>3, <1>5, <1>7 DEF WriteClear, StartFail, Absent
<1>8. ~LoadPublish(r) /\ ~LoadSave(r) /\ ~Save(r)
  BY <1>4, <1>5 DEF LoadPublish, LoadSave, Save, Step, Recovered, Told, Unfinished, Acting
<1>9. ASSUME \/ (\E c \in Provided : Emit(r, c)) \/ ToolStart(r) \/ ToolRecord(r)
             \/ CloseEvents(r)
      PROVE  journal' = journal
  BY <1>4, <1>9 DEF Emit, ToolStart, ToolRecord, CloseEvents, Durable
<1>10. journal'[r].status = "absent"
  BY <1>3, <1>4, <1>6, <1>7, <1>8, <1>9, JournalTurns DEF JInv, EInv
<1> QED BY <1>1, <1>10

\* The journal it made waits for its run.
LEMMA BegunStays ==
  ASSUME NoWindows, JInv, [Next]_vars, NEW p \in Posts
  PROVE  Begun(p)'
<1> SUFFICES ASSUME post'[p].pc \in {"created", "upserting"}
             PROVE  /\ journal'[post'[p].req].status = "running"
                    /\ journal'[post'[p].req].chunks = <<>>
                    /\ journal'[post'[p].req].tool = "none"
  BY DEF Begun
<1> USE DEF diskVars, admitVars, procVars, stopVars, ghostVars, boundVars
<1> DEFINE r == post[p].req
<1>1. post'[p].req = r /\ Turned(p)
  BY NextTurns DEF JInv, EInv, Starting, Creating
<1>2. post[p].pc \in Creating
  BY <1>1 DEF Turned, Creating
<1>3. /\ r \in Requests /\ chain # <<>> /\ Head(chain) = p
      /\ active = r /\ run[r].phase = "creating"
  BY <1>2 DEF JInv, EInv, IInv, Control, Admissions, HeadStarts, Created, Starting
<1>4. journal \in [Requests -> Entry] /\ Told(r) /\ Recovered(r)
  BY <1>3 DEF JInv, Journals, EInv, IInv, Types, JournalType
<1>5. CASE StartCreate(p)
  <2>1. journal'[r] = [status |-> "running", record |-> run[r].record,
                       chunks |-> <<>>, tool |-> "none"]
    BY <1>3, <1>4, <1>5 DEF StartCreate
  <2> QED BY <1>1, <2>1
<1>6. CASE ~StartCreate(p)
  <2>1. post[p].pc \in {"created", "upserting"}
    BY <1>1, <1>6 DEF Turned
  <2>2. /\ journal[r].status = "running" /\ journal[r].chunks = <<>>
        /\ journal[r].tool = "none"
    BY <2>1 DEF JInv, Journals, Begun
  <2>3. ASSUME NEW q \in Posts, StartCreate(q) \/ StartFail(q) PROVE FALSE
    <3>1. q = p
      BY <1>3, <2>3 DEF StartCreate, StartFail, AtHead
    <3>2. Answering(p, "failed")
      BY <1>6, <2>3, <3>1 DEF StartFail, Reply
    <3>3. post'[p].pc = "failed"
      BY <3>2, AnsweredPost DEF Pcs, JInv, EInv, IInv, Types
    <3> QED BY <3>3
  <2>4. ~WriteClear
    BY <1>2, ClearedAlone DEF JInv, Starting
  <2>5. ~LoadPublish(r) /\ ~LoadSave(r)
    BY <1>3, <1>4 DEF LoadPublish, LoadSave, Recovered
  <2>6. /\ ~(\E c \in Provided : Emit(r, c)) /\ ~ToolStart(r) /\ ~ToolRecord(r)
        /\ ~CloseEvents(r) /\ ~Save(r)
    BY <1>3, <1>4 DEF Emit, ToolStart, ToolRecord, CloseEvents, Save, Step, Told, Quiet
  <2>7. journal'[r] = journal[r]
    BY <1>3, <2>3, <2>4, <2>5, <2>6, JournalTurns DEF JInv, EInv
  <2> QED BY <1>1, <2>2, <2>7
<1> QED BY <1>5, <1>6

\* The first state, and every step.
LEMMA JournalsInvariant ==
  ASSUME NoWindows
  PROVE  Spec => []JInv
<1>1. Init => Journals
  <2> SUFFICES ASSUME Init PROVE Journals
    OBVIOUS
  <2>1. ASSUME NEW r \in Requests PROVE Told(r) /\ Recovered(r)
    <3>1. /\ journal[r] = Absent /\ run[r] = Idle /\ loading[r] = "idle" /\ r \notin effects
      BY DEF Init
    <3> QED BY <3>1, NoResult
        DEF Told, Blank, Quiet, Chunked, Unfinished, Tooled, EffectNoted, ResultNoted, Ending,
            Recovered, Acting, Owned, Absent, Idle
  <2>2. \A p \in Posts : post[p].pc = "unsent"
    BY DEF Init, Unsent
  <2> QED BY <2>1, <2>2 DEF Journals, Fresh, Begun
<1>2. IInv /\ (Alone /\ Executions) /\ Journals /\ [Next]_vars => Journals'
  <2> SUFFICES ASSUME JInv, [Next]_vars PROVE Journals'
    BY DEF JInv, EInv
  <2> QED BY NextTells, RecoveredStays, FreshStays, BegunStays DEF Journals
<1>3. NoRacedDelete
  BY DEF NoWindows
<1>4. Spec => [](Alone /\ Executions)
  BY <1>3, ExecutionsInvariant
<1>5. Spec => []Journals
  BY <1>1, <1>2, <1>4, Invariant, PTL DEF Spec
<1>6. IInv /\ (Alone /\ Executions) /\ Journals => JInv
  BY DEF JInv, EInv
<1> QED BY <1>4, <1>5, <1>6, Invariant, PTL

-----------------------------------------------------------------------------
(* What follows from it.                                                   *)

\* What was delivered begins what is journalled.
LEMMA BeginsWith ==
  ASSUME NEW s \in Seq(Chunks), NEW c \in Chunks
  PROVE  IsPrefix(s, s) /\ IsPrefix(s, Append(s, c))
  BY DEF IsPrefix

\* EffectsAreRecorded: what the browsers of a live run have seen is on disk, a tool that
\* took effect has left its start there, and a result in the transcript its outcome.
THEOREM EffectsStayRecorded ==
  ASSUME NoWindows
  PROVE  Spec => []EffectsAreRecorded
<1>1. JInv => EffectsAreRecorded
  <2> SUFFICES ASSUME JInv, NEW r \in Requests
               PROVE  /\ run[r].phase \in Owned \ {"creating"} =>
                           IsPrefix(run[r].events, journal[r].chunks)
                      /\ r \in effects => journal[r].tool # "none"
                      /\ (\E i \in 1..Len(journal[r].chunks) : journal[r].chunks[i] = "result")
                           => journal[r].tool = "completed"
    BY DEF EffectsAreRecorded
  <2>1. Told(r) /\ run[r].events \in Seq(Chunks) /\ run[r].pushing \in Chunks \cup {NoChunk}
    BY DEF JInv, Journals, EInv, IInv, Types, RunType, RunState
  <2>2. run[r].phase \in Owned \ {"creating"} => IsPrefix(run[r].events, journal[r].chunks)
    <3> SUFFICES ASSUME run[r].phase \in Owned \ {"creating"}
                 PROVE  IsPrefix(run[r].events, journal[r].chunks)
      OBVIOUS
    <3>1. CASE run[r].pushing = NoChunk
      <4>1. journal[r].chunks = run[r].events
        BY <2>1, <3>1 DEF Told, Chunked
      <4> QED BY <2>1, <4>1 DEF IsPrefix
    <3>2. CASE run[r].pushing # NoChunk
      <4>1. journal[r].chunks = Append(run[r].events, run[r].pushing)
        BY <2>1, <3>2 DEF Told, Chunked
      <4> QED BY <2>1, <3>2, <4>1, BeginsWith
    <3> QED BY <3>1, <3>2
  <2>3. r \in effects => journal[r].tool # "none"
    BY <2>1 DEF Told, EffectNoted
  <2>4. HasResult(journal[r].chunks) => journal[r].tool = "completed"
    BY <2>1 DEF Told, ResultNoted
  <2> QED BY <2>2, <2>3, <2>4 DEF HasResult
<1> QED BY <1>1, JournalsInvariant, PTL

\* A step of SearchRuns is a step of RunOutcomes, or changes no run's outcome.
LEMMA StepsOutcomes ==
  ASSUME NoWindows, JInv, IInv', [Next]_vars
  PROVE  [Outcomes!Next]_([r \in Requests |-> journal[r].status])
<1> USE DEF diskVars, admitVars, procVars, stopVars, ghostVars, boundVars
<1> DEFINE now == [r \in Requests |-> journal[r].status]
           then == [r \in Requests |-> journal'[r].status]
<1>0. /\ journal \in [Requests -> Entry] /\ journal' \in [Requests -> Entry]
      /\ \A r \in Requests : Told(r) /\ Recovered(r)
  BY DEF JInv, Journals, EInv, IInv, Types, JournalType
<1>1. CASE WriteClear
  <2>1. then = [r \in Requests |-> "absent"]
    BY <1>1 DEF WriteClear, Absent
  <2> QED BY <2>1 DEF Outcomes!Next, Outcomes!Forget
<1>2. ASSUME ~WriteClear, NEW r \in Requests, journal'[r].status # journal[r].status
      PROVE  [Outcomes!Next]_now
  <2>1. ASSUME NEW e, journal' = [journal EXCEPT ![r] = e], NEW st, e.status = st
        PROVE  then = [now EXCEPT ![r] = st]
    BY <1>0, <2>1
  <2>2. CASE \E p \in Posts : post[p].req = r /\ StartCreate(p)
    <3>1. PICK p \in Posts : post[p].req = r /\ StartCreate(p)
      BY <2>2
    <3>2. journal[r].status = "absent"
      BY <3>1 DEF JInv, Journals, Fresh, StartCreate, AtHead
    <3> DEFINE e == [status |-> "running", record |-> run[r].record,
                     chunks |-> <<>>, tool |-> "none"]
    <3>3. journal' = [journal EXCEPT ![r] = e] /\ e.status = "running"
      BY <3>1 DEF StartCreate
    <3> HIDE DEF e
    <3>4. then = [now EXCEPT ![r] = "running"]
      BY <2>1, <3>3
    <3>5. Outcomes!Begin(r)
      BY <3>2, <3>4 DEF Outcomes!Begin
    <3> QED BY <3>5 DEF Outcomes!Next
  <2>3. CASE \E p \in Posts : post[p].req = r /\ StartFail(p)
    <3>1. PICK p \in Posts : post[p].req = r /\ StartFail(p)
      BY <2>3
    <3>2. journal' = [journal EXCEPT ![r] = Absent] /\ Absent.status = "absent"
      BY <3>1 DEF StartFail, Absent
    <3>3. then = [now EXCEPT ![r] = "absent"]
      BY <2>1, <3>2
    <3>4. journal[r].status # "absent"
      BY <1>0, <1>2, <3>2
    <3>5. post[p].pc = "upserting"
      BY <3>1, <3>4 DEF StartFail, AtHead, JInv, Journals, Fresh
    <3>6. journal[r].status = "running"
      BY <3>1, <3>5 DEF JInv, Journals, Begun
    <3>7. Outcomes!Withdraw(r)
      BY <3>3, <3>6 DEF Outcomes!Withdraw
    <3> QED BY <3>7 DEF Outcomes!Next
  <2>4. CASE LoadSave(r)
    <3> DEFINE e == [journal[r] EXCEPT !.status = "interrupted"]
    <3>1. journal' = [journal EXCEPT ![r] = e] /\ e.status = "interrupted"
      BY <1>0, <2>4 DEF LoadSave, Entry
    <3> HIDE DEF e
    <3>2. then = [now EXCEPT ![r] = "interrupted"]
      BY <2>1, <3>1
    <3>3. journal[r].status = "running"
      BY <1>0, <2>4 DEF LoadSave, Recovered
    <3>4. Outcomes!Finish(r, "interrupted")
      BY <3>2, <3>3 DEF Outcomes!Finish
    <3> QED BY <3>4 DEF Outcomes!Next, Outcomes!Terminal
  <2>5. CASE Save(r)
    <3>1. journal[r].status = "running" /\ run[r].status \in RunStatus \ {"running"}
      BY <1>0, <2>5 DEF Save, Step, Told, Unfinished, Ending, Acting, JInv, EInv, IInv, Types,
         RunType, RunState
    <3> DEFINE e == journal'[r]
    <3>2. journal' = [journal EXCEPT ![r] = e] /\ e.status = run[r].status
      <4>1. journal' = [journal EXCEPT ![r].status = run[r].status, ![r].record = run[r].record]
        BY <1>2, <2>5 DEF Save
      <4>2. JournalType /\ journal[r] \in Entry /\ run[r].status \in RunStatus
            /\ run[r].record \in Record
        BY <1>0 DEF JInv, EInv, IInv, Types, JournalType, RunType, RunState
      <4>3. journal' = [journal EXCEPT ![r] = journal'[r]] /\ journal'[r].status = run[r].status
        BY <4>1, <4>2, EndedEntry
      <4> QED BY <4>3
    <3> HIDE DEF e
    <3>3. PICK st \in Outcomes!Terminal : st = run[r].status
      BY <3>1 DEF Outcomes!Terminal, RunStatus
    <3>4. then = [now EXCEPT ![r] = st]
      BY <2>1, <3>2, <3>3
    <3>5. Outcomes!Finish(r, st)
      BY <3>1, <3>4 DEF Outcomes!Finish
    <3> QED BY <3>5, Zenon DEF Outcomes!Next
  <2>6. ASSUME \/ LoadPublish(r) \/ (\E c \in Provided : Emit(r, c)) \/ ToolStart(r)
               \/ ToolRecord(r) \/ CloseEvents(r)
        PROVE  FALSE
    <3>1. \/ journal' = journal
          \/ \E c : journal' = Published(r, c)
          \/ \E t : journal' = Noted(r, t)
      BY <2>6 DEF LoadPublish, Emit, ToolStart, ToolRecord, CloseEvents, Published
    <3> QED BY <1>0, <1>2, <3>1, PublishedEntry, NotedEntry DEF JournalType
  <2> QED BY <1>2, <2>2, <2>3, <2>4, <2>5, <2>6, JournalTurns DEF JInv, EInv
<1>3. CASE \A r \in Requests : journal'[r].status = journal[r].status
  <2>1. then = now
    BY <1>3
  <2> QED BY <2>1
<1> QED BY <1>1, <1>2, <1>3

\* OutcomesAreKept: a run once begun ends once, in one way, and its ending stays, whatever
\* reads, recovers, repeats or stops it, until its chat is deleted.
THEOREM OutcomesStay ==
  ASSUME NoWindows
  PROVE  Spec => OutcomesAreKept
<1>1. Init => Outcomes!Init
  BY DEF Init, Outcomes!Init, Absent
<1>2. JInv /\ IInv' /\ [Next]_vars => [Outcomes!Next]_([r \in Requests |-> journal[r].status])
  BY StepsOutcomes
<1> QED BY <1>1, <1>2, JournalsInvariant, Invariant, PTL DEF Spec, OutcomesAreKept, Outcomes!Spec

-----------------------------------------------------------------------------
(* What the saved chat shows, as long as no storage call has failed.       *)

Settled(chunks) ==
  ~OpenCall(chunks) /\ chunks # <<>> /\ Last(chunks) \in {"error", "abort"}

\* A journal is saved with an ending that is not its completion only once its transcript
\* is settled: by its run, or by a recovery.
SettledRun(r) ==
  /\ journal[r].status \in {"stopped", "failed", "interrupted"} => Settled(journal[r].chunks)
  /\ run[r].phase = "saving" /\ run[r].status # "completed" => Settled(journal[r].chunks)
SettledRead(r) ==
  /\ loading[r] = "failing" => ~OpenCall(journal[r].chunks)
  /\ loading[r] = "saving" => Settled(journal[r].chunks)

\* The journal is saved before the chat.
SavedFirst(r) ==
  /\ run[r].phase \in {"sessioning", "upserting"} =>
       /\ journal[r].status = run[r].status /\ journal[r].record = run[r].record
       /\ run[r].status # "running" /\ run[r].pushing = NoChunk
  /\ run[r].phase = "ending" => journal[r].status # "running"

\* The chat shows what its last run journalled, from the moment that run saved it, ...
Shown ==
  LET r == session.run IN
  /\ boot = "ready" /\ Owns /\ journal[r].status \in RunStatus \ {"running"}
  /\ active = r => run[r].phase = "ending"
  => session.messages = RunMessages(r, journal[r].record.prompt, journal[r].chunks)

\* ... and a run left running has no owner only until initialize() has recovered it.
Found ==
  /\ boot = "ready" /\ Owns /\ journal[session.run].status = "running" => active = session.run
  /\ boot = "loading" /\ loading[session.run] = "idle" => journal[session.run].status # "running"

Transcripts ==
  /\ \A r \in Requests : SettledRun(r) /\ SettledRead(r) /\ SavedFirst(r)
  /\ Shown /\ Found
TInv == JInv /\ Transcripts

-----------------------------------------------------------------------------
\* A call is closed by the observation that is appended for it.
LEMMA ClosedCall ==
  ASSUME NEW s \in Seq(Chunks)
  PROVE  ~OpenCall(Append(s, "closed"))
<1> SUFFICES ASSUME OpenCall(Append(s, "closed")) PROVE FALSE
  OBVIOUS
<1> DEFINE t == Append(s, "closed")
<1>1. Len(t) = Len(s) + 1 /\ t[Len(s) + 1] = "closed" /\ Len(s) \in Nat
  OBVIOUS
<1>2. PICK i \in 1..Len(t) :
        t[i] = "call" /\ \A j \in (i + 1)..Len(t) : t[j] \notin {"result", "closed"}
  BY DEF OpenCall
<1>3. i # Len(s) + 1
  BY <1>1, <1>2
<1>4. Len(s) + 1 \in (i + 1)..Len(t)
  BY <1>1, <1>2, <1>3
<1> QED BY <1>1, <1>2, <1>4

\* A transcript with no open call is settled by its last chunk.
LEMMA SettledBy ==
  ASSUME NEW s \in Seq(Chunks), ~OpenCall(s), NEW c \in {"error", "abort"}
  PROVE  Settled(Append(s, c))
<1> DEFINE t == Append(s, c)
<1>1. /\ Len(t) = Len(s) + 1 /\ t[Len(s) + 1] = c /\ Len(s) \in Nat
      /\ \A i \in 1..Len(s) : t[i] = s[i]
  OBVIOUS
<1>2. ~OpenCall(t)
  <2> SUFFICES ASSUME OpenCall(t) PROVE FALSE
    OBVIOUS
  <2>1. PICK i \in 1..Len(t) :
          t[i] = "call" /\ \A j \in (i + 1)..Len(t) : t[j] \notin {"result", "closed"}
    BY DEF OpenCall
  <2>2. i \in 1..Len(s) /\ s[i] = "call"
    <3>1. i # Len(s) + 1
      BY <1>1, <2>1
    <3>2. i \in 1..Len(s)
      BY <1>1, <2>1, <3>1
    <3> QED BY <1>1, <2>1, <3>2
  <2>3. ASSUME NEW j \in (i + 1)..Len(s) PROVE s[j] \notin {"result", "closed"}
    <3>1. j \in (i + 1)..Len(t) /\ j \in 1..Len(s)
      BY <1>1, <2>2, <2>3
    <3> QED BY <1>1, <2>1, <3>1
  <2> QED BY <2>2, <2>3 DEF OpenCall
<1>3. t # <<>> /\ Last(t) = c
  BY <1>1 DEF Last
<1> QED BY <1>2, <1>3 DEF Settled

\* A failed storage call is not forgotten.
LEMMA FaultsStay ==
  ASSUME IInv, [Next]_vars, faults' = 0
  PROVE  faults = 0
<1>1. faults \in Nat
  BY BoundsAssumption DEF IInv, Types, GhostType
<1>2. faults' = faults \/ faults' = faults + 1
  <2> USE DEF diskVars, admitVars, procVars, stopVars, ghostVars, boundVars
  <2>1. CASE \E p \in Posts : Admission(p) \/ StartFail(p)
    BY <2>1 DEF Admission, StartFind, StartExisting, StartBroken, StartValidate,
       StartActivate, StartCreate, StartUpsert, WriteAdmit, StartFail
  <2>2. CASE \E r \in Requests : Poll(r) \/ Loader(r)
    BY <2>2 DEF Poll, Loader, LoadRead, LoadPublish, LoadFail, LoadSave
  <2>3. CASE \E r \in Requests : Worker(r)
    BY <2>3 DEF Worker, Push, AbortSeen, ToolEffect, ToolRecord, Settle, CloseEvents, Save,
       SaveSession, End
  <2>4. CASE \E r \in Requests : Stream(r)
    BY <2>4 DEF Stream, Emit, EmitFail, StreamEnd, ToolStart
  <2>5. CASE \E r \in Requests : (\E b \in BOOLEAN : Stop(r, b)) \/ StopFind(r) \/ StopDone(r)
    BY <2>5 DEF Stop, StopFind, StopDone
  <2>6. CASE Put \/ DeleteCheck \/ Store \/ CloseBegin \/ Closing \/ Restart \/ BootLoad \/ BootSave
    BY <2>6 DEF Put, DeleteCheck, Store, WriteSave, WritePut, DeleteEnqueue, WriteRemove,
       WriteClear, CloseBegin, Closing, CloseWait, CloseAbort, CloseDone, Restart, BootLoad,
       BootSave
  <2>7. CASE \E p \in Posts, r \in Requests : \E m \in Submittable(r) : Submit(p, r, m)
    BY <2>7 DEF Submit
  <2>8. CASE UNCHANGED vars
    BY <2>8 DEF vars
  <2> QED BY <2>1, <2>2, <2>3, <2>4, <2>5, <2>6, <2>7, <2>8 DEF Next
<1> QED BY <1>1, <1>2

\* What a step does to the saved chat, and to initialize().
LEMMA ChatTurns ==
  ASSUME [Next]_vars
  PROVE  /\ \/ session' = session
            \/ (\E p \in Posts : WriteAdmit(p)) \/ WriteSave \/ WritePut \/ WriteRemove \/ BootSave
         /\ boot' \in {boot, "starting"} \/ BootLoad \/ BootSave
<1> USE DEF diskVars, admitVars, procVars, stopVars, ghostVars, boundVars
<1>1. CASE \E p \in Posts : Admission(p) \/ StartFail(p)
  <2>1. PICK p \in Posts : Admission(p) \/ StartFail(p)
    BY <1>1
  <2>2. CASE WriteAdmit(p)
    BY <2>2 DEF WriteAdmit
  <2>3. CASE ~WriteAdmit(p)
    BY <2>1, <2>3 DEF Admission, StartFind, StartExisting, StartBroken, StartValidate,
       StartActivate, StartCreate, StartUpsert, StartFail
  <2> QED BY <2>2, <2>3
<1>2. CASE \E r \in Requests : Poll(r) \/ Loader(r)
  BY <1>2 DEF Poll, Loader, LoadRead, LoadPublish, LoadFail, LoadSave
<1>3. ASSUME NEW r \in Requests, Worker(r) \/ Stream(r)
      PROVE  UNCHANGED <<session, boot>>
  <2>1. CASE Worker(r)
    BY <2>1 DEF Worker, Push, AbortSeen, ToolEffect, ToolRecord, Settle, CloseEvents, Save,
       SaveSession, End
  <2>2. CASE Stream(r)
    BY <2>2 DEF Stream, Emit, EmitFail, StreamEnd, ToolStart
  <2> QED BY <1>3, <2>1, <2>2
<1>4. CASE \E r \in Requests : (\E b \in BOOLEAN : Stop(r, b)) \/ StopFind(r) \/ StopDone(r)
  BY <1>4 DEF Stop, StopFind, StopDone
<1>5. CASE Put \/ DeleteCheck \/ Store \/ CloseBegin \/ Closing \/ Restart \/ BootLoad \/ BootSave
  <2>1. CASE WriteSave \/ WritePut \/ WriteRemove
    BY <2>1 DEF WriteSave, WritePut, WriteRemove
  <2>2. CASE ~(WriteSave \/ WritePut \/ WriteRemove)
    BY <1>5, <2>2 DEF Put, DeleteCheck, Store, DeleteEnqueue, WriteClear, CloseBegin, Closing,
       CloseWait, CloseAbort, CloseDone, Restart, BootLoad
  <2> QED BY <2>1, <2>2
<1>6. CASE \E p \in Posts, r \in Requests : \E m \in Submittable(r) : Submit(p, r, m)
  BY <1>6 DEF Submit
<1>7. CASE UNCHANGED vars
  BY <1>7 DEF vars
<1> QED BY <1>1, <1>2, <1>3, <1>4, <1>5, <1>6, <1>7 DEF Next

\* What takes the chat from its owner.
LEMMA OwnerGoes ==
  ASSUME IInv, [Next]_vars, NEW q \in Requests, active = q, active' # q
  PROVE  Restart \/ End(q) \/ \E p \in Posts : post[p].req = q /\ StartFail(p)
<1> USE DEF diskVars, admitVars, procVars, stopVars, ghostVars, boundVars
<1>1. CASE \E p \in Posts : Admission(p) \/ StartFail(p)
  <2>1. PICK p \in Posts : Admission(p) \/ StartFail(p)
    BY <1>1
  <2>2. CASE StartFail(p)
    <3>1. post[p].pc \in Creating
      BY <2>2 DEF StartFail, AtHead, Creating
    <3>2. post[p].req = q
      BY <3>1 DEF IInv, Control, Admissions, Created
    <3> QED BY <2>2, <3>2
  <2>3. CASE StartActivate(p)
    BY <2>3, RequestsAssumption DEF StartActivate, AtHead, IInv, Control, Admissions, Free
  <2>4. CASE ~(StartFail(p) \/ StartActivate(p))
    BY <2>1, <2>4 DEF Admission, StartFind, StartExisting, StartBroken, StartValidate,
       StartCreate, StartUpsert, WriteAdmit
  <2> QED BY <2>2, <2>3, <2>4
<1>2. ASSUME NEW r \in Requests, Poll(r) \/ Loader(r) \/ Worker(r) \/ Stream(r)
      PROVE  End(q)
  <2>1. CASE Poll(r) \/ Loader(r)
    BY <2>1, Zenon DEF Poll, Loader, LoadRead, LoadPublish, LoadFail, LoadSave
  <2>2. CASE Stream(r)
    BY <2>2, Zenon DEF Stream, Emit, EmitFail, StreamEnd, ToolStart
  <2>3. CASE Worker(r) /\ ~End(r)
    BY <2>3, Zenon DEF Worker, Push, AbortSeen, ToolEffect, ToolRecord, Settle, CloseEvents,
       Save, SaveSession
  <2>4. CASE End(r)
    <3>1. run[r].phase \in Owned
      BY <2>4 DEF End, Step, Owned
    <3>2. active = r
      BY <3>1 DEF IInv, Control, OneOwner
    <3> QED BY <2>4, <3>2
  <2> QED BY <1>2, <2>1, <2>2, <2>3, <2>4
<1>3. CASE \E r \in Requests : (\E b \in BOOLEAN : Stop(r, b)) \/ StopFind(r) \/ StopDone(r)
  BY <1>3 DEF Stop, StopFind, StopDone
<1>4. CASE Put \/ DeleteCheck \/ Store \/ CloseBegin \/ Closing \/ Restart \/ BootLoad \/ BootSave
  BY <1>4 DEF Put, DeleteCheck, Store, WriteSave, WritePut, DeleteEnqueue, WriteRemove,
     WriteClear, CloseBegin, Closing, CloseWait, CloseAbort, CloseDone, BootLoad, BootSave
<1>5. CASE \E p \in Posts, r \in Requests : \E m \in Submittable(r) : Submit(p, r, m)
  BY <1>5 DEF Submit
<1>6. CASE UNCHANGED vars
  BY <1>6 DEF vars
<1>7. CASE \E r \in Requests : Poll(r) \/ Loader(r) \/ Worker(r) \/ Stream(r)
  BY <1>2, <1>7
<1> QED BY <1>1, <1>3, <1>4, <1>5, <1>6, <1>7 DEF Next

\* How a read of a journal ends.
LEMMA ReadEnds ==
  ASSUME IInv, [Next]_vars, NEW q \in Requests, loading'[q] = "idle", loading[q] # "idle"
  PROVE  Restart \/ LoadRead(q) \/ LoadFail(q) \/ LoadSave(q)
<1> USE DEF diskVars, admitVars, procVars, stopVars, ghostVars, boundVars
<1>0. loading \in [Requests -> {"idle", "reading", "closing", "failing", "saving"}]
  BY DEF IInv, Types, LoadingType
<1>1. ASSUME NEW r, loading' = Joined(r) PROVE FALSE
  BY <1>0, <1>1 DEF Joined
<1>2. ASSUME UNCHANGED loading PROVE FALSE
  BY <1>2
<1>3. CASE \E p \in Posts : Admission(p) \/ StartFail(p)
  <2>1. UNCHANGED loading \/ \E r : loading' = Joined(r)
    BY <1>3 DEF Admission, StartFind, StartExisting, StartBroken, StartValidate,
       StartActivate, StartCreate, StartUpsert, WriteAdmit, StartFail
  <2> QED BY <1>1, <1>2, <2>1
<1>4. ASSUME NEW r \in Requests, Poll(r) \/ Loader(r)
      PROVE  LoadRead(q) \/ LoadFail(q) \/ LoadSave(q)
  <2>1. ~Poll(r)
    BY <1>1 DEF Poll
  <2>2. ~LoadPublish(r)
    BY <1>0 DEF LoadPublish
  <2>3. ASSUME LoadRead(r) \/ LoadFail(r) \/ LoadSave(r) PROVE r = q
    <3>1. \E x : loading' = [loading EXCEPT ![r] = x]
      BY <2>3 DEF LoadRead, LoadFail, LoadSave, Loaded
    <3> QED BY <1>0, <3>1
  <2> QED BY <1>4, <2>1, <2>2, <2>3 DEF Loader
<1>5. ASSUME NEW r \in Requests, Worker(r) \/ Stream(r)
      PROVE  FALSE
  <2>1. UNCHANGED loading
    BY <1>5, Zenon DEF Worker, Stream, Push, AbortSeen, ToolEffect, ToolRecord, Settle, CloseEvents,
       Save, SaveSession, End, Emit, EmitFail, StreamEnd, ToolStart
  <2> QED BY <1>2, <2>1
<1>6. CASE \E r \in Requests : (\E b \in BOOLEAN : Stop(r, b)) \/ StopFind(r) \/ StopDone(r)
  <2>1. UNCHANGED loading \/ \E r : loading' = Joined(r)
    BY <1>6 DEF Stop, StopFind, StopDone
  <2> QED BY <1>1, <1>2, <2>1
<1>7. CASE Put \/ DeleteCheck \/ Store \/ CloseBegin \/ Closing \/ BootLoad \/ BootSave
  <2>1. UNCHANGED loading \/ \E r : loading' = Joined(r)
    BY <1>7 DEF Put, DeleteCheck, Store, WriteSave, WritePut, DeleteEnqueue, WriteRemove,
       WriteClear, CloseBegin, Closing, CloseWait, CloseAbort, CloseDone, BootLoad, BootSave
  <2> QED BY <1>1, <1>2, <2>1
<1>8. CASE \E p \in Posts, r \in Requests : \E m \in Submittable(r) : Submit(p, r, m)
  BY <1>2, <1>8 DEF Submit
<1>9. CASE UNCHANGED vars
  BY <1>2, <1>9 DEF vars
<1> QED BY <1>3, <1>4, <1>5, <1>6, <1>7, <1>8, <1>9 DEF Next

-----------------------------------------------------------------------------
\* A run that publishes, or uses its tool, acts on its running journal, as a recovery does.
LEMMA ActingJournal ==
  ASSUME JInv, NEW r \in Requests,
         \/ (\E c \in Provided : Emit(r, c)) \/ ToolStart(r) \/ ToolRecord(r)
         \/ CloseEvents(r) \/ LoadPublish(r)
  PROVE  journal[r].status = "running" /\ journal'[r].status = "running"
<1>1. JournalType /\ Told(r) /\ Recovered(r)
  BY DEF JInv, Journals, EInv, IInv, Types
<1>2. journal[r].status = "running"
  <2>1. CASE LoadPublish(r)
    BY <1>1, <2>1 DEF LoadPublish, Recovered
  <2>2. CASE ~LoadPublish(r)
    <3>1. run[r].phase \in {"live", "settling", "closing"}
      BY <1>1, <2>2 DEF Emit, ToolStart, ToolRecord, CloseEvents, Step, Told, Tooled
    <3> QED BY <1>1, <3>1 DEF Told, Unfinished, Acting
  <2> QED BY <2>1, <2>2
<1>3. \/ journal' = journal
      \/ \E c : journal' = Published(r, c)
      \/ \E t : journal' = Noted(r, t)
  BY DEF LoadPublish, Emit, ToolStart, ToolRecord, CloseEvents, Published
<1> QED BY <1>1, <1>2, <1>3, PublishedEntry, NotedEntry

\* A run that saves does not come back to it.
LEMMA LeavesSaving ==
  ASSUME IInv, NEW r \in Requests,
         Save(r) \/ SaveSession(r) \/ (WriteSave /\ Head(writes).run = r)
  PROVE  /\ run'[r].phase \in {"sessioning", "upserting", "ending"}
         /\ run[r].phase \in {"saving", "sessioning", "upserting"}
<1>0. run \in [Requests -> RunState] /\ writes \in Seq(Writes)
  BY DEF IInv, Types, RunType, WritesType
<1>1. CASE Save(r) \/ SaveSession(r)
  BY <1>0, <1>1 DEF Save, SaveSession, Step, RunState
<1>2. CASE WriteSave /\ Head(writes).run = r
  <2>1. writes # <<>> /\ Head(writes).kind = "save"
    BY <1>2 DEF WriteSave, Serve
  <2>2. 1 \in 1..Len(writes) /\ Head(writes) = writes[1]
    BY <1>0, <2>1
  <2>3. run[r].phase = "upserting"
    BY <1>2, <2>1, <2>2 DEF IInv, Control, Saves, Saving
  <2> QED BY <1>0, <1>2, <2>3 DEF WriteSave, RunState
<1> QED BY <1>1, <1>2

\* The steps that leave a run past its tools.
LEMMA SavingTurns ==
  ASSUME JInv, [Next]_vars, NEW r \in Requests,
         run'[r].phase \in {"saving", "sessioning", "upserting", "ending"}
  PROVE  \/ journal'[r] = journal[r] /\ run'[r] = run[r]
         \/ Push(r) \/ Settle(r) \/ CloseEvents(r) \/ Save(r) \/ SaveSession(r) \/ Aborting(r)
         \/ WriteSave /\ Head(writes).run = r
<1> USE DEF diskVars, admitVars, procVars, stopVars, ghostVars, boundVars
<1>0. /\ Told(r) /\ Recovered(r) /\ run \in [Requests -> RunState]
  BY DEF JInv, Journals, EInv, IInv, Types, RunType
<1>1. ~ToolEffect(r) /\ ~ToolRecord(r)
  <2> SUFFICES ASSUME ToolEffect(r) \/ ToolRecord(r) PROVE FALSE
    OBVIOUS
  <2>1. run[r].phase \in {"live", "settling"}
    BY <1>0 DEF ToolEffect, ToolRecord, Told, Tooled
  <2>2. run'[r].phase = run[r].phase
    BY <1>0 DEF ToolEffect, ToolRecord, RunState
  <2> QED BY <2>1, <2>2
<1>2. ~AbortSeen(r) /\ ~EmitFail(r) /\ ~StreamEnd(r) /\ ~End(r)
  <2> SUFFICES ASSUME AbortSeen(r) \/ EmitFail(r) \/ StreamEnd(r) \/ End(r) PROVE FALSE
    OBVIOUS
  <2>1. run'[r].phase \in {"settling", "done"}
    BY <1>0 DEF AbortSeen, EmitFail, StreamEnd, End, RunState
  <2> QED BY <2>1
<1>3. ~ToolStart(r) /\ ~(\E c \in Provided : Emit(r, c))
  <2>1. ASSUME ToolStart(r) PROVE FALSE
    BY <1>0, <2>1 DEF ToolStart, RunState
  <2>2. ASSUME NEW c \in Provided, Emit(r, c) PROVE FALSE
    <3>1. run[r].phase = "live" /\ run'[r].phase = run[r].phase
      BY <1>0, <2>2, EmitMoves DEF Emit, Step, Moves, RunType
    <3> QED BY <3>1
  <2> QED BY <2>1, <2>2
<1>4. ~Restart
  BY DEF Restart, Idle
<1>5. ~WriteClear
  <2> SUFFICES ASSUME WriteClear PROVE FALSE
    OBVIOUS
  <2>1. run[r].phase \notin Owned /\ run' = run
    BY ClearedAlone DEF JInv, WriteClear
  <2> QED BY <2>1 DEF Owned
<1>6. ~LoadPublish(r) /\ ~LoadSave(r)
  <2> SUFFICES ASSUME LoadPublish(r) \/ LoadSave(r) PROVE FALSE
    OBVIOUS
  <2>1. run' = run /\ active # r
    BY <1>0 DEF LoadPublish, LoadSave, Recovered
  <2>2. run[r].phase \notin Owned
    BY <2>1 DEF JInv, EInv, IInv, Control, OneOwner
  <2> QED BY <2>1, <2>2 DEF Owned
<1>7. ASSUME NEW p \in Posts, post[p].req = r,
             StartActivate(p) \/ StartCreate(p) \/ StartFail(p) \/ WriteAdmit(p)
      PROVE  journal'[r] = journal[r] /\ run'[r] = run[r]
  <2>1. CASE StartActivate(p) /\ run' # run
    <3> DEFINE y == [Idle EXCEPT !.phase = "creating",
                       !.record = [prompt |-> post[p].messages, print |-> post[p].print]]
    <3>1. run' = [run EXCEPT ![r] = y]
      BY <1>7, <2>1 DEF StartActivate
    <3>2. run'[r] = y
      BY <1>0, <3>1
    <3> QED BY <3>2 DEF Idle
  <2>2. CASE StartCreate(p)
    <3>1. run[r].phase = "creating" /\ run' = run
      BY <1>7, <2>2 DEF StartCreate, AtHead, Creating, JInv, EInv, IInv, Control,
         Admissions, Created
    <3> QED BY <3>1
  <2>3. CASE StartFail(p)
    BY <1>0, <1>7, <2>3 DEF StartFail, Idle
  <2>4. CASE WriteAdmit(p)
    BY <1>0, <1>7, <2>4 DEF WriteAdmit, RunState
  <2>5. CASE StartActivate(p) /\ run' = run
    BY <2>5 DEF StartActivate
  <2> QED BY <1>7, <2>1, <2>2, <2>3, <2>4, <2>5
<1> QED BY <1>1, <1>2, <1>3, <1>4, <1>5, <1>6, <1>7, BothTurn DEF JInv, EInv, Worker, Stream

\* A transcript is settled before its ending is saved.
LEMMA SettledRunStays ==
  ASSUME TInv, [Next]_vars, UNCHANGED faults, faults \in Nat, NEW r \in Requests
  PROVE  SettledRun(r)'
<1> USE DEF diskVars, admitVars, procVars, stopVars, ghostVars, boundVars
<1>0. /\ SettledRun(r) /\ SettledRead(r) /\ Told(r) /\ Recovered(r) /\ JournalType
      /\ run \in [Requests -> RunState] /\ journal[r].chunks \in Seq(Chunks)
  BY DEF TInv, Transcripts, JInv, Journals, EInv, IInv, Types, JournalType, RunType, Entry
<1>1. ASSUME journal'[r].status \in {"stopped", "failed", "interrupted"}
      PROVE  Settled(journal'[r].chunks)
  <2>1. CASE journal'[r] = journal[r]
    BY <1>0, <1>1, <2>1 DEF SettledRun
  <2>2. ~WriteClear
    BY <1>1 DEF WriteClear, Absent
  <2>3. ~(\E p \in Posts : post[p].req = r /\ (StartCreate(p) \/ StartFail(p)))
    <3> SUFFICES ASSUME NEW p \in Posts, post[p].req = r, StartCreate(p) \/ StartFail(p)
                 PROVE  journal'[r].status \in {"running", "absent"}
      BY <1>1
    <3>1. CASE StartCreate(p)
      BY <1>0, <3>1 DEF StartCreate, JournalType
    <3>2. CASE StartFail(p)
      BY <1>0, <3>2 DEF StartFail, JournalType, Absent
    <3> QED BY <3>1, <3>2
  <2>4. CASE LoadSave(r)
    BY <1>0, <2>4 DEF LoadSave, SettledRead, JournalType, Entry
  <2>5. CASE Save(r)
    <3>1. journal'[r].status = run[r].status /\ journal'[r].chunks = journal[r].chunks
      <4>1. faults' # faults + 1
        BY DEF TInv, JInv, EInv, IInv, Types, GhostType
      <4> QED BY <1>0, <2>5, <4>1 DEF Save, JournalType, Entry
    <3>2. run[r].phase = "saving" /\ run[r].status # "completed"
      BY <1>1, <2>5, <3>1 DEF Save, Step
    <3> QED BY <1>0, <3>1, <3>2 DEF SettledRun
  <2>6. \/ (\E c \in Provided : Emit(r, c)) \/ ToolStart(r) \/ ToolRecord(r)
        \/ CloseEvents(r) \/ LoadPublish(r)
        => journal'[r].status = "running"
    BY ActingJournal DEF TInv
  <2> QED BY <1>1, <2>1, <2>2, <2>3, <2>4, <2>5, <2>6, JournalTurns DEF TInv, JInv, EInv
<1>2. ASSUME run'[r].phase = "saving", run'[r].status # "completed"
      PROVE  Settled(journal'[r].chunks)
  <2>1. CASE CloseEvents(r)
    <3>1. run[r].phase = "closing" /\ run[r].pushing = NoChunk
      BY <2>1 DEF CloseEvents, Step
    <3>2. journal[r].chunks = run[r].events /\ Durable(r)
      BY <1>0, <3>1 DEF Told, Chunked, Unfinished, Acting, Owned, Durable
    <3>3. ~OpenCall(run[r].events)
      <4> SUFFICES ASSUME OpenCall(run[r].events) PROVE FALSE
        OBVIOUS
      <4>1. run' = [run EXCEPT ![r].pushing = "closed"] \/ faults' = faults + 1
        BY <2>1, <3>1, <3>2 DEF CloseEvents
      <4>2. run' = [run EXCEPT ![r].pushing = "closed"]
        BY <4>1
      <4> QED BY <1>0, <1>2, <3>1, <4>2 DEF RunState
    <3>4. \E c \in {"error", "abort"} : journal' = Published(r, c)
      <4>1. faults' # faults + 1
        OBVIOUS
      <4> QED BY <2>1, <3>2, <3>3, <4>1 DEF CloseEvents
    <3>5. PICK c \in {"error", "abort"} : journal' = Published(r, c)
      BY <3>4
    <3>6. journal'[r].chunks = Append(journal[r].chunks, c)
      BY <1>0, <3>5, PublishedEntry
    <3> QED BY <1>0, <3>2, <3>3, <3>6, SettledBy
  <2>2. CASE Settle(r)
    BY <1>0, <1>2, <2>2 DEF Settle, RunState
  <2>3. CASE run'[r].phase = run[r].phase /\ run'[r].status = run[r].status /\ journal'[r] = journal[r]
    BY <1>0, <1>2, <2>3 DEF SettledRun
  <2>4. CASE Push(r)
    BY <1>0, <2>3, <2>4 DEF Push, RunState
  <2>5. CASE Aborting(r)
    BY <1>0, <2>3, <2>5 DEF Aborting, Aborted, RunState
  <2>6. CASE Save(r) \/ SaveSession(r) \/ (WriteSave /\ Head(writes).run = r)
    <3>1. run'[r].phase # "saving"
      BY <1>0, <2>6, LeavesSaving DEF TInv, JInv, EInv
    <3> QED BY <1>2, <3>1
  <2> QED BY <1>2, <2>1, <2>2, <2>3, <2>4, <2>5, <2>6, SavingTurns DEF TInv
<1> QED BY <1>1, <1>2 DEF SettledRun

\* A recovery closes an open call, and says that the run was interrupted.
LEMMA SettledReadStays ==
  ASSUME TInv, [Next]_vars, NEW r \in Requests
  PROVE  SettledRead(r)'
<1> USE DEF diskVars, admitVars, procVars, stopVars, ghostVars, boundVars
<1>0. /\ SettledRead(r) /\ JournalType /\ journal[r].chunks \in Seq(Chunks)
      /\ loading \in [Requests -> {"idle", "reading", "closing", "failing", "saving"}]
  BY DEF TInv, Transcripts, JInv, Journals, EInv, IInv, Types, JournalType, LoadingType, Entry
<1> SUFFICES ASSUME loading'[r] \in {"failing", "saving"} PROVE SettledRead(r)'
  BY DEF SettledRead
<1>1. CASE LoadRead(r)
  <2>1. journal' = journal
    BY <1>1 DEF LoadRead
  <2>2. loading'[r] = IF OpenCall(journal[r].chunks) THEN "closing" ELSE "failing"
    BY <1>0, <1>1 DEF LoadRead, Loaded
  <2> QED BY <2>1, <2>2 DEF SettledRead
<1>2. CASE LoadPublish(r)
  <2>1. CASE loading[r] = "closing"
    <3>1. journal' = Published(r, "closed") /\ loading'[r] = "failing"
      BY <1>0, <1>2, <2>1 DEF LoadPublish, Published
    <3>2. journal'[r].chunks = Append(journal[r].chunks, "closed")
      BY <1>0, <3>1, PublishedEntry
    <3> QED BY <1>0, <3>1, <3>2, ClosedCall DEF SettledRead
  <2>2. CASE loading[r] = "failing"
    <3>1. journal' = Published(r, "error") /\ loading'[r] = "saving"
      BY <1>0, <1>2, <2>2 DEF LoadPublish, Published
    <3>2. journal'[r].chunks = Append(journal[r].chunks, "error")
      BY <1>0, <3>1, PublishedEntry
    <3>3. ~OpenCall(journal[r].chunks)
      BY <1>0, <2>2 DEF SettledRead
    <3>4. Settled(journal'[r].chunks)
      BY <1>0, <3>2, <3>3, SettledBy
    <3> QED BY <3>1, <3>4 DEF SettledRead
  <2> QED BY <1>2, <2>1, <2>2 DEF LoadPublish
<1>3. CASE loading'[r] = loading[r] /\ ~LoadPublish(r)
  <2>1. journal'[r] = journal[r]
    BY <1>3, ReadAlone DEF TInv
  <2> QED BY <1>0, <1>3, <2>1 DEF SettledRead
<1> QED BY <1>1, <1>2, <1>3, ReadTurns DEF TInv, JInv, EInv

\* A run saves its journal before the chat.
LEMMA SavedFirstStays ==
  ASSUME TInv, [Next]_vars, UNCHANGED faults, faults \in Nat, NEW r \in Requests
  PROVE  SavedFirst(r)'
<1> USE DEF diskVars, admitVars, procVars, stopVars, ghostVars, boundVars
<1>0. /\ SavedFirst(r) /\ Told(r) /\ JournalType /\ run \in [Requests -> RunState]
  BY DEF TInv, Transcripts, JInv, Journals, EInv, IInv, Types, RunType
<1> SUFFICES ASSUME run'[r].phase \in {"sessioning", "upserting", "ending"}
             PROVE  SavedFirst(r)'
  BY DEF SavedFirst
<1>1. CASE journal'[r] = journal[r] /\ run'[r] = run[r]
  BY <1>0, <1>1 DEF SavedFirst
<1>2. CASE Push(r)
  <2>1. /\ journal' = journal /\ run[r].pushing # NoChunk
        /\ run'[r].phase = run[r].phase
    BY <1>0, <1>2 DEF Push, RunState
  <2>2. run[r].phase \notin {"sessioning", "upserting"}
    BY <1>0, <2>1 DEF SavedFirst
  <2> QED BY <1>0, <2>1, <2>2 DEF SavedFirst
<1>3. CASE Settle(r)
  <2>1. run'[r].phase \in {"saving", "closing"}
    BY <1>0, <1>3 DEF Settle, RunState
  <2> QED BY <2>1
<1>4. CASE CloseEvents(r)
  <2>1. run'[r].phase \in {"saving", "closing"}
    BY <1>0, <1>4, CloseEventsMoves DEF Moves, RunType
  <2> QED BY <2>1
<1>5. CASE Save(r)
  <2>1. faults' # faults + 1
    OBVIOUS
  <2>2. /\ journal' = [journal EXCEPT ![r].status = run[r].status, ![r].record = run[r].record]
        /\ run' = [run EXCEPT ![r].phase = "sessioning"]
        /\ run[r].phase = "saving" /\ run[r].pushing = NoChunk
    BY <1>5, <2>1 DEF Save, Step
  <2>3. journal'[r].status = run[r].status /\ journal'[r].record = run[r].record
    BY <1>0, <2>2 DEF JournalType, Entry
  <2>4. /\ run'[r].phase = "sessioning" /\ run'[r].status = run[r].status
        /\ run'[r].record = run[r].record /\ run'[r].pushing = run[r].pushing
    BY <1>0, <2>2 DEF RunState
  <2>5. run[r].status # "running"
    BY <1>0, <2>2 DEF Told, Ending, Acting
  <2> QED BY <2>2, <2>3, <2>4, <2>5 DEF SavedFirst
<1>6. CASE SaveSession(r)
  <2>1. /\ journal' = journal /\ run[r].phase = "sessioning"
        /\ run'[r].status = run[r].status /\ run'[r].record = run[r].record
        /\ run'[r].pushing = run[r].pushing
    BY <1>0, <1>6 DEF SaveSession, Step, RunState
  <2> QED BY <1>0, <2>1 DEF SavedFirst
<1>7. CASE Aborting(r)
  <2>1. PICK why \in {"stop", "shutdown"} : run' = Aborted(r, why)
    BY <1>7 DEF Aborting
  <2>2. /\ run'[r].phase = run[r].phase
        /\ run'[r].status = run[r].status /\ run'[r].record = run[r].record
        /\ run'[r].pushing = run[r].pushing
    BY <1>0, <2>1 DEF Aborted, RunState
  <2>3. journal' = journal
    BY <1>7 DEF Aborting
  <2> QED BY <1>0, <2>2, <2>3 DEF SavedFirst
<1>8. CASE WriteSave /\ Head(writes).run = r
  <2>1. run[r].phase \in {"saving", "sessioning", "upserting"} /\ journal' = journal
    BY <1>8, LeavesSaving DEF WriteSave, TInv, JInv, EInv
  <2>2. run'[r].phase = "ending"
    BY <1>0, <1>8 DEF WriteSave, RunState
  <2>3. run[r].phase = "upserting"
    <3>1. writes \in Seq(Writes) /\ writes # <<>> /\ Head(writes).kind = "save"
      BY <1>8 DEF WriteSave, Serve, TInv, JInv, EInv, IInv, Types, WritesType
    <3>2. 1 \in 1..Len(writes) /\ Head(writes) = writes[1]
      BY <3>1
    <3> QED BY <1>8, <3>1, <3>2 DEF TInv, JInv, EInv, IInv, Control, Saves, Saving
  <2> QED BY <1>0, <2>1, <2>2, <2>3 DEF SavedFirst
<1> QED BY <1>1, <1>2, <1>3, <1>4, <1>5, <1>6, <1>7, <1>8, SavingTurns DEF TInv

\* The chat shows what its last run saved.
LEMMA ShownStays ==
  ASSUME TInv, [Next]_vars, UNCHANGED faults, faults \in Nat
  PROVE  Shown'
<1> USE DEF diskVars, admitVars, procVars, stopVars, ghostVars, boundVars
<1> DEFINE r == session'.run
           Showing == session'.messages = RunMessages(r, journal'[r].record.prompt, journal'[r].chunks)
<1> SUFFICES ASSUME boot' = "ready", session'.exists, r # NoRun,
                    journal'[r].status \in RunStatus \ {"running"},
                    active' = r => run'[r].phase = "ending"
             PROVE  Showing
  BY DEF Shown, Owns
<1>0. /\ \A q \in Requests : /\ SavedFirst(q) /\ Told(q) /\ Recovered(q)
                             /\ run[q].phase \in Owned => active = q
      /\ Shown /\ Found /\ JournalType /\ run \in [Requests -> RunState] /\ writes \in Seq(Writes)
      /\ IInv /\ JInv /\ journal'[r].status # "absent" /\ journal'[r].status # "running"
  BY DEF TInv, Transcripts, JInv, Journals, EInv, IInv, Types, RunType, WritesType, Control,
     OneOwner, RunStatus
<1>1. CASE \E p \in Posts : WriteAdmit(p)
  <2>1. PICK p \in Posts : WriteAdmit(p)
    BY <1>1
  <2>2. r = post[p].req /\ journal' = journal /\ post[p].pc = "upserting"
    BY <2>1 DEF WriteAdmit, AtHead
  <2>3. journal[r].status = "running"
    BY <1>0, <2>2 DEF JInv, Journals, Begun
  <2> QED BY <1>0, <2>2, <2>3
<1>2. CASE WriteSave
  <2> DEFINE q == Head(writes).run
  <2>1. writes # <<>> /\ Head(writes).kind = "save"
    BY <1>2 DEF WriteSave, Serve
  <2>2. 1 \in 1..Len(writes) /\ Head(writes) = writes[1]
    BY <1>0, <2>1
  <2>3. q \in Requests /\ run[q].phase = "upserting"
    BY <1>0, <2>1, <2>2 DEF IInv, Control, Saves, Saving
  <2>4. faults' # faults + 1
    OBVIOUS
  <2>5. /\ session' = [exists |-> TRUE, run |-> q,
                       messages |-> RunMessages(q, run[q].record.prompt, run[q].events)]
        /\ journal' = journal
    BY <1>2, <2>4 DEF WriteSave
  <2>6. r = q /\ session'.messages = RunMessages(q, run[q].record.prompt, run[q].events)
    BY <2>5
  <2>7. journal[q].record = run[q].record /\ journal[q].chunks = run[q].events
    BY <1>0, <2>3 DEF SavedFirst, Told, Chunked, Owned
  <2> QED BY <2>5, <2>6, <2>7
<1>3. CASE WriteRemove
  BY <1>3 DEF WriteRemove, NoSession
<1>4. CASE BootSave
  <2>1. journal' = journal /\ session.run \in Requests
    BY <1>0, <1>4 DEF BootSave, IInv, Control, Booting
  <2>2. r = session.run
    BY <1>4 DEF BootSave, TInv, JInv, EInv, IInv, Types, SessionType
  <2>3. journal[r].status # "absent"
    BY <1>0, <2>1
  <2>4. session'.messages = RunMessages(r, journal[r].record.prompt, journal[r].chunks)
    BY <1>4, <2>2, <2>3 DEF BootSave, Durable, TInv, JInv, EInv, IInv, Types, SessionType
  <2> QED BY <2>1, <2>4
<1>5. CASE session' = session /\ ~BootSave
  <2>1. r = session.run /\ r \in Requests /\ Owns
    BY <1>5 DEF Owns, TInv, JInv, EInv, IInv, Types, SessionType, Runs
  <2>2. boot = "ready"
    <3>1. ~BootLoad
      BY <2>1 DEF BootLoad
    <3> QED BY <1>5, <3>1, ChatTurns
  <2>3. ASSUME journal'[r] = journal[r], active = r => run[r].phase = "ending"
        PROVE  Showing
    BY <1>0, <1>5, <2>1, <2>2, <2>3 DEF Shown
  <2>4. CASE journal'[r] = journal[r] /\ run'[r] = run[r]
    <3>1. CASE active' = r
      BY <2>3, <2>4, <3>1
    <3>2. CASE active # r
      BY <2>3, <2>4, <3>2
    <3>3. CASE active = r /\ active' # r
      <4>1. ~Restart
        BY DEF Restart
      <4>2. End(r) \/ \E p \in Posts : post[p].req = r /\ StartFail(p)
        BY <1>0, <2>1, <3>3, <4>1, OwnerGoes
      <4>3. ~(\E p \in Posts : post[p].req = r /\ StartFail(p))
        BY <1>0, <2>1 DEF StartFail, JournalType, Absent
      <4>4. run[r].phase = "ending"
        BY <4>2, <4>3 DEF End, Step
      <4> QED BY <2>3, <2>4, <4>4
    <3> QED BY <3>1, <3>2, <3>3
  <2>5. CASE \E p \in Posts : /\ post[p].req = r
                              /\ StartActivate(p) \/ StartCreate(p) \/ StartFail(p)
    <3>1. PICK p \in Posts : /\ post[p].req = r
                             /\ StartActivate(p) \/ StartCreate(p) \/ StartFail(p)
      BY <2>5
    <3>2. CASE StartActivate(p)
      <4>1. journal[r].status = "absent" /\ journal' = journal
        BY <1>0, <3>1, <3>2 DEF StartActivate, AtHead, JInv, Journals, Fresh
      <4> QED BY <1>0, <4>1
    <3>3. CASE StartCreate(p) \/ StartFail(p)
      <4>1. journal'[r].status \in {"running", "absent"}
        BY <1>0, <2>1, <3>1, <3>3 DEF StartCreate, StartFail, JournalType, Absent
      <4> QED BY <1>0, <4>1
    <3> QED BY <3>1, <3>2, <3>3
  <2>6. CASE \/ (\E c \in Provided : Emit(r, c)) \/ ToolStart(r) \/ ToolRecord(r)
             \/ CloseEvents(r) \/ LoadPublish(r)
    BY <1>0, <2>1, <2>6, ActingJournal
  <2>7. CASE LoadSave(r)
    <3>1. loading[r] = "saving"
      BY <2>7 DEF LoadSave
    <3> QED BY <1>0, <2>1, <2>2, <3>1 DEF Recovered, Found
  <2>8. CASE EmitFail(r) \/ StreamEnd(r) \/ AbortSeen(r) \/ ToolEffect(r) \/ Settle(r)
    <3>1. run[r].phase \in {"live", "settling"} /\ journal' = journal
      BY <1>0, <2>1, <2>8 DEF EmitFail, StreamEnd, AbortSeen, ToolEffect, Settle, Step, Told,
         Tooled
    <3> QED BY <1>0, <2>1, <3>1 DEF Told, Unfinished, Acting
  <2>9. CASE Push(r) \/ Aborting(r)
    <3>1. journal' = journal /\ active' = active /\ run'[r].phase = run[r].phase
      <4>1. CASE Push(r)
        BY <1>0, <2>1, <4>1 DEF Push, RunState
      <4>2. CASE Aborting(r)
        BY <1>0, <2>1, <4>2 DEF Aborting, Aborted, RunState
      <4> QED BY <2>9, <4>1, <4>2
    <3> QED BY <2>3, <3>1
  <2>10. CASE Save(r)
    <3>1. run[r].phase = "saving" /\ active' = active /\ faults' # faults + 1
      BY <2>10 DEF Save, Step
    <3>2. run'[r].phase = "sessioning"
      BY <1>0, <2>1, <2>10, <3>1 DEF Save, RunState
    <3> QED BY <1>0, <2>1, <3>1, <3>2 DEF Owned
  <2>11. CASE SaveSession(r)
    <3>1. /\ run[r].phase = "sessioning" /\ active' = active /\ active = r
          /\ journal' = journal
      BY <1>0, <2>1, <2>11 DEF SaveSession, Step, Owned
    <3>2. journal[r].record = run[r].record /\ journal[r].chunks = run[r].events
      BY <1>0, <2>1, <3>1 DEF SavedFirst, Told, Chunked, Owned
    <3>3. run'[r].phase # "upserting"
      BY <3>1
    <3>4. session.messages = RunMessages(r, run[r].record.prompt, run[r].events)
      BY <1>0, <1>5, <2>1, <2>11, <3>3 DEF SaveSession, RunState
    <3> QED BY <1>5, <3>1, <3>2, <3>4
  <2>12. CASE End(r)
    <3>1. run[r].phase = "ending" /\ journal' = journal
      BY <2>12 DEF End, Step
    <3> QED BY <2>3, <3>1
  <2>13. ~Restart
    BY DEF Restart
  <2>14. ~WriteClear
    BY <1>0, <2>1 DEF WriteClear, Absent
  <2> QED BY <1>0, <1>1, <1>2, <2>1, <2>4, <2>5, <2>6, <2>7, <2>8, <2>9, <2>10, <2>11, <2>12,
      <2>13, <2>14, BothTurn DEF Worker, Stream
<1>6. CASE WritePut
  <2>1. session' = session
    BY <1>6 DEF WritePut
  <2>2. ~BootSave
    BY <1>6 DEF WritePut, BootSave, Serve, TInv, JInv, EInv, IInv, Control, Booting
  <2> QED BY <1>5, <2>1, <2>2
<1> QED BY <1>1, <1>2, <1>3, <1>4, <1>5, <1>6, ChatTurns

\* A run left running has no owner only until initialize() has recovered it.
LEMMA FoundStays ==
  ASSUME TInv, [Next]_vars, UNCHANGED faults, faults \in Nat
  PROVE  Found'
<1> USE DEF diskVars, admitVars, procVars, stopVars, ghostVars, boundVars
<1> DEFINE r == session'.run
<1>0. /\ \A q \in Requests : /\ SavedFirst(q) /\ Told(q) /\ Recovered(q)
                             /\ run[q].phase \in Owned => active = q
      /\ Found /\ JournalType /\ run \in [Requests -> RunState] /\ writes \in Seq(Writes)
      /\ session \in [exists : BOOLEAN, run : Runs, messages : Seq(Message)]
      /\ loading \in [Requests -> {"idle", "reading", "closing", "failing", "saving"}]
      /\ IInv /\ JInv
  BY DEF TInv, Transcripts, JInv, Journals, EInv, IInv, Types, RunType, WritesType, Control,
     OneOwner, SessionType, LoadingType
<1>1. ASSUME boot' = "ready", session'.exists, r # NoRun, journal'[r].status = "running"
      PROVE  active' = r
  <2>1. CASE \E p \in Posts : WriteAdmit(p)
    <3>1. PICK p \in Posts : WriteAdmit(p)
      BY <2>1
    <3>2. r = post[p].req /\ active' = active /\ post[p].pc = "upserting"
      BY <3>1 DEF WriteAdmit, AtHead
    <3>3. active = post[p].req
      BY <1>0, <3>2 DEF IInv, Control, Admissions, Created, Creating
    <3> QED BY <3>2, <3>3
  <2>2. CASE WriteSave
    <3> DEFINE q == Head(writes).run
    <3>1. writes # <<>> /\ Head(writes).kind = "save"
      BY <2>2 DEF WriteSave, Serve
    <3>2. 1 \in 1..Len(writes) /\ Head(writes) = writes[1]
      BY <1>0, <3>1
    <3>3. q \in Requests /\ run[q].phase = "upserting"
      BY <1>0, <3>1, <3>2 DEF IInv, Control, Saves, Saving
    <3>4. faults' # faults + 1
      OBVIOUS
    <3>5. r = q /\ journal' = journal
      BY <2>2, <3>4 DEF WriteSave
    <3>6. journal[q].status # "running"
      BY <1>0, <3>3 DEF SavedFirst
    <3> QED BY <1>1, <3>5, <3>6
  <2>3. CASE WriteRemove
    BY <1>1, <2>3 DEF WriteRemove, NoSession
  <2>4. CASE BootSave
    <3>1. journal' = journal /\ r = session.run
      BY <1>0, <2>4 DEF BootSave
    <3>2. journal[session.run].status # "running"
      BY <1>0, <2>4 DEF BootSave, Found
    <3> QED BY <1>1, <3>1, <3>2
  <2>5. CASE session' = session /\ ~BootSave
    <3>1. r = session.run /\ r \in Requests /\ Owns
      BY <1>0, <1>1, <2>5 DEF Owns, Runs
    <3>2. boot = "ready"
      <4>1. ~BootLoad
        BY <1>1, <3>1 DEF BootLoad
      <4> QED BY <1>1, <2>5, <4>1, ChatTurns
    <3>3. CASE journal[r].status = "running"
      <4>1. active = r
        BY <1>0, <3>1, <3>2, <3>3 DEF Found
      <4>2. ~Restart
        BY <1>1 DEF Restart
      <4>3. ~End(r)
        BY <1>0, <3>1, <3>3 DEF End, Step, SavedFirst
      <4>4. ~(\E p \in Posts : post[p].req = r /\ StartFail(p))
        BY <1>0, <1>1, <3>1 DEF StartFail, JournalType, Absent
      <4> QED BY <1>0, <3>1, <4>1, <4>2, <4>3, <4>4, OwnerGoes
    <3>4. CASE journal[r].status # "running"
      <4>1. ~WriteClear
        BY <1>1, <3>1 DEF WriteClear, Absent
      <4>2. ASSUME NEW p \in Posts, post[p].req = r, StartCreate(p) PROVE active' = r
        BY <1>0, <4>2 DEF StartCreate, AtHead, IInv, Control, Admissions, Created, Creating
      <4>3. ~(\E p \in Posts : post[p].req = r /\ StartFail(p))
        BY <1>0, <1>1, <3>1 DEF StartFail, JournalType, Absent
      <4>4. ~LoadSave(r)
        BY <1>0, <1>1, <3>1 DEF LoadSave, JournalType, Entry
      <4>5. ~Save(r)
        <5> SUFFICES ASSUME Save(r) PROVE FALSE
          OBVIOUS
        <5>1. run[r].phase = "saving" /\ faults' # faults + 1
          BY DEF Save, Step
        <5>2. journal'[r].status = run[r].status
          BY <1>0, <3>1, <5>1 DEF Save, JournalType, Entry
        <5>3. run[r].status # "running"
          BY <1>0, <3>1, <5>1 DEF Told, Ending, Acting
        <5> QED BY <1>1, <5>2, <5>3
      <4>6. ~(\/ (\E c \in Provided : Emit(r, c)) \/ ToolStart(r) \/ ToolRecord(r)
              \/ CloseEvents(r) \/ LoadPublish(r))
        BY <1>0, <3>1, <3>4, ActingJournal
      <4>7. journal'[r] # journal[r]
        BY <1>1, <3>4
      <4> QED BY <1>0, <3>1, <4>1, <4>2, <4>3, <4>4, <4>5, <4>6, <4>7, JournalTurns
    <3> QED BY <3>3, <3>4
  <2>6. CASE WritePut
    <3>1. session' = session
      BY <1>1, <2>6 DEF WritePut
    <3>2. ~BootSave
      BY <1>0, <2>6 DEF WritePut, BootSave, Serve, IInv, Control, Booting
    <3> QED BY <2>5, <3>1, <3>2
  <2> QED BY <2>1, <2>2, <2>3, <2>4, <2>5, <2>6, ChatTurns
<1>2. ASSUME boot' = "loading", loading'[r] = "idle"
      PROVE  journal'[r].status # "running"
  <2>1. ~BootSave
    BY <1>2 DEF BootSave
  <2>2. ~BootLoad
    <3> SUFFICES ASSUME BootLoad PROVE FALSE
      OBVIOUS
    <3>1. Owns /\ session' = session /\ loading' = Joined(session.run)
      BY <1>2 DEF BootLoad
    <3>2. r \in Requests
      BY <1>0, <3>1 DEF Owns, Runs
    <3> QED BY <1>0, <1>2, <3>1, <3>2 DEF Joined
  <2>3. boot = "loading"
    BY <1>2, <2>1, <2>2, ChatTurns
  <2>4. /\ writes = <<>> /\ chain = <<>> /\ \A q \in Requests : run[q].phase = "none"
        /\ session.run \in Requests
    BY <1>0, <2>3 DEF IInv, Control, Booting
  <2>5. r = session.run /\ r \in Requests
    <3>1. session' = session
      BY <2>1, <2>4, ChatTurns DEF WriteAdmit, WriteSave, WritePut, WriteRemove, Serve
    <3> QED BY <2>4, <3>1
  <2>6. CASE loading[r] = "idle"
    <3>1. journal[r].status # "running"
      BY <1>0, <2>3, <2>5, <2>6 DEF Found
    <3>2. ~WriteClear /\ \A p \in Posts : ~StartCreate(p) /\ ~StartFail(p)
      BY <2>4 DEF WriteClear, Serve, StartCreate, StartFail, AtHead
    <3>3. ~LoadPublish(r) /\ ~LoadSave(r)
      BY <2>6 DEF LoadPublish, LoadSave
    <3>4. ~(\/ (\E c \in Provided : Emit(r, c)) \/ ToolStart(r) \/ ToolRecord(r)
            \/ CloseEvents(r))
      BY <1>0, <2>5, <3>1, ActingJournal
    <3>5. ~Save(r)
      BY <2>4, <2>5 DEF Save, Step
    <3>6. journal'[r] = journal[r]
      BY <1>0, <2>5, <3>2, <3>3, <3>4, <3>5, JournalTurns
    <3> QED BY <3>1, <3>6
  <2>7. CASE loading[r] # "idle"
    <3>1. ~Restart /\ ~LoadFail(r)
      BY <1>2, <2>3 DEF Restart, LoadFail
    <3>2. CASE LoadRead(r)
      <4>1. ~Orphaned(r)
        BY <1>0, <1>2, <2>5, <3>2 DEF LoadRead, Orphaned
      <4> QED BY <3>2, <4>1 DEF LoadRead, Orphaned
    <3>3. CASE LoadSave(r)
      BY <1>0, <2>5, <3>3 DEF LoadSave, JournalType, Entry
    <3> QED BY <1>0, <1>2, <2>5, <2>7, <3>1, <3>2, <3>3, ReadEnds
  <2> QED BY <2>6, <2>7
<1> QED BY <1>1, <1>2 DEF Found, Owns

\* Until a storage call fails, what is saved of a transcript is what was journalled.
LEMMA TranscriptsInvariant ==
  ASSUME NoWindows
  PROVE  Spec => [](faults = 0 => Transcripts)
<1>1. Init => (faults = 0 => Transcripts)
  BY DEF Init, Transcripts, SettledRun, SettledRead, SavedFirst, Shown, Found, Owns, Idle,
     Absent, NoSession
<1>2. (faults = 0 => Transcripts) /\ JInv /\ [Next]_vars => (faults = 0 => Transcripts)'
  <2> SUFFICES ASSUME faults = 0 => Transcripts, JInv, [Next]_vars, faults' = 0
               PROVE  Transcripts'
    OBVIOUS
  <2>1. faults = 0
    BY FaultsStay DEF JInv, EInv
  <2>2. TInv /\ UNCHANGED faults /\ faults \in Nat
    BY <2>1 DEF TInv
  <2>3. ASSUME NEW r \in Requests PROVE (SettledRun(r) /\ SettledRead(r) /\ SavedFirst(r))'
    BY <2>2, SettledRunStays, SettledReadStays, SavedFirstStays
  <2>4. (Shown /\ Found)'
    BY <2>2, ShownStays, FoundStays
  <2> QED BY <2>3, <2>4 DEF Transcripts
<1> QED BY <1>1, <1>2, JournalsInvariant, PTL DEF Spec

-----------------------------------------------------------------------------
\* SettledTranscript: as long as no storage call has failed, a run that was stopped, failed
\* or was interrupted has its open call closed and says why it ended, and while nothing
\* runs the saved chat shows all its last run journalled, whenever the process died.
THEOREM TranscriptsStaySettled ==
  ASSUME NoWindows
  PROVE  Spec => [](faults = 0 => SettledTranscript)
<1>1. Transcripts /\ IInv => SettledTranscript
  <2> SUFFICES ASSUME Transcripts, IInv PROVE SettledTranscript
    OBVIOUS
  <2>1. ASSUME NEW r \in Requests, journal[r].status \in {"stopped", "failed", "interrupted"}
        PROVE  /\ ~OpenCall(journal[r].chunks) /\ journal[r].chunks # <<>>
               /\ Last(journal[r].chunks) \in {"error", "abort"}
    BY <2>1 DEF Transcripts, SettledRun, Settled
  <2>2. ASSUME boot = "ready", active = NoRun, Owns,
               journal[session.run].status \in RunStatus \ {"running"}
        PROVE  session.messages =
                 RunMessages(session.run, journal[session.run].record.prompt,
                             journal[session.run].chunks)
    BY <2>2 DEF Transcripts, Shown, Owns
  <2> QED BY <2>1, <2>2 DEF SettledTranscript
<1> QED BY <1>1, TranscriptsInvariant, Invariant, PTL
-----------------------------------------------------------------------------
(* What the code's own comments claim, where its windows are closed.        *)

\* DeletedStaysDeleted, which the run "delete" refutes, fails only for want of a guard
\* between a deletion and the chat's admissions: without their race no run outlives the
\* deletion of its chat.
THEOREM UnracedDeletesStay ==
  ASSUME NoRacedDelete
  PROVE  Spec => []DeletedStaysDeleted
<1> DEFINE NoneDoomed == doomed = {}
<1>1. Init => NoneDoomed
  BY DEF Init
<1>2. NoneDoomed /\ IInv /\ Alone /\ [Next]_vars => NoneDoomed'
  <2> SUFFICES ASSUME NoneDoomed, IInv, Alone, [Next]_vars PROVE doomed' = {}
    OBVIOUS
  <2> USE DEF diskVars, admitVars, procVars, stopVars, ghostVars, boundVars
  <2>1. CASE WriteRemove
    <3>1. writes \in Seq(Writes) /\ writes # <<>> /\ Head(writes).kind = "remove"
      BY <2>1 DEF WriteRemove, Serve, IInv, Types, WritesType
    <3>2. 1 \in 1..Len(writes) /\ Head(writes) = writes[1]
      BY <3>1
    <3>3. active = NoRun
      BY <3>1, <3>2 DEF Alone, DeletePending
    <3> QED BY <2>1, <3>3 DEF WriteRemove
  <2>2. CASE (Put \/ DeleteCheck \/ Store) /\ ~WriteRemove
    BY <2>2 DEF Put, DeleteCheck, Store, WriteSave, WritePut, DeleteEnqueue, WriteClear
  <2>3. CASE \E p \in Posts : Admission(p) \/ StartFail(p)
    BY <2>3 DEF Admission, StartFind, StartExisting, StartBroken, StartValidate,
       StartActivate, StartCreate, StartUpsert, WriteAdmit, StartFail
  <2>4. CASE \E r \in Requests : Poll(r) \/ Loader(r)
    BY <2>4 DEF Poll, Loader, LoadRead, LoadPublish, LoadFail, LoadSave
  <2>5. CASE \E r \in Requests : Worker(r) \/ Stream(r)
    <3>1. PICK r \in Requests : Worker(r) \/ Stream(r)
      BY <2>5
    <3>2. CASE Stream(r)
      BY <3>2 DEF Stream, Emit, EmitFail, StreamEnd, ToolStart
    <3>3. CASE Push(r) \/ AbortSeen(r) \/ ToolEffect(r) \/ ToolRecord(r) \/ Settle(r)
      BY <3>3 DEF Push, AbortSeen, ToolEffect, ToolRecord, Settle
    <3>4. CASE CloseEvents(r) \/ Save(r) \/ SaveSession(r) \/ End(r)
      BY <3>4 DEF CloseEvents, Save, SaveSession, End
    <3> QED BY <3>1, <3>2, <3>3, <3>4 DEF Worker
  <2>6. CASE \E r \in Requests : (\E b \in BOOLEAN : Stop(r, b)) \/ StopFind(r) \/ StopDone(r)
    BY <2>6 DEF Stop, StopFind, StopDone
  <2>7. CASE CloseBegin \/ Closing \/ Restart \/ BootLoad \/ BootSave
    BY <2>7 DEF CloseBegin, Closing, CloseWait, CloseAbort, CloseDone, Restart, BootLoad, BootSave
  <2>8. CASE \E p \in Posts, r \in Requests : \E m \in Submittable(r) : Submit(p, r, m)
    BY <2>8 DEF Submit
  <2>9. CASE UNCHANGED vars
    BY <2>9 DEF vars
  <2> QED BY <2>1, <2>2, <2>3, <2>4, <2>5, <2>6, <2>7, <2>8, <2>9 DEF Next
<1>3. NoneDoomed => DeletedStaysDeleted
  BY DEF DeletedStaysDeleted
<1> QED BY <1>1, <1>2, <1>3, Invariant, ExecutionsInvariant, PTL DEF Spec

\* LoadedHasNoOwner, which the run "poll" refutes, holds where no read of a journal is
\* served after the run it reads was admitted.
THEOREM UnracedReadsAreAlone ==
  ASSUME NoWindows
  PROVE  Spec => []LoadedHasNoOwner
<1>1. JInv => LoadedHasNoOwner
  BY DEF JInv, Journals, Recovered, EInv, IInv, Control, OneOwner, LoadedHasNoOwner
<1> QED BY <1>1, JournalsInvariant, PTL

-----------------------------------------------------------------------------
(* Histories: what the prompts of a list of messages are.                  *)

\* A set of numbers that is not empty has a least one.
LEMMA LeastNat ==
  ASSUME NEW S, S \subseteq Nat, S # {}
  PROVE  \E m \in S : \A n \in S : m <= n
<1>1. \E m \in S : \A n \in S : ~ (<<n, m>> \in OpToRel(<, Nat))
  BY WFMin, NatLessThanWellFounded, Zenon
<1>2. PICK m \in S : \A n \in S : ~ (<<n, m>> \in OpToRel(<, Nat))
  BY <1>1
<1>3. ASSUME NEW n \in S PROVE m <= n
  <2>1. <<n, m>> \notin OpToRel(<, Nat)
    BY <1>2
  <2>2. n \in Nat /\ m \in Nat
    OBVIOUS
  <2>3. ~(n < m)
    BY <2>1, <2>2 DEF OpToRel
  <2> QED BY <2>2, <2>3
<1> QED BY <1>2, <1>3

\* The messages without the last one, and that one.
LEMMA FrontIs ==
  ASSUME NEW s \in Seq(Message), s # <<>>
  PROVE  /\ Front(s) \in Seq(Message) /\ Len(s) \in Nat \ {0} /\ Len(Front(s)) = Len(s) - 1
         /\ \A i \in 1..Len(s) - 1 : Front(s)[i] = s[i]
         /\ Last(s) = s[Len(s)] /\ Last(s) \in Message
         /\ Last(s).run \in Requests
<1>1. Len(s) \in Nat \ {0}
  OBVIOUS
<1>2. Len(s) - 1 \in Int /\ 1 \in Int /\ Len(s) - 1 <= Len(s)
  BY <1>1
<1>3. \A i \in 1..Len(s) - 1 : s[i] \in Message
  BY <1>1, ElementOfSeq
<1>4. PICK n \in Int : n = Len(s) - 1
  BY <1>2
<1>5. /\ SubSeq(s, 1, n) \in Seq(Message) /\ Len(SubSeq(s, 1, n)) = IF 1 <= n THEN n - 1 + 1 ELSE 0
      /\ \A i \in 1..n - 1 + 1 : SubSeq(s, 1, n)[i] = s[1 + i - 1]
  <2>1. \A i \in 1..n : s[i] \in Message
    BY <1>3, <1>4
  <2> QED BY ONLY <2>1, SubSeqProperties, n \in Int
<1>6. (IF 1 <= n THEN n - 1 + 1 ELSE 0) = n /\ n - 1 + 1 = n
  BY <1>1, <1>4
<1>7. \A i \in 1..n : 1 + i - 1 = i
  BY <1>4
<1>8. Front(s) \in Seq(Message) /\ Len(Front(s)) = n /\ \A i \in 1..n : Front(s)[i] = s[i]
  BY <1>4, <1>5, <1>6, <1>7 DEF Front
<1>9. Last(s) = s[Len(s)] /\ Last(s) \in Message
  BY <1>1, ElementOfSeq DEF Last
<1>10. Last(s).run \in Requests
  BY <1>9 DEF Message
<1> QED BY <1>1, <1>4, <1>8, <1>9, <1>10

\* What a message after others adds.
Short(n) == {s \in Seq(Message) : Len(s) <= n}
Asks(f, s) ==
  IF s = <<>> THEN <<>>
  ELSE LET earlier == f[Front(s)]
       IN  IF Last(s).role = "user" THEN Append(earlier, Last(s).run) ELSE earlier
Lists(f, n) == f \in [Short(n) -> Seq(Requests)] /\ \A s \in Short(n) : f[s] = Asks(f, s)

\* It is a list of requests if the prompts before it are.
LEMMA AsksType ==
  ASSUME NEW s \in Seq(Message), NEW f, s # <<>> => f[Front(s)] \in Seq(Requests)
  PROVE  Asks(f, s) \in Seq(Requests)
<1>1. CASE s = <<>>
  BY <1>1 DEF Asks
<1>2. CASE s # <<>>
  BY <1>2, FrontIs DEF Asks
<1> QED BY <1>1, <1>2

\* The prompts of the lists of at most n messages.
LEMMA ListsExist == \A n \in Nat : \E f : Lists(f, n)
<1> DEFINE Bad == {n \in Nat : ~ \E f : Lists(f, n)}
<1>1. SUFFICES ASSUME Bad # {} PROVE FALSE
  OBVIOUS
<1>2. PICK m \in Bad : \A n \in Bad : m <= n
  <2>1. Bad \subseteq Nat
    OBVIOUS
  <2> QED BY <1>1, <2>1, LeastNat
<1>3. CASE m = 0
  <2> DEFINE f == [s \in Short(0) |-> <<>>]
  <2>1. \A s \in Short(0) : s = <<>>
    BY DEF Short
  <2>2. Lists(f, 0)
    BY <2>1 DEF Lists, Asks
  <2> QED BY <1>2, <1>3, <2>2
<1>4. CASE m # 0
  <2>1. m \in Nat /\ m - 1 \in Nat /\ m - 1 \notin Bad
    BY <1>2, <1>4
  <2>2. PICK g : Lists(g, m - 1)
    BY <2>1
  <2> DEFINE f == [s \in Short(m) |-> Asks(g, s)]
  <2>3. ASSUME NEW s \in Short(m), s # <<>>
        PROVE  Front(s) \in Short(m - 1) /\ Front(s) \in Short(m)
    BY FrontIs, <2>1, <2>3 DEF Short
  <2>4. \A s \in Short(m) : Asks(g, s) \in Seq(Requests)
    <3>1. ASSUME NEW s \in Short(m) PROVE Asks(g, s) \in Seq(Requests)
      <4>1. s \in Seq(Message)
        BY DEF Short
      <4>2. s # <<>> => g[Front(s)] \in Seq(Requests)
        BY <2>2, <2>3 DEF Lists
      <4> QED BY <4>1, <4>2, AsksType
    <3> QED BY <3>1
  <2>5. f \in [Short(m) -> Seq(Requests)]
    BY <2>4
  <2>6. ASSUME NEW s \in Short(m) PROVE f[s] = Asks(f, s)
    <3>1. CASE s = <<>>
      BY <3>1 DEF Asks
    <3>2. CASE s # <<>>
      <4>1. f[Front(s)] = Asks(g, Front(s))
        BY <2>3, <3>2
      <4>2. g[Front(s)] = Asks(g, Front(s))
        BY <2>2, <2>3, <3>2 DEF Lists
      <4>3. f[s] = Asks(g, s)
        OBVIOUS
      <4> HIDE DEF f
      <4> QED BY <3>2, <4>1, <4>2, <4>3 DEF Asks
    <3> QED BY <3>1, <3>2
  <2>7. Lists(f, m)
    BY <2>5, <2>6 DEF Lists
  <2> QED BY <1>2, <2>7
<1> QED BY <1>3, <1>4

\* Two of them agree.
LEMMA ListsAgree ==
  ASSUME NEW n \in Nat, NEW m \in Nat, NEW f, NEW g, Lists(f, n), Lists(g, m)
  PROVE  \A s \in Short(n) \cap Short(m) : f[s] = g[s]
<1> DEFINE Bad == {l \in Nat : \E s \in Short(n) \cap Short(m) : Len(s) = l /\ f[s] # g[s]}
<1>1. ASSUME Bad # {} PROVE FALSE
  <2>1. Bad \subseteq Nat
    OBVIOUS
  <2>2. PICK l \in Bad : \A k \in Bad : l <= k
    BY <1>1, <2>1, LeastNat
  <2>3. PICK s \in Short(n) \cap Short(m) : Len(s) = l /\ f[s] # g[s]
    BY <2>2
  <2>4. s # <<>>
    BY <2>3 DEF Lists, Asks
  <2>5. /\ Front(s) \in Short(n) \cap Short(m) /\ Len(Front(s)) = l - 1
        /\ l - 1 \in Nat /\ s \in Seq(Message)
    BY <2>3, <2>4, FrontIs DEF Short
  <2>6. l - 1 \notin Bad
    BY <2>2, <2>5
  <2>7. f[Front(s)] = g[Front(s)]
    BY <2>5, <2>6
  <2>8. f[s] = Asks(f, s) /\ g[s] = Asks(g, s)
    BY DEF Lists
  <2> QED BY <2>3, <2>7, <2>8 DEF Asks
<1> QED
  <2>1. ASSUME NEW s \in Short(n) \cap Short(m) PROVE f[s] = g[s]
    <3>1. Len(s) \in Nat
      BY DEF Short
    <3> QED BY <1>1, <3>1
  <2> QED BY <2>1

\* Prompts is what its definition says.
LEMMA PromptsIs == \A s \in Seq(Message) : Prompts[s] = Asks(Prompts, s)
<1> DEFINE F(n) == CHOOSE f : Lists(f, n)
           T == [s \in Seq(Message) |-> F(Len(s))[s]]
<1>1. \A n \in Nat : Lists(F(n), n)
  BY ListsExist
<1> HIDE DEF F
<1>2. ASSUME NEW s \in Seq(Message) PROVE T[s] = Asks(T, s)
  <2>1. Len(s) \in Nat /\ s \in Short(Len(s))
    BY DEF Short
  <2>2. T[s] = Asks(F(Len(s)), s)
    BY <1>1, <2>1 DEF Lists
  <2>3. CASE s = <<>>
    BY <2>2, <2>3 DEF Asks
  <2>4. CASE s # <<>>
    <3> DEFINE l == Len(Front(s))
    <3>1. /\ Front(s) \in Seq(Message) /\ l \in Nat
          /\ Front(s) \in Short(l) /\ Front(s) \in Short(Len(s))
      BY <2>4, FrontIs DEF Short
    <3>2. F(Len(s))[Front(s)] = F(l)[Front(s)]
      BY <1>1, <2>1, <3>1, ListsAgree
    <3>3. T[Front(s)] = F(l)[Front(s)]
      BY <3>1
    <3> HIDE DEF T
    <3> QED BY <2>2, <2>4, <3>2, <3>3 DEF Asks
  <2> QED BY <2>3, <2>4
<1>3. T = [s \in Seq(Message) |-> Asks(T, s)]
  BY <1>2
<1> HIDE DEF T
<1>4. \E t : t = [s \in Seq(Message) |-> Asks(t, s)]
  BY <1>3
<1>5. Prompts = CHOOSE t : t = [s \in Seq(Message) |-> Asks(t, s)]
  BY DEF Prompts, Asks
<1>6. Prompts = [s \in Seq(Message) |-> Asks(Prompts, s)]
  BY <1>4, <1>5, Zenon
<1> QED BY <1>6

\* The prompts are requests, in any list of messages.
LEMMA PromptsType == \A s \in Seq(Message) : Prompts[s] \in Seq(Requests)
<1> DEFINE Bad == {l \in Nat : \E s \in Seq(Message) : Len(s) = l /\ Prompts[s] \notin Seq(Requests)}
<1>1. ASSUME Bad # {} PROVE FALSE
  <2>1. Bad \subseteq Nat
    OBVIOUS
  <2>2. PICK l \in Bad : \A k \in Bad : l <= k
    BY <1>1, <2>1, LeastNat
  <2>3. PICK s \in Seq(Message) : Len(s) = l /\ Prompts[s] \notin Seq(Requests)
    BY <2>2
  <2>4. s # <<>>
    BY <2>3, PromptsIs DEF Asks
  <2>5. Front(s) \in Seq(Message) /\ Len(Front(s)) = l - 1 /\ l - 1 \in Nat
    BY <2>3, <2>4, FrontIs
  <2>6. l - 1 \notin Bad
    BY <2>2, <2>5
  <2>7. Prompts[Front(s)] \in Seq(Requests)
    BY <2>5, <2>6
  <2>8. Prompts[s] \in Seq(Requests)
    BY <2>7, PromptsIs, AsksType
  <2> QED BY <2>3, <2>8
<1> QED
  <2>1. ASSUME NEW s \in Seq(Message) PROVE Prompts[s] \in Seq(Requests)
    <3>1. Len(s) \in Nat
      OBVIOUS
    <3> QED BY <1>1, <3>1
  <2> QED BY <2>1

-----------------------------------------------------------------------------
(* Histories that begin others.                                            *)

Begins(s, t) == Len(s) <= Len(t) /\ \A i \in 1..Len(s) : s[i] = t[i]

\* A prefix of a sequence has its elements.
LEMMA PrefixIs ==
  ASSUME NEW S, NEW s \in Seq(S), NEW t \in Seq(S)
  PROVE  IsPrefix(s, t) <=> Begins(s, t)
<1>1. Len(s) \in Nat /\ Len(t) \in Nat /\ 1 \in Int
  OBVIOUS
<1>2. PICK n \in Int : n = Len(s)
  BY <1>1
<1>3. SUFFICES ASSUME Len(s) <= Len(t)
               PROVE  SubSeq(s, 1, n) = SubSeq(t, 1, n) <=> \A i \in 1..n : s[i] = t[i]
  BY <1>2 DEF IsPrefix, Begins
<1>4. (\A i \in 1..n : s[i] \in S) /\ \A i \in 1..n : t[i] \in S
  BY <1>1, <1>2, <1>3, ElementOfSeq
<1>5. ASSUME NEW u, \A i \in 1..n : u[i] \in S
      PROVE  /\ SubSeq(u, 1, n) \in Seq(S) /\ Len(SubSeq(u, 1, n)) = n
             /\ \A i \in 1..n : SubSeq(u, 1, n)[i] = u[i]
  <2>1. /\ SubSeq(u, 1, n) \in Seq(S)
        /\ Len(SubSeq(u, 1, n)) = IF 1 <= n THEN n - 1 + 1 ELSE 0
        /\ \A i \in 1..n - 1 + 1 : SubSeq(u, 1, n)[i] = u[1 + i - 1]
    BY ONLY <1>5, SubSeqProperties, n \in Int
  <2>2. n - 1 + 1 = n /\ (IF 1 <= n THEN n - 1 + 1 ELSE 0) = n
    BY <1>1, <1>2
  <2>3. \A i \in 1..n : 1 + i - 1 = i
    BY <1>2
  <2> QED BY <2>1, <2>2, <2>3
<1> DEFINE a == SubSeq(s, 1, n)
           b == SubSeq(t, 1, n)
<1>6. /\ a \in Seq(S) /\ b \in Seq(S) /\ Len(a) = n /\ Len(b) = n
      /\ \A i \in 1..n : a[i] = s[i] /\ b[i] = t[i]
  BY <1>4, <1>5
<1> HIDE DEF a, b
<1>7. ASSUME \A i \in 1..n : s[i] = t[i] PROVE a = b
  <2>1. \A i \in 1..Len(a) : a[i] = b[i]
    BY <1>6, <1>7
  <2> QED BY <1>6, <2>1, SeqEqual
<1>8. ASSUME a = b PROVE \A i \in 1..n : s[i] = t[i]
  BY <1>6, <1>8
<1> QED BY <1>7, <1>8 DEF a, b

\* Beginnings begin what theirs begin.
LEMMA PrefixesJoin ==
  ASSUME NEW S, NEW s \in Seq(S), NEW t \in Seq(S), NEW u \in Seq(S),
         IsPrefix(s, t), IsPrefix(t, u)
  PROVE  IsPrefix(s, u)
<1>1. Begins(s, t) /\ Begins(t, u)
  BY PrefixIs
<1>2. PICK a \in Nat, b \in Nat, c \in Nat : a = Len(s) /\ b = Len(t) /\ c = Len(u)
  OBVIOUS
<1>3. a <= b /\ b <= c /\ \A i \in 1..a : i \in 1..b
  BY <1>1, <1>2 DEF Begins
<1>4. Begins(s, u)
  BY <1>1, <1>2, <1>3 DEF Begins
<1> QED BY <1>4, PrefixIs

\* A list begins itself, and itself with one more.
LEMMA PrefixOfMore ==
  ASSUME NEW S, NEW s \in Seq(S), NEW x \in S
  PROVE  IsPrefix(s, s) /\ IsPrefix(s, Append(s, x))
<1>1. Begins(s, s) /\ Begins(s, Append(s, x)) /\ Append(s, x) \in Seq(S)
  BY DEF Begins
<1> QED BY <1>1, PrefixIs

\* validateHistory() compares the keys: a message's run and role.
LEMMA KeysAre ==
  ASSUME NEW s \in Seq(Message)
  PROVE  /\ Keys(s) \in Seq(Requests \X {"user", "assistant"}) /\ Len(Keys(s)) = Len(s)
         /\ \A i \in 1..Len(s) : Keys(s)[i] = <<s[i].run, s[i].role>>
<1>1. \A i \in 1..Len(s) : s[i] \in Message
  BY ElementOfSeq
<1>2. \A i \in 1..Len(s) : <<s[i].run, s[i].role>> \in Requests \X {"user", "assistant"}
  BY <1>1 DEF Message
<1>3. Len(s) \in Nat
  OBVIOUS
<1> QED BY <1>2, <1>3 DEF Keys

\* The keys of the messages without the last one.
LEMMA KeysOfFront ==
  ASSUME NEW s \in Seq(Message), NEW t \in Seq(Message), s # <<>>, t # <<>>,
         Begins(Keys(s), Keys(t))
  PROVE  IF Len(s) = Len(t)
         THEN /\ Begins(Keys(Front(s)), Keys(Front(t)))
              /\ Last(s).run = Last(t).run /\ Last(s).role = Last(t).role
         ELSE Begins(Keys(s), Keys(Front(t)))
<1>1. PICK a \in Nat \ {0}, b \in Nat \ {0} : a = Len(s) /\ b = Len(t)
  BY FrontIs
<1>2. /\ Len(Keys(s)) = a /\ Len(Keys(t)) = b /\ a <= b
      /\ \A i \in 1..a : Keys(s)[i] = <<s[i].run, s[i].role>>
      /\ \A i \in 1..b : Keys(t)[i] = <<t[i].run, t[i].role>>
      /\ \A i \in 1..a : Keys(s)[i] = Keys(t)[i]
  BY <1>1, KeysAre DEF Begins
<1>3. /\ Front(s) \in Seq(Message) /\ Len(Front(s)) = a - 1 /\ \A i \in 1..a - 1 : Front(s)[i] = s[i]
      /\ Front(t) \in Seq(Message) /\ Len(Front(t)) = b - 1 /\ \A i \in 1..b - 1 : Front(t)[i] = t[i]
      /\ Last(s) = s[a] /\ Last(t) = t[b]
  BY <1>1, FrontIs
<1>4. /\ Len(Keys(Front(s))) = a - 1 /\ Len(Keys(Front(t))) = b - 1
      /\ \A i \in 1..a - 1 : Keys(Front(s))[i] = <<s[i].run, s[i].role>>
      /\ \A i \in 1..b - 1 : Keys(Front(t))[i] = <<t[i].run, t[i].role>>
  BY <1>3, KeysAre
<1>5. CASE a = b
  <2>1. \A i \in 1..a - 1 : i \in 1..a /\ i \in 1..b
    BY <1>1, <1>5
  <2>2. \A i \in 1..a - 1 : Keys(Front(s))[i] = Keys(Front(t))[i]
    BY <1>2, <1>4, <1>5, <2>1
  <2>3. Begins(Keys(Front(s)), Keys(Front(t)))
    BY <1>4, <1>5, <2>2 DEF Begins
  <2>4. a \in 1..a /\ a \in 1..b
    BY <1>1, <1>5
  <2>5. <<s[a].run, s[a].role>> = <<t[a].run, t[a].role>>
    BY <1>2, <2>4
  <2> QED BY <1>1, <1>3, <1>5, <2>3, <2>5
<1>6. CASE a # b
  <2>1. a <= b - 1 /\ \A i \in 1..a : i \in 1..b - 1 /\ i \in 1..b
    BY <1>1, <1>2, <1>6
  <2>2. \A i \in 1..a : Keys(s)[i] = Keys(Front(t))[i]
    BY <1>2, <1>4, <2>1
  <2>3. Begins(Keys(s), Keys(Front(t)))
    BY <1>2, <1>4, <2>1, <2>2 DEF Begins
  <2> QED BY <1>1, <1>6, <2>3
<1> QED BY <1>5, <1>6

\* Histories that agree in keys, one for a part of the other, agree in prompts.
LEMMA PromptsBegin ==
  \A s, t \in Seq(Message) :
    Begins(Keys(s), Keys(t)) =>
      /\ IsPrefix(Prompts[s], Prompts[t])
      /\ Len(s) = Len(t) => Prompts[s] = Prompts[t]
<1> DEFINE Good(s, t) == /\ IsPrefix(Prompts[s], Prompts[t])
                         /\ Len(s) = Len(t) => Prompts[s] = Prompts[t]
           Bad == {l \in Nat : \E s, t \in Seq(Message) :
                     Len(t) = l /\ Begins(Keys(s), Keys(t)) /\ ~Good(s, t)}
<1>1. ASSUME Bad # {} PROVE FALSE
  <2>1. Bad \subseteq Nat
    OBVIOUS
  <2>2. PICK l \in Bad : \A k \in Bad : l <= k
    BY <1>1, <2>1, LeastNat
  <2>3. PICK s \in Seq(Message), t \in Seq(Message) :
          Len(t) = l /\ Begins(Keys(s), Keys(t)) /\ ~Good(s, t)
    BY <2>2
  <2>4. ASSUME NEW a \in Seq(Message), NEW b \in Seq(Message), l - 1 \in Nat,
               Len(b) = l - 1, Begins(Keys(a), Keys(b))
        PROVE  Good(a, b)
    <3>1. l - 1 \notin Bad
      <4>1. l \in Nat /\ ~(l <= l - 1)
        BY <2>1
      <4> QED BY <2>2, <4>1
    <3> HIDE DEF Good
    <3> QED BY <2>4, <3>1
  <2> HIDE DEF Bad
  <2>5. /\ Prompts[s] \in Seq(Requests) /\ Prompts[t] \in Seq(Requests)
        /\ Prompts[s] = Asks(Prompts, s) /\ Prompts[t] = Asks(Prompts, t)
    BY PromptsIs, PromptsType
  <2>6. CASE t = <<>>
    <3>1. s = <<>>
      <4> HIDE DEF Good
      <4>1. Len(Keys(s)) = Len(s) /\ Len(Keys(t)) = Len(t)
        BY KeysAre
      <4>2. Len(Keys(s)) <= Len(Keys(t))
        BY <2>3 DEF Begins
      <4>3. Len(t) = 0
        BY <2>6
      <4>4. Len(s) \in Nat
        OBVIOUS
      <4>5. Len(s) = 0
        BY <4>1, <4>2, <4>3, <4>4
      <4> QED BY <4>5, EmptySeq
    <3>2. Prompts[s] = Prompts[t] /\ IsPrefix(Prompts[s], Prompts[t])
      BY <2>5, <2>6, <3>1, PrefixIs DEF Begins
    <3> QED BY <2>3, <3>2
  <2>7. CASE t # <<>>
    <3>1. /\ Front(t) \in Seq(Message) /\ l - 1 \in Nat /\ Len(Front(t)) = l - 1
          /\ Last(t).run \in Requests
      BY <2>3, <2>7, FrontIs
    <3>2. Prompts[Front(t)] \in Seq(Requests) /\ IsPrefix(Prompts[Front(t)], Prompts[t])
      <4>1. Prompts[Front(t)] \in Seq(Requests)
        BY <3>1, PromptsType
      <4>2. Prompts[t] \in {Prompts[Front(t)], Append(Prompts[Front(t)], Last(t).run)}
        BY <2>5, <2>7 DEF Asks
      <4> QED BY <3>1, <4>1, <4>2, PrefixOfMore
    <3>3. CASE s = <<>>
      <4>1. Prompts[s] = <<>>
        BY <2>5, <3>3 DEF Asks
      <4>2. Begins(<<>>, Prompts[t]) /\ Len(s) # Len(t)
        BY <2>5, <2>7, <3>3 DEF Begins
      <4>3. IsPrefix(Prompts[s], Prompts[t])
        BY <2>5, <4>1, <4>2, PrefixIs
      <4> QED BY <2>3, <4>2, <4>3
    <3>4. CASE s # <<>> /\ Len(s) = Len(t)
      <4>1. /\ Begins(Keys(Front(s)), Keys(Front(t)))
            /\ Last(s).run = Last(t).run /\ Last(s).role = Last(t).role
        BY <2>3, <2>7, <3>4, KeysOfFront
      <4>2. Front(s) \in Seq(Message) /\ Len(Front(s)) = l - 1
        BY <2>3, <3>4, FrontIs
      <4>3. Prompts[Front(s)] = Prompts[Front(t)]
        BY <2>4, <3>1, <4>1, <4>2
      <4>4. Prompts[s] = Prompts[t]
        BY <2>5, <2>7, <3>4, <4>1, <4>3 DEF Asks
      <4>5. IsPrefix(Prompts[s], Prompts[t])
        BY <2>5, <4>4, PrefixIs DEF Begins
      <4> QED BY <2>3, <4>4, <4>5
    <3>5. CASE s # <<>> /\ Len(s) # Len(t)
      <4>1. Begins(Keys(s), Keys(Front(t)))
        BY <2>3, <2>7, <3>5, KeysOfFront
      <4>2. IsPrefix(Prompts[s], Prompts[Front(t)])
        BY <2>4, <3>1, <4>1
      <4>3. IsPrefix(Prompts[s], Prompts[t])
        BY <2>5, <3>2, <4>2, PrefixesJoin
      <4> QED BY <2>3, <3>5, <4>3
    <3> QED BY <3>3, <3>4, <3>5
  <2> QED BY <2>6, <2>7
<1> QED
  <2>1. ASSUME NEW s \in Seq(Message), NEW t \in Seq(Message), Begins(Keys(s), Keys(t))
        PROVE  Good(s, t)
    <3>1. Len(t) \in Nat
      OBVIOUS
    <3> QED BY <1>1, <2>1, <3>1
  <2> QED BY <2>1

\* So do histories with the same keys.
LEMMA PromptsAlike ==
  ASSUME NEW s \in Seq(Message), NEW t \in Seq(Message), Keys(s) = Keys(t)
  PROVE  Prompts[s] = Prompts[t]
<1>1. Len(s) = Len(t) /\ Begins(Keys(s), Keys(t))
  BY KeysAre DEF Begins
<1> QED BY <1>1, PromptsBegin

\* runMessages() adds no prompt.
LEMMA PromptsOfRun ==
  ASSUME NEW r \in Requests, NEW d \in Seq(Message), NEW c \in Seq(Chunks)
  PROVE  Prompts[RunMessages(r, d, c)] = Prompts[d]
<1> DEFINE x == Answer(r, c)
           s == Append(d, x)
<1>1. x \in Message /\ x.role = "assistant"
  BY DEF Answer, Message
<1> HIDE DEF x
<1>2. s \in Seq(Message) /\ s # <<>> /\ Len(s) = Len(d) + 1 /\ s[Len(s)] = x
  BY <1>1
<1>3. Last(s) = x
  BY <1>2 DEF Last
<1>4. Front(s) = d
  <2>1. /\ Front(s) \in Seq(Message) /\ Len(Front(s)) = Len(s) - 1
        /\ \A i \in 1..Len(s) - 1 : Front(s)[i] = s[i]
    BY <1>2, FrontIs
  <2>2. Len(s) - 1 = Len(d)
    BY <1>2
  <2>3. \A i \in 1..Len(d) : s[i] = d[i]
    BY <1>1
  <2> HIDE DEF s
  <2>4. \A i \in 1..Len(d) : Front(s)[i] = d[i]
    BY <2>1, <2>2, <2>3
  <2> QED BY <2>1, <2>2, <2>4, SeqEqual
<1> HIDE DEF s
<1>5. Prompts[s] = Prompts[d]
  BY <1>1, <1>2, <1>3, <1>4, PromptsIs DEF Asks
<1> QED BY <1>5 DEF RunMessages, s, x

\* A history that continues another begins with it, or with all of it but its last answer.
LEMMA ContinuesAs ==
  ASSUME NEW saved \in Seq(Message), NEW submitted \in Seq(Message), Continues(saved, submitted)
  PROVE  \/ IsPrefix(Keys(saved), Keys(submitted))
         \/ /\ saved # <<>> /\ Last(saved).role = "assistant"
            /\ Keys(submitted) = Keys(Front(saved))
<1>1. CASE Keys(submitted) = Keys(saved)
  <2>1. Keys(saved) \in Seq(Requests \X {"user", "assistant"})
    BY KeysAre
  <2> QED BY <1>1, <2>1, PrefixIs DEF Begins
<1> QED BY <1>1 DEF Continues, Regenerated

\* validateHistory(): a history that continues another keeps its prompts, ...
LEMMA PromptsContinue ==
  ASSUME NEW saved \in Seq(Message), NEW submitted \in Seq(Message), Continues(saved, submitted)
  PROVE  IsPrefix(Prompts[saved], Prompts[submitted])
<1>1. CASE IsPrefix(Keys(saved), Keys(submitted))
  <2>1. Begins(Keys(saved), Keys(submitted))
    BY <1>1, KeysAre, PrefixIs
  <2> QED BY <2>1, PromptsBegin
<1>2. CASE /\ saved # <<>> /\ Last(saved).role = "assistant"
           /\ Keys(submitted) = Keys(Front(saved))
  <2>1. Front(saved) \in Seq(Message)
    BY <1>2, FrontIs
  <2>2. Prompts[submitted] = Prompts[Front(saved)]
    BY <1>2, <2>1, PromptsAlike
  <2>3. Prompts[saved] = Prompts[Front(saved)]
    BY <1>2, PromptsIs DEF Asks
  <2>4. Prompts[saved] \in Seq(Requests)
    BY PromptsType
  <2>5. IsPrefix(Prompts[saved], Prompts[saved])
    BY <2>4, PrefixIs DEF Begins
  <2> QED BY <2>2, <2>3, <2>5
<1> QED BY <1>1, <1>2, ContinuesAs

\* ... and the server's copies have the keys of the tab's.
LEMMA KeysKept ==
  ASSUME NEW saved \in Seq(Message), NEW submitted \in Seq(Message), Continues(saved, submitted)
  PROVE  Keys(Kept(saved, submitted)) = Keys(submitted)
<1> DEFINE k == Kept(saved, submitted)
<1>1. PICK n \in Nat, m \in Nat : n = Len(submitted) /\ m = Len(saved)
  OBVIOUS
<1>2. k \in Seq(Message)
  BY KeptMessages
<1>3. Len(k) = n /\ \A i \in 1..n : k[i] = IF i <= m THEN saved[i] ELSE submitted[i]
  BY <1>1 DEF Kept
<1> HIDE DEF k
<1>4. \A i \in 1..n : i <= m => Keys(saved)[i] = Keys(submitted)[i]
  <2>1. CASE IsPrefix(Keys(saved), Keys(submitted))
    <3>1. Begins(Keys(saved), Keys(submitted)) /\ Len(Keys(saved)) = m
      BY <1>1, <2>1, KeysAre, PrefixIs
    <3> QED BY <1>1, <3>1 DEF Begins
  <2>2. CASE saved # <<>> /\ Keys(submitted) = Keys(Front(saved))
    <3>1. /\ Front(saved) \in Seq(Message) /\ m \in Nat \ {0} /\ Len(Front(saved)) = m - 1
          /\ \A i \in 1..m - 1 : Front(saved)[i] = saved[i]
      BY <1>1, <2>2, FrontIs
    <3>2. /\ Len(Keys(Front(saved))) = m - 1 /\ Len(Keys(submitted)) = n
          /\ \A i \in 1..m - 1 : Keys(Front(saved))[i] = <<saved[i].run, saved[i].role>>
      BY <1>1, <3>1, KeysAre
    <3>3. n = m - 1
      BY <2>2, <3>2
    <3>4. \A i \in 1..m : Keys(saved)[i] = <<saved[i].run, saved[i].role>>
      BY <1>1, KeysAre
    <3>5. \A i \in 1..n : i \in 1..m - 1 /\ i \in 1..m
      BY <1>1, <3>3
    <3> QED BY <2>2, <3>2, <3>4, <3>5
  <2> QED BY <2>1, <2>2, ContinuesAs
<1>5. \A i \in 1..n : Keys(k)[i] = Keys(submitted)[i]
  <2>1. /\ \A i \in 1..n : Keys(k)[i] = <<k[i].run, k[i].role>>
        /\ \A i \in 1..n : Keys(submitted)[i] = <<submitted[i].run, submitted[i].role>>
        /\ \A i \in 1..m : Keys(saved)[i] = <<saved[i].run, saved[i].role>>
    BY <1>1, <1>2, <1>3, KeysAre
  <2>2. \A i \in 1..n : i <= m => i \in 1..m
    BY <1>1
  <2> QED BY <1>3, <1>4, <2>1, <2>2
<1>6. /\ Keys(k) \in Seq(Requests \X {"user", "assistant"}) /\ Len(Keys(k)) = n
      /\ Keys(submitted) \in Seq(Requests \X {"user", "assistant"}) /\ Len(Keys(submitted)) = n
  BY <1>1, <1>2, <1>3, KeysAre
<1>7. Keys(k) = Keys(submitted)
  BY <1>5, <1>6, SeqEqual
<1> QED BY <1>7 DEF k

-----------------------------------------------------------------------------
(* The invariant behind HistoryKept, over EInv.                            *)

\* A run answers the prompts its tab submitted.
Answered ==
  /\ \A p \in Posts : Keys(post[p].messages) = Keys(post[p].print)
  /\ \A r \in Requests : Keys(run[r].record.prompt) = Keys(run[r].record.print)

\* From its check to its write, an admission extends the chat that is saved, ...
Extends(p) ==
  post[p].pc \in {"validated"} \cup Creating =>
    (Owns => IsPrefix(Prompts[session.messages], Prompts[post[p].messages]))

\* ... and hands its messages to the run and the run's journal.
Carries(p) ==
  /\ post[p].pc \in Creating => run[post[p].req].record.prompt = post[p].messages
  /\ post[p].pc \in {"created", "upserting"} =>
       journal[post[p].req].record.prompt = run[post[p].req].record.prompt

\* A run that was admitted owns the saved chat until it ends.
Holds(r) == run[r].phase \in Owned \ {"creating"}
Points(r) ==
  Holds(r) =>
    /\ Owns /\ session.run = r
    /\ Prompts[session.messages] = Prompts[run[r].record.prompt]

\* The saved chat is of a run that was executed, and has its journal's prompts.
Journalled ==
  Owns =>
    /\ executed[session.run] # 0
    /\ Prompts[session.messages] = Prompts[journal[session.run].record.prompt]

\* The journals go after the chat.
Removed ==
  \A i \in 1..Len(writes) : writes[i].kind = "clear" => i = 1 /\ ~session.exists

Histories ==
  /\ Answered /\ Journalled /\ Removed
  /\ \A p \in Posts : Extends(p) /\ Carries(p)
  /\ \A r \in Requests : Points(r)
HInv == EInv /\ Histories

-----------------------------------------------------------------------------
(* What a step does to what the invariant is about.                        *)

\* A submission is checked against the saved chat.
Validates(p) ==
  /\ StartValidate(p) /\ session' = session /\ post[p].pc = "absent"
  /\ post'[p].pc = "validated" /\ post'[p].print = post[p].print
  /\ IF Owns THEN /\ Continues(session.messages, post[p].messages)
                  /\ post'[p].messages = Kept(session.messages, post[p].messages)
     ELSE post'[p].messages = post[p].messages
\* A submission's messages are the tab's until they are checked against the saved chat.
LEMMA SubmissionTurns ==
  ASSUME IInv, [Next]_vars, NEW p \in Posts
  PROVE  \/ /\ post'[p].messages = post[p].messages /\ post'[p].print = post[p].print
            /\ post'[p].pc = "validated" => post[p].pc = "validated"
         \/ post'[p].messages = post'[p].print /\ post'[p].pc = "queued" /\ post[p].pc = "unsent"
         \/ Validates(p)
<1> USE DEF diskVars, admitVars, procVars, stopVars, ghostVars, boundVars
<1> DEFINE Same == /\ post'[p].messages = post[p].messages /\ post'[p].print = post[p].print
                   /\ post'[p].pc = "validated" => post[p].pc = "validated"
<1>0. post \in [Posts -> PostState] /\ post[p] \in PostState
  BY DEF IInv, Types, PostType
<1>1. ASSUME UNCHANGED post PROVE Same
  BY <1>1
<1>2. ASSUME NEW q, NEW pc, Answering(q, pc), pc # "validated" PROVE Same
  <2>1. CASE q = p
    <3>1. post'[p] = [post[p] EXCEPT !.pc = pc]
      BY <1>0, <1>2, <2>1 DEF Answering
    <3> QED BY <1>0, <1>2, <3>1 DEF PostState
  <2>2. CASE q # p
    <3>1. post'[p] = post[p]
      BY <1>0, <1>2, <2>2 DEF Answering
    <3> QED BY <3>1
  <2> QED BY <2>1, <2>2
<1>3. ASSUME NEW r, NEW pc, Loaded(r, pc), pc # "validated" PROVE Same
  <2>1. CASE post[p].pc = "finding" /\ post[p].req = r
    <3>1. post'[p] = [post[p] EXCEPT !.pc = pc]
      BY <1>3, <2>1 DEF Loaded
    <3> QED BY <1>0, <1>3, <3>1 DEF PostState
  <2>2. CASE ~(post[p].pc = "finding" /\ post[p].req = r)
    <3>1. post'[p] = post[p]
      BY <1>3, <2>2 DEF Loaded
    <3> QED BY <3>1
  <2> QED BY <2>1, <2>2
<1>4. ASSUME NEW q \in Posts, Admission(q) \/ StartFail(q)
      PROVE  Same \/ Validates(p)
  <2>1. CASE StartValidate(q)
    <3>1. CASE q = p
      <4>1. CASE Reply(q, "conflict")
        BY <1>2, <4>1 DEF Reply
      <4>2. CASE /\ Continues(session.messages, post[q].messages) /\ Owns
                 /\ post' = [post EXCEPT ![q].pc = "validated",
                                         ![q].messages = Kept(session.messages, @)]
        <5> DEFINE m == Kept(session.messages, post[p].messages)
                   x == [post[p] EXCEPT !.pc = "validated", !.messages = m]
        <5>1. post'[p] = x
          BY <1>0, <3>1, <4>2
        <5>2. x.messages = m /\ x.pc = "validated" /\ x.print = post[p].print
          <6> HIDE DEF m
          <6> QED BY <1>0 DEF PostState
        <5>3. session' = session /\ post[p].pc = "absent"
          BY <2>1, <3>1 DEF StartValidate, AtHead
        <5> QED BY <2>1, <3>1, <4>2, <5>1, <5>2, <5>3 DEF Validates
      <4>3. CASE ~Owns /\ Answering(q, "validated")
        <5>1. post'[p] = [post[p] EXCEPT !.pc = "validated"]
          BY <1>0, <3>1, <4>3 DEF Answering
        <5>2. /\ post'[p].messages = post[p].messages /\ post'[p].print = post[p].print
              /\ post'[p].pc = "validated"
          BY <1>0, <5>1 DEF PostState
        <5>3. session' = session /\ post[p].pc = "absent"
          BY <2>1, <3>1 DEF StartValidate, AtHead
        <5> QED BY <2>1, <3>1, <4>3, <5>2, <5>3 DEF Validates
      <4> QED BY <2>1, <4>1, <4>2, <4>3 DEF StartValidate
    <3>2. CASE q # p
      <4>1. post'[p] = post[p]
        BY <1>0, <2>1, <3>2 DEF StartValidate, Answering, Reply
      <4> QED BY <4>1
    <3> QED BY <3>1, <3>2
  <2>2. CASE ~StartValidate(q)
    <3>1. \/ UNCHANGED post
          \/ \E pc \in {"refused", "existing", "finding", "accepted", "conflict", "failed",
                        "creating", "created", "upserting"} : Answering(q, pc)
      BY <1>4, <2>2 DEF Admission, StartFind, StartExisting, StartBroken, StartActivate,
         StartCreate, StartUpsert, WriteAdmit, StartFail, Reply
    <3> QED BY <1>1, <1>2, <3>1
  <2> QED BY <2>1, <2>2
<1>5. ASSUME NEW r \in Requests, Poll(r) \/ Loader(r) PROVE Same
  <2>1. UNCHANGED post \/ \E pc \in {"absent", "existing", "failed"} : Loaded(r, pc)
    BY <1>5 DEF Poll, Loader, LoadRead, LoadPublish, LoadFail, LoadSave
  <2> QED BY <1>1, <1>3, <2>1
<1>6. ASSUME NEW r \in Requests, Worker(r) \/ Stream(r) PROVE Same
  <2>1. CASE Worker(r)
    BY <1>1, <2>1, Zenon DEF Worker, Push, AbortSeen, ToolEffect, ToolRecord, Settle, CloseEvents,
       Save, SaveSession, End
  <2>2. CASE Stream(r)
    BY <1>1, <2>2, Zenon DEF Stream, Emit, EmitFail, StreamEnd, ToolStart
  <2> QED BY <1>6, <2>1, <2>2
<1>7. ASSUME NEW r \in Requests, (\E b \in BOOLEAN : Stop(r, b)) \/ StopFind(r) \/ StopDone(r)
      PROVE  Same
  BY <1>1, <1>7 DEF Stop, StopFind, StopDone
<1>8. CASE Put \/ DeleteCheck \/ Store \/ CloseBegin \/ Closing \/ BootLoad \/ BootSave
  <2>1. UNCHANGED post
    BY <1>8 DEF Put, DeleteCheck, Store, WriteSave, WritePut, DeleteEnqueue, WriteRemove,
       WriteClear, CloseBegin, Closing, CloseWait, CloseAbort, CloseDone, BootLoad, BootSave
  <2> QED BY <1>1, <2>1
<1>9. CASE Restart
  <2>1. CASE p \in ToSet(chain)
    <3>1. post'[p] = [post[p] EXCEPT !.pc = "lost"]
      BY <1>9, <2>1 DEF Restart
    <3> QED BY <1>0, <3>1 DEF PostState
  <2>2. CASE p \notin ToSet(chain)
    <3>1. post'[p] = post[p]
      BY <1>9, <2>2 DEF Restart
    <3> QED BY <3>1
  <2> QED BY <2>1, <2>2
<1>10. CASE \E q \in Posts, r \in Requests : \E m \in Submittable(r) : Submit(q, r, m)
  <2>1. PICK q \in Posts, r \in Requests : \E m \in Submittable(r) : Submit(q, r, m)
    BY <1>10
  <2>2. PICK m \in Submittable(r) : Submit(q, r, m)
    BY <2>1
  <2>3. CASE q = p
    <3>1. /\ post'[p] = [pc |-> "queued", req |-> r, messages |-> m, print |-> m]
          /\ post[p].pc = "unsent"
      BY <1>0, <2>2, <2>3 DEF Submit
    <3> QED BY <3>1
  <2>4. CASE q # p
    <3>1. post'[p] = post[p]
      BY <1>0, <2>2, <2>4 DEF Submit
    <3> QED BY <3>1
  <2> QED BY <2>3, <2>4
<1>11. CASE UNCHANGED vars
  BY <1>1, <1>11 DEF vars
<1> QED BY <1>4, <1>5, <1>6, <1>7, <1>8, <1>9, <1>10, <1>11 DEF Next

\* A run's record is its admission's, and a run that goes on keeps it.
LEMMA RecordTurns ==
  ASSUME IInv, [Next]_vars, NEW r \in Requests
  PROVE  \/ /\ run'[r].record = run[r].record
            /\ \/ Holds(r)' => Holds(r)
               \/ \E p \in Posts : post[p].req = r /\ WriteAdmit(p)
         \/ /\ run'[r].record = NoRecord /\ ~Holds(r)'
            /\ Restart \/ \E p \in Posts : post[p].req = r /\ StartFail(p)
         \/ /\ ~Holds(r)'
            /\ \E p \in Posts :
                 /\ post[p].req = r /\ StartActivate(p)
                 /\ run'[r].record = [prompt |-> post[p].messages, print |-> post[p].print]
<1> USE DEF diskVars, admitVars, procVars, stopVars, ghostVars, boundVars
<1> DEFINE Same == run'[r].record = run[r].record /\ (Holds(r)' => Holds(r))
<1>0. run \in [Requests -> RunState] /\ run[r] \in RunState
  BY DEF IInv, Types, RunType
<1>1. CASE run'[r] = run[r]
  BY <1>1 DEF Holds
<1>2. CASE Restart
  BY <1>2 DEF Restart, Idle, Holds, Owned
<1>3. ASSUME NEW p \in Posts, post[p].req = r, StartActivate(p), run'[r] # run[r]
      PROVE  /\ ~Holds(r)'
             /\ run'[r].record = [prompt |-> post[p].messages, print |-> post[p].print]
  <2> DEFINE rec == [prompt |-> post[p].messages, print |-> post[p].print]
  <2>1. run' = [run EXCEPT ![r] = [Idle EXCEPT !.phase = "creating", !.record = rec]]
    BY <1>3 DEF StartActivate
  <2> HIDE DEF rec
  <2>2. run'[r] = [Idle EXCEPT !.phase = "creating", !.record = rec]
    BY <1>0, <2>1
  <2>3. run'[r].phase = "creating" /\ run'[r].record = rec
    BY <2>2 DEF Idle
  <2> QED BY <2>3 DEF Holds, rec
<1>4. ASSUME NEW p \in Posts, post[p].req = r, StartFail(p)
      PROVE  run'[r].record = NoRecord /\ ~Holds(r)'
  <2>1. run'[r] = Idle
    BY <1>0, <1>4 DEF StartFail
  <2> QED BY <2>1 DEF Idle, Holds, Owned
<1>5. ASSUME NEW p \in Posts, post[p].req = r, WriteAdmit(p)
      PROVE  run'[r].record = run[r].record
  BY <1>0, <1>5 DEF WriteAdmit, RunState
<1>6. CASE WriteSave /\ Head(writes).run = r
  <2>1. writes # <<>> /\ Head(writes).kind = "save" /\ writes \in Seq(Writes)
    BY <1>6 DEF WriteSave, Serve, IInv, Types, WritesType
  <2>2. 1 \in 1..Len(writes) /\ Head(writes) = writes[1]
    BY <2>1
  <2>3. Holds(r)
    BY <1>6, <2>1, <2>2 DEF IInv, Control, Saves, Saving, Holds, Owned
  <2>4. run'[r].record = run[r].record
    BY <1>0, <1>6 DEF WriteSave, RunState
  <2> QED BY <2>3, <2>4
<1>7. CASE Worker(r)
  <2>1. CASE Push(r) \/ ToolEffect(r) \/ ToolRecord(r)
    <3>1. run'[r].phase = run[r].phase /\ run'[r].record = run[r].record
      <4>1. CASE Push(r)
        BY <1>0, <4>1 DEF Push, RunState
      <4>2. CASE ToolEffect(r)
        BY <1>0, <4>2 DEF ToolEffect, RunState
      <4>3. CASE ToolRecord(r)
        BY <1>0, <4>3 DEF ToolRecord, RunState
      <4> QED BY <2>1, <4>1, <4>2, <4>3
    <3> QED BY <3>1 DEF Holds
  <2>2. CASE AbortSeen(r) \/ Settle(r) \/ CloseEvents(r) \/ Save(r) \/ SaveSession(r) \/ End(r)
    <3>1. Holds(r)
      BY <2>2 DEF AbortSeen, Settle, CloseEvents, Save, SaveSession, End, Step, Holds, Owned
    <3>2. run'[r].record = run[r].record
      <4>1. CASE AbortSeen(r)
        BY <1>0, <4>1 DEF AbortSeen, RunState
      <4>2. CASE Settle(r)
        BY <1>0, <4>2 DEF Settle, RunState
      <4>3. CASE CloseEvents(r)
        BY <1>0, <4>3 DEF CloseEvents, RunState
      <4>4. CASE Save(r)
        BY <1>0, <4>4 DEF Save, RunState
      <4>5. CASE SaveSession(r)
        BY <1>0, <4>5 DEF SaveSession, RunState
      <4>6. CASE End(r)
        BY <1>0, <4>6 DEF End, RunState
      <4> QED BY <2>2, <4>1, <4>2, <4>3, <4>4, <4>5, <4>6
    <3> QED BY <3>1, <3>2
  <2> QED BY <1>7, <2>1, <2>2 DEF Worker
<1>8. CASE Stream(r)
  <2>1. Holds(r)
    BY <1>8 DEF Stream, Emit, EmitFail, StreamEnd, ToolStart, Step, Holds, Owned
  <2>2. run'[r].record = run[r].record
    <3>1. CASE \E c \in Provided : Emit(r, c)
      BY <1>0, <3>1 DEF Emit, RunState
    <3>2. CASE EmitFail(r)
      BY <1>0, <3>2 DEF EmitFail, RunState
    <3>3. CASE StreamEnd(r)
      BY <1>0, <3>3 DEF StreamEnd, RunState
    <3>4. CASE ToolStart(r)
      BY <1>0, <3>4 DEF ToolStart, RunState
    <3> QED BY <1>8, <3>1, <3>2, <3>3, <3>4 DEF Stream
  <2> QED BY <2>1, <2>2
<1>9. CASE Aborting(r)
  <2>1. run'[r].phase = run[r].phase /\ run'[r].record = run[r].record
    BY <1>0, <1>9 DEF Aborting, Aborted, RunState
  <2> QED BY <2>1 DEF Holds
<1> QED BY <1>1, <1>2, <1>3, <1>4, <1>5, <1>6, <1>7, <1>8, <1>9, RunTurns

\* A journal's record is that of the run it was created for.
LEMMA JournalRecords ==
  ASSUME IInv, [Next]_vars, NEW r \in Requests
  PROVE  \/ journal'[r].record = journal[r].record
         \/ WriteClear
         \/ \E p \in Posts : post[p].req = r /\ StartFail(p)
         \/ /\ journal'[r].record = run[r].record
            /\ \/ \E p \in Posts : post[p].req = r /\ StartCreate(p)
               \/ run[r].phase = "saving" /\ session' = session
<1> USE DEF diskVars, admitVars, procVars, stopVars, ghostVars, boundVars
<1>0. journal \in [Requests -> Entry] /\ journal[r] \in Entry
  BY DEF IInv, Types, JournalType
<1>1. ASSUME NEW p \in Posts, post[p].req = r, StartCreate(p)
      PROVE  journal'[r].record = run[r].record
  BY <1>0, <1>1 DEF StartCreate
<1>2. CASE LoadPublish(r)
  BY <1>0, <1>2 DEF LoadPublish, Entry
<1>3. CASE LoadSave(r)
  BY <1>0, <1>3 DEF LoadSave, Entry
<1>4. CASE (\E c \in Provided : Emit(r, c)) \/ ToolStart(r) \/ ToolRecord(r) \/ CloseEvents(r)
  <2>1. \/ journal' = journal
        \/ \E c : journal' = Published(r, c)
        \/ \E t : journal' = Noted(r, t)
    BY <1>4 DEF Emit, ToolStart, ToolRecord, CloseEvents
  <2>2. ASSUME NEW c PROVE Published(r, c)[r].record = journal[r].record
    BY <1>0 DEF Published, Entry
  <2>3. ASSUME NEW t PROVE Noted(r, t)[r].record = journal[r].record
    BY <1>0 DEF Noted, Entry
  <2> QED BY <2>1, <2>2, <2>3
<1>5. CASE Save(r)
  <2>1. run[r].phase = "saving" /\ session' = session
    BY <1>5 DEF Save, Step
  <2>2. CASE journal' = journal
    BY <2>2
  <2>3. CASE journal' = [journal EXCEPT ![r].status = run[r].status, ![r].record = run[r].record]
    <3> DEFINE rec == run[r].record
               st == run[r].status
    <3>1. journal'[r] = [journal[r] EXCEPT !.status = st, !.record = rec]
      BY <1>0, <2>3
    <3> HIDE DEF rec, st
    <3>2. journal'[r].record = rec
      BY <1>0, <3>1 DEF Entry
    <3> QED BY <2>1, <3>2 DEF rec
  <2> QED BY <1>5, <2>2, <2>3 DEF Save
<1> QED BY <1>1, <1>2, <1>3, <1>4, <1>5, JournalTurns

-----------------------------------------------------------------------------
(* How each part of Histories is kept.                                     *)

\* A write at the head of the queue: a save is its run's, and the chat is not then
\* being deleted; a deletion comes when the chat has no owner.
LEMMA ServedWrite ==
  ASSUME IInv, writes # <<>>
  PROVE  /\ writes \in Seq(Writes) /\ 1 \in 1..Len(writes) /\ Head(writes) = writes[1]
         /\ Serve("save") => /\ Head(writes).run \in Requests
                             /\ run[Head(writes).run].phase = "upserting"
                             /\ active = Head(writes).run /\ Holds(Head(writes).run)
         /\ Serve("remove") => DeletePending
<1>1. writes \in Seq(Writes)
  BY DEF IInv, Types, WritesType
<1>2. 1 \in 1..Len(writes) /\ Head(writes) = writes[1]
  BY <1>1
<1>3. ASSUME Serve("save")
      PROVE  /\ Head(writes).run \in Requests /\ run[Head(writes).run].phase = "upserting"
  BY <1>2, <1>3 DEF Serve, IInv, Control, Saves, Saving
<1>4. ASSUME Serve("save")
      PROVE  active = Head(writes).run /\ Holds(Head(writes).run)
  <2>1. run[Head(writes).run].phase \in Owned
    BY <1>3, <1>4 DEF Owned
  <2> QED BY <1>3, <1>4, <2>1 DEF IInv, Control, OneOwner, Holds
<1>5. Serve("remove") => DeletePending
  BY <1>2 DEF Serve, DeletePending
<1> QED BY <1>1, <1>2, <1>3, <1>4, <1>5

\* What a step does to the saved chat, with the prompts it has then.
LEMMA SavedTurns ==
  ASSUME HInv, [Next]_vars
  PROVE  \/ session' = session
         \/ \E p \in Posts : WriteAdmit(p)
         \/ /\ boot = "ready" /\ writes # <<>> /\ Serve("save") /\ Owns
            /\ session'.exists /\ session'.run = session.run /\ session.run = Head(writes).run
            /\ Prompts[session'.messages] = Prompts[session.messages]
            /\ journal' = journal /\ executed' = executed
         \/ ~Owns'
         \/ /\ boot = "loading" /\ session'.run = session.run /\ session'.exists = session.exists
            /\ Owns => Prompts[session'.messages] = Prompts[session.messages]
            /\ journal' = journal /\ executed' = executed
<1> USE DEF diskVars, admitVars, procVars, stopVars, ghostVars, boundVars
<1>0. /\ session \in [exists : BOOLEAN, run : Runs, messages : Seq(Message)]
      /\ journal \in [Requests -> Entry] /\ run \in [Requests -> RunState] /\ IInv
  BY DEF HInv, EInv, IInv, Types, SessionType, JournalType, RunType
<1>1. CASE WriteSave /\ session' # session
  <2> DEFINE r == Head(writes).run
  <2>1. writes # <<>> /\ Serve("save") /\ boot = "ready"
    BY <1>1 DEF WriteSave, Serve, HInv, EInv, IInv, Control, Booting
  <2>2. r \in Requests /\ Holds(r)
    BY <1>0, <2>1, ServedWrite
  <2>3. Owns /\ session.run = r /\ Prompts[session.messages] = Prompts[run[r].record.prompt]
    BY <2>2 DEF HInv, Histories, Points
  <2>4. session' = [exists |-> TRUE, run |-> r,
                    messages |-> RunMessages(r, run[r].record.prompt, run[r].events)]
    BY <1>1 DEF WriteSave
  <2>5. run[r].record.prompt \in Seq(Message) /\ run[r].events \in Seq(Chunks)
    BY <1>0, <2>2 DEF RunState, Record
  <2>6. /\ session'.exists /\ session'.run = r
        /\ Prompts[session'.messages] = Prompts[session.messages]
    BY <2>2, <2>3, <2>4, <2>5, PromptsOfRun
  <2>7. journal' = journal /\ executed' = executed
    BY <1>1 DEF WriteSave
  <2> QED BY <2>1, <2>3, <2>6, <2>7
<1>2. CASE WritePut
  BY <1>0, <1>2 DEF WritePut, Owns
<1>3. CASE WriteRemove
  BY <1>3 DEF WriteRemove, NoSession, Owns
<1>4. CASE BootSave
  <2> DEFINE r == session.run
  <2>1. r \in Requests /\ boot = "loading"
    BY <1>4 DEF BootSave, HInv, EInv, IInv, Control, Booting
  <2>2. journal' = journal /\ executed' = executed
    BY <1>4 DEF BootSave
  <2>3. CASE session' = session
    BY <2>3
  <2>4. CASE session' # session
    <3> DEFINE m == RunMessages(r, journal[r].record.prompt, journal[r].chunks)
    <3>1. session' = [session EXCEPT !.messages = m]
      BY <1>4, <2>4 DEF BootSave
    <3>2. Prompts[m] = Prompts[journal[r].record.prompt]
      <4>1. journal[r].record.prompt \in Seq(Message) /\ journal[r].chunks \in Seq(Chunks)
        BY <1>0, <2>1 DEF Entry, Record
      <4> QED BY <2>1, <4>1, PromptsOfRun
    <3> HIDE DEF m
    <3>3. session'.run = r /\ session'.exists = session.exists /\ session'.messages = m
      BY <1>0, <3>1
    <3>4. Owns => Prompts[session.messages] = Prompts[journal[r].record.prompt]
      BY DEF HInv, Histories, Journalled
    <3> QED BY <2>1, <2>2, <3>2, <3>3, <3>4
  <2> QED BY <2>3, <2>4
<1> QED BY <1>1, <1>2, <1>3, <1>4, ChatTurns

\* Tabs and runs keep the prompts that were submitted.
LEMMA AnsweredStays ==
  ASSUME HInv, [Next]_vars
  PROVE  Answered'
<1>0. IInv /\ Answered /\ session.messages \in Seq(Message)
  BY DEF HInv, EInv, Histories, IInv, Types, SessionType
<1>1. ASSUME NEW p \in Posts PROVE Keys(post'[p].messages) = Keys(post'[p].print)
  <2>1. Keys(post[p].messages) = Keys(post[p].print) /\ post[p].messages \in Seq(Message)
    BY <1>0 DEF Answered, IInv, Types, PostType, PostState
  <2>2. CASE Validates(p)
    BY <1>0, <2>1, <2>2, KeysKept DEF Validates
  <2>3. CASE ~Validates(p)
    <3>1. \/ post'[p].messages = post[p].messages /\ post'[p].print = post[p].print
          \/ post'[p].messages = post'[p].print
      BY <1>0, <2>3, SubmissionTurns
    <3> QED BY <2>1, <3>1
  <2> QED BY <2>2, <2>3
<1>2. ASSUME NEW r \in Requests
      PROVE  Keys(run'[r].record.prompt) = Keys(run'[r].record.print)
  <2>1. \/ run'[r].record = run[r].record \/ run'[r].record = NoRecord
        \/ \E p \in Posts : run'[r].record = [prompt |-> post[p].messages, print |-> post[p].print]
    BY <1>0, RecordTurns
  <2>2. CASE run'[r].record = run[r].record
    BY <1>0, <2>2 DEF Answered
  <2>3. CASE run'[r].record = NoRecord
    <3>1. NoRecord.prompt = NoRecord.print
      BY DEF NoRecord
    <3> QED BY <2>3, <3>1
  <2>4. CASE \E p \in Posts : run'[r].record = [prompt |-> post[p].messages, print |-> post[p].print]
    <3>1. PICK p \in Posts : run'[r].record = [prompt |-> post[p].messages, print |-> post[p].print]
      BY <2>4
    <3>2. run'[r].record.prompt = post[p].messages /\ run'[r].record.print = post[p].print
      BY <3>1
    <3> QED BY <1>0, <3>2 DEF Answered
  <2> QED BY <2>1, <2>2, <2>3, <2>4
<1> QED BY <1>1, <1>2 DEF Answered

\* An admission's chat is not saved by anybody else, so it extends it still.
LEMMA ExtendsStays ==
  ASSUME HInv, [Next]_vars, IInv', NEW p \in Posts
  PROVE  Extends(p)'
<1> SUFFICES ASSUME post'[p].pc \in {"validated"} \cup Creating, Owns'
             PROVE  IsPrefix(Prompts[session'.messages], Prompts[post'[p].messages])
  BY DEF Extends, Creating
<1>0. /\ IInv /\ session.messages \in Seq(Message) /\ post[p].messages \in Seq(Message)
      /\ post[p].print \in Seq(Message)
  BY DEF HInv, EInv, IInv, Types, SessionType, PostType, PostState
<1>1. post'[p].pc \in Starting /\ post'[p].req = post[p].req /\ Turned(p)
  BY <1>0, NextTurns DEF Starting, Creating
<1>2. CASE Validates(p)
  <2>1. session' = session
    BY <1>2 DEF Validates
  <2>2. Owns
    BY <2>1 DEF Owns
  <2>3. Continues(session.messages, post[p].messages) /\ Kept(session.messages, post[p].messages) = post'[p].messages
    BY <1>2, <2>2 DEF Validates
  <2>4. /\ Keys(post'[p].messages) = Keys(post[p].messages) /\ post'[p].messages \in Seq(Message)
    BY <1>0, <2>3, KeysKept, KeptMessages
  <2>5. Prompts[post'[p].messages] = Prompts[post[p].messages]
    BY <1>0, <2>4, PromptsAlike
  <2>6. IsPrefix(Prompts[session.messages], Prompts[post[p].messages])
    BY <1>0, <2>3, PromptsContinue
  <2> QED BY <2>1, <2>5, <2>6
<1>3. CASE ~Validates(p)
  <2>1. post'[p].pc # "queued"
    BY DEF Creating
  <2>2. /\ post'[p].messages = post[p].messages
        /\ post'[p].pc = "validated" => post[p].pc = "validated"
    BY <1>0, <1>3, <2>1, SubmissionTurns
  <2>3. post[p].pc \in {"validated"} \cup Creating
    BY <1>1, <2>2 DEF Turned, Creating
  <2>4. /\ chain # <<>> /\ Head(chain) = p /\ boot = "ready"
        /\ chain' # <<>> /\ Head(chain') = p
    BY <1>0, <1>1, <2>3 DEF IInv, Control, Admissions, HeadStarts, Starting, Creating, Booting
  <2>5. \A r \in Requests : ~Holds(r)
    <3>1. CASE post[p].pc = "validated"
      <4>1. active = NoRun
        BY <1>0, <3>1 DEF IInv, Control, Admissions, Free
      <4> QED BY <1>0, <4>1, RequestsAssumption DEF IInv, Control, OneOwner, Holds
    <3>2. CASE post[p].pc \in Creating
      <4>1. active = post[p].req /\ run[post[p].req].phase = "creating"
        BY <1>0, <3>2 DEF IInv, Control, Admissions, Created
      <4> QED BY <1>0, <4>1 DEF IInv, Control, OneOwner, Holds
    <3> QED BY <2>3, <3>1, <3>2
  <2>6. ~(writes # <<>> /\ Serve("save"))
    BY <1>0, <2>5, ServedWrite
  <2>7. ASSUME NEW q \in Posts, WriteAdmit(q) PROVE FALSE
    <3>1. q = p /\ Answering(p, "accepted")
      BY <2>4, <2>7 DEF WriteAdmit, AtHead, Reply
    <3>2. post'[p].pc = "accepted"
      BY <1>0, <3>1, AnsweredPost DEF Pcs, IInv, Types
    <3> QED BY <1>1, <3>2 DEF Starting, Creating
  <2>8. session' = session
    BY <2>4, <2>6, <2>7, SavedTurns
  <2>9. Owns /\ Extends(p)
    BY <2>8 DEF HInv, Histories, Owns
  <2> QED BY <2>2, <2>3, <2>8, <2>9 DEF Extends
<1> QED BY <1>2, <1>3

\* What an admission hands on is not changed on the way.
LEMMA CarriesStays ==
  ASSUME HInv, [Next]_vars, IInv', NEW p \in Posts
  PROVE  Carries(p)'
<1> USE DEF diskVars, admitVars, procVars, stopVars, ghostVars, boundVars
<1> SUFFICES ASSUME post'[p].pc \in Creating
             PROVE  /\ run'[post'[p].req].record.prompt = post'[p].messages
                    /\ post'[p].pc \in {"created", "upserting"} =>
                         journal'[post'[p].req].record.prompt = run'[post'[p].req].record.prompt
  BY DEF Carries, Creating
<1> DEFINE r == post[p].req
<1>0. /\ IInv /\ journal \in [Requests -> Entry] /\ run \in [Requests -> RunState]
  BY DEF HInv, EInv, IInv, Types, JournalType, RunType
<1>1. post'[p].pc \in Starting /\ post'[p].req = r /\ Turned(p)
  BY <1>0, NextTurns DEF Starting
<1>2. post[p].pc \in {"validated"} \cup Creating
  BY <1>1 DEF Turned, Creating
<1>3. /\ chain # <<>> /\ Head(chain) = p /\ chain' # <<>> /\ r \in Requests
  BY <1>0, <1>1, <1>2 DEF IInv, Control, Admissions, HeadStarts, Starting, Creating, Sent
<1>4. post'[p].messages = post[p].messages /\ post'[p].print = post[p].print
  <2>1. ~Validates(p) /\ post'[p].pc # "queued"
    BY DEF Validates, Creating
  <2> QED BY <1>0, <2>1, SubmissionTurns
<1>5. CASE post[p].pc = "validated"
  <2>1. StartActivate(p) /\ post'[p].pc = "creating"
    BY <1>1, <1>5 DEF Turned, Creating
  <2> DEFINE rec == [prompt |-> post[p].messages, print |-> post[p].print]
  <2>2. run' = [run EXCEPT ![r] = [Idle EXCEPT !.phase = "creating", !.record = rec]]
    <3>1. ~Reply(p, "conflict")
      <4>1. SUFFICES ASSUME Answering(p, "conflict") PROVE FALSE
        BY DEF Reply
      <4>2. post'[p].pc = "conflict"
        BY <1>0, <4>1, AnsweredPost DEF Pcs, IInv, Types
      <4> QED BY <2>1, <4>2
    <3> QED BY <2>1, <3>1 DEF StartActivate
  <2>3. run'[r].record.prompt = post[p].messages
    <3> HIDE DEF rec
    <3>1. run'[r] = [Idle EXCEPT !.phase = "creating", !.record = rec]
      BY <1>0, <1>3, <2>2
    <3>2. run'[r].record = rec
      BY <3>1 DEF Idle
    <3> QED BY <3>2 DEF rec
  <2> QED BY <1>1, <1>4, <2>1, <2>3
<1>6. CASE post[p].pc \in Creating
  <2>1. active = r /\ run[r].phase = "creating" /\ run[r].record.prompt = post[p].messages
    BY <1>0, <1>6 DEF IInv, Control, Admissions, Created, HInv, Histories, Carries
  <2>2. ASSUME NEW q \in Posts, StartFail(q) \/ StartActivate(q) PROVE FALSE
    <3>1. q = p
      BY <1>3, <2>2 DEF StartFail, StartActivate, AtHead
    <3>2. StartFail(p) /\ Answering(p, "failed")
      BY <1>6, <2>2, <3>1 DEF StartFail, StartActivate, AtHead, Reply, Creating
    <3>3. post'[p].pc = "failed"
      BY <1>0, <3>2, AnsweredPost DEF Pcs, IInv, Types
    <3> QED BY <1>1, <3>3 DEF Starting, Creating
  <2>3. ~Restart
    BY <1>3 DEF Restart
  <2>4. run'[r].record = run[r].record
    BY <1>0, <1>3, <2>2, <2>3, RecordTurns
  <2>5. ASSUME post'[p].pc \in {"created", "upserting"}
        PROVE  journal'[r].record.prompt = run[r].record.prompt
    <3>1. CASE post[p].pc = "creating"
      <4>1. StartCreate(p)
        BY <1>1, <2>5, <3>1 DEF Turned
      <4> QED BY <1>0, <1>3, <4>1 DEF StartCreate
    <3>2. CASE post[p].pc \in {"created", "upserting"}
      <4>1. journal[r].record.prompt = run[r].record.prompt
        BY <3>2 DEF HInv, Histories, Carries
      <4>2. ~WriteClear
        BY <1>2, ClearedAlone DEF HInv, Starting
      <4>3. ASSUME NEW q \in Posts, StartFail(q) PROVE FALSE
        BY <2>2, <4>3
      <4> QED BY <1>0, <1>3, <4>1, <4>2, <4>3, JournalRecords
    <3> QED BY <1>6, <3>1, <3>2 DEF Creating
  <2> QED BY <1>1, <1>4, <2>1, <2>4, <2>5
<1> QED BY <1>2, <1>5, <1>6

\* The chat's run stays its run until it ends: nobody else saves the chat.
LEMMA PointsStays ==
  ASSUME HInv, [Next]_vars, NEW r \in Requests
  PROVE  Points(r)'
<1> USE DEF diskVars, admitVars, procVars, stopVars, ghostVars, boundVars
<1> SUFFICES ASSUME Holds(r)'
             PROVE  /\ Owns' /\ session'.run = r
                    /\ Prompts[session'.messages] = Prompts[run'[r].record.prompt]
  BY DEF Points
<1>0. /\ IInv /\ run \in [Requests -> RunState] /\ session.messages \in Seq(Message)
      /\ r # NoRun
  BY RequestsAssumption DEF HInv, EInv, IInv, Types, RunType, SessionType
<1>1. CASE \E p \in Posts : post[p].req = r /\ WriteAdmit(p)
  <2>1. PICK p \in Posts : post[p].req = r /\ WriteAdmit(p)
    BY <1>1
  <2>2. session' = [exists |-> TRUE, run |-> r, messages |-> run[r].record.prompt]
    BY <2>1 DEF WriteAdmit
  <2>3. run'[r].record = run[r].record
    BY <1>0, <2>1 DEF WriteAdmit, RunState
  <2> QED BY <1>0, <2>2, <2>3 DEF Owns
<1>2. CASE ~(\E p \in Posts : post[p].req = r /\ WriteAdmit(p))
  <2>1. Holds(r) /\ run'[r].record = run[r].record
    BY <1>0, <1>2, RecordTurns
  <2>2. /\ Owns /\ session.run = r
        /\ Prompts[session.messages] = Prompts[run[r].record.prompt]
    BY <2>1 DEF HInv, Histories, Points
  <2>3. active = r /\ run[r].phase # "creating" /\ boot = "ready"
    BY <1>0, <2>1 DEF Holds, IInv, Control, OneOwner, Booting, Owned
  <2>4. ASSUME NEW p \in Posts, WriteAdmit(p) PROVE FALSE
    <3>1. post[p].pc \in Creating
      BY <2>4 DEF WriteAdmit, AtHead, Creating
    <3>2. post[p].req = r
      BY <1>0, <2>3, <3>1 DEF IInv, Control, Admissions, Created
    <3> QED BY <1>2, <2>4, <3>2
  <2>5. CASE ~Owns'
    <3>1. session' # session
      BY <2>2, <2>5 DEF Owns
    <3>2. WriteSave \/ WritePut \/ WriteRemove
      <4>1. ~BootSave
        BY <2>3 DEF BootSave
      <4> QED BY <2>4, <3>1, <4>1, ChatTurns
    <3>3. CASE WriteSave
      <4>1. writes # <<>> /\ Serve("save")
        BY <3>3 DEF WriteSave, Serve
      <4>2. session'.exists /\ session'.run = Head(writes).run
        BY <3>1, <3>3 DEF WriteSave
      <4>3. Head(writes).run \in Requests
        BY <1>0, <4>1, ServedWrite
      <4> QED BY <2>5, <4>2, <4>3, RequestsAssumption DEF Owns
    <3>4. CASE WritePut
      BY <2>2, <3>1, <3>4 DEF WritePut
    <3>5. CASE WriteRemove
      <4>1. DeletePending
        BY <1>0, <3>5, ServedWrite DEF WriteRemove, Serve
      <4>2. active = NoRun
        BY <4>1 DEF HInv, EInv, Alone
      <4> QED BY <1>0, <2>3, <4>2
    <3> QED BY <3>2, <3>3, <3>4, <3>5
  <2>6. CASE session' = session
    BY <2>1, <2>2, <2>6 DEF Owns
  <2>7. CASE /\ session'.exists /\ session'.run = session.run
             /\ Prompts[session'.messages] = Prompts[session.messages]
    BY <1>0, <2>1, <2>2, <2>7 DEF Owns
  <2> QED BY <2>3, <2>4, <2>5, <2>6, <2>7, SavedTurns
<1> QED BY <1>1, <1>2

\* A saved chat's run was executed, hence is not admitted again, and its journal stays.
LEMMA JournalledStays ==
  ASSUME HInv, [Next]_vars
  PROVE  Journalled'
<1> USE DEF diskVars, admitVars, procVars, stopVars, ghostVars, boundVars
<1> SUFFICES ASSUME Owns'
             PROVE  /\ executed'[session'.run] # 0
                    /\ Prompts[session'.messages] = Prompts[journal'[session'.run].record.prompt]
  BY DEF Journalled
<1>0. /\ IInv /\ journal \in [Requests -> Entry] /\ executed \in [Requests -> Nat]
      /\ session \in [exists : BOOLEAN, run : Runs, messages : Seq(Message)]
  BY DEF HInv, EInv, IInv, Types, JournalType, GhostType, SessionType
<1>1. ASSUME NEW p \in Posts, WriteAdmit(p)
      PROVE  /\ executed'[session'.run] # 0
             /\ Prompts[session'.messages] = Prompts[journal'[session'.run].record.prompt]
  <2> DEFINE r == post[p].req
  <2>1. post[p].pc = "upserting" /\ r \in Requests
    BY <1>0, <1>1 DEF WriteAdmit, AtHead, IInv, Control, Sent
  <2>2. session' = [exists |-> TRUE, run |-> r, messages |-> run[r].record.prompt]
    BY <1>1 DEF WriteAdmit
  <2>3. journal' = journal /\ executed'[r] = executed[r] + 1 /\ executed[r] \in Nat
    BY <1>0, <1>1, <2>1 DEF WriteAdmit
  <2>4. journal[r].record.prompt = run[r].record.prompt
    BY <2>1 DEF HInv, Histories, Carries
  <2> QED BY <2>2, <2>3, <2>4
<1>2. CASE Owns /\ session'.run = session.run
             /\ Prompts[session'.messages] = Prompts[session.messages]
             /\ journal' = journal /\ executed' = executed
  BY <1>2 DEF HInv, Histories, Journalled
<1>3. CASE session' = session /\ ~(\E p \in Posts : WriteAdmit(p))
  <2> DEFINE r == session.run
  <2>1. Owns /\ r \in Requests
    BY <1>0, <1>3 DEF Owns, Runs
  <2>2. executed[r] # 0 /\ Prompts[session.messages] = Prompts[journal[r].record.prompt]
    BY <2>1 DEF HInv, Histories, Journalled
  <2>3. ~WriteClear
    <3>1. SUFFICES ASSUME WriteClear PROVE FALSE
      OBVIOUS
    <3>2. writes # <<>> /\ Head(writes).kind = "clear"
      BY <3>1 DEF WriteClear, Serve
    <3>3. 1 \in 1..Len(writes) /\ writes[1].kind = "clear"
      BY <1>0, <3>2, ServedWrite
    <3>4. ~session.exists
      BY <3>3 DEF HInv, Histories, Removed
    <3> QED BY <2>1, <3>4 DEF Owns
  <2>4. executed'[r] = executed[r]
    BY <1>0, <1>3, <2>1, <2>3, HistoryTurns
  <2>5. ASSUME NEW p \in Posts, post[p].req = r, StartFail(p) \/ StartCreate(p) PROVE FALSE
    <3>1. post[p].pc \in Creating
      BY <2>5 DEF StartFail, StartCreate, AtHead, Creating
    <3>2. executed[r] = 0
      BY <2>5, <3>1 DEF HInv, EInv, Executions, Unexecuted
    <3> QED BY <2>2, <3>2
  <2>6. CASE journal'[r].record = journal[r].record
    BY <1>3, <2>2, <2>4, <2>6
  <2>7. CASE journal'[r].record = run[r].record /\ run[r].phase = "saving"
    <3>1. Prompts[session.messages] = Prompts[run[r].record.prompt]
      BY <2>1, <2>7 DEF HInv, Histories, Points, Holds, Owned
    <3> QED BY <1>3, <2>2, <2>4, <2>7, <3>1
  <2> QED BY <1>0, <2>1, <2>3, <2>5, <2>6, <2>7, JournalRecords
<1>4. Owns \/ session' = session \/ \E p \in Posts : WriteAdmit(p)
  <2>1. CASE session'.run = session.run /\ session'.exists = session.exists
    BY <2>1 DEF Owns
  <2> QED BY <2>1, SavedTurns
<1> QED BY <1>1, <1>2, <1>3, <1>4, SavedTurns

\* What a step does to the session store's queue.
LEMMA QueueTurns ==
  ASSUME IInv, [Next]_vars
  PROVE  \/ writes' = <<>>
         \/ session'.exists = session.exists /\ writes' = writes
         \/ /\ session'.exists = session.exists
            /\ \E w \in Writes : w.kind # "clear" /\ writes' = Append(writes, w)
         \/ writes # <<>> /\ writes' = Tail(writes)
         \/ WriteRemove
<1> USE DEF diskVars, admitVars, procVars, stopVars, ghostVars, boundVars
<1>0. session \in [exists : BOOLEAN, run : Runs, messages : Seq(Message)]
  BY DEF IInv, Types, SessionType
<1>1. ASSUME NEW kind \in {"admit", "save", "put", "remove"}, NEW r \in Runs
      PROVE  Write(kind, r) \in Writes /\ Write(kind, r).kind # "clear"
  BY DEF Write, Writes
<1>2. CASE \E p \in Posts : Admission(p) \/ StartFail(p)
  <2>1. PICK p \in Posts : Admission(p) \/ StartFail(p)
    BY <1>2
  <2>2. CASE StartUpsert(p)
    <3>1. writes' = Append(writes, Write("admit", post[p].req)) /\ session' = session
      BY <2>2 DEF StartUpsert
    <3>2. post[p].req \in Runs
      BY DEF IInv, Types, PostType, PostState
    <3> QED BY <1>1, <3>1, <3>2
  <2>3. CASE ~StartUpsert(p)
    <3>1. \/ session' = session /\ writes' = writes
          \/ writes # <<>> /\ writes' = Tail(writes)
      BY <2>1, <2>3 DEF Admission, StartFind, StartExisting, StartBroken, StartValidate,
         StartActivate, StartCreate, WriteAdmit, StartFail, Serve
    <3> QED BY <3>1
  <2> QED BY <2>2, <2>3
<1>3. CASE \E r \in Requests : Poll(r) \/ Loader(r)
  BY <1>3 DEF Poll, Loader, LoadRead, LoadPublish, LoadFail, LoadSave
<1>4. CASE \E r \in Requests : Worker(r) \/ Stream(r)
  <2>1. PICK r \in Requests : Worker(r) \/ Stream(r)
    BY <1>4
  <2>2. CASE SaveSession(r)
    <3>1. /\ session' = session
          /\ writes' = writes \/ writes' = Append(writes, Write("save", r))
      BY <2>2 DEF SaveSession
    <3>2. r \in Runs
      BY DEF Runs
    <3> QED BY <1>1, <3>1, <3>2
  <2>3. CASE Worker(r) /\ ~SaveSession(r)
    BY <2>3, Zenon DEF Worker, Push, AbortSeen, ToolEffect, ToolRecord, Settle, CloseEvents, Save, End
  <2>4. CASE Stream(r)
    BY <2>4, Zenon DEF Stream, Emit, EmitFail, StreamEnd, ToolStart
  <2> QED BY <2>1, <2>2, <2>3, <2>4
<1>5. CASE \E r \in Requests : (\E b \in BOOLEAN : Stop(r, b)) \/ StopFind(r) \/ StopDone(r)
  BY <1>5 DEF Stop, StopFind, StopDone
<1>6. CASE Put \/ DeleteEnqueue
  <2>1. /\ session' = session
        /\ \E kind \in {"put", "remove"} : writes' = Append(writes, Write(kind, NoRun))
    BY <1>6 DEF Put, DeleteEnqueue
  <2>2. NoRun \in Runs
    BY DEF Runs
  <2> QED BY <1>1, <2>1, <2>2
<1>7. CASE WriteSave \/ WritePut \/ WriteClear
  BY <1>7 DEF WriteSave, WritePut, WriteClear, Serve
<1>8. CASE BootSave
  <2>1. session'.exists = session.exists
    <3> DEFINE m == RunMessages(session.run, journal[session.run].record.prompt,
                                journal[session.run].chunks)
    <3>1. session' = session \/ session' = [session EXCEPT !.messages = m]
      BY <1>8 DEF BootSave
    <3> HIDE DEF m
    <3> QED BY <1>0, <3>1
  <2>2. writes' = writes
    BY <1>8 DEF BootSave
  <2> QED BY <2>1, <2>2
<1>9. CASE DeleteCheck \/ CloseBegin \/ Closing \/ BootLoad
  BY <1>9 DEF DeleteCheck, CloseBegin, Closing, CloseWait, CloseAbort, CloseDone, BootLoad
<1>10. CASE Restart
  BY <1>10 DEF Restart
<1>11. CASE \E p \in Posts, r \in Requests : \E m \in Submittable(r) : Submit(p, r, m)
  BY <1>11 DEF Submit
<1>12. CASE UNCHANGED vars
  BY <1>12 DEF vars
<1> QED BY <1>2, <1>3, <1>4, <1>5, <1>6, <1>7, <1>8, <1>9, <1>10, <1>11, <1>12 DEF Next, Store

\* The chat is not saved between its removal and that of its journals.
LEMMA RemovedStays ==
  ASSUME HInv, [Next]_vars
  PROVE  Removed'
<1>0. IInv /\ writes \in Seq(Writes) /\ Removed
  BY DEF HInv, EInv, Histories, IInv, Types, WritesType
<1>1. CASE writes' = <<>>
  BY <1>1 DEF Removed
<1>2. CASE session'.exists = session.exists /\ writes' = writes
  BY <1>0, <1>2 DEF Removed
<1>3. ASSUME session'.exists = session.exists,
             NEW w \in Writes, w.kind # "clear", writes' = Append(writes, w)
      PROVE  Removed'
  <2>1. \A i \in 1..Len(writes') : /\ i \in 1..Len(writes) => writes'[i] = writes[i]
                                   /\ i \notin 1..Len(writes) => writes'[i] = w
    BY <1>0, <1>3
  <2> QED BY <1>0, <1>3, <2>1 DEF Removed
<1>4. CASE writes # <<>> /\ writes' = Tail(writes)
  <2>1. \A i \in 1..Len(writes') : i + 1 \in 1..Len(writes) /\ writes'[i] = writes[i + 1] /\ i + 1 # 1
    BY <1>0, <1>4
  <2> QED BY <1>0, <2>1 DEF Removed
<1>5. CASE WriteRemove
  <2>1. ~session'.exists /\ writes # <<>>
    BY <1>5 DEF WriteRemove, NoSession, Serve
  <2>2. CASE writes' = Tail(writes)
    BY <1>4, <2>1, <2>2
  <2>3. CASE writes' = <<Write("clear", NoRun)>> \o Tail(writes)
    <3>1. \A i \in 1..Len(writes') : i # 1 => i \in 1..Len(writes) /\ writes'[i] = writes[i]
      <4> DEFINE w == Write("clear", NoRun)
      <4>1. w \in Writes
        BY DEF Write, Writes, Runs
      <4> HIDE DEF w
      <4>2. writes' = <<w>> \o Tail(writes)
        BY <2>3 DEF w
      <4> QED BY <1>0, <2>1, <4>1, <4>2
    <3> QED BY <1>0, <2>1, <3>1 DEF Removed
  <2> QED BY <1>5, <2>2, <2>3 DEF WriteRemove
<1> QED BY <1>0, <1>1, <1>2, <1>3, <1>4, <1>5, QueueTurns

\* The first state, and every step.
LEMMA HistoriesInvariant ==
  ASSUME NoRacedDelete
  PROVE  Spec => []HInv
<1>1. Init => Histories
  <2> SUFFICES ASSUME Init PROVE Histories
    OBVIOUS
  <2>1. ASSUME NEW p \in Posts
        PROVE  Keys(post[p].messages) = Keys(post[p].print) /\ Extends(p) /\ Carries(p)
    <3>1. post[p] = Unsent
      BY DEF Init
    <3>2. post[p].pc = "unsent" /\ post[p].messages = post[p].print
      BY <3>1 DEF Unsent
    <3> QED BY <3>2 DEF Extends, Carries, Creating
  <2>2. ASSUME NEW r \in Requests
        PROVE  Keys(run[r].record.prompt) = Keys(run[r].record.print) /\ Points(r)
    <3>1. run[r] = Idle
      BY DEF Init
    <3>2. run[r].phase = "none" /\ run[r].record.prompt = run[r].record.print
      BY <3>1 DEF Idle, NoRecord
    <3> QED BY <3>2 DEF Points, Holds, Owned
  <2>3. Journalled /\ Removed
    BY DEF Init, NoSession, Journalled, Removed, Owns
  <2> QED BY <2>1, <2>2, <2>3 DEF Histories, Answered
<1>2. IInv /\ (Alone /\ Executions) /\ Histories /\ [Next]_vars /\ IInv' => Histories'
  <2> SUFFICES ASSUME HInv, [Next]_vars, IInv' PROVE Histories'
    BY DEF HInv, EInv
  <2> QED BY AnsweredStays, ExtendsStays, CarriesStays, PointsStays, JournalledStays, RemovedStays
      DEF Histories
<1>3. Spec => [](Alone /\ Executions)
  BY ExecutionsInvariant
<1>4. Spec => []Histories
  BY <1>1, <1>2, <1>3, Invariant, PTL DEF Spec
<1>5. IInv /\ (Alone /\ Executions) /\ Histories => HInv
  BY DEF HInv, EInv
<1> QED BY <1>3, <1>4, <1>5, Invariant, PTL

\* HistoryKept: whatever stale tabs, browsers' saves, retries, restarts and older runs do,
\* a saved prompt is neither lost nor moved while the server owns the chat, and a new run
\* answers the prompts its tab submitted.
THEOREM HistoriesStay ==
  ASSUME NoRacedDelete
  PROVE  Spec => HistoryKept
<1>1. HInv /\ [Next]_vars =>
        [Owns /\ session'.exists =>
           /\ IsPrefix(Prompts[session.messages], Prompts[session'.messages])
           /\ session'.run # session.run =>
                Prompts[session'.messages] = Prompts[run[session'.run].record.print]]_<<session, run>>
  <2> SUFFICES ASSUME HInv, [Next]_vars, Owns, session'.exists
               PROVE  /\ IsPrefix(Prompts[session.messages], Prompts[session'.messages])
                      /\ session'.run # session.run =>
                           Prompts[session'.messages] = Prompts[run[session'.run].record.print]
    OBVIOUS
  <2>0. /\ IInv /\ session \in [exists : BOOLEAN, run : Runs, messages : Seq(Message)]
        /\ run \in [Requests -> RunState]
    BY DEF HInv, EInv, IInv, Types, SessionType, RunType
  <2>1. Prompts[session.messages] \in Seq(Requests)
    BY <2>0, PromptsType
  <2>2. IsPrefix(Prompts[session.messages], Prompts[session.messages])
    BY <2>1, PrefixIs DEF Begins
  <2>3. CASE session'.run = session.run /\ Prompts[session'.messages] = Prompts[session.messages]
    BY <2>2, <2>3
  <2>4. ASSUME NEW p \in Posts, WriteAdmit(p)
        PROVE  /\ IsPrefix(Prompts[session.messages], Prompts[session'.messages])
               /\ Prompts[session'.messages] = Prompts[run[session'.run].record.print]
    <3> DEFINE r == post[p].req
    <3>1. post[p].pc = "upserting" /\ r \in Requests
      BY <2>0, <2>4 DEF WriteAdmit, AtHead, IInv, Control, Sent
    <3>2. session' = [exists |-> TRUE, run |-> r, messages |-> run[r].record.prompt]
      BY <2>4 DEF WriteAdmit
    <3>3. run[r].record.prompt \in Seq(Message) /\ run[r].record.print \in Seq(Message)
      BY <2>0, <3>1 DEF RunState, Record
    <3>4. /\ run[r].record.prompt = post[p].messages
          /\ IsPrefix(Prompts[session.messages], Prompts[post[p].messages])
          /\ Keys(run[r].record.prompt) = Keys(run[r].record.print)
      BY <3>1 DEF HInv, Histories, Extends, Carries, Answered, Creating
    <3>5. Prompts[run[r].record.prompt] = Prompts[run[r].record.print]
      BY <3>3, <3>4, PromptsAlike
    <3> QED BY <3>2, <3>4, <3>5
  <2>5. CASE ~Owns' /\ ~(\E p \in Posts : WriteAdmit(p))
    <3>1. session' # session
      BY <2>5 DEF Owns
    <3>2. CASE WriteSave
      <4>1. writes # <<>> /\ Serve("save")
        BY <3>2 DEF WriteSave, Serve
      <4>2. session'.run = Head(writes).run /\ Head(writes).run \in Requests
        BY <2>0, <3>1, <3>2, <4>1, ServedWrite DEF WriteSave
      <4> QED BY <2>5, <4>2, RequestsAssumption DEF Owns
    <3>3. CASE WritePut
      BY <3>1, <3>3 DEF WritePut
    <3>4. CASE WriteRemove
      BY <3>4 DEF WriteRemove, NoSession
    <3>5. CASE BootSave
      <4>1. session.run \in Requests
        BY <2>0, <3>5 DEF BootSave, IInv, Control, Booting
      <4> DEFINE m == RunMessages(session.run, journal[session.run].record.prompt,
                                  journal[session.run].chunks)
      <4>2. session' = [session EXCEPT !.messages = m]
        BY <3>1, <3>5 DEF BootSave
      <4> HIDE DEF m
      <4>3. session'.run = session.run
        BY <2>0, <4>2
      <4> QED BY <2>5, <4>1, <4>3, RequestsAssumption DEF Owns
    <3> QED BY <2>5, <3>1, <3>2, <3>3, <3>4, <3>5, ChatTurns
  <2>6. CASE session' = session
    BY <2>2, <2>6
  <2> QED BY <2>3, <2>4, <2>5, <2>6, SavedTurns
<1> QED BY <1>1, HistoriesInvariant, PTL DEF Spec, HistoryKept
=============================================================================
