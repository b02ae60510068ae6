----------------------------- MODULE WorkProofs -----------------------------
(***************************************************************************)
(* Theorems about BackgroundJobs, for any calls, chats, limits and bounds, *)
(* and about Work: its background tools are those of BackgroundJobs, its   *)
(* schedules run once and in order, and the parts are kept apart.          *)
(***************************************************************************)
EXTENDS Work, FiniteSetTheorems, TLAPS

-----------------------------------------------------------------------------
(* The two modules count the same.                                         *)

\* The cardinality of BackgroundJobs is that of FiniteSets.
LEMMA Counts == \A s : B!Cardinality(s) = Cardinality(s)
  BY DEF B!Cardinality, Cardinality

-----------------------------------------------------------------------------
(* The inductive invariant.                                                *)

Execs == {"none", "running", "reporting", "completed", "failed"}
ToolSaves == {"report", "completed", "failed"}
Kinds == {"start", "cancel"} \cup ToolSaves
Hosts == {"ready", "closing", "closed", "failed", "down", "recovering", "broken"}

RecordType == record \in [Calls -> B!Statuses]
EntryType == entry \in [Calls -> B!Entry]
QueueType == queue \in Seq(B!Ops) /\ writing \in BOOLEAN
CallsType == calls \in [Calls -> Nat]
HostType == closed \in BOOLEAN /\ host \in Hosts

\* What the disk and the memory say of one job: a job in memory has a record, one that
\* is executed has a record that is not final until close() was called, one that is
\* being cancelled is aborted, and one without a record was never executed.
Sound(c) ==
  /\ entry[c].status # "absent" => record[c] # "absent"
  /\ entry[c].active \/ entry[c].exec # "none" => entry[c].status # "absent"
  /\ entry[c].status \in B!Live => record[c] \in B!Live
  /\ entry[c].exec # "none" /\ ~closed => record[c] \in B!Live
  /\ entry[c].exec \in {"running", "reporting"} /\ ~closed => entry[c].status \in B!Live
  /\ entry[c].status = "cancelling" => entry[c].aborted
  /\ record[c] = "cancelling" /\ entry[c].exec # "none" => entry[c].aborted
  /\ record[c] = "absent" => calls[c] = 0
  /\ calls[c] <= 1

Awaits(kind) == IF kind = "report" THEN "reporting" ELSE kind

\* An execution waits for the one save it has put in the queue.
Queued ==
  /\ \A i \in 1..Len(queue) : queue[i].kind \in ToolSaves =>
       entry[queue[i].call].exec = Awaits(queue[i].kind)
  /\ \A i, j \in 1..Len(queue) :
       queue[i].kind \in ToolSaves /\ queue[j].kind \in ToolSaves /\ queue[i].call = queue[j].call => i = j
  /\ \A i \in 1..Len(queue) : queue[i].kind = "close" => closed

\* The write the queue waits for is of a record that is not final.
Landing ==
  writing =>
    /\ queue # <<>>
    /\ queue[1].kind = "start" => record[queue[1].call] = "absent" /\ entry[queue[1].call].lease
    /\ queue[1].kind \in {"cancel"} \cup ToolSaves => record[queue[1].call] \in B!Live
    /\ queue[1].kind = "cancel" => entry[queue[1].call].aborted
    /\ queue[1].kind = "report" => entry[queue[1].call].status \in B!Live
    /\ queue[1].kind \in {"completed", "failed"} =>
         entry[queue[1].call].status \in {"cancelled", queue[1].kind}
    /\ queue[1].kind = "completed" /\ entry[queue[1].call].status = "completed" =>
         record[queue[1].call] = "running"

\* A process that is not up has nothing in memory.
Gone ==
  host \in {"down", "recovering", "broken"} =>
    queue = <<>> /\ ~writing /\ ~closed /\ \A c \in Calls : entry[c] = B!NoEntry

IInv ==
  /\ RecordType /\ EntryType /\ QueueType /\ CallsType /\ HostType
  /\ (\A c \in Calls : Sound(c)) /\ Queued /\ Landing /\ Gone

-----------------------------------------------------------------------------
\* The invariant holds at first.
LEMMA InitSound == B!Init => IInv
<1> SUFFICES ASSUME B!Init PROVE IInv
  OBVIOUS
<1>1. B!NoEntry \in B!Entry
  BY DEF B!NoEntry, B!Entry, B!Statuses, B!Live, B!Terminal
<1>2. EntryType /\ \A c \in Calls : entry[c] = B!NoEntry
  BY <1>1 DEF B!Init, EntryType
<1>3. RecordType
  BY DEF B!Init, RecordType, B!Statuses
<1>4. QueueType /\ CallsType
  <2>1. queue \in Seq(B!Ops)
    BY DEF B!Init
  <2>2. writing \in BOOLEAN
    BY DEF B!Init
  <2> QED BY <2>1, <2>2 DEF B!Init, QueueType, CallsType
<1>5. HostType
  BY DEF B!Init, HostType, Hosts
<1>6. \A c \in Calls : Sound(c)
  BY <1>2 DEF B!Init, Sound, B!NoEntry, B!Live
<1>7. Queued /\ Landing /\ Gone
  BY DEF B!Init, Queued, Landing, Gone
<1> QED BY <1>2, <1>3, <1>4, <1>5, <1>6, <1>7 DEF IInv

-----------------------------------------------------------------------------
(* The queue.                                                               *)

\* The head of the queue.
LEMMA HeadIs ==
  ASSUME IInv, queue # <<>>
  PROVE  /\ Len(queue) \in Nat \ {0} /\ 1 \in 1..Len(queue) /\ queue[1] \in B!Ops
         /\ queue[1].kind \in Kinds \cup {"close"}
         /\ queue[1].kind # "close" => queue[1].call \in Calls
  BY DEF IInv, QueueType, B!Ops, Kinds, ToolSaves

\* A call of the queue.
LEMMA CallIs ==
  ASSUME IInv, NEW i \in 1..Len(queue), queue[i].kind # "close"
  PROVE  queue[i].call \in Calls
  BY DEF IInv, QueueType, B!Ops

\* A process whose queue is not empty, or that executes a job, is up.
LEMMA Up ==
  ASSUME IInv, queue # <<>> \/ \E c \in Calls : entry[c].exec # "none"
  PROVE  host \notin {"down", "recovering", "broken"}
  BY DEF IInv, Gone, B!NoEntry

\* What a queue becomes when an operation is added.
LEMMA Appended ==
  ASSUME IInv, NEW op \in B!Ops, queue' = Append(queue, op)
  PROVE  /\ queue' \in Seq(B!Ops) /\ Len(queue') = Len(queue) + 1 /\ Len(queue) \in Nat
         /\ queue'[Len(queue) + 1] = op
         /\ \A i \in 1..Len(queue) : queue'[i] = queue[i]
         /\ \A i \in 1..Len(queue') : i \in 1..Len(queue) \/ i = Len(queue) + 1
  BY DEF IInv, QueueType

\* What a queue becomes when its first operation is taken.
LEMMA Taken ==
  ASSUME IInv, queue # <<>>, queue' = Tail(queue)
  PROVE  /\ queue' \in Seq(B!Ops) /\ Len(queue') \in Nat
         /\ \A i \in 1..Len(queue') :
              i + 1 \in 1..Len(queue) /\ i + 1 # 1 /\ queue'[i] = queue[i + 1]
  BY DEF IInv, QueueType

\* The queue stays, and its executions do.
LEMMA QueuedStays ==
  ASSUME IInv, queue' = queue, closed => closed',
         \A i \in 1..Len(queue) : queue[i].kind \in ToolSaves =>
           entry'[queue[i].call].exec = entry[queue[i].call].exec
  PROVE  Queued'
  BY DEF IInv, Queued

\* The head is taken: executions of other jobs stay.
LEMMA QueuedTaken ==
  ASSUME IInv, queue # <<>>, queue' = Tail(queue), closed' = closed,
         \A c \in Calls : entry'[c].exec # entry[c].exec => c = queue[1].call,
         queue[1].kind \in ToolSaves \/ \A c \in Calls : entry'[c].exec # entry[c].exec =>
           entry[c].exec \notin {"reporting", "completed", "failed"}
  PROVE  Queued'
<1> USE Taken, HeadIs
<1>1. ASSUME NEW i \in 1..Len(queue)', queue'[i].kind \in ToolSaves
      PROVE  entry'[queue'[i].call].exec = Awaits(queue'[i].kind)
  <2>1. /\ i + 1 \in 1..Len(queue) /\ i + 1 # 1 /\ queue[i + 1].kind \in ToolSaves
        /\ queue'[i] = queue[i + 1]
    BY <1>1
  <2>2. queue[i + 1].call \in Calls
    BY <2>1, CallIs DEF ToolSaves
  <2>3. entry[queue[i + 1].call].exec = Awaits(queue[i + 1].kind)
    BY <2>1 DEF IInv, Queued
  <2>4. entry[queue[i + 1].call].exec \in {"reporting", "completed", "failed"}
    BY <2>1, <2>3 DEF Awaits, ToolSaves
  <2>5. queue[1].kind \in ToolSaves => queue[i + 1].call # queue[1].call
    BY <2>1 DEF IInv, Queued
  <2> QED BY <2>1, <2>2, <2>3, <2>4, <2>5
<1>2. ASSUME NEW i \in 1..Len(queue)', NEW j \in 1..Len(queue)', queue'[i].kind \in ToolSaves,
             queue'[j].kind \in ToolSaves, queue'[i].call = queue'[j].call
      PROVE  i = j
  BY <1>2 DEF IInv, Queued
<1>3. \A i \in 1..Len(queue)' : queue'[i].kind = "close" => closed'
  BY DEF IInv, Queued
<1> QED BY <1>1, <1>2, <1>3 DEF Queued

\* A save, a start, a cancellation or close() comes last.
LEMMA QueuedAppended ==
  ASSUME IInv, NEW op \in B!Ops, queue' = Append(queue, op), closed => closed',
         op.kind = "close" => closed',
         op.kind \in ToolSaves =>
           /\ entry'[op.call].exec = Awaits(op.kind)
           /\ entry[op.call].exec \notin {"reporting", "completed", "failed"},
         \A c \in Calls : entry'[c].exec # entry[c].exec => op.kind \in ToolSaves /\ c = op.call
  PROVE  Queued'
<1> USE Appended
<1>1. ASSUME NEW i \in 1..Len(queue), queue[i].kind \in ToolSaves
      PROVE  /\ queue[i].call \in Calls
             /\ entry[queue[i].call].exec = Awaits(queue[i].kind)
             /\ entry'[queue[i].call].exec = Awaits(queue[i].kind)
             /\ op.kind \in ToolSaves => queue[i].call # op.call
  <2>1. queue[i].call \in Calls
    BY <1>1, CallIs DEF ToolSaves
  <2>2. entry[queue[i].call].exec = Awaits(queue[i].kind)
    BY <1>1 DEF IInv, Queued
  <2>3. entry[queue[i].call].exec \in {"reporting", "completed", "failed"}
    BY <1>1, <2>2 DEF Awaits, ToolSaves
  <2> QED BY <2>1, <2>2, <2>3
<1>2. ASSUME NEW i \in 1..Len(queue)', queue'[i].kind \in ToolSaves
      PROVE  entry'[queue'[i].call].exec = Awaits(queue'[i].kind)
  BY <1>1, <1>2
<1>3. ASSUME NEW i \in 1..Len(queue)', NEW j \in 1..Len(queue)', queue'[i].kind \in ToolSaves,
             queue'[j].kind \in ToolSaves, queue'[i].call = queue'[j].call
      PROVE  i = j
  <2>1. CASE i \in 1..Len(queue) /\ j \in 1..Len(queue)
    BY <1>3, <2>1 DEF IInv, Queued
  <2>2. CASE i = Len(queue) + 1 \/ j = Len(queue) + 1
    BY <1>1, <1>3, <2>2
  <2> QED BY <2>1, <2>2
<1>4. \A i \in 1..Len(queue)' : queue'[i].kind = "close" => closed'
  BY DEF IInv, Queued
<1> QED BY <1>2, <1>3, <1>4 DEF Queued

\* What waits for its write stays the head of a queue that grows.
LEMMA LandingStays ==
  ASSUME IInv, queue' = queue \/ \E op \in B!Ops : queue' = Append(queue, op),
         writing' = writing, record' = record,
         \A c \in Calls : /\ entry'[c].status = entry[c].status /\ entry'[c].lease = entry[c].lease
                          /\ entry[c].aborted => entry'[c].aborted
  PROVE  Landing'
<1> SUFFICES ASSUME writing' PROVE Landing'
  BY DEF Landing
<1>1. queue # <<>>
  BY DEF IInv, Landing
<1>2. queue' # <<>> /\ queue'[1] = queue[1]
  BY <1>1, Appended, HeadIs DEF IInv, QueueType
<1>3. queue[1].kind # "close" => queue[1].call \in Calls
  BY <1>1, HeadIs
<1> QED BY <1>1, <1>2, <1>3 DEF IInv, Landing, ToolSaves

\* An operation that is done leaves the queue.
LEMMA Ends ==
  ASSUME IInv, queue # <<>>, queue' = Tail(queue), writing' = FALSE, closed' = closed,
         host' \in {host, "closed", "failed"}
  PROVE  QueueType' /\ HostType' /\ Landing' /\ Gone'
<1>1. host \notin {"down", "recovering", "broken"}
  BY Up
<1>2. QueueType' /\ HostType'
  BY Taken DEF IInv, QueueType, HostType, Hosts
<1>3. Landing' /\ Gone'
  BY <1>1 DEF Landing, Gone
<1> QED BY <1>2, <1>3

\* What is done to one job leaves the others.
LEMMA OthersStay ==
  ASSUME IInv, NEW c \in Calls, Sound(c)', closed' = closed,
         \A d \in Calls : d # c => /\ entry'[d] = entry[d] /\ record'[d] = record[d]
                                   /\ calls'[d] = calls[d]
  PROVE  \A d \in Calls : Sound(d)'
<1> TAKE d \in Calls
<1>1. CASE d = c
  BY <1>1
<1>2. CASE d # c
  BY <1>2 DEF IInv, Sound
<1> QED BY <1>1, <1>2

\* An entry that is replaced.
LEMMA Replaced ==
  ASSUME EntryType, NEW c \in Calls, NEW e \in B!Entry, entry' = [entry EXCEPT ![c] = e]
  PROVE  /\ entry' \in [Calls -> B!Entry] /\ entry'[c] = e
         /\ \A d \in Calls : d # c => entry'[d] = entry[d]
  BY DEF EntryType

-----------------------------------------------------------------------------
(* start().                                                                 *)

\* An operation has its kind and its call.
LEMMA OpIs ==
  ASSUME NEW kind \in Kinds, NEW c \in Calls
  PROVE  B!Op(kind, c) \in B!Ops /\ B!Op(kind, c).kind = kind /\ B!Op(kind, c).call = c
  BY DEF B!Op, B!Ops, Kinds, ToolSaves

\* Asking for a start or a cancellation adds an operation.
LEMMA StartKeeps ==
  ASSUME IInv, NEW c \in Calls, B!Start(c) \/ B!Cancel(c)
  PROVE  IInv'
<1>1. PICK kind \in {"start", "cancel"} : queue' = Append(queue, B!Op(kind, c))
  BY DEF B!Start, B!Cancel, B!Enqueue
<1> DEFINE op == B!Op(kind, c)
<1>2. op \in B!Ops /\ op.kind = kind
  BY OpIs DEF Kinds
<1>3. /\ UNCHANGED <<record, entry, writing, closed, host, calls>>
      /\ host \in {"ready", "closing"}
  BY DEF B!Start, B!Cancel
<1>4. Queued'
  BY <1>1, <1>2, <1>3, QueuedAppended DEF ToolSaves
<1>5. Landing'
  BY <1>1, <1>2, <1>3, LandingStays
<1>6. QueueType'
  BY <1>1, <1>2, <1>3, Appended DEF IInv, QueueType
<1> QED BY <1>3, <1>4, <1>5, <1>6 DEF IInv, RecordType, EntryType, CallsType, HostType, Sound, Gone

\* A start is admitted or refused.
LEMMA StartBeginKeeps == IInv /\ B!StartBegin => IInv'
<1> SUFFICES ASSUME IInv, B!StartBegin PROVE IInv'
  OBVIOUS
<1> DEFINE c == queue[1].call
<1>1. /\ queue # <<>> /\ ~writing /\ queue[1].kind = "start"
      /\ UNCHANGED <<record, closed, host, calls>>
  BY DEF B!StartBegin, B!Begins, B!AtHead
<1>2. c \in Calls /\ host \notin {"down", "recovering", "broken"}
  BY <1>1, HeadIs, Up
<1>3. CASE ~closed /\ B!Admits(c)
  <2> DEFINE e == [B!NoEntry EXCEPT !.lease = TRUE]
  <2>1. /\ entry' = [entry EXCEPT ![c] = e] /\ writing' /\ queue' = queue
        /\ record[c] = "absent"
    BY <1>3 DEF B!StartBegin, B!Admits
  <2>2. /\ e \in B!Entry /\ e.status = "absent" /\ ~e.active /\ e.exec = "none" /\ e.lease
    BY DEF B!NoEntry, B!Entry, B!Statuses
  <2>3. /\ entry' \in [Calls -> B!Entry] /\ entry'[c] = e
        /\ \A d \in Calls : d # c => entry'[d] = entry[d]
    BY <1>2, <2>1, <2>2 DEF IInv, EntryType
  <2>4. entry[c].exec = "none"
    BY <1>2, <2>1 DEF IInv, Sound
  <2>5. \A d \in Calls : entry'[d].exec = entry[d].exec
    BY <2>2, <2>3, <2>4
  <2>6. Queued'
    <3>1. \A i \in 1..Len(queue) : queue[i].kind \in ToolSaves => queue[i].call \in Calls
      BY CallIs DEF ToolSaves
    <3> QED BY <1>1, <2>1, <2>5, <3>1, QueuedStays
  <2>7. \A d \in Calls : Sound(d)'
    <3> TAKE d \in Calls
    <3>1. CASE d = c
      BY <1>1, <1>2, <2>1, <2>2, <2>3, <3>1 DEF IInv, Sound, B!Live
    <3>2. CASE d # c
      BY <1>1, <2>3, <3>2 DEF IInv, Sound
    <3> QED BY <3>1, <3>2
  <2>8. Landing'
    BY <1>1, <2>1, <2>2, <2>3 DEF Landing, ToolSaves
  <2>9. QueueType' /\ EntryType' /\ RecordType' /\ CallsType' /\ HostType' /\ Gone'
    BY <1>1, <1>2, <2>1, <2>3 DEF IInv, QueueType, EntryType, RecordType, CallsType, HostType, Gone
  <2> QED BY <2>6, <2>7, <2>8, <2>9 DEF IInv
<1>4. CASE ~(~closed /\ B!Admits(c))
  <2>1. queue' = Tail(queue) /\ UNCHANGED <<entry, writing>>
    BY <1>4 DEF B!StartBegin
  <2>2. Queued'
    BY <1>1, <2>1, QueuedTaken
  <2>3. QueueType' /\ Landing' /\ Gone'
    BY <1>1, <1>2, <2>1, Taken DEF IInv, QueueType, Landing, Gone
  <2> QED BY <1>1, <2>1, <2>2, <2>3 DEF IInv, RecordType, EntryType, CallsType, HostType, Sound
<1> QED BY <1>3, <1>4

\* Its record is written and its work begins.
LEMMA StartWriteKeeps == IInv /\ B!StartWrite => IInv'
<1> SUFFICES ASSUME IInv, B!StartWrite PROVE IInv'
  OBVIOUS
<1> DEFINE c == queue[1].call
<1>1. /\ queue # <<>> /\ writing /\ queue[1].kind = "start"
      /\ queue' = Tail(queue) /\ writing' = FALSE /\ UNCHANGED <<closed, host>>
  BY DEF B!StartWrite, B!Lands, B!AtHead
<1>2. c \in Calls /\ host \notin {"down", "recovering", "broken"}
  BY <1>1, HeadIs, Up
<1>3. record[c] = "absent" /\ entry[c].exec = "none" /\ calls[c] = 0
  BY <1>1, <1>2 DEF IInv, Landing, Sound
<1>4. entry' = [entry EXCEPT ![c] = [entry[c] EXCEPT !.status = "running", !.active = TRUE,
                                                     !.exec = "running"]]
  BY DEF B!StartWrite
<1>5. /\ entry' \in [Calls -> B!Entry]
      /\ entry'[c].status = "running" /\ entry'[c].active /\ entry'[c].exec = "running"
      /\ \A d \in Calls : d # c => entry'[d] = entry[d]
  <2> DEFINE x == [entry[c] EXCEPT !.status = "running", !.active = TRUE, !.exec = "running"]
  <2>1. entry \in [Calls -> B!Entry]
    BY DEF IInv, EntryType
  <2>2. x \in B!Entry /\ x.status = "running" /\ x.active /\ x.exec = "running"
    BY <1>2, <2>1 DEF B!Entry, B!Statuses, B!Live
  <2>3. entry' = [entry EXCEPT ![c] = x]
    BY <1>4
  <2> HIDE DEF x
  <2> QED BY <1>2, <2>1, <2>2, <2>3
<1>6. /\ record' \in [Calls -> B!Statuses] /\ record'[c] = "running"
      /\ \A d \in Calls : d # c => record'[d] = record[d]
  BY <1>2 DEF B!StartWrite, IInv, RecordType, B!Statuses, B!Live
<1>7. /\ calls' \in [Calls -> Nat] /\ calls'[c] = 1
      /\ \A d \in Calls : d # c => calls'[d] = calls[d]
  BY <1>2, <1>3 DEF B!StartWrite, IInv, CallsType
<1>8. Queued'
  BY <1>1, <1>3, <1>5, QueuedTaken
<1>9. \A d \in Calls : Sound(d)'
  <2> TAKE d \in Calls
  <2>1. CASE d = c
    BY <1>5, <1>6, <1>7, <2>1 DEF Sound, B!Live
  <2>2. CASE d # c
    BY <1>1, <1>5, <1>6, <1>7, <2>2 DEF IInv, Sound
  <2> QED BY <2>1, <2>2
<1>10. QueueType' /\ HostType'
  BY <1>1, Taken DEF IInv, QueueType, HostType
<1>11. Landing' /\ Gone'
  BY <1>1, <1>2 DEF Landing, Gone
<1> QED BY <1>5, <1>6, <1>7, <1>8, <1>9, <1>10, <1>11 DEF IInv, RecordType, EntryType, CallsType

\* Its record cannot be written.
LEMMA StartFaultKeeps == IInv /\ B!StartFault => IInv'
<1> SUFFICES ASSUME IInv, B!StartFault PROVE IInv'
  OBVIOUS
<1> DEFINE c == queue[1].call
<1>1. /\ queue # <<>> /\ writing /\ queue[1].kind = "start"
      /\ queue' = Tail(queue) /\ writing' = FALSE /\ UNCHANGED <<record, closed, host, calls>>
      /\ entry' = [entry EXCEPT ![c] = B!NoEntry]
  BY DEF B!StartFault, B!Lands, B!AtHead
<1>2. c \in Calls /\ host \notin {"down", "recovering", "broken"}
  BY <1>1, HeadIs, Up
<1>3. entry[c].exec = "none"
  BY <1>1, <1>2 DEF IInv, Landing, Sound
<1>4. /\ B!NoEntry \in B!Entry /\ B!NoEntry.status = "absent" /\ ~B!NoEntry.active
      /\ B!NoEntry.exec = "none"
  BY DEF B!NoEntry, B!Entry, B!Statuses
<1>5. /\ entry' \in [Calls -> B!Entry] /\ entry'[c] = B!NoEntry
      /\ \A d \in Calls : d # c => entry'[d] = entry[d]
  BY <1>1, <1>2, <1>4 DEF IInv, EntryType
<1>6. Queued'
  BY <1>1, <1>3, <1>4, <1>5, QueuedTaken
<1>7. \A d \in Calls : Sound(d)'
  <2> TAKE d \in Calls
  <2>1. CASE d = c
    BY <1>1, <1>4, <1>5, <2>1 DEF IInv, Sound, B!Live
  <2>2. CASE d # c
    BY <1>1, <1>5, <2>2 DEF IInv, Sound
  <2> QED BY <2>1, <2>2
<1>8. QueueType' /\ HostType' /\ RecordType' /\ CallsType'
  BY <1>1, Taken DEF IInv, QueueType, HostType, RecordType, CallsType
<1>9. Landing' /\ Gone'
  BY <1>1, <1>2 DEF Landing, Gone
<1> QED BY <1>5, <1>6, <1>7, <1>8, <1>9 DEF IInv, EntryType

-----------------------------------------------------------------------------
(* executeBackground().                                                     *)

\* The entry of a job whose execution has come to another point.
LEMMA ExecSet ==
  ASSUME NEW e \in B!Entry, NEW x \in Execs
  PROVE  /\ [e EXCEPT !.exec = x] \in B!Entry /\ [e EXCEPT !.exec = x].exec = x
         /\ [e EXCEPT !.exec = x].status = e.status /\ [e EXCEPT !.exec = x].active = e.active
         /\ [e EXCEPT !.exec = x].aborted = e.aborted /\ [e EXCEPT !.exec = x].lease = e.lease
  BY DEF B!Entry, Execs

\* A released entry no longer counts.
LEMMA ReleasedIs ==
  ASSUME NEW e \in B!Entry
  PROVE  /\ B!Released(e) \in B!Entry /\ B!Released(e).exec = "none" /\ ~B!Released(e).active
         /\ B!Released(e).status = e.status /\ B!Released(e).aborted = e.aborted
  BY DEF B!Released, B!Entry

\* The work reports or returns, and its save is queued.
LEMMA ReturnKeeps ==
  ASSUME IInv, NEW c \in Calls, B!Report(c) \/ B!Return(c)
  PROVE  IInv'
<1>1. PICK kind \in ToolSaves :
        /\ queue' = Append(queue, B!Op(kind, c))
        /\ entry' = [entry EXCEPT ![c] = [entry[c] EXCEPT !.exec = Awaits(kind)]]
  <2>1. CASE B!Report(c)
    BY <2>1 DEF B!Report, B!Enqueue, Awaits, ToolSaves
  <2>2. CASE B!Return(c)
    BY <2>2 DEF B!Return, B!Enqueue, Awaits, ToolSaves
  <2> QED BY <2>1, <2>2
<1>2. /\ entry[c].exec = "running" /\ UNCHANGED <<record, writing, closed, host, calls>>
  BY DEF B!Report, B!Return
<1> DEFINE op == B!Op(kind, c)
           e == [entry[c] EXCEPT !.exec = Awaits(kind)]
<1>3. op \in B!Ops /\ op.kind = kind /\ op.call = c
  BY OpIs DEF Kinds
<1>4. Awaits(kind) \in Execs \ {"none", "running"}
  BY DEF Awaits, ToolSaves, Execs
<1>5. entry[c] \in B!Entry
  BY DEF IInv, EntryType
<1>6. /\ e \in B!Entry /\ e.exec = Awaits(kind) /\ e.status = entry[c].status
      /\ e.active = entry[c].active /\ e.aborted = entry[c].aborted /\ e.lease = entry[c].lease
  BY <1>4, <1>5, ExecSet
<1> HIDE DEF e, op
<1>7. /\ entry' \in [Calls -> B!Entry] /\ entry'[c] = e
      /\ \A d \in Calls : d # c => entry'[d] = entry[d]
  BY <1>1, <1>6, Replaced DEF IInv, e
<1>8. queue' = Append(queue, op)
  BY <1>1 DEF op
<1>9. Queued'
  BY <1>2, <1>3, <1>6, <1>7, <1>8, QueuedAppended DEF ToolSaves
<1>10. Landing'
  BY <1>2, <1>3, <1>6, <1>7, <1>8, LandingStays
<1>11. Sound(c)'
  BY <1>2, <1>4, <1>6, <1>7 DEF IInv, Sound, Execs
<1>12. \A d \in Calls : Sound(d)'
  BY <1>2, <1>7, <1>11, OthersStay
<1>13. QueueType' /\ HostType' /\ RecordType' /\ CallsType'
  BY <1>2, <1>3, <1>8, Appended DEF IInv, QueueType, HostType, RecordType, CallsType
<1>14. Gone'
  BY <1>2, Up DEF Gone
<1> QED BY <1>7, <1>9, <1>10, <1>12, <1>13, <1>14 DEF IInv, EntryType

\* A save that is made waits for the write, one that is not ends the execution's wait.
LEMMA SaveBeginKeeps == IInv /\ B!SaveBegin => IInv'
<1> SUFFICES ASSUME IInv, B!SaveBegin PROVE IInv'
  OBVIOUS
<1> DEFINE kind == queue[1].kind
<1>1. /\ queue # <<>> /\ ~writing /\ kind \in ToolSaves
      /\ UNCHANGED <<record, closed, host, calls>>
  BY DEF B!SaveBegin, B!Begins, B!AtHead, ToolSaves
<1>0. PICK c \in Calls : c = queue[1].call
  BY <1>1, HeadIs DEF ToolSaves
<1> USE <1>0
<1>2. /\ host \notin {"down", "recovering", "broken"}
      /\ entry[c] \in B!Entry /\ kind # "close"
  BY <1>1, HeadIs, Up DEF IInv, EntryType, ToolSaves
<1>3. entry[c].exec = Awaits(kind) /\ Sound(c)
  BY <1>1, <1>2, HeadIs DEF IInv, Queued
<1>4. CASE closed
  <2>1. PICK e \in B!Entry :
          /\ entry' = [entry EXCEPT ![c] = e]
          /\ e.status = entry[c].status /\ e.aborted = entry[c].aborted
          /\ e.active => entry[c].active
    <3>1. CASE kind = "report"
      <4> DEFINE e == [entry[c] EXCEPT !.exec = "running"]
      <4>1. entry' = [entry EXCEPT ![c] = e]
        BY <1>4, <3>1 DEF B!SaveBegin
      <4>2. e \in B!Entry /\ e.status = entry[c].status /\ e.aborted = entry[c].aborted /\ e.active = entry[c].active
        BY <1>2, ExecSet DEF Execs
      <4> HIDE DEF e
      <4> QED BY <4>1, <4>2
    <3>2. CASE kind # "report"
      <4>1. entry' = [entry EXCEPT ![c] = B!Released(entry[c])]
        BY <1>4, <3>2 DEF B!SaveBegin
      <4> QED BY <1>2, <4>1, ReleasedIs
    <3> QED BY <3>1, <3>2
  <2>2. queue' = Tail(queue) /\ writing' = FALSE
    BY <1>1, <1>4 DEF B!SaveBegin, IInv, QueueType
  <2>3. /\ entry' \in [Calls -> B!Entry] /\ entry'[c] = e
        /\ \A d \in Calls : d # c => entry'[d] = entry[d]
    BY <1>2, <2>1, Replaced DEF IInv
  <2>4. Queued'
    BY <1>1, <2>2, <2>3, QueuedTaken
  <2>5. entry[c].exec # "none"
    BY <1>1, <1>3 DEF Awaits, ToolSaves
  <2>6. Sound(c)'
    BY <1>1, <1>3, <1>4, <2>1, <2>3, <2>5 DEF Sound
  <2>7. \A d \in Calls : Sound(d)'
    BY <1>1, <1>2, <2>3, <2>6, OthersStay
  <2>8. QueueType' /\ HostType' /\ Landing' /\ Gone'
    BY <1>1, <2>2, Ends
  <2> QED BY <1>1, <2>3, <2>4, <2>7, <2>8 DEF IInv, EntryType, RecordType, CallsType
<1>5. CASE ~closed /\ kind = "report"
  <2>1. entry' = entry /\ queue' = queue /\ writing' = TRUE
    BY <1>5 DEF B!SaveBegin
  <2>2. record[c] \in B!Live /\ entry[c].status \in B!Live
    BY <1>3, <1>5 DEF Sound, Awaits
  <2>3. Landing'
    BY <1>1, <1>5, <2>1, <2>2 DEF Landing
  <2>4. Queued'
    BY <1>1, <2>1 DEF IInv, Queued
  <2>5. QueueType' /\ Gone'
    BY <1>1, <1>2, <2>1 DEF IInv, QueueType, Gone
  <2> QED BY <1>1, <2>1, <2>3, <2>4, <2>5 DEF IInv, EntryType, RecordType, CallsType, HostType, Sound
<1>6. CASE ~closed /\ kind # "report"
  <2> DEFINE st == IF entry[c].aborted THEN "cancelled" ELSE kind
             e == [entry[c] EXCEPT !.status = st]
  <2>1. entry' = [entry EXCEPT ![c] = e] /\ queue' = queue /\ writing' = TRUE
    BY <1>6 DEF B!SaveBegin
  <2>2. kind \in {"completed", "failed"} /\ st \in B!Terminal /\ st \in {"cancelled", kind}
    BY <1>1, <1>6 DEF ToolSaves, B!Terminal
  <2>3. /\ e \in B!Entry /\ e.status = st /\ e.active = entry[c].active /\ e.exec = entry[c].exec
        /\ e.aborted = entry[c].aborted
    BY <1>2, <2>2 DEF B!Entry, B!Statuses
  <2>4. st = "completed" => ~entry[c].aborted
    BY DEF B!Terminal
  <2> HIDE DEF e, st
  <2>5. /\ entry' \in [Calls -> B!Entry] /\ entry'[c] = e
        /\ \A d \in Calls : d # c => entry'[d] = entry[d]
    BY <1>2, <2>1, <2>3, Replaced DEF IInv
  <2>6. record[c] \in B!Live /\ entry[c].exec \in {"completed", "failed"}
    BY <1>3, <1>6, <2>2 DEF Sound, Awaits
  <2>7. st = "completed" => record[c] = "running"
    BY <1>3, <2>4, <2>6 DEF Sound, B!Live
  <2>8. Landing'
    BY <1>1, <2>1, <2>2, <2>3, <2>5, <2>6, <2>7 DEF Landing, ToolSaves
  <2>9. \A i \in 1..Len(queue) : queue[i].kind \in ToolSaves =>
          entry'[queue[i].call].exec = entry[queue[i].call].exec
    BY <2>3, <2>5, CallIs DEF ToolSaves
  <2>10. Queued'
    BY <1>1, <2>1, <2>9, QueuedStays
  <2>11. Sound(c)'
    BY <1>1, <1>3, <2>2, <2>3, <2>5, <2>6 DEF Sound, B!Live, B!Terminal
  <2>12. \A d \in Calls : Sound(d)'
    BY <1>1, <1>2, <2>5, <2>11, OthersStay
  <2>13. QueueType' /\ Gone'
    BY <1>1, <1>2, <2>1 DEF IInv, QueueType, Gone
  <2> QED BY <1>1, <2>5, <2>8, <2>10, <2>12, <2>13 DEF IInv, EntryType, RecordType, CallsType, HostType
<1> QED BY <1>4, <1>5, <1>6

\* A report or an outcome is written.
LEMMA SaveWriteKeeps == IInv /\ B!SaveWrite => IInv'
<1> SUFFICES ASSUME IInv, B!SaveWrite PROVE IInv'
  OBVIOUS
<1> DEFINE kind == queue[1].kind
<1>1. /\ queue # <<>> /\ writing /\ kind \in ToolSaves /\ queue' = Tail(queue) /\ writing' = FALSE
      /\ UNCHANGED <<closed, host, calls>>
  BY DEF B!SaveWrite, B!Lands, B!AtHead, ToolSaves
<1>0. PICK c \in Calls : c = queue[1].call
  BY <1>1, HeadIs DEF ToolSaves
<1> USE <1>0
<1>2. entry[c] \in B!Entry /\ entry[c].status \in B!Statuses
  BY <1>1, HeadIs DEF IInv, EntryType, B!Entry, ToolSaves
<1>3. Sound(c) /\ record[c] \in B!Live
  BY <1>1, <1>2 DEF IInv, Landing
<1>4. PICK e \in B!Entry :
        /\ entry' = [entry EXCEPT ![c] = e]
        /\ e.status = entry[c].status /\ e.aborted = entry[c].aborted
        /\ e.active => entry[c].active
        /\ (kind = "report" /\ e.exec = "running") \/ (kind # "report" /\ e.exec = "none")
  <2>1. CASE kind = "report"
    <3> DEFINE x == [entry[c] EXCEPT !.exec = "running"]
    <3>1. entry' = [entry EXCEPT ![c] = x]
      BY <2>1 DEF B!SaveWrite
    <3>2. /\ x \in B!Entry /\ x.status = entry[c].status /\ x.aborted = entry[c].aborted
          /\ x.active = entry[c].active /\ x.exec = "running"
      BY <1>2, ExecSet DEF Execs
    <3> HIDE DEF x
    <3> QED BY <2>1, <3>1, <3>2
  <2>2. CASE kind # "report"
    <3>1. entry' = [entry EXCEPT ![c] = B!Released(entry[c])]
      BY <2>2 DEF B!SaveWrite
    <3> QED BY <1>2, <2>2, <3>1, ReleasedIs
  <2> QED BY <2>1, <2>2
<1>5. /\ entry' \in [Calls -> B!Entry] /\ entry'[c] = e
      /\ \A d \in Calls : d # c => entry'[d] = entry[d]
  BY <1>2, <1>4, Replaced DEF IInv
<1>6. /\ record' \in [Calls -> B!Statuses] /\ record'[c] = entry[c].status
      /\ \A d \in Calls : d # c => record'[d] = record[d]
  BY <1>2 DEF IInv, RecordType, B!SaveWrite
<1>7. Queued'
  BY <1>1, <1>5, QueuedTaken
<1>8. Sound(c)'
  <2>1. CASE kind = "report"
    <3>1. entry[c].status \in B!Live
      BY <1>1, <2>1 DEF IInv, Landing
    <3> QED BY <1>1, <1>3, <1>4, <1>5, <1>6, <2>1, <3>1 DEF Sound, B!Live
  <2>2. CASE kind # "report"
    <3>1. entry[c].status \in {"cancelled", "completed", "failed"}
      BY <1>1, <2>2 DEF IInv, Landing, ToolSaves
    <3> QED BY <1>1, <1>3, <1>4, <1>5, <1>6, <2>2, <3>1 DEF Sound, B!Live
  <2> QED BY <2>1, <2>2
<1>9. \A d \in Calls : Sound(d)'
  BY <1>1, <1>2, <1>5, <1>6, <1>8, OthersStay
<1>10. QueueType' /\ HostType' /\ Landing' /\ Gone'
  BY <1>1, Ends
<1> QED BY <1>1, <1>5, <1>6, <1>7, <1>9, <1>10 DEF IInv, EntryType, RecordType, CallsType

\* It cannot be written.
LEMMA ToolSaveFaultKeeps == IInv /\ B!SaveFault => IInv'
<1> SUFFICES ASSUME IInv, B!SaveFault PROVE IInv'
  OBVIOUS
<1> DEFINE kind == queue[1].kind
<1>1. /\ queue # <<>> /\ writing /\ kind \in ToolSaves /\ writing' = FALSE
      /\ UNCHANGED <<record, closed, host, calls>>
  BY DEF B!SaveFault, B!Lands, B!AtHead, ToolSaves
<1>0. PICK c \in Calls : c = queue[1].call
  BY <1>1, HeadIs DEF ToolSaves
<1> USE <1>0
<1>2. entry[c] \in B!Entry /\ host \notin {"down", "recovering", "broken"}
  BY <1>1, HeadIs, Up DEF IInv, EntryType, ToolSaves
<1>3. Sound(c) /\ record[c] \in B!Live
  BY <1>1, <1>2 DEF IInv, Landing
<1>4. CASE kind = "failed"
  <2> DEFINE e == B!Released(entry[c])
  <2>1. entry' = [entry EXCEPT ![c] = e] /\ queue' = Tail(queue)
    BY <1>4 DEF B!SaveFault
  <2>2. e \in B!Entry /\ e.exec = "none" /\ ~e.active /\ e.status = entry[c].status /\ e.aborted = entry[c].aborted
    BY <1>2, ReleasedIs
  <2> HIDE DEF e
  <2>3. /\ entry' \in [Calls -> B!Entry] /\ entry'[c] = e
        /\ \A d \in Calls : d # c => entry'[d] = entry[d]
    BY <1>2, <2>1, <2>2, Replaced DEF IInv
  <2>4. Queued'
    BY <1>1, <2>1, <2>3, QueuedTaken
  <2>5. Sound(c)'
    BY <1>1, <1>3, <2>2, <2>3 DEF Sound
  <2>6. \A d \in Calls : Sound(d)'
    BY <1>1, <1>2, <2>3, <2>5, OthersStay
  <2>7. QueueType' /\ HostType' /\ Landing' /\ Gone'
    BY <1>1, <2>1, Ends
  <2> QED BY <1>1, <2>3, <2>4, <2>6, <2>7 DEF IInv, EntryType, RecordType, CallsType
<1>5. CASE kind # "failed"
  <2> DEFINE e == [entry[c] EXCEPT !.exec = "failed"]
             op == B!Op("failed", c)
  <2>1. entry' = [entry EXCEPT ![c] = e] /\ queue' = Append(Tail(queue), op)
    BY <1>5 DEF B!SaveFault
  <2>2. /\ e \in B!Entry /\ e.exec = "failed" /\ e.status = entry[c].status
        /\ e.active = entry[c].active /\ e.aborted = entry[c].aborted
    BY <1>2, ExecSet DEF Execs
  <2>3. op \in B!Ops /\ op.kind = "failed" /\ op.call = c
    BY <1>2, OpIs DEF Kinds, ToolSaves
  <2> HIDE DEF e, op
  <2>4. /\ entry' \in [Calls -> B!Entry] /\ entry'[c] = e
        /\ \A d \in Calls : d # c => entry'[d] = entry[d]
    BY <1>2, <2>1, <2>2, Replaced DEF IInv
  <2>5. /\ queue' \in Seq(B!Ops) /\ Len(queue') = Len(queue) /\ Len(queue) \in Nat
        /\ queue'[Len(queue)] = op
        /\ \A i \in 1..Len(queue) : i # Len(queue) =>
             i + 1 \in 1..Len(queue) /\ i + 1 # 1 /\ queue'[i] = queue[i + 1]
    BY <1>1, <2>1, <2>3 DEF IInv, QueueType
  <2>6. ASSUME NEW i \in 1..Len(queue), i # 1, queue[i].kind \in ToolSaves
        PROVE  /\ queue[i].call \in Calls \ {c}
               /\ entry'[queue[i].call].exec = Awaits(queue[i].kind)
    <3>1. queue[i].call # c
      BY <1>1, <2>6, HeadIs DEF IInv, Queued
    <3>2. queue[i].call \in Calls
      BY <2>6, CallIs DEF ToolSaves
    <3> QED BY <2>4, <2>6, <3>1, <3>2 DEF IInv, Queued
  <2>7. ASSUME NEW i \in 1..Len(queue)', queue'[i].kind \in ToolSaves
        PROVE  entry'[queue'[i].call].exec = Awaits(queue'[i].kind)
    <3>1. CASE i = Len(queue)
      BY <2>2, <2>3, <2>4, <2>5, <3>1 DEF Awaits
    <3>2. CASE i # Len(queue)
      <4>1. i + 1 \in 1..Len(queue) /\ i + 1 # 1 /\ queue'[i] = queue[i + 1]
        BY <2>5, <3>2
      <4> QED BY <2>6, <2>7, <4>1
    <3> QED BY <3>1, <3>2
  <2>8. ASSUME NEW i \in 1..Len(queue)', NEW j \in 1..Len(queue)', queue'[i].kind \in ToolSaves,
               queue'[j].kind \in ToolSaves, queue'[i].call = queue'[j].call
        PROVE  i = j
    <3>1. CASE i # Len(queue) /\ j # Len(queue)
      <4>1. /\ i + 1 \in 1..Len(queue) /\ queue'[i] = queue[i + 1]
            /\ j + 1 \in 1..Len(queue) /\ queue'[j] = queue[j + 1]
        BY <2>5, <3>1
      <4>2. i + 1 = j + 1
        BY <2>8, <4>1 DEF IInv, Queued
      <4> QED BY <4>2
    <3>2. CASE i = Len(queue) /\ j # Len(queue)
      <4>1. j + 1 \in 1..Len(queue) /\ j + 1 # 1 /\ queue'[j] = queue[j + 1]
        BY <2>5, <3>2
      <4> QED BY <2>3, <2>5, <2>6, <2>8, <3>2, <4>1
    <3>3. CASE i # Len(queue) /\ j = Len(queue)
      <4>1. i + 1 \in 1..Len(queue) /\ i + 1 # 1 /\ queue'[i] = queue[i + 1]
        BY <2>5, <3>3
      <4> QED BY <2>3, <2>5, <2>6, <2>8, <3>3, <4>1
    <3> QED BY <3>1, <3>2, <3>3
  <2>9. \A i \in 1..Len(queue)' : queue'[i].kind = "close" => closed'
    <3> SUFFICES ASSUME NEW i \in 1..Len(queue)', queue'[i].kind = "close" PROVE closed'
      OBVIOUS
    <3>1. i + 1 \in 1..Len(queue) /\ queue'[i] = queue[i + 1]
      BY <2>3, <2>5
    <3> QED BY <1>1, <3>1 DEF IInv, Queued
  <2>10. Queued'
    BY <2>7, <2>8, <2>9 DEF Queued
  <2>11. entry[c].exec # "none"
    <3>1. entry[c].exec = Awaits(kind)
      BY <1>1, HeadIs DEF IInv, Queued
    <3> QED BY <1>1, <3>1 DEF Awaits, ToolSaves
  <2>12. Sound(c)'
    BY <1>1, <1>3, <2>2, <2>4, <2>11 DEF Sound, B!Live
  <2>13. \A d \in Calls : Sound(d)'
    BY <1>1, <1>2, <2>4, <2>12, OthersStay
  <2>14. QueueType' /\ HostType' /\ RecordType' /\ CallsType'
    BY <1>1, <2>5 DEF IInv, QueueType, HostType, RecordType, CallsType
  <2>15. Landing' /\ Gone'
    BY <1>1, <1>2 DEF Landing, Gone
  <2> QED BY <2>4, <2>10, <2>13, <2>14, <2>15 DEF IInv, EntryType
<1> QED BY <1>4, <1>5

-----------------------------------------------------------------------------
(* cancel() and close().                                                    *)

\* A cancellation reaches the head of the queue.
LEMMA CancelBeginKeeps == IInv /\ B!CancelBegin => IInv'
<1> SUFFICES ASSUME IInv, B!CancelBegin PROVE IInv'
  OBVIOUS
<1>1. /\ queue # <<>> /\ ~writing /\ queue[1].kind = "cancel"
      /\ UNCHANGED <<record, closed, host, calls>>
  BY DEF B!CancelBegin, B!Begins, B!AtHead
<1>2. PICK c \in Calls : c = queue[1].call
  BY <1>1, HeadIs
<1>3. /\ entry[c] \in B!Entry /\ Sound(c) /\ host \notin {"down", "recovering", "broken"}
  BY <1>1, Up DEF IInv, EntryType
<1>4. CASE B!Cancels(c)
  <2> DEFINE e == [entry[c] EXCEPT !.aborted = TRUE, !.status = "cancelling"]
  <2>1. /\ entry' = [entry EXCEPT ![c] = e] /\ queue' = queue /\ writing' = TRUE
        /\ entry[c].active /\ record[c] \in B!Live
    BY <1>2, <1>4 DEF B!CancelBegin, B!Cancels
  <2>2. /\ e \in B!Entry /\ e.status = "cancelling" /\ e.exec = entry[c].exec /\ e.aborted
        /\ e.active = entry[c].active
    BY <1>3 DEF B!Entry, B!Statuses, B!Live
  <2> HIDE DEF e
  <2>3. /\ entry' \in [Calls -> B!Entry] /\ entry'[c] = e
        /\ \A d \in Calls : d # c => entry'[d] = entry[d]
    BY <2>1, <2>2, Replaced DEF IInv
  <2>4. Landing'
    BY <1>1, <1>2, <2>1, <2>2, <2>3 DEF Landing, ToolSaves
  <2>5. \A i \in 1..Len(queue) : queue[i].kind \in ToolSaves =>
          entry'[queue[i].call].exec = entry[queue[i].call].exec
    BY <2>2, <2>3, CallIs DEF ToolSaves
  <2>6. Queued'
    BY <1>1, <2>1, <2>5, QueuedStays
  <2>7. Sound(c)'
    BY <1>1, <1>3, <2>1, <2>2, <2>3 DEF Sound, B!Live
  <2>8. \A d \in Calls : Sound(d)'
    BY <1>1, <2>3, <2>7, OthersStay
  <2>9. QueueType' /\ Gone'
    BY <1>1, <1>3, <2>1 DEF IInv, QueueType, Gone
  <2> QED BY <1>1, <2>3, <2>4, <2>6, <2>8, <2>9 DEF IInv, EntryType, RecordType, CallsType, HostType
<1>5. CASE ~B!Cancels(c)
  <2>1. queue' = Tail(queue) /\ entry' = entry /\ writing' = FALSE
    BY <1>1, <1>2, <1>5 DEF B!CancelBegin, IInv, QueueType
  <2>2. Queued'
    BY <1>1, <2>1, QueuedTaken
  <2>3. QueueType' /\ HostType' /\ Landing' /\ Gone'
    BY <1>1, <2>1, Ends
  <2> QED BY <1>1, <2>1, <2>2, <2>3 DEF IInv, EntryType, RecordType, CallsType, Sound
<1> QED BY <1>4, <1>5

\* Its record is written.
LEMMA CancelWriteKeeps == IInv /\ B!CancelWrite => IInv'
<1> SUFFICES ASSUME IInv, B!CancelWrite PROVE IInv'
  OBVIOUS
<1>1. /\ queue # <<>> /\ writing /\ queue[1].kind = "cancel" /\ queue' = Tail(queue)
      /\ writing' = FALSE /\ UNCHANGED <<entry, closed, host, calls>>
  BY DEF B!CancelWrite, B!Lands, B!AtHead
<1>2. PICK c \in Calls : c = queue[1].call
  BY <1>1, HeadIs
<1>3. /\ record' \in [Calls -> B!Statuses] /\ record'[c] = "cancelling"
      /\ \A d \in Calls : d # c => record'[d] = record[d]
  BY <1>2 DEF B!CancelWrite, IInv, RecordType, B!Statuses, B!Live
<1>4. Sound(c) /\ record[c] \in B!Live /\ entry[c].aborted
  BY <1>1, <1>2 DEF IInv, Landing
<1>5. Sound(c)'
  BY <1>1, <1>3, <1>4 DEF Sound, B!Live
<1>6. \A d \in Calls : Sound(d)'
  BY <1>1, <1>3, <1>5, OthersStay
<1>7. Queued'
  BY <1>1, QueuedTaken
<1>8. QueueType' /\ HostType' /\ Landing' /\ Gone'
  BY <1>1, Ends
<1> QED BY <1>1, <1>3, <1>6, <1>7, <1>8 DEF IInv, EntryType, RecordType, CallsType

\* A cancellation's or the close's record cannot be written.
LEMMA ToolFaultKeeps == IInv /\ (B!CancelFault \/ B!CloseFault) => IInv'
<1> SUFFICES ASSUME IInv, B!CancelFault \/ B!CloseFault PROVE IInv'
  OBVIOUS
<1>1. /\ queue # <<>> /\ queue' = Tail(queue) /\ writing' = FALSE
      /\ UNCHANGED <<record, entry, closed, calls>> /\ host' \in {host, "closed", "failed"}
  BY DEF B!CancelFault, B!CloseFault, B!Lands, B!AtHead
<1>2. Queued'
  BY <1>1, QueuedTaken
<1>3. QueueType' /\ HostType' /\ Landing' /\ Gone'
  BY <1>1, Ends
<1> QED BY <1>1, <1>2, <1>3 DEF IInv, EntryType, RecordType, CallsType, Sound

\* close() aborts the work.
LEMMA CloseKeeps == IInv /\ B!Close => IInv'
<1> SUFFICES ASSUME IInv, B!Close PROVE IInv'
  OBVIOUS
<1> DEFINE op == [kind |-> "close"]
<1>1. /\ UNCHANGED <<record, writing, calls>> /\ closed' = TRUE /\ host' = "closing"
      /\ queue' = Append(queue, op)
  BY DEF B!Close, B!Enqueue
<1>2. op \in B!Ops /\ op.kind = "close"
  BY DEF B!Ops
<1> HIDE DEF op
<1>3. /\ entry' \in [Calls -> B!Entry]
      /\ \A c \in Calls :
           /\ entry'[c].status = entry[c].status /\ entry'[c].active = entry[c].active
           /\ entry'[c].exec = entry[c].exec /\ entry'[c].lease = entry[c].lease
           /\ entry[c].aborted => entry'[c].aborted
  <2> DEFINE e(c) == [entry[c] EXCEPT !.closing = @ \/ entry[c].active,
                                      !.aborted = @ \/ entry[c].active]
  <2>1. entry' = [c \in Calls |-> e(c)]
    BY DEF B!Close
  <2>2. ASSUME NEW c \in Calls
        PROVE  /\ e(c) \in B!Entry /\ e(c).status = entry[c].status /\ e(c).active = entry[c].active
               /\ e(c).exec = entry[c].exec /\ e(c).lease = entry[c].lease
               /\ entry[c].aborted => e(c).aborted
    <3>1. entry[c] \in B!Entry
      BY DEF IInv, EntryType
    <3> QED BY <3>1 DEF B!Entry
  <2> HIDE DEF e
  <2> QED BY <2>1, <2>2
<1>4. Queued'
  BY <1>1, <1>2, <1>3, QueuedAppended DEF ToolSaves
<1>5. Landing'
  BY <1>1, <1>2, <1>3, LandingStays
<1>6. \A c \in Calls : Sound(c)'
  BY <1>1, <1>3 DEF IInv, Sound
<1>7. QueueType' /\ HostType' /\ Gone'
  BY <1>1, <1>2, Appended DEF IInv, QueueType, HostType, Hosts, Gone
<1> QED BY <1>1, <1>3, <1>4, <1>5, <1>6, <1>7 DEF IInv, EntryType, RecordType, CallsType

\* Its turn in the queue comes.
LEMMA CloseBeginKeeps == IInv /\ B!CloseBegin => IInv'
<1> SUFFICES ASSUME IInv, B!CloseBegin PROVE IInv'
  OBVIOUS
<1>1. /\ queue # <<>> /\ queue[1].kind = "close" /\ writing' = TRUE
      /\ UNCHANGED <<record, entry, queue, closed, host, calls>>
  BY DEF B!CloseBegin, B!Begins, B!AtHead
<1>2. Landing'
  BY <1>1 DEF Landing, ToolSaves
<1>3. QueueType' /\ Gone' /\ Queued'
  BY <1>1, Up DEF IInv, QueueType, Gone, Queued
<1> QED BY <1>1, <1>2, <1>3 DEF IInv, EntryType, RecordType, CallsType, HostType, Sound

\* It writes a record that was still live.
LEMMA CloseWriteKeeps == IInv /\ B!CloseWrite => IInv'
<1> SUFFICES ASSUME IInv, B!CloseWrite PROVE IInv'
  OBVIOUS
<1>1. PICK c \in B!Interrupts :
        /\ record' = [record EXCEPT ![c] = "interrupted"]
        /\ entry' = [entry EXCEPT ![c].status = "interrupted"]
  BY DEF B!CloseWrite
<1>2. /\ queue # <<>> /\ queue[1].kind = "close" /\ writing' = FALSE
      /\ UNCHANGED <<queue, closed, host, calls>>
  BY DEF B!CloseWrite, B!Lands, B!AtHead
<1>3. c \in Calls /\ entry[c].status \in B!Live /\ entry[c] \in B!Entry /\ Sound(c)
  BY DEF B!Interrupts, B!Closing, IInv, EntryType
<1>4. closed
  BY <1>2, HeadIs DEF IInv, Queued
<1> DEFINE e == [entry[c] EXCEPT !.status = "interrupted"]
<1>5. /\ e \in B!Entry /\ e.status = "interrupted" /\ e.exec = entry[c].exec
      /\ e.aborted = entry[c].aborted
  BY <1>3 DEF B!Entry, B!Statuses, B!Terminal
<1> HIDE DEF e
<1>6. /\ entry' \in [Calls -> B!Entry] /\ entry'[c] = e
      /\ \A d \in Calls : d # c => entry'[d] = entry[d]
  BY <1>1, <1>3, <1>5, Replaced DEF IInv, e
<1>7. /\ record' \in [Calls -> B!Statuses] /\ record'[c] = "interrupted"
      /\ \A d \in Calls : d # c => record'[d] = record[d]
  BY <1>1, <1>3 DEF IInv, RecordType, B!Statuses, B!Terminal
<1>8. Sound(c)'
  BY <1>2, <1>3, <1>4, <1>5, <1>6, <1>7 DEF Sound, B!Live
<1>9. \A d \in Calls : Sound(d)'
  BY <1>2, <1>3, <1>6, <1>7, <1>8, OthersStay
<1>10. \A i \in 1..Len(queue) : queue[i].kind \in ToolSaves =>
        entry'[queue[i].call].exec = entry[queue[i].call].exec
  BY <1>5, <1>6, CallIs DEF ToolSaves
<1>11. Queued'
  BY <1>2, <1>10, QueuedStays
<1>12. QueueType' /\ HostType' /\ CallsType'
  BY <1>2 DEF IInv, QueueType, HostType, CallsType
<1>13. Landing' /\ Gone'
  BY <1>2, Up DEF Landing, Gone
<1> QED BY <1>6, <1>7, <1>9, <1>11, <1>12, <1>13 DEF IInv, EntryType, RecordType

\* It returns.
LEMMA CloseReturnKeeps == IInv /\ B!CloseReturn => IInv'
<1> SUFFICES ASSUME IInv, B!CloseReturn PROVE IInv'
  OBVIOUS
<1>1. /\ queue # <<>> /\ ~writing /\ queue[1].kind = "close" /\ queue' = Tail(queue)
      /\ UNCHANGED <<record, writing, closed, calls>> /\ host' = "closed"
  BY DEF B!CloseReturn, B!Begins, B!AtHead
<1>2. writing' = FALSE
  BY <1>1 DEF IInv, QueueType
<1>3. /\ entry' \in [Calls -> B!Entry]
      /\ \A c \in Calls :
           /\ entry'[c].status = entry[c].status /\ ~entry'[c].active
           /\ entry'[c].exec = entry[c].exec /\ entry'[c].aborted = entry[c].aborted
  <2> DEFINE e(c) == [entry[c] EXCEPT !.active = FALSE, !.lease = @ /\ ~entry[c].closing]
  <2>1. entry' = [c \in Calls |-> e(c)]
    BY DEF B!CloseReturn
  <2>2. ASSUME NEW c \in Calls
        PROVE  /\ e(c) \in B!Entry /\ e(c).status = entry[c].status /\ ~e(c).active
               /\ e(c).exec = entry[c].exec /\ e(c).aborted = entry[c].aborted
    <3>1. entry[c] \in B!Entry
      BY DEF IInv, EntryType
    <3> QED BY <3>1 DEF B!Entry
  <2> HIDE DEF e
  <2> QED BY <2>1, <2>2
<1>4. Queued'
  BY <1>1, <1>3, QueuedTaken
<1>5. QueueType' /\ HostType' /\ Landing' /\ Gone'
  BY <1>1, <1>2, Ends
<1>6. \A c \in Calls : Sound(c)'
  BY <1>1, <1>3 DEF IInv, Sound
<1> QED BY <1>1, <1>3, <1>4, <1>5, <1>6 DEF IInv, EntryType, RecordType, CallsType

-----------------------------------------------------------------------------
(* The process.                                                             *)

\* The memory of the process is lost, the records stay.
LEMMA ToolForgetKeeps == IInv /\ (B!Exit \/ B!Crash) => IInv'
<1> SUFFICES ASSUME IInv, B!Exit \/ B!Crash PROVE IInv'
  OBVIOUS
<1>1. /\ queue' = <<>> /\ writing' = FALSE /\ closed' = FALSE /\ host' = "down"
      /\ entry' = [c \in Calls |-> B!NoEntry] /\ UNCHANGED <<record, calls>>
  BY DEF B!Exit, B!Crash, B!Forget
<1>2. /\ B!NoEntry \in B!Entry /\ B!NoEntry.status = "absent" /\ ~B!NoEntry.active
      /\ B!NoEntry.exec = "none"
  BY DEF B!NoEntry, B!Entry, B!Statuses
<1>3. entry' \in [Calls -> B!Entry] /\ \A c \in Calls : entry'[c] = B!NoEntry
  BY <1>1, <1>2
<1>4. \A c \in Calls : Sound(c)'
  BY <1>1, <1>2, <1>3 DEF IInv, Sound, B!Live
<1>5. queue' \in Seq(B!Ops) /\ Len(queue') = 0
  BY <1>1
<1>6. Queued'
  BY <1>5 DEF Queued
<1>7. Landing' /\ Gone'
  BY <1>1, <1>3 DEF Landing, Gone
<1>8. QueueType' /\ HostType'
  BY <1>1, <1>5 DEF QueueType, HostType, Hosts
<1> QED BY <1>1, <1>3, <1>4, <1>6, <1>7, <1>8 DEF IInv, EntryType, RecordType, CallsType

\* The next process settles what was live.
LEMMA RestartKeeps == IInv /\ (B!Restart \/ B!RecoverFault) => IInv'
<1> SUFFICES ASSUME IInv, B!Restart \/ B!RecoverFault PROVE IInv'
  OBVIOUS
<1>1. /\ host \in {"down", "recovering"} /\ host' \in {"down", "recovering", "broken", "ready"}
      /\ UNCHANGED <<entry, queue, writing, closed, calls>>
  BY DEF B!Restart, B!Boot, B!Recover, B!Recovered, B!RecoverFault
<1>2. /\ record' \in [Calls -> B!Statuses]
      /\ \A c \in Calls : record'[c] = record[c] \/ (record[c] \in B!Live /\ record'[c] = "interrupted")
  <2>1. CASE record' = record
    BY <2>1 DEF IInv, RecordType
  <2>2. CASE B!Recover
    <3>1. PICK c \in B!Uncertain : record' = [record EXCEPT ![c] = "interrupted"]
      BY <2>2 DEF B!Recover
    <3>2. c \in Calls /\ record[c] \in B!Live
      BY DEF B!Uncertain
    <3> QED BY <3>1, <3>2 DEF IInv, RecordType, B!Statuses, B!Terminal
  <2> QED BY <2>1, <2>2 DEF B!Restart, B!Boot, B!Recovered, B!RecoverFault
<1>3. \A c \in Calls : entry[c].status = "absent" /\ ~entry[c].active /\ entry[c].exec = "none"
  BY <1>1 DEF IInv, Gone, B!NoEntry
<1>4. \A c \in Calls : Sound(c)'
  BY <1>1, <1>2, <1>3 DEF IInv, Sound, B!Live
<1>5. Queued' /\ Landing' /\ Gone'
  BY <1>1 DEF IInv, Queued, Landing, Gone
<1>6. QueueType' /\ HostType' /\ CallsType' /\ EntryType'
  BY <1>1 DEF IInv, QueueType, HostType, Hosts, CallsType, EntryType
<1> QED BY <1>2, <1>4, <1>5, <1>6 DEF IInv, RecordType

\* Every step keeps the invariant.
LEMMA Inductive == IInv /\ [B!Next]_(B!vars) => IInv'
<1> SUFFICES ASSUME IInv, [B!Next]_(B!vars) PROVE IInv'
  OBVIOUS
<1>1. CASE \E c \in Calls : B!Start(c) \/ B!Cancel(c)
  BY <1>1, StartKeeps
<1>2. CASE \E c \in Calls : B!Report(c) \/ B!Return(c)
  BY <1>2, ReturnKeeps
<1>3. CASE B!Turn
  BY <1>3, StartBeginKeeps, StartWriteKeeps, SaveBeginKeeps, SaveWriteKeeps, CancelBeginKeeps,
     CancelWriteKeeps, CloseBeginKeeps, CloseWriteKeeps, CloseReturnKeeps DEF B!Turn
<1>4. CASE B!Fault
  BY <1>4, StartFaultKeeps, ToolSaveFaultKeeps, ToolFaultKeeps DEF B!Fault
<1>5. CASE B!Close \/ B!Exit \/ B!Crash \/ B!Restart \/ B!RecoverFault
  BY <1>5, CloseKeeps, ToolForgetKeeps, RestartKeeps
<1>6. CASE UNCHANGED B!vars
  BY <1>6 DEF B!vars, IInv, RecordType, EntryType, QueueType, CallsType, HostType, Sound, Queued,
     Landing, Gone
<1> QED BY <1>1, <1>2, <1>3, <1>4, <1>5, <1>6 DEF B!Next

\* So it holds of every behaviour.
LEMMA Invariant == B!Spec => []IInv
  BY InitSound, Inductive, PTL DEF B!Spec

-----------------------------------------------------------------------------
(* The theorems.                                                            *)

\* A tool is called at most once, over calls made again, cancellations, failed writes,
\* crashes and restarts.
THEOREM ToolsRunOnce == B!Spec => []B!AtMostOnce
<1>1. IInv => B!AtMostOnce
  BY DEF IInv, Sound, B!AtMostOnce
<1> QED BY <1>1, Invariant, PTL

\* An outcome that is on disk stays, and "completed" is written once, of an execution
\* that has returned and that nobody had cancelled.
LEMMA FinalStep ==
  ASSUME IInv, [B!Next]_(B!vars), NEW c \in Calls
  PROVE  /\ record[c] \in B!Terminal => record'[c] = record[c]
         /\ record'[c] = "completed" /\ record[c] # "completed" =>
              entry[c].exec = "completed" /\ record[c] = "running"
<1>1. CASE record' = record
  BY <1>1
<1>2. CASE B!StartWrite
  <2>1. record' = [record EXCEPT ![queue[1].call] = "running"] /\ writing /\ queue # <<>>
        /\ queue[1].kind = "start"
    BY <1>2 DEF B!StartWrite, B!Lands, B!AtHead
  <2>2. record[queue[1].call] = "absent"
    BY <2>1 DEF IInv, Landing
  <2> QED BY <2>1, <2>2 DEF IInv, RecordType, B!Terminal
<1>3. CASE B!SaveWrite
  <2>1. /\ record' = [record EXCEPT ![queue[1].call] = entry[queue[1].call].status]
        /\ writing /\ queue # <<>> /\ queue[1].kind \in ToolSaves
    BY <1>3 DEF B!SaveWrite, B!Lands, B!AtHead, ToolSaves
  <2>2. record[queue[1].call] \in B!Live
    BY <2>1 DEF IInv, Landing
  <2>3. ASSUME entry[queue[1].call].status = "completed"
        PROVE  entry[queue[1].call].exec = "completed" /\ record[queue[1].call] = "running"
    <3>1. queue[1].kind = "completed"
      BY <2>1, <2>3 DEF IInv, Landing, ToolSaves, B!Live
    <3>2. entry[queue[1].call].exec = Awaits("completed")
      BY <2>1, <3>1, HeadIs DEF IInv, Queued
    <3> QED BY <2>1, <2>3, <3>1, <3>2 DEF IInv, Landing, Awaits
  <2>4. CASE c = queue[1].call
    BY <2>1, <2>2, <2>3, <2>4 DEF IInv, RecordType, B!Terminal, B!Live
  <2>5. CASE c # queue[1].call
    BY <2>1, <2>5 DEF IInv, RecordType
  <2> QED BY <2>4, <2>5
<1>4. CASE B!CancelWrite
  <2>1. /\ record' = [record EXCEPT ![queue[1].call] = "cancelling"]
        /\ writing /\ queue # <<>> /\ queue[1].kind = "cancel"
    BY <1>4 DEF B!CancelWrite, B!Lands, B!AtHead
  <2>2. record[queue[1].call] \in B!Live
    BY <2>1 DEF IInv, Landing
  <2> QED BY <2>1, <2>2 DEF IInv, RecordType, B!Terminal, B!Live
<1>5. CASE B!CloseWrite \/ B!Recover
  <2>1. PICK d \in Calls : record' = [record EXCEPT ![d] = "interrupted"] /\ record[d] \in B!Live
    BY <1>5 DEF B!CloseWrite, B!Recover, B!Interrupts, B!Closing, B!Uncertain, IInv, Sound
  <2> QED BY <2>1 DEF IInv, RecordType, B!Terminal, B!Live
<1> QED
  BY <1>1, <1>2, <1>3, <1>4, <1>5
  DEF B!Next, B!Turn, B!Fault, B!Restart, B!Start, B!Cancel, B!Report, B!Return, B!StartBegin, B!SaveBegin, B!CancelBegin,
      B!CloseBegin, B!CloseReturn, B!StartFault, B!SaveFault, B!CancelFault, B!CloseFault, B!Close, B!Exit, B!Crash,
      B!Boot, B!Recovered, B!RecoverFault, B!vars

\* The record of a job that has ended is never changed, whatever comes late.
THEOREM OutcomesStay == B!Spec => B!OutcomeIsFinal
<1>1. IInv /\ [B!Next]_(B!vars) =>
        [\A c \in Calls :
           /\ record[c] \in B!Terminal => record'[c] = record[c]
           /\ record'[c] = "completed" /\ record[c] # "completed" =>
                entry[c].exec = "completed" /\ record[c] = "running"]_(B!vars)
  BY FinalStep
<1> QED BY <1>1, Invariant, PTL DEF B!Spec, B!OutcomeIsFinal

-----------------------------------------------------------------------------
(* The limits.                                                              *)

Leased == {c \in Calls : entry[c].lease}
LeasedIn(where) == {c \in Leased : ChatOf[c] = where}

\* An agent is retained for a job that is active or whose start is being written, and
\* for every execution, until close().
Retains ==
  ~closed => \A c \in Calls :
    /\ entry[c].exec # "none" => entry[c].lease
    /\ entry[c].lease => \/ entry[c].active
                         \/ writing /\ queue[1].kind = "start" /\ queue[1].call = c

Bounded ==
  /\ Cardinality(Leased) <= ProjectLimit
  /\ \A c \in Leased : Cardinality(LeasedIn(ChatOf[c])) <= ChatLimit

Finite == IsFiniteSet(Calls) /\ ChatLimit \in Nat \ {0} /\ ProjectLimit \in Nat \ {0}

\* Fewer leases stay within the limits.
LEMMA FewerLeases ==
  ASSUME Finite, Bounded, \A c \in Calls : entry'[c].lease => entry[c].lease
  PROVE  Bounded'
<1>1. Leased' \subseteq Leased /\ Leased \subseteq Calls
  BY DEF Leased
<1>2. IsFiniteSet(Leased) /\ IsFiniteSet(Leased')
  BY <1>1, FS_Subset DEF Finite
<1>3. Cardinality(Leased') <= Cardinality(Leased) /\ Cardinality(Leased) \in Nat
      /\ Cardinality(Leased') \in Nat
  BY <1>1, <1>2, FS_Subset, FS_CardinalityType
<1>4. ASSUME NEW c \in Leased'
      PROVE  Cardinality(LeasedIn(ChatOf[c])') <= ChatLimit
  <2>1. LeasedIn(ChatOf[c])' \subseteq LeasedIn(ChatOf[c]) /\ LeasedIn(ChatOf[c]) \subseteq Leased
    BY <1>1 DEF LeasedIn
  <2>2. IsFiniteSet(LeasedIn(ChatOf[c])) /\ IsFiniteSet(LeasedIn(ChatOf[c])')
    BY <1>2, <2>1, FS_Subset
  <2>3. /\ Cardinality(LeasedIn(ChatOf[c])') <= Cardinality(LeasedIn(ChatOf[c]))
        /\ Cardinality(LeasedIn(ChatOf[c])) \in Nat /\ Cardinality(LeasedIn(ChatOf[c])') \in Nat
    BY <2>1, <2>2, FS_Subset, FS_CardinalityType
  <2>4. Cardinality(LeasedIn(ChatOf[c])) <= ChatLimit
    BY <1>1, <1>4 DEF Bounded
  <2> QED BY <2>3, <2>4 DEF Finite
<1> QED BY <1>3, <1>4 DEF Bounded, Finite

\* A start that is admitted adds one lease where the limits leave room for it.
LEMMA OneMoreLease ==
  ASSUME Finite, IInv, Retains, Bounded, NEW c \in Calls, ~closed, ~writing, B!Admits(c),
         \A d \in Calls : entry'[d].lease => entry[d].lease \/ d = c
  PROVE  Bounded'
<1>1. Leased \subseteq B!Active /\ B!Active \subseteq Calls /\ Leased' \subseteq Leased \cup {c}
  BY DEF Leased, B!Active, Retains
<1>2. IsFiniteSet(Leased) /\ IsFiniteSet(B!Active)
  BY <1>1, FS_Subset DEF Finite
<1>3. ASSUME NEW X, NEW T, NEW A, NEW most \in Nat, T \subseteq X \cup {c}, X \subseteq A,
             IsFiniteSet(A), Cardinality(A) < most
      PROVE  Cardinality(T) <= most
  <2>1. IsFiniteSet(X) /\ Cardinality(X) <= Cardinality(A)
    BY <1>3, FS_Subset
  <2>2. Cardinality(X) \in Nat /\ Cardinality(A) \in Nat
    BY <1>3, <2>1, FS_CardinalityType
  <2>3. IsFiniteSet(X \cup {c}) /\ Cardinality(X \cup {c}) <= Cardinality(X) + 1
    <3>1. /\ IsFiniteSet(X \cup {c})
          /\ Cardinality(X \cup {c}) = IF c \in X THEN Cardinality(X) ELSE Cardinality(X) + 1
      BY <2>1, FS_AddElement
    <3> QED BY <2>2, <3>1
  <2>4. IsFiniteSet(T) /\ Cardinality(T) <= Cardinality(X \cup {c})
    BY <1>3, <2>3, FS_Subset
  <2>5. Cardinality(T) \in Nat /\ Cardinality(X \cup {c}) \in Nat
    BY <2>3, <2>4, FS_CardinalityType
  <2> QED BY <1>3, <2>1, <2>2, <2>3, <2>4, <2>5
<1>4. Cardinality(Leased') <= ProjectLimit
  BY <1>1, <1>2, <1>3, Counts DEF B!Admits, Finite
<1>5. ASSUME NEW d \in Leased'
      PROVE  Cardinality(LeasedIn(ChatOf[d])') <= ChatLimit
  <2>1. CASE ChatOf[d] = ChatOf[c]
    <3>1. /\ LeasedIn(ChatOf[c])' \subseteq LeasedIn(ChatOf[c]) \cup {c}
          /\ LeasedIn(ChatOf[c]) \subseteq B!ActiveIn(ChatOf[c]) /\ B!ActiveIn(ChatOf[c]) \subseteq B!Active
      BY <1>1 DEF LeasedIn, B!ActiveIn
    <3>2. IsFiniteSet(B!ActiveIn(ChatOf[c]))
      BY <1>2, <3>1, FS_Subset
    <3> QED BY <1>3, <2>1, <3>1, <3>2, Counts DEF B!Admits, Finite
  <2>2. CASE ChatOf[d] # ChatOf[c]
    <3>1. LeasedIn(ChatOf[d])' \subseteq LeasedIn(ChatOf[d]) /\ LeasedIn(ChatOf[d]) \subseteq Leased
      BY <1>1, <2>2 DEF LeasedIn
    <3>2. d \in Leased
      BY <1>1, <2>2
    <3>3. IsFiniteSet(LeasedIn(ChatOf[d])) /\ Cardinality(LeasedIn(ChatOf[d])) <= ChatLimit
      BY <1>2, <3>1, <3>2, FS_Subset DEF Bounded
    <3>4. /\ IsFiniteSet(LeasedIn(ChatOf[d])')
          /\ Cardinality(LeasedIn(ChatOf[d])') <= Cardinality(LeasedIn(ChatOf[d]))
      BY <3>1, <3>3, FS_Subset
    <3>5. Cardinality(LeasedIn(ChatOf[d])) \in Nat /\ Cardinality(LeasedIn(ChatOf[d])') \in Nat
      BY <3>3, <3>4, FS_CardinalityType
    <3> QED BY <3>3, <3>4, <3>5 DEF Finite
  <2> QED BY <2>1, <2>2
<1> QED BY <1>4, <1>5 DEF Bounded

\* A step that leaves the entries.
LEMMA LeasesStay ==
  ASSUME Finite, Retains, Bounded, entry' = entry, closed' = closed,
         writing /\ queue[1].kind = "start" => writing' /\ queue'[1] = queue[1]
  PROVE  Retains' /\ Bounded'
<1>1. Bounded'
  BY FewerLeases
<1> QED BY <1>1 DEF Retains

\* A step that changes one job, and takes no lease.
LEMMA LeaseChanges ==
  ASSUME Finite, IInv, Retains, Bounded, NEW c \in Calls, NEW e \in B!Entry,
         entry' = [entry EXCEPT ![c] = e],
         closed' = closed, e.lease => entry[c].lease,
         ~closed => /\ e.exec # "none" => e.lease
                    /\ e.lease => e.active,
         writing /\ queue[1].kind = "start" =>
           queue[1].call = c \/ (writing' /\ queue'[1] = queue[1])
  PROVE  Retains' /\ Bounded'
<1>1. /\ entry'[c] = e /\ \A d \in Calls : d # c => entry'[d] = entry[d]
  BY Replaced DEF IInv
<1>2. Bounded'
  BY <1>1, FewerLeases
<1>3. Retains'
  BY <1>1 DEF Retains
<1> QED BY <1>2, <1>3

\* No step breaks the limits of the leases.
LEMMA LeaseStep ==
  ASSUME Finite, IInv, Retains, Bounded, [B!Next]_(B!vars)
  PROVE  Retains' /\ Bounded'
<1>1. CASE UNCHANGED B!vars
  BY <1>1, LeasesStay DEF B!vars
<1>2. CASE \E c \in Calls : B!Start(c) \/ B!Cancel(c)
  <2>1. PICK op \in B!Ops : queue' = Append(queue, op)
    BY <1>2, OpIs DEF B!Start, B!Cancel, B!Enqueue, Kinds
  <2>2. writing => queue # <<>>
    BY DEF IInv, Landing
  <2>3. writing => queue'[1] = queue[1]
    BY <2>1, <2>2, HeadIs, Appended
  <2> QED BY <1>2, <2>3, LeasesStay DEF B!Start, B!Cancel
<1>3. ASSUME NEW c \in Calls, B!Report(c) \/ B!Return(c)
      PROVE  Retains' /\ Bounded'
  <2>1. PICK x \in Execs \ {"none", "running"}, kind \in ToolSaves :
          /\ entry' = [entry EXCEPT ![c] = [entry[c] EXCEPT !.exec = x]]
          /\ queue' = Append(queue, B!Op(kind, c))
    BY <1>3 DEF B!Report, B!Return, B!Enqueue, Execs, ToolSaves
  <2>2. entry[c].exec = "running" /\ UNCHANGED <<closed, writing>>
    BY <1>3 DEF B!Report, B!Return
  <2> DEFINE e == [entry[c] EXCEPT !.exec = x]
  <2>3. entry[c] \in B!Entry
    BY DEF IInv, EntryType
  <2>4. e \in B!Entry /\ e.lease = entry[c].lease /\ e.active = entry[c].active
    BY <2>3, ExecSet
  <2>5. B!Op(kind, c) \in B!Ops
    BY OpIs DEF Kinds
  <2>6. writing => queue # <<>>
    BY DEF IInv, Landing
  <2>7. writing => queue'[1] = queue[1]
    BY <2>1, <2>5, <2>6, HeadIs, Appended
  <2>8. ~closed => entry[c].lease
    BY <2>2 DEF Retains
  <2>9. writing /\ queue[1].kind = "start" => queue[1].call # c
    <3> SUFFICES ASSUME writing, queue[1].kind = "start" PROVE queue[1].call # c
      OBVIOUS
    <3>1. record[queue[1].call] = "absent"
      BY DEF IInv, Landing
    <3>2. Sound(c)
      BY DEF IInv
    <3> QED BY <2>2, <3>1, <3>2 DEF Sound
  <2>10. ~closed => entry[c].active
    BY <2>8, <2>9 DEF Retains
  <2> HIDE DEF e
  <2>11. entry' = [entry EXCEPT ![c] = e]
    BY <2>1 DEF e
  <2> QED BY <2>2, <2>4, <2>7, <2>8, <2>10, <2>11, LeaseChanges
<1>4. CASE B!StartBegin
  <2>1. /\ queue # <<>> /\ ~writing /\ UNCHANGED closed
    BY <1>4 DEF B!StartBegin, B!Begins, B!AtHead
  <2>2. PICK c \in Calls : c = queue[1].call
    BY <1>4, HeadIs DEF B!StartBegin, B!Begins, B!AtHead
  <2>3. CASE ~closed /\ B!Admits(c)
    <3> DEFINE e == [B!NoEntry EXCEPT !.lease = TRUE]
    <3>1. entry' = [entry EXCEPT ![c] = e] /\ writing' = TRUE /\ queue' = queue /\ queue[1].kind = "start"
      BY <1>4, <2>2, <2>3 DEF B!StartBegin, B!Begins, B!AtHead
    <3>2. e \in B!Entry /\ e.exec = "none" /\ e.lease
      BY DEF B!NoEntry, B!Entry, B!Statuses
    <3> HIDE DEF e
    <3>3. entry'[c] = e /\ \A d \in Calls : d # c => entry'[d] = entry[d]
      BY <3>1, <3>2, Replaced DEF IInv
    <3>4. Bounded'
      BY <2>1, <2>3, <3>3, OneMoreLease
    <3>5. Retains'
      BY <2>1, <2>2, <2>3, <3>1, <3>2, <3>3 DEF Retains
    <3> QED BY <3>4, <3>5
  <2>4. CASE ~(~closed /\ B!Admits(c))
    BY <1>4, <2>1, <2>2, <2>4, LeasesStay DEF B!StartBegin
  <2> QED BY <2>3, <2>4
<1>5. CASE B!StartWrite
  <2>1. /\ queue # <<>> /\ writing /\ queue[1].kind = "start" /\ UNCHANGED closed
    BY <1>5 DEF B!StartWrite, B!Lands, B!AtHead
  <2>2. PICK c \in Calls : c = queue[1].call
    BY <2>1, HeadIs
  <2> DEFINE e == [entry[c] EXCEPT !.status = "running", !.active = TRUE, !.exec = "running"]
  <2>3. entry' = [entry EXCEPT ![c] = e]
    BY <1>5, <2>2 DEF B!StartWrite
  <2>4. entry[c] \in B!Entry /\ entry[c].lease
    BY <2>1, <2>2 DEF IInv, EntryType, Landing
  <2>5. e \in B!Entry /\ e.lease = entry[c].lease /\ e.active
    BY <2>4 DEF B!Entry, B!Statuses, B!Live
  <2> HIDE DEF e
  <2> QED BY <2>1, <2>2, <2>3, <2>4, <2>5, LeaseChanges
<1>6. CASE B!StartFault
  <2>1. /\ queue # <<>> /\ writing /\ queue[1].kind = "start" /\ UNCHANGED closed
    BY <1>6 DEF B!StartFault, B!Lands, B!AtHead
  <2>2. PICK c \in Calls : c = queue[1].call
    BY <2>1, HeadIs
  <2>3. entry' = [entry EXCEPT ![c] = B!NoEntry]
    BY <1>6, <2>2 DEF B!StartFault
  <2>4. B!NoEntry \in B!Entry /\ ~B!NoEntry.lease /\ B!NoEntry.exec = "none"
    BY DEF B!NoEntry, B!Entry, B!Statuses
  <2> QED BY <2>1, <2>2, <2>3, <2>4, LeaseChanges
<1>7. CASE B!SaveBegin \/ B!SaveWrite \/ B!SaveFault
  <2>1. /\ queue # <<>> /\ queue[1].kind \in ToolSaves /\ UNCHANGED closed
    BY <1>7 DEF B!SaveBegin, B!SaveWrite, B!SaveFault, B!Begins, B!Lands, B!AtHead, ToolSaves
  <2>2. PICK c \in Calls : c = queue[1].call
    BY <2>1, HeadIs DEF ToolSaves
  <2>3. entry[c] \in B!Entry /\ entry[c].exec # "none"
    <3>1. entry[c].exec = Awaits(queue[1].kind)
      BY <2>1, <2>2, HeadIs DEF IInv, Queued
    <3> QED BY <2>1, <3>1 DEF Awaits, ToolSaves, IInv, EntryType
  <2>4. ~closed => entry[c].lease /\ entry[c].active
    BY <2>1, <2>3 DEF Retains, ToolSaves
  <2>5. CASE entry' = entry
    BY <2>1, <2>5, LeasesStay DEF ToolSaves
  <2>6. CASE entry' # entry
    <3>1. PICK e \in B!Entry :
            /\ entry' = [entry EXCEPT ![c] = e]
            /\ \/ e.exec = "none" /\ ~e.lease
               \/ e.lease = entry[c].lease /\ e.active = entry[c].active
      <4>1. CASE entry' = [entry EXCEPT ![c] = B!Released(entry[c])]
        <5> DEFINE x == B!Released(entry[c])
        <5>1. x \in B!Entry /\ x.exec = "none" /\ ~x.lease
          BY <2>3 DEF B!Released, B!Entry
        <5>2. entry' = [entry EXCEPT ![c] = x]
          BY <4>1
        <5> HIDE DEF x
        <5> QED BY <5>1, <5>2
      <4>2. CASE \E x \in Execs : entry' = [entry EXCEPT ![c] = [entry[c] EXCEPT !.exec = x]]
        <5>1. PICK x \in Execs : entry' = [entry EXCEPT ![c] = [entry[c] EXCEPT !.exec = x]]
          BY <4>2
        <5>2. /\ [entry[c] EXCEPT !.exec = x] \in B!Entry
              /\ [entry[c] EXCEPT !.exec = x].lease = entry[c].lease
              /\ [entry[c] EXCEPT !.exec = x].active = entry[c].active
          BY <2>3, ExecSet
        <5> QED BY <5>1, <5>2
      <4>3. CASE \E x \in B!Statuses : entry' = [entry EXCEPT ![c] = [entry[c] EXCEPT !.status = x]]
        <5>1. PICK x \in B!Statuses : entry' = [entry EXCEPT ![c] = [entry[c] EXCEPT !.status = x]]
          BY <4>3
        <5> DEFINE e == [entry[c] EXCEPT !.status = x]
        <5>2. e \in B!Entry /\ e.lease = entry[c].lease /\ e.active = entry[c].active
          BY <2>3 DEF B!Entry
        <5> HIDE DEF e
        <5>3. entry' = [entry EXCEPT ![c] = e]
          BY <5>1 DEF e
        <5> QED BY <5>2, <5>3
      <4>4. CASE B!SaveBegin
        <5>1. CASE closed /\ queue[1].kind = "report"
          BY <2>2, <4>2, <4>4, <5>1 DEF B!SaveBegin, Execs
        <5>2. CASE closed /\ queue[1].kind # "report"
          BY <2>2, <4>1, <4>4, <5>2 DEF B!SaveBegin
        <5>3. CASE ~closed
          <6> DEFINE st == IF entry[c].aborted THEN "cancelled" ELSE queue[1].kind
          <6>1. queue[1].kind # "report" /\ entry' = [entry EXCEPT ![c] = [entry[c] EXCEPT !.status = st]]
            BY <2>2, <2>6, <4>4, <5>3 DEF B!SaveBegin
          <6>2. st \in B!Statuses
            BY <2>1, <6>1 DEF B!Statuses, B!Terminal, ToolSaves
          <6> HIDE DEF st
          <6> QED BY <4>3, <6>1, <6>2
        <5> QED BY <5>1, <5>2, <5>3
      <4>5. CASE B!SaveWrite
        <5>1. CASE queue[1].kind = "report"
          BY <2>2, <4>2, <4>5, <5>1 DEF B!SaveWrite, Execs
        <5>2. CASE queue[1].kind # "report"
          BY <2>2, <4>1, <4>5, <5>2 DEF B!SaveWrite
        <5> QED BY <5>1, <5>2
      <4>6. CASE B!SaveFault
        <5>1. CASE queue[1].kind = "failed"
          BY <2>2, <4>1, <4>6, <5>1 DEF B!SaveFault
        <5>2. CASE queue[1].kind # "failed"
          BY <2>2, <4>2, <4>6, <5>2 DEF B!SaveFault, Execs
        <5> QED BY <5>1, <5>2
      <4> QED BY <1>7, <4>4, <4>5, <4>6
    <3>2. e.lease => entry[c].lease
      BY <3>1
    <3>3. ~closed => (e.exec # "none" => e.lease) /\ (e.lease => e.active)
      BY <2>4, <3>1
    <3> QED BY <2>1, <2>2, <3>1, <3>2, <3>3, LeaseChanges DEF ToolSaves
  <2> QED BY <2>5, <2>6
<1>8. CASE B!CancelBegin
  <2>1. /\ queue # <<>> /\ ~writing /\ UNCHANGED closed
    BY <1>8 DEF B!CancelBegin, B!Begins, B!AtHead
  <2>2. PICK c \in Calls : c = queue[1].call
    BY <1>8, HeadIs DEF B!CancelBegin, B!Begins, B!AtHead
  <2>3. CASE B!Cancels(c)
    <3> DEFINE e == [entry[c] EXCEPT !.aborted = TRUE, !.status = "cancelling"]
    <3>1. entry' = [entry EXCEPT ![c] = e] /\ entry[c].active
      BY <1>8, <2>2, <2>3 DEF B!CancelBegin, B!Cancels
    <3>2. entry[c] \in B!Entry
      BY DEF IInv, EntryType
    <3>3. /\ e \in B!Entry /\ e.lease = entry[c].lease /\ e.active = entry[c].active
          /\ e.exec = entry[c].exec
      BY <3>2 DEF B!Entry, B!Statuses, B!Live
    <3>4. ~closed => (entry[c].exec # "none" => entry[c].lease)
      BY DEF Retains
    <3> HIDE DEF e
    <3> QED BY <2>1, <3>1, <3>3, <3>4, LeaseChanges
  <2>4. CASE ~B!Cancels(c)
    BY <1>8, <2>1, <2>2, <2>4, LeasesStay DEF B!CancelBegin
  <2> QED BY <2>3, <2>4
<1>9. CASE B!CancelWrite \/ B!CancelFault \/ B!CloseFault \/ B!CloseBegin
  <2>1. /\ entry' = entry /\ closed' = closed
        /\ queue[1].kind # "start"
    BY <1>9 DEF B!CancelWrite, B!CancelFault, B!CloseFault, B!CloseBegin, B!Lands, B!Begins, B!AtHead
  <2> QED BY <2>1, LeasesStay
<1>10. CASE B!Restart \/ B!RecoverFault
  BY <1>10, LeasesStay DEF B!Restart, B!Boot, B!Recover, B!Recovered, B!RecoverFault
<1>11. CASE B!Close \/ B!CloseReturn \/ B!CloseWrite
  <2>1. closed'
    <3>1. CASE B!Close
      BY <3>1 DEF B!Close
    <3>2. CASE B!CloseReturn \/ B!CloseWrite
      <4>1. queue # <<>> /\ queue[1].kind = "close" /\ closed' = closed
        BY <3>2 DEF B!CloseReturn, B!CloseWrite, B!Begins, B!Lands, B!AtHead
      <4> QED BY <4>1, HeadIs DEF IInv, Queued
    <3> QED BY <1>11, <3>1, <3>2
  <2>2. ASSUME NEW d \in Calls, entry'[d].lease PROVE entry[d].lease
    <3>1. entry[d] \in B!Entry
      BY DEF IInv, EntryType
    <3>2. CASE B!Close
      BY <2>2, <3>1, <3>2 DEF B!Close, B!Entry
    <3>3. CASE B!CloseReturn
      BY <2>2, <3>1, <3>3 DEF B!CloseReturn, B!Entry
    <3>4. CASE B!CloseWrite
      <4>1. PICK c \in Calls : entry' = [entry EXCEPT ![c] = [entry[c] EXCEPT !.status = "interrupted"]]
        BY <3>4 DEF B!CloseWrite, B!Interrupts, B!Closing
      <4> QED BY <2>2, <3>1, <4>1 DEF IInv, EntryType, B!Entry
    <3> QED BY <1>11, <3>2, <3>3, <3>4
  <2>3. Bounded'
    BY <2>2, FewerLeases
  <2> QED BY <2>1, <2>3 DEF Retains
<1>12. CASE B!Exit \/ B!Crash
  <2>1. \A d \in Calls : ~entry'[d].lease /\ entry'[d].exec = "none"
    BY <1>12 DEF B!Exit, B!Crash, B!Forget, B!NoEntry
  <2>2. Bounded'
    BY <2>1, FewerLeases
  <2> QED BY <2>1, <2>2 DEF Retains
<1> QED
  BY <1>1, <1>2, <1>3, <1>4, <1>5, <1>6, <1>7, <1>8, <1>9, <1>10, <1>11, <1>12
  DEF B!Next, B!Turn, B!Fault

\* With finitely many calls, no chat and no project retains agents for more jobs than
\* its limit, those included whose start is still being written; and until close() no
\* tool runs on an agent that was released.
THEOREM LimitsHold ==
  ASSUME Finite
  PROVE  B!Spec => []B!LeasesInBounds
<1>1. B!Init => Retains /\ Bounded
  <2> SUFFICES ASSUME B!Init PROVE Retains /\ Bounded
    OBVIOUS
  <2>1. \A c \in Calls : ~entry[c].lease /\ entry[c].exec = "none"
    BY DEF B!Init, B!NoEntry
  <2>2. Leased = {}
    BY <2>1 DEF Leased
  <2>3. Cardinality(Leased) = 0
    BY <2>2, FS_EmptySet
  <2> QED BY <2>1, <2>2, <2>3 DEF Retains, Bounded, Finite
<1>2. IInv /\ Retains /\ Bounded /\ [B!Next]_(B!vars) => Retains' /\ Bounded'
  BY LeaseStep
<1>3. IInv /\ Retains /\ Bounded => B!LeasesInBounds
  BY Counts DEF Retains, Bounded, B!LeasesInBounds, Leased, LeasedIn
<1> QED BY <1>1, <1>2, <1>3, Invariant, PTL DEF B!Spec

-----------------------------------------------------------------------------
(* Work.                                                                    *)

\* A step of the gate, or of a deletion, which holds a write of the gate.
GateStep ==
  BeginWrite \/ EndWrite \/ BeginCleanup \/ EndCleanup \/ CheckDelete \/ RemoveChat

\* Whatever schedules, requests, clean-ups and deletions do, the background tools take
\* only the steps BackgroundJobs describes.
THEOREM ToolsKeepTheirRules == Spec => B!Spec
<1>1. Init => B!Init
  BY DEF Init
<1>2. [Next]_vars => [B!Next]_(B!vars)
  <2>1. CASE UNCHANGED vars
    BY <2>1 DEF vars, toolVars, B!vars
  <2>2. CASE Next
    <3>1. CASE GateStep
      BY <3>1 DEF GateStep, BeginWrite, EndWrite, BeginCleanup, EndCleanup, CheckDelete,
              RemoveChat, GateMoves, toolVars, B!vars
    <3>2. CASE \E c \in Calls : StartTool(c)
      BY <3>2 DEF StartTool, B!Next
    <3>3. CASE Tools
      BY <3>3 DEF Tools, B!Next
    <3>4. CASE Schedules \/ CloseSchedules \/ BootSchedules
      BY <3>4 DEF Schedules, CloseSchedules, BootSchedules,
              toolVars, B!vars
    <3>5. CASE CloseTools \/ Exit \/ Crash \/ BootTools
      BY <3>5 DEF CloseTools, Exit, Crash, BootTools, B!Next
    <3> QED BY <2>2, <3>1, <3>2, <3>3, <3>4, <3>5 DEF Next, GateStep
  <2> QED BY <2>1, <2>2
<1> QED BY <1>1, <1>2, PTL DEF Spec, B!Spec

\* AtMostOnce: in a project's server, with its schedules, clean-ups and deletions, a
\* call of start_background_tool is executed at most once.
THEOREM WorkRunsOnce == Spec => []AtMostOnce
  BY ToolsKeepTheirRules, ToolsRunOnce, PTL DEF AtMostOnce

\* LeasesInBounds: no chat or project keeps more agents for its tools than its limit,
\* and a tool keeps its agent until it ends.
THEOREM WorkKeepsLimits == Spec => []LeasesInBounds
<1>1. Finite
  BY ToolsAssumption DEF Finite
<1> QED BY <1>1, ToolsKeepTheirRules, LimitsHold, PTL DEF LeasesInBounds

\* OutcomeIsFinal: the final record of a background job never changes.
THEOREM WorkKeepsOutcomes == Spec => OutcomeIsFinal
  BY ToolsKeepTheirRules, OutcomesStay, PTL DEF OutcomeIsFinal
-----------------------------------------------------------------------------
(* The schedules: their types.                                              *)

Outcome == {"none", "completed", "failed", "interrupted"}
TickPcs == {"idle", "queued", "scan", "look", "reserve", "admit", "load", "save"}
TickState == [pc : TickPcs, now : Nat, mem : [Jobs -> S!Job], todo : SUBSET Jobs,
              job : Jobs \cup {"none"}, before : S!Job, fault : BOOLEAN]
Item == [kind : {"create", "list", "cancel"}, job : Jobs] \cup [kind : {"tick", "unsleep"}]
RouteState == [pc : {"idle", "listing", "cancelling", "cancelled", "answered"},
               job : Jobs \cup {"none"}, occ : Nat]
TurnState == [job : Jobs \cup {"human", "none"}, occ : Nat, aborted : BOOLEAN,
              wake : Jobs \cup {"none"}]
Slot == [occ : Nat, due : Nat, at : Nat]

SchedType == sched \in [Jobs -> S!Job]
LineType == line \in Seq(Item)
TickType == tick \in TickState
RouteType == route \in RouteState
TurnType == turn \in TurnState
EndedType == ended \in [Jobs -> [S!Occs -> Outcome]]
PlaceType ==
  /\ chat \in {"here", "gone"} /\ server \in {"up", "closing", "closed", "down"}
  /\ now \in 0..MaxTime /\ gate \in [writes : Nat, cleaning : BOOLEAN]
SlotsType == slots \in [Jobs -> Seq(Slot)]
RunTypes ==
  /\ SchedType /\ LineType /\ TickType /\ RouteType /\ TurnType /\ EndedType
  /\ PlaceType /\ SlotsType

-----------------------------------------------------------------------------
(* The schedules: what is kept.                                             *)

Working == {"look", "reserve", "admit", "load", "save"}
InLine(kind) == \E i \in 1..Len(line) : line[i].kind = kind

\* Nothing but a turn in the line is the chat's, the tick's, the route's or a creation's:
\* a creation waits in its run, a cancellation in its route, each of them once.
OneTick ==
  /\ \A i \in 1..Len(line) : line[i].kind = "tick" => tick.pc = "queued"
  /\ \A i, k \in 1..Len(line) : line[i].kind = "tick" /\ line[k].kind = "tick" => i = k
OneRoute ==
  /\ \A i \in 1..Len(line) : line[i].kind \in {"list", "cancel"} =>
       /\ line[i].job = route.job
       /\ route.pc = IF line[i].kind = "list" THEN "listing" ELSE "cancelling"
  /\ \A i, k \in 1..Len(line) :
       line[i].kind \in {"list", "cancel"} /\ line[k].kind \in {"list", "cancel"} => i = k
  /\ route.pc = "cancelling" => InLine("cancel")
Creations ==
  /\ \A i \in 1..Len(line) : line[i].kind = "create" =>
       turn # S!NoTurn /\ sched[line[i].job].status = "none"
  /\ \A i, k \in 1..Len(line) :
       line[i].kind = "create" /\ line[k].kind = "create" /\ line[i].job = line[k].job => i = k

\* A run that is not settled is of the chat, and the schedule it woke was made.
Turns ==
  /\ turn.job = "none" => turn = S!NoTurn
  /\ turn.wake # "none" => sched[turn.wake].status # "none"

\* The tick's copy of the file is the file, but for the schedule it is at: a schedule
\* whose reservation was taken back is still reserved on disk.
Alike(k) ==
  /\ tick.mem[k].occ = sched[k].occ /\ tick.mem[k].due = sched[k].due
  /\ \/ tick.mem[k].status = sched[k].status
     \/ tick.mem[k].status \in S!Waiting /\ sched[k].status \in S!Waiting
Advanced(j) ==
  /\ tick.mem[j].status = "scheduled" /\ tick.mem[j].occ = sched[j].occ + 1
  /\ Every[j] # 0 /\ ended[j][sched[j].occ] = "completed"
  /\ tick.mem[j].due > sched[j].due /\ (tick.mem[j].due - sched[j].due) % Every[j] = 0
  /\ Len(slots[j]) > 0 => tick.mem[j].due > slots[j][Len(slots[j])].at
Failed(j) ==
  tick.mem[j].status = "failed" /\ "shutdown" \notin Windows =>
    tick.fault \/ j \in OnTool \/ ended[j][sched[j].occ] \in {"failed", "interrupted"}
Copied ==
  /\ S!InTurn => \A k \in Jobs : Alike(k) \/ (tick.pc = "save" /\ k = tick.job)
  /\ tick.pc \in Working =>
       tick.job \in Jobs /\ tick.job \notin tick.todo /\ sched[tick.job].status \in S!Waiting
  /\ tick.pc \in Working \ {"save"} => tick.mem[tick.job].status \in S!Waiting
  /\ tick.pc = "save" =>
       \/ Advanced(tick.job)
       \/ /\ tick.mem[tick.job].occ = sched[tick.job].occ
          /\ tick.mem[tick.job].due = sched[tick.job].due
          /\ tick.mem[tick.job].status # "none" /\ Failed(tick.job)

\* What a reservation rests on: the occurrence has had no run and is due, and the server
\* is not told to stop while its run is being admitted.
Reserved ==
  /\ tick.pc \in {"reserve", "admit", "load"} =>
       /\ turn.job # tick.job
       /\ chat = "gone" \/ ended[tick.job][sched[tick.job].occ] = "none"
       /\ tick.job \notin OnTool => sched[tick.job].due <= tick.now
  /\ tick.pc = "load" /\ "shutdown" \notin Windows => server = "up"

\* Each occurrence had at most one run, and the ones to come none.
Occurred(j) ==
  LET n == Len(slots[j])
      o == sched[j].occ IN
  /\ o \in S!Occs
  /\ n \in {o, o + 1}
  /\ n = o => turn.job # j /\ \A q \in S!Occs : q >= o => ended[j][q] = "none"
  /\ n = o + 1 => /\ turn.job = j \/ ended[j][o] # "none"
                  /\ \A q \in S!Occs : q > o => ended[j][q] = "none"
  /\ turn.job = j => turn.occ = o /\ ended[j][o] = "none"
  /\ sched[j].status = "none" => sched[j] = S!NoJob /\ n = 0
  /\ sched[j].status # "none" => sched[j].due > o
  /\ Every[j] = 0 => o = 0

\* The slots are on a grid, and the next one is after the last run.
OnGrid(j) ==
  LET n == Len(slots[j])
      o == sched[j].occ IN
  /\ \A i \in 1..n : slots[j][i].at <= now /\ slots[j][i].due >= i
  /\ n > 0 /\ n = o => sched[j].due > slots[j][n].at
  /\ n = o + 1 => sched[j].due = slots[j][n].due
  /\ n > 0 /\ Every[j] # 0 => (sched[j].due - slots[j][1].due) % Every[j] = 0

\* A tick that has yet to come to a schedule was fired after the schedule's last run.
Later ==
  /\ tick.now <= now
  /\ \A j \in Jobs :
       /\ Len(slots[j]) > 0
       /\ \/ tick.pc = "queued"
          \/ S!InTurn /\ j \in tick.todo
          \/ tick.pc = "look" /\ j = tick.job
       => slots[j][Len(slots[j])].at <= tick.now

\* The schedule a person cancels: between the listing and the cancellation at most one
\* tick passes it; after that it is cancelled for good.
Passed(j) ==
  /\ turn.job # j
  /\ S!InTurn => j \notin tick.todo /\ tick.job # j
  /\ \A i, k \in 1..Len(line) : line[i].kind = "tick" /\ line[k].kind = "cancel" => k < i
Routed ==
  LET j == route.job IN
  /\ route.pc # "idle" => j \in Jobs /\ sched[j].status # "none"
  /\ route.pc = "cancelling" =>
       sched[j].occ = route.occ \/ (sched[j].occ = route.occ + 1 /\ Passed(j))
  /\ route.pc \in {"cancelled", "answered"} => sched[j].status = "cancelled"
  /\ route.pc = "cancelled" /\ turn.job = j => turn.occ = route.occ
  /\ route.pc = "answered" /\ turn.job = j => turn.aborted

Slotted == \A j \in Jobs : Occurred(j)
Gridded == \A j \in Jobs : OnGrid(j)

SInv ==
  /\ RunTypes /\ OneTick /\ OneRoute /\ Creations /\ Turns /\ Copied /\ Reserved
  /\ Slotted /\ Gridded /\ OccurrencesInOrder /\ Later /\ Routed

-----------------------------------------------------------------------------
(* Facts about the line and the tick.                                       *)

\* A turn in the line is a schedule's, or is a tick or a run's.
LEMMA ItemIs ==
  ASSUME LineType, NEW i \in 1..Len(line)
  PROVE  /\ line[i] \in Item
         /\ line[i].kind \in {"create", "list", "cancel", "tick", "unsleep"}
         /\ line[i].kind \in {"create", "list", "cancel"} => line[i].job \in Jobs
<1>1. line[i] \in Item
  BY DEF LineType
<1>2. CASE line[i] \in [kind : {"create", "list", "cancel"}, job : Jobs]
  BY <1>1, <1>2
<1>3. CASE line[i] \in [kind : {"tick", "unsleep"}]
  BY <1>1, <1>3
<1> QED BY <1>1, <1>2, <1>3 DEF Item

\* The line grows at its end, ...
LEMMA Joins ==
  ASSUME LineType, NEW x \in Item, line' = Append(line, x)
  PROVE  /\ LineType' /\ Len(line) \in Nat /\ Len(line') = Len(line) + 1
         /\ line'[Len(line) + 1] = x
         /\ \A i \in 1..Len(line) : line'[i] = line[i]
  BY DEF LineType

\* ... and its head has its turn.
LEMMA Leaves ==
  ASSUME LineType, line # <<>>, line' = Tail(line)
  PROVE  /\ LineType' /\ Len(line) \in Nat \ {0} /\ Len(line') = Len(line) - 1
         /\ \A i \in 1..Len(line') : i + 1 \in 2..Len(line) /\ line'[i] = line[i + 1]
  BY DEF LineType

\* Of the turns behind the head, each schedule still has one creation.
LEMMA CreationsLeave ==
  ASSUME Creations, NEW n \in Nat, \A i \in 1..n : i + 1 \in 1..Len(line) /\ line'[i] = line[i + 1]
  PROVE  \A i, k \in 1..n :
           line'[i].kind = "create" /\ line'[k].kind = "create" /\ line'[i].job = line'[k].job
             => i = k
<1> SUFFICES ASSUME NEW i \in 1..n, NEW k \in 1..n, line'[i].kind = "create",
                    line'[k].kind = "create", line'[i].job = line'[k].job
             PROVE  i = k
  OBVIOUS
<1>1. /\ i + 1 \in 1..Len(line) /\ line'[i] = line[i + 1]
      /\ k + 1 \in 1..Len(line) /\ line'[k] = line[k + 1]
  OBVIOUS
<1>2. i + 1 = k + 1
  BY <1>1 DEF Creations
<1> QED BY <1>2

\* What the steps of a tick make of it.
LEMMA TickSaves ==
  ASSUME TickType, tick.job \in Jobs, NEW job \in S!Job, S!ToSave(job)
  PROVE  /\ TickType' /\ tick'.pc = "save" /\ tick'.mem[tick.job] = job
         /\ \A k \in Jobs : k # tick.job => tick'.mem[k] = tick.mem[k]
         /\ tick'.job = tick.job /\ tick'.now = tick.now /\ tick'.todo = tick.todo
         /\ tick'.before = tick.before /\ tick'.fault = tick.fault
<1>1. tick' = [tick EXCEPT !.mem = [tick.mem EXCEPT ![tick.job] = job], !.pc = "save"]
  BY DEF S!ToSave, TickType, TickState
<1> DEFINE m == [tick.mem EXCEPT ![tick.job] = job]
<1>2. m \in [Jobs -> S!Job] /\ m[tick.job] = job /\ \A k \in Jobs : k # tick.job => m[k] = tick.mem[k]
  BY DEF TickType, TickState
<1> HIDE DEF m
<1>3. tick' = [tick EXCEPT !.mem = m, !.pc = "save"]
  BY <1>1 DEF m
<1> QED BY <1>2, <1>3 DEF TickType, TickState, TickPcs

\* (It goes on to the next schedule.)
LEMMA TickGoesOn ==
  ASSUME TickType, S!ToNext
  PROVE  /\ TickType' /\ tick'.pc = "scan" /\ tick'.mem = tick.mem /\ tick'.todo = tick.todo
         /\ tick'.now = tick.now
  BY DEF S!ToNext, TickType, TickState, TickPcs

\* (It ends.)
LEMMA TickEnds ==
  ASSUME tick' = S!IdleTick
  PROVE  TickType' /\ tick'.pc = "idle" /\ tick'.now = 0
  BY DEF S!IdleTick, S!NoJob, S!Job, TickType, TickState, TickPcs

\* (It moves on.)
LEMMA TickMoves ==
  ASSUME TickType, NEW pc \in TickPcs, tick' = [tick EXCEPT !.pc = pc]
  PROVE  /\ TickType' /\ tick'.pc = pc /\ tick'.mem = tick.mem /\ tick'.todo = tick.todo
         /\ tick'.now = tick.now /\ tick'.job = tick.job /\ tick'.before = tick.before
         /\ tick'.fault = tick.fault
  BY DEF TickType, TickState

\* An entry of the file, status by status.
LEMMA JobWith ==
  ASSUME NEW job \in S!Job, NEW s \in {"none", "cancelled", "completed", "failed"} \cup S!Waiting
  PROVE  /\ [job EXCEPT !.status = s] \in S!Job
         /\ [job EXCEPT !.status = s].status = s
         /\ [job EXCEPT !.status = s].occ = job.occ /\ [job EXCEPT !.status = s].due = job.due
  BY DEF S!Job, S!Waiting

\* No run is one of a schedule's, and of no other.
LEMMA NoTurnIs ==
  /\ S!NoTurn \in TurnState /\ S!NoTurn.job = "none" /\ S!NoTurn.wake = "none"
  /\ S!NoTurn.job \notin Jobs /\ ~S!NoTurn.aborted
  BY SchedulesAssumption DEF S!NoTurn, S!RunOf, TurnState

\* A slot has an occurrence and two times.
LEMMA SlotIs ==
  ASSUME NEW s \in Seq(Slot), NEW i \in 1..Len(s)
  PROVE  s[i] \in Slot /\ s[i].occ \in Nat /\ s[i].due \in Nat /\ s[i].at \in Nat
<1>1. s[i] \in Slot
  OBVIOUS
<1> QED BY <1>1 DEF Slot

-----------------------------------------------------------------------------
(* Facts about times.                                                       *)

\* A multiple leaves nothing, ...
LEMMA Multiple == ASSUME NEW k \in Int, NEW e \in Nat \ {0} PROVE (e * k) % e = 0
  OBVIOUS

\* ... and two times on a grid stay on it together.
LEMMA Grid ==
  ASSUME NEW a \in Int, NEW b \in Int, NEW e \in Nat \ {0}, a % e = 0, b % e = 0
  PROVE  (a + b) % e = 0
<1> DEFINE x == a \div e
           y == b \div e
<1>1. x \in Int /\ y \in Int /\ a = e * x /\ b = e * y
  OBVIOUS
<1>2. a + b = e * (x + y)
  BY <1>1
<1>3. (e * (x + y)) % e = 0
  BY <1>1, Multiple
<1> QED BY <1>2, <1>3

\* The next time of a schedule is on its grid, after the tick and after the last time.
LEMMA NextIsLater ==
  ASSUME NEW d \in Nat, NEW t \in Nat, NEW e \in Nat \ {0}
  PROVE  LET n == d + ((IF t > d THEN t - d ELSE 0) \div e + 1) * e
         IN  n \in Nat /\ n > t /\ n > d /\ (n - d) % e = 0
<1> DEFINE a == IF t > d THEN t - d ELSE 0
           q == a \div e
           m == (q + 1) * e
<1>1. a \in Nat /\ d + a >= t
  OBVIOUS
<1> HIDE DEF a
<1>2. q \in Nat /\ a < m
  BY <1>1
<1>3. m \in Nat /\ m > 0 /\ m % e = 0
  <2>1. m = e * (q + 1)
    BY <1>2
  <2>2. (e * (q + 1)) % e = 0
    BY <1>2, Multiple
  <2> HIDE DEF q
  <2>3. m \in Int
    BY <1>2
  <2> QED BY <2>1, <2>2, <2>3, <1>1, <1>2
<1> HIDE DEF m
<1>4. d + m > t /\ d + m > d /\ (d + m) - d = m /\ d + m \in Nat
  BY <1>1, <1>2, <1>3
<1> QED BY <1>3, <1>4 DEF m, a

-----------------------------------------------------------------------------
(* What does not read a change is kept over it.                             *)

SameRun == turn'.job = turn.job /\ turn'.occ = turn.occ

\* What is known of the line, ...
LEMMA LineKept ==
  ASSUME UNCHANGED line
  PROVE  /\ UNCHANGED tick => (OneTick => OneTick')
         /\ UNCHANGED route => (OneRoute => OneRoute')
         /\ UNCHANGED sched /\ turn' # S!NoTurn => (Creations => Creations')
         /\ UNCHANGED <<sched, turn>> => (Creations => Creations')
<1>1. UNCHANGED tick => (OneTick => OneTick')
  BY DEF OneTick
<1>2. UNCHANGED route => (OneRoute => OneRoute')
  BY DEF OneRoute, InLine
<1>3. UNCHANGED sched /\ (turn' = turn \/ turn' # S!NoTurn) => (Creations => Creations')
  BY DEF Creations
<1> QED BY <1>1, <1>2, <1>3

\* ... of the tick, ...
LEMMA TickKept ==
  /\ UNCHANGED <<tick, sched, ended, slots>> => (Copied => Copied')
  /\ UNCHANGED <<tick, sched, ended, server>> /\ chat' \in {chat, "gone"} /\ turn'.job = turn.job =>
       (Reserved => Reserved')
  /\ UNCHANGED <<tick, slots, now>> => (Later => Later')
<1>1. UNCHANGED <<tick, sched, ended, slots>> => (Copied => Copied')
  BY DEF Copied, S!InTurn, Alike, Advanced, Failed, Working, S!Waiting
<1>2. UNCHANGED <<tick, sched, ended, server>> /\ chat' \in {chat, "gone"} /\ turn'.job = turn.job =>
        (Reserved => Reserved')
  BY DEF Reserved
<1>3. UNCHANGED <<tick, slots, now>> => (Later => Later')
  BY DEF Later, S!InTurn
<1> QED BY <1>1, <1>2, <1>3

\* ... of the slots, ...
LEMMA SlotsKept ==
  ASSUME UNCHANGED <<slots, sched>>
  PROVE  /\ SameRun /\ UNCHANGED ended => (Slotted => Slotted')
         /\ UNCHANGED now => (Gridded => Gridded')
<1>1. SameRun /\ UNCHANGED ended => (Slotted => Slotted')
  BY DEF SameRun, Slotted, Occurred, S!Occs, S!NoJob
<1>2. UNCHANGED now => (Gridded => Gridded')
  BY DEF Gridded, OnGrid
<1> QED BY <1>1, <1>2

\* (of their order,)
LEMMA OrderKept == UNCHANGED slots => (OccurrencesInOrder => OccurrencesInOrder')
  BY DEF OccurrencesInOrder, S!OccurrencesInOrder

\* ... and of the run and the route.
LEMMA RunKept ==
  /\ UNCHANGED <<sched, turn>> => (Turns => Turns')
  /\ UNCHANGED <<route, sched, tick, line>> /\ SameRun /\ (turn.aborted => turn'.aborted) =>
       (Routed => Routed')
<1>1. UNCHANGED <<sched, turn>> => (Turns => Turns')
  BY DEF Turns
<1>2. UNCHANGED <<route, sched, tick, line>> /\ SameRun /\ (turn.aborted => turn'.aborted) =>
        (Routed => Routed')
  BY DEF Routed, Passed, SameRun, S!InTurn
<1> QED BY <1>1, <1>2

-----------------------------------------------------------------------------
(* Steps that leave the schedules alone.                                    *)

\* The gate, the requests and the tools: at most a chat goes.
LEMMA OuterKeeps ==
  ASSUME SInv, UNCHANGED <<sched, line, tick, route, turn, ended, server, now, slots>>,
         chat' \in {chat, "gone"}, gate' \in [writes : Nat, cleaning : BOOLEAN]
  PROVE  SInv'
<1>1. RunTypes'
  BY DEF SInv, RunTypes, SchedType, LineType, TickType, RouteType, TurnType, EndedType,
         PlaceType, SlotsType
<1> QED BY <1>1, LineKept, TickKept, SlotsKept, OrderKept, RunKept DEF SInv, SameRun

\* The clock.
LEMMA PassKeeps == ASSUME SInv, S!Pass PROVE SInv'
<1>1. RunTypes' /\ now \in Nat /\ now' = now + 1
  BY BoundsAssumption
  DEF S!Pass, SInv, RunTypes, SchedType, LineType, TickType, RouteType, TurnType, EndedType,
      PlaceType, SlotsType
<1>2. Later'
  BY <1>1 DEF S!Pass, SInv, Later, S!InTurn, RunTypes, TickType, TickState
<1>3. Gridded'
  <2> SUFFICES ASSUME NEW j \in Jobs PROVE OnGrid(j)'
    BY DEF Gridded
  <2>1. slots[j] \in Seq(Slot) /\ OnGrid(j) /\ UNCHANGED <<sched, slots>>
    BY DEF S!Pass, SInv, RunTypes, SlotsType, Gridded
  <2>2. \A i \in 1..Len(slots[j]) : slots[j][i].at \in Nat
    BY <2>1, SlotIs
  <2>3. \A i \in 1..Len(slots[j]) : slots[j][i].at <= now /\ slots[j][i].due >= i
    BY <2>1 DEF OnGrid
  <2>4. \A i \in 1..Len(slots[j]) : slots[j][i].at <= now' /\ slots[j][i].due >= i
    BY <1>1, <2>2, <2>3
  <2>5. slots'[j] = slots[j] /\ sched'[j] = sched[j]
    BY <2>1
  <2> QED BY <2>1, <2>4, <2>5 DEF OnGrid
<1> QED BY <1>1, <1>2, <1>3, LineKept, TickKept, SlotsKept, OrderKept, RunKept
        DEF SInv, SameRun, S!Pass

\* The process.
LEMMA ServerKeeps == ASSUME SInv, S!Close \/ S!CloseReturn \/ S!Boot PROVE SInv'
<1>1. UNCHANGED <<sched, line, tick, route, turn, ended, chat, now, slots, gate>>
  BY DEF S!Close, S!CloseReturn, S!Boot
<1>2. RunTypes'
  BY <1>1 DEF S!Close, S!CloseReturn, S!Boot, SInv, RunTypes, SchedType, LineType, TickType, RouteType, TurnType, EndedType,
      PlaceType, SlotsType
<1>3. Reserved'
  BY <1>1 DEF S!Close, S!CloseReturn, S!Boot, SInv, Reserved, S!Pending
<1> QED BY <1>1, <1>2, <1>3, LineKept, TickKept, SlotsKept, OrderKept, RunKept
        DEF SInv, SameRun

-----------------------------------------------------------------------------
(* Steps of requests: what joins the line, and what the line's head does.   *)

\* A person's run.
LEMMA PostKeeps == ASSUME SInv, S!Post PROVE SInv'
<1>1. /\ UNCHANGED <<sched, line, tick, route, ended, chat, server, now, slots, gate>>
      /\ turn = S!NoTurn /\ turn' = S!Human
  BY DEF S!Post
<1>2. /\ turn' \in TurnState /\ turn'.job = "human" /\ turn'.wake = "none" /\ turn' # S!NoTurn
      /\ "human" \notin Jobs /\ turn.job \notin Jobs
  BY <1>1, NoTurnIs, SchedulesAssumption DEF S!Human, S!NoTurn, S!RunOf, TurnState
<1>3. RunTypes'
  BY <1>1, <1>2 DEF SInv, RunTypes, SchedType, LineType, TickType, RouteType, TurnType,
     EndedType, PlaceType, SlotsType
<1>4. Turns' /\ Creations'
  BY <1>1, <1>2, LineKept DEF SInv, Turns
<1>5. Slotted'
  BY <1>1, <1>2 DEF SInv, Slotted, Occurred, S!Occs, S!NoJob
<1>6. Reserved'
  BY <1>1, <1>2 DEF SInv, Reserved, Copied, Working
<1>7. Routed'
  BY <1>1, <1>2 DEF SInv, Routed, Passed, S!InTurn
<1> QED BY <1>1, <1>3, <1>4, <1>5, <1>6, <1>7, LineKept, TickKept, SlotsKept, OrderKept
        DEF SInv

\* A creation joins the line.
LEMMA CreateKeeps == ASSUME SInv, NEW j \in Jobs, S!Create(j) PROVE SInv'
<1> DEFINE x == [kind |-> "create", job |-> j]
<1>1. /\ UNCHANGED <<sched, tick, route, turn, ended, chat, server, now, slots, gate>>
      /\ turn # S!NoTurn /\ sched[j] = S!NoJob /\ line' = Append(line, x)
      /\ \A i \in 1..Len(line) : line[i] # x
  BY DEF S!Create
<1>2. x \in Item /\ x.kind = "create" /\ x.job = j
  BY DEF Item
<1>3. LineType
  BY DEF SInv, RunTypes
<1>4. \A i \in 1..Len(line) : line[i].kind = "create" => line[i].job # j
  <2> SUFFICES ASSUME NEW i \in 1..Len(line), line[i].kind = "create", line[i].job = j
               PROVE  FALSE
    OBVIOUS
  <2>1. line[i] \in Item
    BY <1>3, ItemIs
  <2>2. line[i] \in [kind : {"create", "list", "cancel"}, job : Jobs]
    BY <2>1 DEF Item
  <2>3. line[i] = x
    BY <2>2
  <2> QED BY <1>1, <2>3
<1> HIDE DEF x
<1>5. /\ LineType' /\ Len(line) \in Nat /\ Len(line') = Len(line) + 1
      /\ line'[Len(line) + 1] = x /\ \A i \in 1..Len(line) : line'[i] = line[i]
  BY <1>1, <1>2, <1>3, Joins
<1>6. RunTypes'
  BY <1>1, <1>5 DEF SInv, RunTypes, SchedType, TickType, RouteType, TurnType, EndedType,
     PlaceType, SlotsType
<1>7. OneTick'
  BY <1>1, <1>2, <1>5 DEF SInv, OneTick
<1>8. OneRoute'
  BY <1>1, <1>2, <1>5 DEF SInv, OneRoute, InLine
<1>9. Creations'
  BY <1>1, <1>2, <1>4, <1>5 DEF SInv, Creations, S!NoJob
<1>10. Routed'
  BY <1>1, <1>2, <1>5 DEF SInv, Routed, Passed, S!InTurn
<1> QED BY <1>1, <1>6, <1>7, <1>8, <1>9, <1>10, TickKept, SlotsKept, OrderKept, RunKept
        DEF SInv, SameRun

\* A cancellation joins the line.
LEMMA RouteCancelKeeps == ASSUME SInv, NEW j \in Jobs, S!RouteCancel(j) PROVE SInv'
<1> DEFINE x == [kind |-> "list", job |-> j]
<1>1. /\ UNCHANGED <<sched, tick, turn, ended, chat, server, now, slots, gate>>
      /\ route.pc = "idle" /\ sched[j] # S!NoJob /\ line' = Append(line, x)
      /\ route' = [pc |-> "listing", job |-> j, occ |-> 0]
  BY DEF S!RouteCancel
<1>2. x \in Item /\ x.kind = "list" /\ x.job = j
  BY DEF Item
<1>3. LineType
  BY DEF SInv, RunTypes
<1> HIDE DEF x
<1>5. /\ LineType' /\ Len(line) \in Nat /\ Len(line') = Len(line) + 1
      /\ line'[Len(line) + 1] = x /\ \A i \in 1..Len(line) : line'[i] = line[i]
  BY <1>1, <1>2, <1>3, Joins
<1>6. RunTypes'
  BY <1>1, <1>5 DEF SInv, RunTypes, SchedType, TickType, RouteType, RouteState, TurnType,
     EndedType, PlaceType, SlotsType
<1>7. OneTick'
  BY <1>1, <1>2, <1>5 DEF SInv, OneTick
<1>8. \A i \in 1..Len(line) : line[i].kind \notin {"list", "cancel"}
  BY <1>1 DEF SInv, OneRoute
<1>9. OneRoute'
  BY <1>1, <1>2, <1>5, <1>8 DEF OneRoute, InLine
<1>10. Creations'
  BY <1>1, <1>2, <1>5 DEF SInv, Creations
<1>11. Routed'
  BY <1>1 DEF SInv, Routed, Slotted, Occurred
<1> QED BY <1>1, <1>6, <1>7, <1>9, <1>10, <1>11, TickKept, SlotsKept, OrderKept, RunKept
        DEF SInv, SameRun

\* The timer fires: a tick joins the line.
LEMMA FireKeeps == ASSUME SInv, S!Fire PROVE SInv'
<1> DEFINE x == [kind |-> "tick"]
<1>1. /\ UNCHANGED <<sched, route, turn, ended, chat, server, now, slots, limit, gate>>
      /\ tick.pc = "idle" /\ line' = Append(line, x)
      /\ tick' = [S!IdleTick EXCEPT !.pc = "queued", !.now = now]
  BY DEF S!Fire, S!outside
<1>2. x \in Item /\ x.kind = "tick"
  BY DEF Item
<1>3. LineType /\ now \in Nat
  BY BoundsAssumption DEF SInv, RunTypes, PlaceType
<1> HIDE DEF x
<1>4. /\ LineType' /\ Len(line) \in Nat /\ Len(line') = Len(line) + 1
      /\ line'[Len(line) + 1] = x /\ \A i \in 1..Len(line) : line'[i] = line[i]
  BY <1>1, <1>2, <1>3, Joins
<1>5. TickType' /\ tick'.pc = "queued" /\ tick'.now = now
  BY <1>1, <1>3 DEF S!IdleTick, S!NoJob, S!Job, TickType, TickState, TickPcs
<1>6. RunTypes'
  BY <1>1, <1>4, <1>5 DEF SInv, RunTypes, SchedType, RouteType, TurnType, EndedType,
     PlaceType, SlotsType
<1>7. OneTick'
  BY <1>1, <1>2, <1>4, <1>5 DEF SInv, OneTick
<1>8. OneRoute'
  BY <1>1, <1>2, <1>4 DEF SInv, OneRoute, InLine
<1>9. Creations'
  BY <1>1, <1>2, <1>4 DEF SInv, Creations
<1>10. Copied' /\ Reserved'
  BY <1>5 DEF Copied, Reserved, Working, S!InTurn
<1>11. Later'
  <2> SUFFICES ASSUME NEW j \in Jobs, Len(slots[j]) > 0
               PROVE  slots[j][Len(slots[j])].at <= now
    BY <1>1, <1>3, <1>5 DEF Later
  <2>1. slots[j] \in Seq(Slot) /\ OnGrid(j)
    BY DEF SInv, RunTypes, SlotsType, Gridded
  <2>2. Len(slots[j]) \in 1..Len(slots[j])
    BY <2>1
  <2> QED BY <2>1, <2>2 DEF OnGrid
<1>12. Routed'
  BY <1>1, <1>2, <1>4, <1>5 DEF SInv, Routed, Passed, S!InTurn, OneRoute
<1> QED BY <1>1, <1>6, <1>7, <1>8, <1>9, <1>10, <1>11, <1>12, SlotsKept, OrderKept, RunKept
        DEF SInv, SameRun

\* A run asks for its wake-up to be cancelled.
LEMMA AskUnsleepKeeps == ASSUME SInv, S!AskUnsleep PROVE SInv'
<1> DEFINE x == [kind |-> "unsleep"]
<1>1. /\ UNCHANGED <<sched, tick, route, ended, chat, server, now, slots, limit, gate>>
      /\ turn.wake # "none" /\ line' = Append(line, x)
      /\ turn' = [turn EXCEPT !.aborted = TRUE]
      /\ \A i \in 1..Len(line) : line[i].kind # "create"
  BY DEF S!AskUnsleep, S!outside, S!Queued
<1>2. x \in Item /\ x.kind = "unsleep"
  BY DEF Item
<1>3. LineType /\ turn \in TurnState
  BY DEF SInv, RunTypes, TurnType
<1> HIDE DEF x
<1>4. /\ LineType' /\ Len(line) \in Nat /\ Len(line') = Len(line) + 1
      /\ line'[Len(line) + 1] = x /\ \A i \in 1..Len(line) : line'[i] = line[i]
  BY <1>1, <1>2, <1>3, Joins
<1>5. /\ turn' \in TurnState /\ turn'.job = turn.job /\ turn'.occ = turn.occ
      /\ turn'.wake = turn.wake /\ turn'.aborted
  BY <1>1, <1>3 DEF TurnState
<1>6. RunTypes'
  BY <1>1, <1>4, <1>5 DEF SInv, RunTypes, SchedType, TickType, RouteType, TurnType, EndedType,
     PlaceType, SlotsType
<1>7. OneTick'
  BY <1>1, <1>2, <1>4 DEF SInv, OneTick
<1>8. OneRoute'
  BY <1>1, <1>2, <1>4 DEF SInv, OneRoute, InLine
<1>9. Creations'
  BY <1>1, <1>2, <1>4 DEF Creations
<1>10. Turns'
  BY <1>1, <1>5, NoTurnIs DEF SInv, Turns
<1>11. Routed'
  BY <1>1, <1>2, <1>4, <1>5 DEF SInv, Routed, Passed, S!InTurn
<1> QED BY <1>1, <1>5, <1>6, <1>7, <1>8, <1>9, <1>10, <1>11, TickKept, SlotsKept, OrderKept
        DEF SInv, SameRun

\* A run ends, or is found interrupted.
LEMMA RunEnds ==
  ASSUME SInv, NEW how \in Outcome \ {"none"}, turn' = S!NoTurn,
         ended' = IF turn.job \in Jobs THEN [ended EXCEPT ![turn.job][turn.occ] = how]
                  ELSE ended,
         UNCHANGED <<sched, slots>>
  PROVE  /\ EndedType' /\ TurnType' /\ Turns' /\ Slotted'
         /\ \A j \in Jobs, q \in S!Occs :
              ended'[j][q] # ended[j][q] => j = turn.job /\ q = turn.occ /\ ended[j][q] = "none"
<1>1. turn'.job = "none" /\ turn'.wake = "none" /\ turn'.job \notin Jobs /\ turn' \in TurnState
  BY NoTurnIs
<1>2. EndedType /\ Slotted
  BY DEF SInv, RunTypes
<1>3. CASE turn.job \notin Jobs
  <2>1. ended' = ended
    BY <1>3
  <2>2. Slotted'
    BY <1>1, <1>2, <1>3, <2>1 DEF Slotted, Occurred, S!Occs, S!NoJob
  <2> QED BY <1>1, <1>2, <2>1, <2>2 DEF EndedType, TurnType, Turns
<1>4. CASE turn.job \in Jobs
  <2> PICK t \in Jobs : t = turn.job
    BY <1>4
  <2> DEFINE f == [ended[t] EXCEPT ![turn.occ] = how]
  <2>1. /\ Occurred(t) /\ turn.occ = sched[t].occ /\ turn.occ \in S!Occs
        /\ ended[t][turn.occ] = "none"
    BY <1>2, <1>4 DEF Slotted, Occurred
  <2>2. ended[t] \in [S!Occs -> Outcome]
    BY <1>2, <1>4 DEF EndedType
  <2>3. /\ f \in [S!Occs -> Outcome] /\ f[turn.occ] = how
        /\ \A q \in S!Occs : q # turn.occ => f[q] = ended[t][q]
    BY <2>1, <2>2
  <2>4. ended' = [ended EXCEPT ![t] = f]
    BY <1>4
  <2> HIDE DEF f
  <2>5. ended' \in [Jobs -> [S!Occs -> Outcome]] /\ ended'[t] = f
        /\ \A j \in Jobs : j # t => ended'[j] = ended[j]
    BY <1>2, <1>4, <2>3, <2>4 DEF EndedType
  <2>6. Occurred(t)'
    <3>1. Len(slots[t]) = sched[t].occ + 1
      BY <1>4, <2>1 DEF Occurred
    <3>2. turn'.job # t /\ ended'[t][sched[t].occ] # "none"
      BY <1>1, <2>1, <2>3, <2>5
    <3>3. \A q \in S!Occs : q > sched[t].occ => ended'[t][q] = "none"
      <4>1. \A q \in S!Occs : q > sched[t].occ => ended[t][q] = "none"
        BY <2>1, <3>1 DEF Occurred
      <4>2. \A q \in S!Occs : q > sched[t].occ => q # turn.occ
        BY <2>1, BoundsAssumption DEF S!Occs
      <4> QED BY <2>3, <2>5, <4>1, <4>2
    <3> QED BY <2>1, <3>1, <3>2, <3>3, BoundsAssumption DEF Occurred, S!Occs, S!NoJob
  <2>7. \A j \in Jobs : j # t => Occurred(j)'
    BY <1>1, <1>2, <2>5 DEF Slotted, Occurred, S!Occs, S!NoJob
  <2>8. Slotted'
    BY <2>6, <2>7 DEF Slotted
  <2>9. \A j \in Jobs, q \in S!Occs :
          ended'[j][q] # ended[j][q] => j = t /\ q = turn.occ /\ ended[j][q] = "none"
    BY <2>1, <2>3, <2>5
  <2> QED BY <1>1, <2>5, <2>8, <2>9 DEF EndedType, TurnType, Turns
<1> QED BY <1>3, <1>4

\* (What else is known over the end of a run.)
LEMMA RunEndsWell == ASSUME SInv, S!EndTurn PROVE SInv'
<1>1. /\ UNCHANGED <<sched, line, tick, route, chat, server, now, slots, limit, gate>>
      /\ turn' = S!NoTurn /\ \A i \in 1..Len(line) : line[i].kind # "create"
  BY DEF S!EndTurn, S!outside, S!Queued
<1>2. PICK how \in {"completed", "failed"} :
        ended' = IF turn.job \in Jobs THEN [ended EXCEPT ![turn.job][turn.occ] = how] ELSE ended
  BY DEF S!EndTurn
<1>3. how \in Outcome \ {"none"}
  BY DEF Outcome
<1>4. /\ EndedType' /\ TurnType' /\ Turns' /\ Slotted'
      /\ \A j \in Jobs, q \in S!Occs :
           ended'[j][q] # ended[j][q] => j = turn.job /\ q = turn.occ /\ ended[j][q] = "none"
  BY <1>1, <1>2, <1>3, RunEnds
<1>5. turn'.job = "none" /\ turn'.job \notin Jobs
  BY <1>1, NoTurnIs
<1>6. RunTypes'
  BY <1>1, <1>4 DEF SInv, RunTypes, SchedType, LineType, TickType, RouteType, PlaceType,
     SlotsType
<1>7. Creations'
  BY <1>1 DEF Creations
<1>8. \A j \in Jobs : sched[j].occ \in S!Occs
  BY DEF SInv, Slotted, Occurred
<1>9. Copied'
  <2>1. \A j \in Jobs : ended[j][sched[j].occ] # "none" =>
          ended'[j][sched[j].occ] = ended[j][sched[j].occ]
    BY <1>4, <1>8
  <2> QED BY <1>1, <2>1 DEF SInv, Copied, S!InTurn, Alike, Advanced, Failed, Working, S!Waiting
<1>10. Reserved'
  <2>1. tick.pc \in {"reserve", "admit", "load"} =>
          ended'[tick.job][sched[tick.job].occ] = ended[tick.job][sched[tick.job].occ]
    BY <1>4, <1>8 DEF SInv, Reserved, Copied, Working
  <2> QED BY <1>1, <1>5, <2>1 DEF SInv, Reserved, Copied, Working
<1>11. Routed'
  BY <1>1, <1>5 DEF SInv, Routed, Passed, S!InTurn
<1> QED BY <1>1, <1>4, <1>6, <1>7, <1>9, <1>10, <1>11, LineKept, TickKept, SlotsKept, OrderKept
        DEF SInv

\* The process ends.
LEMMA ForgetKeeps ==
  ASSUME SInv, S!Forget, UNCHANGED <<sched, chat, now, slots>>,
         gate' = [writes |-> 0, cleaning |-> FALSE]
  PROVE  SInv'
<1>1. /\ line' = <<>> /\ tick' = S!IdleTick /\ route' = S!NoRoute /\ turn' = S!NoTurn
      /\ server' = "down"
      /\ ended' = IF turn.job \in Jobs
                  THEN [ended EXCEPT ![turn.job][turn.occ] = "interrupted"] ELSE ended
  BY DEF S!Forget
<1>2. EndedType' /\ TurnType' /\ Turns' /\ Slotted'
  <2>1. "interrupted" \in Outcome \ {"none"}
    BY DEF Outcome
  <2> QED BY <1>1, <2>1, RunEnds
<1>3. TickType' /\ tick'.pc = "idle" /\ tick'.now = 0
  BY <1>1, TickEnds
<1>4. RouteType' /\ route'.pc = "idle"
  BY <1>1 DEF S!NoRoute, RouteType, RouteState
<1>5. LineType' /\ Len(line') = 0
  BY <1>1 DEF LineType
<1>6. RunTypes'
  BY <1>1, <1>2, <1>3, <1>4, <1>5 DEF SInv, RunTypes, SchedType, PlaceType, SlotsType
<1>7. OneTick' /\ OneRoute' /\ Creations'
  BY <1>4, <1>5 DEF OneTick, OneRoute, InLine, Creations
<1>8. Copied' /\ Reserved' /\ Later'
  BY <1>3, BoundsAssumption DEF Copied, Reserved, Later, Working, S!InTurn, SInv, RunTypes, PlaceType
<1>9. Routed'
  BY <1>4 DEF Routed
<1> QED BY <1>2, <1>6, <1>7, <1>8, <1>9, SlotsKept, OrderKept DEF SInv

\* The route stops the run of the occurrence it listed.
LEMMA RouteAbortKeeps == ASSUME SInv, S!RouteAbort PROVE SInv'
<1>1. /\ UNCHANGED <<sched, line, tick, ended, chat, server, now, slots, limit, gate>>
      /\ route.pc = "cancelled" /\ route' = [route EXCEPT !.pc = "answered"]
      /\ turn' = IF S!Unsettled(route.job, route.occ)
                 THEN [turn EXCEPT !.aborted = TRUE] ELSE turn
  BY DEF S!RouteAbort, S!outside
<1>2. turn \in TurnState /\ route \in RouteState
  BY DEF SInv, RunTypes, TurnType, RouteType
<1>3. /\ turn' \in TurnState /\ turn'.job = turn.job /\ turn'.occ = turn.occ
      /\ turn'.wake = turn.wake /\ (turn' # turn => turn'.aborted)
      /\ turn.job = route.job /\ turn.occ = route.occ => turn'.aborted
  BY <1>1, <1>2 DEF TurnState, S!Unsettled
<1>4. /\ route' \in RouteState /\ route'.pc = "answered"
      /\ route'.job = route.job /\ route'.occ = route.occ
  BY <1>1, <1>2 DEF RouteState
<1>5. RunTypes'
  BY <1>1, <1>3, <1>4 DEF SInv, RunTypes, SchedType, LineType, TickType, RouteType, TurnType,
     EndedType, PlaceType, SlotsType
<1>6. OneRoute'
  BY <1>1, <1>4 DEF SInv, OneRoute, InLine
<1>7. route.job \in Jobs
  BY <1>1 DEF SInv, Routed
<1>8. Turns' /\ (turn # S!NoTurn => turn' # S!NoTurn)
  <2>1. turn' = S!NoTurn => turn = S!NoTurn
    BY <1>3, NoTurnIs DEF SInv, Turns
  <2>2. turn'.job = "none" => turn' = S!NoTurn
    <3> SUFFICES ASSUME turn'.job = "none" PROVE turn' = S!NoTurn
      OBVIOUS
    <3>1. turn = S!NoTurn /\ turn.job # route.job
      BY <1>3, <1>7, NoTurnIs DEF SInv, Turns
    <3> QED BY <1>1, <3>1 DEF S!Unsettled
  <2> QED BY <1>1, <1>3, <2>1, <2>2 DEF SInv, Turns
<1>9. Creations'
  BY <1>1, <1>8 DEF SInv, Creations
<1>10. Routed'
  BY <1>1, <1>3, <1>4 DEF SInv, Routed
<1> QED BY <1>1, <1>3, <1>5, <1>6, <1>8, <1>9, <1>10, LineKept, TickKept, SlotsKept, OrderKept
        DEF SInv, SameRun

-----------------------------------------------------------------------------
(* Steps of the line's head.                                                *)

\* Once its head has had its turn, the line knows no less.
LEMMA TailKeeps ==
  ASSUME SInv, line # <<>>, line' = Tail(line)
  PROVE  /\ LineType' /\ line[1] \in Item /\ 1 \in 1..Len(line)
         /\ UNCHANGED tick => OneTick'
         /\ UNCHANGED route /\ line[1].kind # "cancel" => OneRoute'
         /\ UNCHANGED <<sched, turn>> => Creations'
         /\ UNCHANGED <<route, sched, tick>> /\ SameRun /\ (turn.aborted => turn'.aborted) =>
              Routed'
<1>1. LineType /\ OneTick /\ OneRoute /\ Creations /\ Routed
  BY DEF SInv, RunTypes
<1>2. /\ LineType' /\ Len(line) \in Nat \ {0} /\ Len(line') = Len(line) - 1
      /\ \A i \in 1..Len(line') : i + 1 \in 2..Len(line) /\ line'[i] = line[i + 1]
  BY <1>1, Leaves
<1>3. line[1] \in Item /\ 1 \in 1..Len(line)
  BY <1>1, <1>2, ItemIs
<1>4. UNCHANGED tick => OneTick'
  BY <1>1, <1>2 DEF OneTick
<1>5. UNCHANGED route /\ line[1].kind # "cancel" => OneRoute'
  <2> SUFFICES ASSUME UNCHANGED route, line[1].kind # "cancel" PROVE OneRoute'
    OBVIOUS
  <2>1. InLine("cancel") => InLine("cancel")'
    <3> SUFFICES ASSUME NEW i \in 1..Len(line), line[i].kind = "cancel"
                 PROVE  \E k \in 1..Len(line') : line'[k].kind = "cancel"
      BY DEF InLine
    <3>1. i - 1 \in 1..Len(line') /\ (i - 1) + 1 = i
      BY <1>2
    <3> QED BY <1>2, <3>1
  <2> QED BY <1>1, <1>2, <2>1 DEF OneRoute
<1>6. UNCHANGED <<sched, turn>> => Creations'
  BY <1>1, <1>2 DEF Creations
<1>7. UNCHANGED <<route, sched, tick>> /\ SameRun /\ (turn.aborted => turn'.aborted) => Routed'
  <2> SUFFICES ASSUME UNCHANGED <<route, sched, tick>>, SameRun, turn.aborted => turn'.aborted
               PROVE  Routed'
    OBVIOUS
  <2>1. \A j : Passed(j) => Passed(j)'
    <3> SUFFICES ASSUME NEW j, Passed(j) PROVE Passed(j)'
      OBVIOUS
    <3>1. \A i, k \in 1..Len(line') :
            line'[i].kind = "tick" /\ line'[k].kind = "cancel" => k < i
      <4> SUFFICES ASSUME NEW i \in 1..Len(line'), NEW k \in 1..Len(line'),
                          line'[i].kind = "tick", line'[k].kind = "cancel"
                   PROVE  k < i
        OBVIOUS
      <4>1. i + 1 \in 1..Len(line) /\ k + 1 \in 1..Len(line)
        BY <1>2
      <4>2. k + 1 < i + 1
        BY <1>2, <4>1 DEF Passed
      <4> QED BY <1>2, <4>2
    <3> QED BY <3>1 DEF Passed, SameRun, S!InTurn
  <2> QED BY <1>1, <2>1 DEF Routed, SameRun
<1> QED BY <1>2, <1>3, <1>4, <1>5, <1>6, <1>7

\* A schedule is made.
LEMMA ServeCreateKeeps == ASSUME SInv, S!ServeCreate PROVE SInv'
<1> DEFINE j == line[1].job
<1>1. /\ UNCHANGED <<tick, route, ended, chat, server, now, limit, gate, slots>>
      /\ line # <<>> /\ line' = Tail(line) /\ line[1].kind = "create" /\ ~S!InTurn
      /\ \/ UNCHANGED <<sched, turn>>
         \/ /\ sched' = [sched EXCEPT ![j] = [status |-> "scheduled", occ |-> 0,
                                              due |-> now + Delay[j]]]
            /\ turn' \in {turn, [turn EXCEPT !.wake = j]}
  BY DEF S!ServeCreate, S!Serve, S!outside
<1>2. /\ LineType' /\ 1 \in 1..Len(line) /\ OneTick' /\ OneRoute'
      /\ UNCHANGED <<sched, turn>> => Creations' /\ Routed'
  BY <1>1, TailKeeps DEF SameRun
<1>3. j \in Jobs /\ sched[j].status = "none" /\ turn # S!NoTurn
  BY <1>1, <1>2, ItemIs DEF SInv, Creations, RunTypes
<1>4. CASE UNCHANGED <<sched, turn>>
  <2>1. RunTypes'
    BY <1>1, <1>2, <1>4 DEF SInv, RunTypes, SchedType, TickType, RouteType, TurnType, EndedType,
       PlaceType, SlotsType
  <2> QED BY <1>1, <1>2, <1>4, <2>1, TickKept, SlotsKept, OrderKept, RunKept DEF SInv, SameRun
<1>5. CASE /\ sched' = [sched EXCEPT ![j] = [status |-> "scheduled", occ |-> 0,
                                             due |-> now + Delay[j]]]
           /\ turn' \in {turn, [turn EXCEPT !.wake = j]}
  <2> PICK job \in Jobs : job = j
    BY <1>3
  <2>1. turn \in TurnState /\ sched \in [Jobs -> S!Job] /\ now \in Nat
    BY BoundsAssumption DEF SInv, RunTypes, TurnType, SchedType, PlaceType
  <2> DEFINE made == [status |-> "scheduled", occ |-> 0, due |-> now + Delay[job]]
  <2>2. /\ made \in S!Job /\ made.status = "scheduled" /\ made.occ = 0 /\ made.due > 0
        /\ made # S!NoJob
    <3>1. Delay[job] \in Nat \ {0}
      BY SchedulesAssumption
    <3>2. now + Delay[job] \in Nat /\ now + Delay[job] > 0
      BY <2>1, <3>1
    <3> QED BY <3>2 DEF S!Job, S!Waiting, S!NoJob
  <2> HIDE DEF made
  <2>3. /\ sched' \in [Jobs -> S!Job] /\ sched'[job] = made
        /\ \A k \in Jobs : k # job => sched'[k] = sched[k]
    BY <1>5, <2>1, <2>2 DEF made
  <2>4. /\ turn' \in TurnState /\ turn'.job = turn.job /\ turn'.occ = turn.occ
        /\ turn'.aborted = turn.aborted /\ turn'.wake \in {turn.wake, job}
        /\ turn'.job # "none"
    BY <1>3, <1>5, <2>1 DEF TurnState, SInv, Turns
  <2>5. turn' # S!NoTurn
    BY <2>4, NoTurnIs
  <2>6. RunTypes'
    BY <1>1, <1>2, <2>3, <2>4 DEF SInv, RunTypes, SchedType, TickType, RouteType, TurnType,
       EndedType, PlaceType, SlotsType
  <2>7. Creations'
    <3>1. LineType
      BY DEF SInv, RunTypes
    <3>2. /\ Len(line) \in Nat \ {0} /\ Len(line') = Len(line) - 1
          /\ \A i \in 1..Len(line') : i + 1 \in 2..Len(line) /\ line'[i] = line[i + 1]
      BY <1>1, <3>1, Leaves
    <3>3. \A i \in 1..Len(line') : line'[i].kind = "create" => line'[i].job # job
      BY <1>1, <1>2, <3>2 DEF SInv, Creations
    <3>4. \A i \in 1..Len(line') : line'[i].kind = "create" => line'[i].job \in Jobs
      <4> SUFFICES ASSUME NEW i \in 1..Len(line'), line'[i].kind = "create"
                   PROVE  line'[i].job \in Jobs
        OBVIOUS
      <4>1. i + 1 \in 1..Len(line)
        BY <3>2
      <4> QED BY <3>1, <3>2, <4>1, ItemIs
    <3>5. \A i \in 1..Len(line') : line'[i].kind = "create" => sched[line'[i].job].status = "none"
      BY <3>2 DEF SInv, Creations
    <3>6. \A i, k \in 1..Len(line') :
            line'[i].kind = "create" /\ line'[k].kind = "create" /\ line'[i].job = line'[k].job
              => i = k
      <4>1. Len(line') \in Nat /\ \A i \in 1..Len(line') : i + 1 \in 1..Len(line) /\ line'[i] = line[i + 1]
        BY <3>2
      <4> QED BY <4>1, CreationsLeave DEF SInv
    <3> QED BY <2>3, <2>5, <3>3, <3>4, <3>5, <3>6 DEF Creations
  <2>8. Turns'
    BY <2>2, <2>3, <2>4, <2>5 DEF SInv, Turns, TurnState
  <2>9. Copied' /\ Reserved'
    BY <1>1 DEF Copied, Reserved, Working, S!InTurn
  <2>10. /\ sched[job] = S!NoJob /\ sched[job].occ = 0 /\ Len(slots[job]) = 0
         /\ Occurred(job)
    BY <1>3 DEF SInv, Slotted, Occurred, S!NoJob
  <2>11. Slotted'
    <3>1. Occurred(job)'
      BY <1>1, <2>2, <2>3, <2>4, <2>10 DEF Occurred
    <3>2. \A k \in Jobs : k # job => Occurred(k)'
      BY <1>1, <2>3, <2>4 DEF SInv, Slotted, Occurred
    <3> QED BY <3>1, <3>2 DEF Slotted
  <2>12. Gridded'
    <3>1. OnGrid(job)'
      <4>1. Len(slots'[job]) = 0 /\ sched'[job].occ = 0 /\ 1..Len(slots'[job]) = {}
        BY <1>1, <2>2, <2>3, <2>10
      <4> QED BY <4>1 DEF OnGrid
    <3>2. \A k \in Jobs : k # job => OnGrid(k)'
      BY <1>1, <2>3 DEF SInv, Gridded, OnGrid
    <3> QED BY <3>1, <3>2 DEF Gridded
  <2>13. Routed'
    <3>1. route.pc # "idle" => route.job # job
      BY <1>3 DEF SInv, Routed
    <3>2. CASE route.pc = "idle"
      BY <1>1, <3>2 DEF Routed
    <3>3. CASE route.pc # "idle"
      <4> DEFINE r == route.job
      <4>1. r \in Jobs /\ r # job
        BY <3>1, <3>3 DEF SInv, Routed
      <4>2. sched'[r] = sched[r]
        BY <2>3, <4>1
      <4>3. Passed(r) => Passed(r)'
        <5> SUFFICES ASSUME Passed(r) PROVE Passed(r)'
          OBVIOUS
        <5>1. LineType
          BY DEF SInv, RunTypes
        <5>2. /\ Len(line) \in Nat \ {0} /\ Len(line') = Len(line) - 1
              /\ \A i \in 1..Len(line') : i + 1 \in 1..Len(line) /\ line'[i] = line[i + 1]
          BY <1>1, <5>1, Leaves
        <5>3. \A i, k \in 1..Len(line') :
                line'[i].kind = "tick" /\ line'[k].kind = "cancel" => k < i
          <6> SUFFICES ASSUME NEW i \in 1..Len(line'), NEW k \in 1..Len(line'),
                              line'[i].kind = "tick", line'[k].kind = "cancel"
                       PROVE  k < i
            OBVIOUS
          <6>1. k + 1 < i + 1
            BY <5>2 DEF Passed
          <6> QED BY <5>2, <6>1
        <5> QED BY <1>1, <2>4, <5>3 DEF Passed, S!InTurn
      <4> QED BY <1>1, <2>4, <4>1, <4>2, <4>3 DEF SInv, Routed
    <3> QED BY <3>2, <3>3
  <2> QED BY <1>1, <1>2, <2>6, <2>7, <2>8, <2>9, <2>11, <2>12, <2>13, OrderKept, TickKept
          DEF SInv
<1> QED BY <1>1, <1>4, <1>5

\* A schedule is cancelled.
LEMMA Cancelled ==
  ASSUME SInv, NEW k \in Jobs, sched[k].status # "none",
         sched' = [sched EXCEPT ![k].status = "cancelled"],
         UNCHANGED <<slots, ended, now>>, SameRun
  PROVE  /\ SchedType' /\ Slotted' /\ Gridded'
         /\ \A j \in Jobs : /\ sched'[j].occ = sched[j].occ /\ sched'[j].due = sched[j].due
                            /\ sched'[j].status = "none" <=> sched[j].status = "none"
                            /\ j # k => sched'[j] = sched[j]
         /\ sched'[k].status = "cancelled"
<1> DEFINE x == [sched[k] EXCEPT !.status = "cancelled"]
<1>1. sched \in [Jobs -> S!Job] /\ sched[k] \in S!Job
  BY DEF SInv, RunTypes, SchedType
<1>2. x \in S!Job /\ x.status = "cancelled" /\ x.occ = sched[k].occ /\ x.due = sched[k].due
  BY <1>1, JobWith
<1>3. sched' = [sched EXCEPT ![k] = x]
  OBVIOUS
<1> HIDE DEF x
<1>4. sched' \in [Jobs -> S!Job] /\ sched'[k] = x /\ \A j \in Jobs : j # k => sched'[j] = sched[j]
  BY <1>1, <1>2, <1>3
<1>5. \A j \in Jobs : /\ sched'[j].occ = sched[j].occ /\ sched'[j].due = sched[j].due
                      /\ sched'[j].status = "none" <=> sched[j].status = "none"
                      /\ j # k => sched'[j] = sched[j]
  BY <1>2, <1>4
<1>6. Slotted'
  <2>1. \A j \in Jobs : j # k => Occurred(j)'
    BY <1>4 DEF SInv, Slotted, Occurred, SameRun, S!Occs, S!NoJob
  <2>2. Occurred(k)'
    <3>1. Occurred(k) /\ sched'[k].occ = sched[k].occ /\ sched'[k].due = sched[k].due
          /\ sched'[k].status # "none"
      BY <1>5 DEF SInv, Slotted
    <3> QED BY <3>1 DEF Occurred, SameRun, S!Occs
  <2> QED BY <2>1, <2>2 DEF Slotted
<1>7. Gridded'
  <2> SUFFICES ASSUME NEW j \in Jobs PROVE OnGrid(j)'
    BY DEF Gridded
  <2>1. sched'[j].occ = sched[j].occ /\ sched'[j].due = sched[j].due /\ OnGrid(j)
    BY <1>5 DEF SInv, Gridded
  <2> QED BY <2>1 DEF OnGrid
<1> QED BY <1>2, <1>4, <1>5, <1>6, <1>7 DEF SchedType

\* A run's wake-up is cancelled.
LEMMA ServeUnsleepKeeps == ASSUME SInv, S!ServeUnsleep PROVE SInv'
<1>1. /\ UNCHANGED <<tick, route, ended, chat, server, now, limit, gate, slots>>
      /\ line # <<>> /\ line' = Tail(line) /\ line[1].kind = "unsleep" /\ ~S!InTurn
      /\ sched' = [sched EXCEPT ![turn.wake].status = "cancelled"]
      /\ turn' = [turn EXCEPT !.wake = "none"]
  BY DEF S!ServeUnsleep, S!Serve, S!outside
<1>2. LineType' /\ OneTick' /\ OneRoute'
  BY <1>1, TailKeeps
<1>3. turn \in TurnState /\ sched \in [Jobs -> S!Job]
  BY DEF SInv, RunTypes, TurnType, SchedType
<1>4. /\ turn' \in TurnState /\ turn'.job = turn.job /\ turn'.occ = turn.occ
      /\ turn'.aborted = turn.aborted /\ turn'.wake = "none" /\ SameRun
  BY <1>1, <1>3 DEF TurnState, SameRun
<1>5. /\ SchedType' /\ Slotted' /\ Gridded'
      /\ \A j \in Jobs : /\ sched'[j].occ = sched[j].occ /\ sched'[j].due = sched[j].due
                         /\ sched'[j].status = "none" <=> sched[j].status = "none"
                         /\ sched'[j] # sched[j] => sched'[j].status = "cancelled"
  <2>1. CASE turn.wake \in Jobs
    <3>1. sched[turn.wake].status # "none"
      BY <2>1, SchedulesAssumption DEF SInv, Turns
    <3> QED BY <1>1, <1>4, <2>1, <3>1, Cancelled
  <2>2. CASE turn.wake \notin Jobs
    <3>1. sched' = sched
      BY <1>1, <1>3, <2>2
    <3> QED BY <1>1, <1>3, <1>4, <3>1, SlotsKept DEF SInv, SchedType
  <2> QED BY <2>1, <2>2
<1>6. RunTypes'
  BY <1>1, <1>2, <1>4, <1>5 DEF SInv, RunTypes, TickType, RouteType, TurnType, EndedType,
     PlaceType, SlotsType
<1>7. turn'.job = "none" => turn' = S!NoTurn
  BY <1>1, <1>4, NoTurnIs DEF SInv, Turns, S!NoTurn, S!RunOf
<1>8. turn # S!NoTurn => turn' # S!NoTurn
  BY <1>4, NoTurnIs DEF SInv, Turns
<1>9. LineType
  BY DEF SInv, RunTypes
<1>10. /\ Len(line) \in Nat \ {0} /\ Len(line') = Len(line) - 1
       /\ \A i \in 1..Len(line') : i + 1 \in 1..Len(line) /\ line'[i] = line[i + 1]
  BY <1>1, <1>9, Leaves
<1>11. Creations'
  <2>1. \A i \in 1..Len(line') : line'[i].kind = "create" =>
          turn' # S!NoTurn /\ sched[line'[i].job].status = "none" /\ line'[i].job \in Jobs
    <3> SUFFICES ASSUME NEW i \in 1..Len(line'), line'[i].kind = "create"
                 PROVE  turn' # S!NoTurn /\ sched[line'[i].job].status = "none" /\ line'[i].job \in Jobs
      OBVIOUS
    <3>1. i + 1 \in 1..Len(line) /\ line[i + 1].kind = "create" /\ line'[i].job = line[i + 1].job
      BY <1>10
    <3> QED BY <1>8, <1>9, <3>1, ItemIs DEF SInv, Creations
  <2>2. \A i, k \in 1..Len(line') :
          line'[i].kind = "create" /\ line'[k].kind = "create" /\ line'[i].job = line'[k].job
            => i = k
    <3> SUFFICES ASSUME NEW i \in 1..Len(line'), NEW k \in 1..Len(line'),
                        line'[i].kind = "create", line'[k].kind = "create",
                        line'[i].job = line'[k].job
                 PROVE  i = k
      OBVIOUS
    <3>1. /\ i + 1 \in 1..Len(line) /\ line[i + 1] = line'[i]
          /\ k + 1 \in 1..Len(line) /\ line[k + 1] = line'[k]
      BY <1>10
    <3>2. i + 1 = k + 1
      BY <3>1 DEF SInv, Creations
    <3> QED BY <3>2
  <2> QED BY <1>5, <2>1, <2>2 DEF Creations
<1>12. Turns' /\ Copied' /\ Reserved'
  BY <1>1, <1>4, <1>7 DEF Turns, Copied, Reserved, Working, S!InTurn
<1>13. Routed'
  <2>1. CASE route.pc = "idle"
    BY <1>1, <2>1 DEF Routed
  <2>2. CASE route.pc # "idle"
    <3> PICK r \in Jobs : r = route.job
      BY <2>2 DEF SInv, Routed
    <3>1. Passed(r) => Passed(r)'
      <4> SUFFICES ASSUME Passed(r) PROVE Passed(r)'
        OBVIOUS
      <4>1. \A i, k \in 1..Len(line') :
              line'[i].kind = "tick" /\ line'[k].kind = "cancel" => k < i
        <5> SUFFICES ASSUME NEW i \in 1..Len(line'), NEW k \in 1..Len(line'),
                            line'[i].kind = "tick", line'[k].kind = "cancel"
                     PROVE  k < i
          OBVIOUS
        <5>1. k + 1 < i + 1
          BY <1>10 DEF Passed
        <5> QED BY <1>10, <5>1
      <4> QED BY <1>1, <1>4, <4>1 DEF Passed, S!InTurn
    <3> QED BY <1>1, <1>4, <1>5, <2>2, <3>1 DEF SInv, Routed
  <2> QED BY <2>1, <2>2
<1> QED BY <1>1, <1>2, <1>5, <1>6, <1>11, <1>12, <1>13, OrderKept, TickKept DEF SInv

\* The schedules are listed.
LEMMA ServeListKeeps == ASSUME SInv, S!ServeList PROVE SInv'
<1> DEFINE x == [kind |-> "cancel", job |-> route.job]
<1>1. /\ UNCHANGED <<sched, tick, turn, ended, chat, server, now, limit, gate, slots>>
      /\ line # <<>> /\ line[1].kind = "list" /\ ~S!InTurn
      /\ line' = Append(Tail(line), x)
      /\ route' = [route EXCEPT !.pc = "cancelling", !.occ = sched[route.job].occ]
  BY DEF S!ServeList, S!Serve, S!outside
<1>2. LineType /\ route \in RouteState /\ sched \in [Jobs -> S!Job]
  BY DEF SInv, RunTypes, RouteType, SchedType
<1>3. Len(line) \in Nat \ {0} /\ 1 \in 1..Len(line)
  BY <1>1, <1>2 DEF LineType
<1>4. route.pc = "listing" /\ route.job = line[1].job /\ route.job \in Jobs
  BY <1>1, <1>2, <1>3, ItemIs DEF SInv, OneRoute
<1>5. /\ route' \in RouteState /\ route'.pc = "cancelling" /\ route'.job = route.job
      /\ route'.occ = sched[route.job].occ
  BY <1>1, <1>2, <1>4 DEF RouteState, S!Job
<1>6. x \in Item /\ x.kind = "cancel" /\ x.job = route.job
  BY <1>4 DEF Item
<1> HIDE DEF x
<1>7. /\ LineType' /\ Len(line') = Len(line) /\ line'[Len(line)] = x
      /\ \A i \in 1..(Len(line) - 1) : line'[i] = line[i + 1] /\ i + 1 \in 2..Len(line)
  BY <1>1, <1>2, <1>3, <1>6 DEF LineType
<1>8. RunTypes'
  BY <1>1, <1>5, <1>7 DEF SInv, RunTypes, SchedType, TickType, RouteType, TurnType, EndedType,
     PlaceType, SlotsType
<1>9. OneTick'
  <2>1. \A i \in 1..Len(line') : line'[i].kind = "tick" => i \in 1..(Len(line) - 1)
    BY <1>3, <1>6, <1>7
  <2> QED BY <1>1, <1>3, <1>7, <2>1 DEF SInv, OneTick
<1>10. \A i \in 1..(Len(line) - 1) : line'[i].kind \notin {"list", "cancel"}
  BY <1>1, <1>3, <1>7 DEF SInv, OneRoute
<1>11. OneRoute'
  <2>1. \A i \in 1..Len(line') : line'[i].kind \in {"list", "cancel"} => i = Len(line)
    BY <1>3, <1>7, <1>10
  <2> QED BY <1>3, <1>5, <1>6, <1>7, <2>1 DEF OneRoute, InLine
<1>12. Creations'
  <2>1. \A i \in 1..Len(line') : line'[i].kind = "create" => i \in 1..(Len(line) - 1)
    BY <1>3, <1>6, <1>7
  <2>2. /\ Len(line) - 1 \in Nat
        /\ \A i \in 1..(Len(line) - 1) : i + 1 \in 1..Len(line) /\ line'[i] = line[i + 1]
    BY <1>1, <1>3, <1>7
  <2>3. Creations /\ turn' = turn /\ sched' = sched
    BY <1>1 DEF SInv
  <2>4. \A i, k \in 1..(Len(line) - 1) :
          line'[i].kind = "create" /\ line'[k].kind = "create" /\ line'[i].job = line'[k].job
            => i = k
    BY <2>2, <2>3, CreationsLeave
  <2>5. \A i \in 1..(Len(line) - 1) : line'[i].kind = "create" =>
          turn # S!NoTurn /\ sched[line'[i].job].status = "none"
    BY <2>2, <2>3 DEF Creations
  <2> QED BY <2>1, <2>3, <2>4, <2>5 DEF Creations
<1>13. Routed'
  BY <1>1, <1>4, <1>5 DEF SInv, Routed
<1> QED BY <1>1, <1>8, <1>9, <1>11, <1>12, <1>13, TickKept, SlotsKept, OrderKept, RunKept
        DEF SInv, SameRun

\* The head of the line is the cancellation.
LEMMA CancelIs ==
  ASSUME SInv, line # <<>>, line[1].kind = "cancel", line' = Tail(line), UNCHANGED tick
  PROVE  /\ line[1].job = route.job /\ route.job \in Jobs /\ route.pc = "cancelling"
         /\ LineType' /\ OneTick' /\ \A i \in 1..Len(line') : line'[i].kind \notin {"list", "cancel"}
         /\ Len(line) \in Nat \ {0} /\ Len(line') = Len(line) - 1
         /\ \A i \in 1..Len(line') : i + 1 \in 1..Len(line) /\ line'[i] = line[i + 1]
<1>1. LineType
  BY DEF SInv, RunTypes
<1>2. /\ LineType' /\ Len(line) \in Nat \ {0} /\ Len(line') = Len(line) - 1
      /\ \A i \in 1..Len(line') : i + 1 \in 2..Len(line) /\ line'[i] = line[i + 1]
  BY <1>1, Leaves
<1>3. 1 \in 1..Len(line) /\ OneTick'
  BY <1>2, TailKeeps
<1>4. line[1].job = route.job /\ route.pc = "cancelling" /\ line[1].job \in Jobs
  BY <1>1, <1>3, ItemIs DEF SInv, OneRoute
<1>5. \A i \in 1..Len(line') : line'[i].kind \notin {"list", "cancel"}
  BY <1>2, <1>3 DEF SInv, OneRoute
<1> QED BY <1>2, <1>3, <1>4, <1>5

\* It takes place ...
LEMMA ServeCancelKeeps == ASSUME SInv, S!ServeCancel PROVE SInv'
<1>1. /\ UNCHANGED <<tick, turn, ended, chat, server, now, limit, gate, slots>>
      /\ line # <<>> /\ line' = Tail(line) /\ line[1].kind = "cancel" /\ ~S!InTurn
      /\ sched' = [sched EXCEPT ![line[1].job].status = "cancelled"]
      /\ route' = [route EXCEPT !.pc = "cancelled"]
  BY DEF S!ServeCancel, S!Serve, S!outside
<1>2. /\ line[1].job = route.job /\ route.job \in Jobs /\ route.pc = "cancelling"
      /\ LineType' /\ OneTick' /\ \A i \in 1..Len(line') : line'[i].kind \notin {"list", "cancel"}
      /\ Len(line) \in Nat \ {0} /\ Len(line') = Len(line) - 1
      /\ \A i \in 1..Len(line') : i + 1 \in 1..Len(line) /\ line'[i] = line[i + 1]
  BY <1>1, CancelIs
<1>3. route' \in RouteState /\ route'.pc = "cancelled" /\ route'.job = route.job
      /\ route'.occ = route.occ
  BY <1>1 DEF SInv, RunTypes, RouteType, RouteState
<1> PICK r \in Jobs : r = route.job
  BY <1>2
<1>4. sched[r].status # "none"
  BY <1>2 DEF SInv, Routed
<1>5. /\ SchedType' /\ Slotted' /\ Gridded'
      /\ \A j \in Jobs : /\ sched'[j].occ = sched[j].occ /\ sched'[j].due = sched[j].due
                         /\ sched'[j].status = "none" <=> sched[j].status = "none"
                         /\ j # r => sched'[j] = sched[j]
      /\ sched'[r].status = "cancelled"
  BY <1>1, <1>2, <1>4, Cancelled DEF SameRun
<1>6. RunTypes'
  BY <1>1, <1>2, <1>3, <1>5 DEF SInv, RunTypes, TickType, RouteType, TurnType, EndedType,
     PlaceType, SlotsType
<1>7. OneRoute'
  BY <1>2, <1>3 DEF OneRoute, InLine
<1>8. Creations'
  <2>1. LineType
    BY DEF SInv, RunTypes
  <2>2. \A i \in 1..Len(line') : line'[i].kind = "create" =>
          turn # S!NoTurn /\ sched[line'[i].job].status = "none" /\ line'[i].job \in Jobs
    <3> SUFFICES ASSUME NEW i \in 1..Len(line'), line'[i].kind = "create"
                 PROVE  turn # S!NoTurn /\ sched[line'[i].job].status = "none" /\ line'[i].job \in Jobs
      OBVIOUS
    <3>1. i + 1 \in 1..Len(line) /\ line[i + 1].kind = "create" /\ line'[i].job = line[i + 1].job
      BY <1>2
    <3> QED BY <2>1, <3>1, ItemIs DEF SInv, Creations
  <2>3. \A i, k \in 1..Len(line') :
          line'[i].kind = "create" /\ line'[k].kind = "create" /\ line'[i].job = line'[k].job
            => i = k
    <3>1. Len(line') \in Nat
      BY <1>2
    <3> QED BY <1>2, <3>1, CreationsLeave DEF SInv
  <2> QED BY <1>1, <1>5, <2>2, <2>3 DEF Creations
<1>9. Turns'
  BY <1>1, <1>5, SchedulesAssumption DEF SInv, Turns, RunTypes, TurnType, TurnState
<1>10. Copied' /\ Reserved'
  BY <1>1 DEF Copied, Reserved, Working, S!InTurn
<1>11. Routed'
  <2>1. turn.job = r => turn.occ = route.occ
    BY <1>2 DEF SInv, Routed, Passed, Slotted, Occurred
  <2> QED BY <1>1, <1>3, <1>5, <2>1 DEF Routed
<1> QED BY <1>1, <1>2, <1>5, <1>6, <1>7, <1>8, <1>9, <1>10, <1>11, OrderKept, TickKept
        DEF SInv

\* ... or fails.
LEMMA CancelFaultKeeps == ASSUME SInv, S!CancelFault PROVE SInv'
<1>1. /\ UNCHANGED <<sched, tick, turn, ended, chat, server, now, slots, gate>>
      /\ line # <<>> /\ line' = Tail(line) /\ line[1].kind = "cancel"
      /\ route' = S!NoRoute
  BY DEF S!CancelFault, S!Serve
<1>2. LineType' /\ OneTick' /\ \A i \in 1..Len(line') : line'[i].kind \notin {"list", "cancel"}
  BY <1>1, CancelIs
<1>3. route' \in RouteState /\ route'.pc = "idle"
  BY <1>1 DEF S!NoRoute, RouteState
<1>4. RunTypes'
  BY <1>1, <1>2, <1>3 DEF SInv, RunTypes, SchedType, TickType, RouteType, TurnType, EndedType,
     PlaceType, SlotsType
<1>5. OneRoute' /\ Routed'
  BY <1>2, <1>3 DEF OneRoute, InLine, Routed
<1>6. Creations'
  BY <1>1, TailKeeps
<1> QED BY <1>1, <1>2, <1>4, <1>5, <1>6, TickKept, SlotsKept, OrderKept, RunKept
        DEF SInv, SameRun

\* A tick has its turn.
LEMMA ServeTickKeeps == ASSUME SInv, S!ServeTick PROVE SInv'
<1>1. /\ UNCHANGED <<sched, route, turn, ended, chat, server, now, limit, gate, slots>>
      /\ line # <<>> /\ line' = Tail(line) /\ line[1].kind = "tick" /\ ~S!InTurn
      /\ \/ tick' = S!IdleTick
         \/ tick' = [tick EXCEPT !.pc = "scan", !.mem = sched, !.todo = Jobs]
  BY DEF S!ServeTick, S!Serve, S!outside
<1>2. /\ LineType' /\ 1 \in 1..Len(line) /\ OneRoute' /\ Creations'
  BY <1>1, TailKeeps
<1>3. LineType /\ TickType /\ sched \in [Jobs -> S!Job]
  BY DEF SInv, RunTypes, SchedType
<1>4. /\ Len(line) \in Nat \ {0} /\ Len(line') = Len(line) - 1
      /\ \A i \in 1..Len(line') : i + 1 \in 2..Len(line) /\ line'[i] = line[i + 1]
  BY <1>1, <1>3, Leaves
<1>5. tick.pc = "queued" /\ \A i \in 1..Len(line') : line'[i].kind # "tick"
  BY <1>1, <1>2, <1>4 DEF SInv, OneTick
<1>6. /\ TickType' /\ tick'.pc \in {"idle", "scan"} /\ tick'.now \in {0, tick.now}
      /\ tick'.pc = "scan" => tick'.mem = sched /\ tick'.now = tick.now
  BY <1>1, <1>3, TickEnds DEF TickType, TickState, TickPcs
<1>7. RunTypes'
  BY <1>1, <1>2, <1>6 DEF SInv, RunTypes, SchedType, RouteType, TurnType, EndedType,
     PlaceType, SlotsType
<1>8. OneTick'
  BY <1>5 DEF OneTick
<1>9. Copied' /\ Reserved'
  BY <1>1, <1>6 DEF Copied, Reserved, Working, S!InTurn, Alike
<1>10. Later'
  BY <1>1, <1>5, <1>6, BoundsAssumption DEF SInv, Later, S!InTurn, RunTypes, PlaceType
<1>11. route.pc = "cancelling" => ~Passed(route.job)
  BY <1>1, <1>2, <1>4 DEF SInv, OneRoute, InLine, Passed
<1>12. Routed'
  BY <1>1, <1>11 DEF SInv, Routed
<1> QED BY <1>1, <1>2, <1>7, <1>8, <1>9, <1>10, <1>12, SlotsKept, OrderKept, RunKept
        DEF SInv, SameRun

-----------------------------------------------------------------------------
(* Steps of a tick.                                                         *)

\* What a step of the tick alone leaves to show.
LEMMA TickAlone ==
  ASSUME SInv, UNCHANGED <<sched, line, route, turn, ended, chat, server, now, slots>>,
         gate' = gate, TickType', S!InTurn, tick'.pc # "queued",
         tick'.now <= now,
         tick'.pc # "idle" => /\ tick'.now = tick.now /\ tick'.todo \subseteq tick.todo
                              /\ tick'.pc # "look" \/ tick'.job \in tick.todo
                              /\ tick'.job \in tick.todo \cup {tick.job, "none"}
  PROVE  /\ RunTypes' /\ OneTick' /\ OneRoute' /\ Creations' /\ Turns'
         /\ Slotted' /\ Gridded' /\ OccurrencesInOrder' /\ Later' /\ Routed'
<1>1. RunTypes'
  BY DEF SInv, RunTypes, SchedType, LineType, RouteType, TurnType, EndedType, PlaceType,
     SlotsType
<1>2. OneTick'
  BY DEF SInv, OneTick, S!InTurn
<1>3. Later'
  BY DEF SInv, Later, S!InTurn
<1>4. Routed'
  <2>1. \A j \in Jobs : Passed(j) => Passed(j)'
    BY SchedulesAssumption DEF Passed, S!InTurn
  <2> QED BY <2>1 DEF SInv, Routed
<1> QED BY <1>1, <1>2, <1>3, <1>4, LineKept, SlotsKept, OrderKept, RunKept DEF SInv, SameRun

\* The tick looks for the next schedule.
LEMMA ScanKeeps == ASSUME SInv, S!Scan PROVE SInv'
<1>1. /\ UNCHANGED <<sched, line, route, turn, ended, chat, server, now, limit, gate, slots>>
      /\ tick.pc = "scan"
      /\ \/ tick' = S!IdleTick
         \/ \E j \in tick.todo :
              /\ S!Eligible(j)
              /\ tick' = [tick EXCEPT !.pc = "look", !.job = j, !.todo = @ \ {j},
                                      !.before = tick.mem[j]]
  BY DEF S!Scan, S!outside
<1>2. TickType /\ tick \in TickState
  BY DEF SInv, RunTypes, TickType
<1>3. CASE tick' = S!IdleTick
  <2>1. TickType' /\ tick'.pc = "idle" /\ tick'.now = 0
    BY <1>3, TickEnds
  <2>2. Copied' /\ Reserved' /\ 0 <= now
    BY <2>1, BoundsAssumption DEF Copied, Reserved, Working, S!InTurn, SInv, RunTypes, PlaceType
  <2> QED BY <1>1, <2>1, <2>2, TickAlone DEF SInv, S!InTurn
<1>4. CASE \E j \in tick.todo :
             /\ S!Eligible(j)
             /\ tick' = [tick EXCEPT !.pc = "look", !.job = j, !.todo = @ \ {j},
                                     !.before = tick.mem[j]]
  <2> PICK j \in tick.todo :
             /\ S!Eligible(j)
             /\ tick' = [tick EXCEPT !.pc = "look", !.job = j, !.todo = @ \ {j},
                                     !.before = tick.mem[j]]
    BY <1>4
  <2>1. j \in Jobs /\ tick.mem[j] \in S!Job
    BY <1>2 DEF TickState
  <2>2. /\ TickType' /\ tick'.pc = "look" /\ tick'.job = j /\ tick'.todo = tick.todo \ {j}
        /\ tick'.mem = tick.mem /\ tick'.now = tick.now
    BY <1>2, <2>1 DEF TickType, TickState, TickPcs
  <2>3. tick.now <= now /\ \A k \in Jobs : Alike(k)
    BY <1>1 DEF SInv, Later, Copied, S!InTurn
  <2>4. \A k \in Jobs : Alike(k)'
    BY <1>1, <2>2, <2>3 DEF Alike
  <2>5. sched[j].status \in S!Waiting /\ tick.mem[j].status \in S!Waiting
    BY <2>1, <2>3 DEF Alike, S!Eligible
  <2>6. Copied' /\ Reserved'
    BY <1>1, <2>1, <2>2, <2>4, <2>5 DEF Copied, Reserved, Working
  <2> QED BY <1>1, <2>2, <2>3, <2>6, TickAlone DEF SInv, S!InTurn
<1> QED BY <1>1, <1>3, <1>4

\* The tick goes on to the next schedule, with a copy that is the file's.
LEMMA GoesOn ==
  ASSUME SInv, UNCHANGED <<sched, line, route, turn, ended, chat, server, now, slots, gate>>,
         S!InTurn, S!ToNext, \A k \in Jobs : Alike(k)
  PROVE  SInv'
<1>1. /\ TickType' /\ tick'.pc = "scan" /\ tick'.mem = tick.mem /\ tick'.todo = tick.todo
      /\ tick'.now = tick.now /\ tick'.job = "none"
  <2>1. TickType
    BY DEF SInv, RunTypes
  <2>2. tick'.job = "none"
    BY <2>1 DEF S!ToNext, TickType, TickState
  <2> QED BY <2>1, <2>2, TickGoesOn
<1>2. \A k \in Jobs : Alike(k)'
  BY <1>1 DEF Alike
<1>3. Copied' /\ Reserved' /\ tick.now <= now
  BY <1>1, <1>2 DEF SInv, Later, Copied, Reserved, Working
<1> QED BY <1>1, <1>3, TickAlone DEF SInv

\* The tick has an entry to save for the schedule it is at.
LEMMA Saves ==
  ASSUME SInv, UNCHANGED <<sched, line, route, turn, ended, chat, server, now, slots, gate>>,
         S!InTurn, tick.pc # "save", tick.pc \in Working, NEW job \in S!Job, S!ToSave(job),
         \/ Advanced(tick.job)'
         \/ /\ job.occ = sched[tick.job].occ /\ job.due = sched[tick.job].due
            /\ job.status # "none" /\ Failed(tick.job)'
  PROVE  SInv'
<1> PICK j \in Jobs : j = tick.job
  BY DEF SInv, Copied
<1>1. TickType /\ sched[j].status \in S!Waiting /\ j \notin tick.todo
      /\ tick.now <= now /\ \A k \in Jobs : Alike(k)
  BY DEF SInv, RunTypes, Copied, Later
<1>2. /\ TickType' /\ tick'.pc = "save" /\ tick'.mem[j] = job
      /\ \A k \in Jobs : k # j => tick'.mem[k] = tick.mem[k]
      /\ tick'.job = j /\ tick'.now = tick.now /\ tick'.todo = tick.todo
  BY <1>1, TickSaves
<1>3. \A k \in Jobs : k # j => Alike(k)'
  BY <1>1, <1>2 DEF Alike
<1>4. Advanced(tick.job)' <=> Advanced(j)'
  BY <1>2 DEF Advanced
<1>5. Failed(tick.job)' <=> Failed(j)'
  BY <1>2 DEF Failed
<1>6. Copied' /\ Reserved'
  BY <1>1, <1>2, <1>3, <1>4, <1>5 DEF Copied, Reserved, Working
<1> QED BY <1>1, <1>2, <1>6, TickAlone DEF SInv

\* The tick looks at a schedule: it settles it, reserves it or passes it.
LEMMA LookKeeps == ASSUME SInv, S!Look PROVE SInv'
<1> PICK j \in Jobs : j = tick.job
  BY DEF SInv, Copied, Working, S!Look
<1> DEFINE job == tick.mem[j]
           request == S!Request(j, job.occ)
<1>1. /\ UNCHANGED <<sched, line, route, turn, ended, chat, server, now, limit, gate, slots>>
      /\ tick.pc = "look"
      /\ \/ request \notin {"none", "running"} /\ S!ToSave(S!Settled(j, job, request))
         \/ S!ToNext
         \/ /\ request = "none" /\ turn = S!NoTurn
            /\ \/ j \in OnTool /\ S!ToSave([job EXCEPT !.status = "failed"])
               \/ /\ j \notin OnTool => job.due <= tick.now
                  /\ tick' = [tick EXCEPT !.mem[j].status = "running", !.pc = "reserve"]
  <2> DEFINE asked == S!Request(tick.job, tick.mem[tick.job].occ)
  <2>1. /\ UNCHANGED <<sched, line, route, turn, ended, chat, server, now, limit, gate, slots>>
        /\ tick.pc = "look"
    BY DEF S!Look, S!outside
  <2>2. \/ /\ asked \notin {"none", "running"}
           /\ S!ToSave(S!Settled(tick.job, tick.mem[tick.job], asked))
        \/ S!ToNext
        \/ /\ asked = "none" /\ turn = S!NoTurn
           /\ \/ /\ tick.job \in OnTool
                 /\ S!ToSave([tick.mem[tick.job] EXCEPT !.status = "failed"])
              \/ /\ tick.job \notin OnTool => ~(tick.mem[tick.job].due > tick.now)
                 /\ tick' = [tick EXCEPT !.mem[tick.job].status = "running", !.pc = "reserve"]
    BY Zenon DEF S!Look
  <2>3. request = asked
    OBVIOUS
  <2>4. tick.mem[tick.job].due \in Nat /\ tick.now \in Nat
    BY DEF SInv, RunTypes, TickType, TickState, S!Job
  <2> HIDE DEF asked, request
  <2> QED BY <2>1, <2>2, <2>3, <2>4
<1>2. /\ TickType /\ tick \in TickState /\ job \in S!Job /\ job.status \in S!Waiting
      /\ S!InTurn /\ tick.now <= now /\ \A k \in Jobs : Alike(k)
  <2>1. TickType /\ tick \in TickState /\ tick.now <= now
    BY DEF SInv, RunTypes, TickType, Later
  <2>2. S!InTurn /\ tick.pc \in Working \ {"save"}
    BY <1>1 DEF S!InTurn, Working
  <2>3. job.status \in S!Waiting /\ \A k \in Jobs : Alike(k)
    BY <1>1, <2>2 DEF SInv, Copied
  <2> QED BY <2>1, <2>2, <2>3 DEF TickState
<1>3. job.occ = sched[j].occ /\ job.due = sched[j].due /\ sched[j].status \in S!Waiting
  BY <1>1, <1>2 DEF Alike, SInv, Copied, Working
<1>4. /\ Occurred(j) /\ sched[j].occ \in S!Occs /\ EndedType /\ sched[j].due \in Nat
      /\ sched[j].occ \in Nat
  BY BoundsAssumption DEF SInv, Slotted, Occurred, RunTypes, SchedType, S!Job
<1>5. request \notin {"none", "running"} => request = ended[j][sched[j].occ]
  BY <1>3 DEF S!Request
<1> HIDE DEF request
<1>6. CASE request \notin {"none", "running"} /\ S!ToSave(S!Settled(j, job, request))
  <2>1. CASE request # "completed"
    <3>1. S!Settled(j, job, request) = [job EXCEPT !.status = "failed"]
      BY <2>1 DEF S!Settled
    <3> DEFINE x == [job EXCEPT !.status = "failed"]
    <3>2. x \in S!Job /\ x.status = "failed" /\ x.occ = job.occ /\ x.due = job.due
      BY <1>2, JobWith
    <3> HIDE DEF x
    <3>3. S!ToSave(x)
      BY <1>6, <3>1 DEF x
    <3>4. ended[j][sched[j].occ] \in {"failed", "interrupted"}
      BY <1>4, <1>5, <1>6, <2>1 DEF EndedType, Outcome
    <3>5. Failed(tick.job)'
      <4>1. tick'.job = j
        BY <1>2, <3>2, <3>3, TickSaves
      <4> QED BY <1>1, <3>4, <4>1 DEF Failed
    <3> QED BY <1>1, <1>2, <1>3, <3>2, <3>3, <3>5, Saves DEF Working
  <2>2. CASE request = "completed" /\ Every[j] = 0
    <3>1. S!Settled(j, job, request) = [job EXCEPT !.status = "completed"]
      BY <2>2 DEF S!Settled
    <3> DEFINE x == [job EXCEPT !.status = "completed"]
    <3>2. x \in S!Job /\ x.status = "completed" /\ x.occ = job.occ /\ x.due = job.due
      BY <1>2, JobWith
    <3> HIDE DEF x
    <3>3. S!ToSave(x)
      BY <1>6, <3>1 DEF x
    <3>4. Failed(tick.job)'
      <4>1. tick'.job = j /\ tick'.mem[j] = x
        BY <1>2, <3>2, <3>3, TickSaves
      <4> QED BY <3>2, <4>1 DEF Failed
    <3> QED BY <1>1, <1>2, <1>3, <3>2, <3>3, <3>4, Saves DEF Working
  <2>3. CASE request = "completed" /\ Every[j] # 0
    <3> DEFINE d == S!NextDue(job, Every[j])
               x == [status |-> "scheduled", occ |-> job.occ + 1, due |-> d]
    <3>1. S!Settled(j, job, request) = x
      BY <2>3 DEF S!Settled
    <3>2. Every[j] \in Nat \ {0} /\ job.due \in Nat /\ tick.now \in Nat
      BY <1>2, <1>3, <1>4, <2>3, SchedulesAssumption DEF TickState
    <3>3. d \in Nat /\ d > tick.now /\ d > job.due /\ (d - job.due) % Every[j] = 0
      BY <3>2, NextIsLater DEF S!NextDue
    <3> HIDE DEF d
    <3>4. /\ x \in S!Job /\ x.status = "scheduled" /\ x.occ = job.occ + 1 /\ x.due = d
      BY <1>3, <1>4, <3>3 DEF S!Job, S!Waiting
    <3> HIDE DEF x
    <3>5. S!ToSave(x)
      BY <1>6, <3>1
    <3>6. tick'.job = j /\ tick'.mem[j] = x
      BY <1>2, <3>4, <3>5, TickSaves
    <3>7. Len(slots[j]) > 0 => d > slots[j][Len(slots[j])].at
      <4> SUFFICES ASSUME Len(slots[j]) > 0 PROVE d > slots[j][Len(slots[j])].at
        OBVIOUS
      <4>1. slots[j] \in Seq(Slot)
        BY DEF SInv, RunTypes, SlotsType
      <4>2. Len(slots[j]) \in 1..Len(slots[j])
        BY <4>1
      <4>3. slots[j][Len(slots[j])].at \in Nat
        BY <4>1, <4>2, SlotIs
      <4>4. slots[j][Len(slots[j])].at <= tick.now
        BY <1>1, <1>2 DEF SInv, Later
      <4> QED BY <3>2, <3>3, <4>3, <4>4
    <3>8. Advanced(tick.job)'
      <4>1. Advanced(j)'
        <5>1. ended[j][sched[j].occ] = "completed"
          BY <1>5, <2>3
        <5> QED BY <1>1, <1>3, <2>3, <3>3, <3>4, <3>6, <3>7, <5>1 DEF Advanced
      <4> QED BY <3>6, <4>1 DEF Advanced
    <3> QED BY <1>1, <1>2, <3>4, <3>5, <3>8, Saves DEF Working
  <2> QED BY <2>1, <2>2, <2>3
<1>7. CASE S!ToNext
  BY <1>1, <1>2, <1>7, GoesOn
<1>8. CASE j \in OnTool /\ S!ToSave([job EXCEPT !.status = "failed"])
  <2> DEFINE x == [job EXCEPT !.status = "failed"]
  <2>1. x \in S!Job /\ x.status = "failed" /\ x.occ = job.occ /\ x.due = job.due
    BY <1>2, JobWith
  <2> HIDE DEF x
  <2>2. S!ToSave(x)
    BY <1>8 DEF x
  <2>3. Failed(tick.job)'
    <3>1. tick'.job = j
      BY <1>2, <2>1, <2>2, TickSaves
    <3> QED BY <1>8, <3>1 DEF Failed
  <2> QED BY <1>1, <1>2, <1>3, <2>1, <2>2, <2>3, Saves DEF Working
<1>9. CASE /\ request = "none" /\ turn = S!NoTurn
           /\ j \notin OnTool => job.due <= tick.now
           /\ tick' = [tick EXCEPT !.mem[j].status = "running", !.pc = "reserve"]
  <2> DEFINE x == [job EXCEPT !.status = "running"]
             m == [tick.mem EXCEPT ![j] = x]
  <2>1. x \in S!Job /\ x.status = "running" /\ x.occ = job.occ /\ x.due = job.due
    BY <1>2, JobWith DEF S!Waiting
  <2>2. m \in [Jobs -> S!Job] /\ m[j] = x /\ \A k \in Jobs : k # j => m[k] = tick.mem[k]
    BY <1>2, <2>1 DEF TickState
  <2>3. tick' = [tick EXCEPT !.mem = m, !.pc = "reserve"]
    BY <1>2, <1>9 DEF TickState
  <2> HIDE DEF m, x
  <2>4. /\ TickType' /\ tick'.pc = "reserve" /\ tick'.mem = m /\ tick'.job = j
        /\ tick'.now = tick.now /\ tick'.todo = tick.todo
    BY <1>2, <2>2, <2>3 DEF TickType, TickState, TickPcs
  <2>5. \A k \in Jobs : Alike(k)'
    BY <1>1, <1>2, <1>3, <2>1, <2>2, <2>4 DEF Alike, S!Waiting
  <2>6. turn.job # j
    BY <1>9, NoTurnIs
  <2>7. chat = "gone" \/ ended[j][sched[j].occ] = "none"
    BY <1>3, <1>9 DEF S!Request, request
  <2>8. Copied' /\ Reserved'
    BY <1>1, <1>3, <1>9, <2>1, <2>2, <2>4, <2>5, <2>6, <2>7
       DEF SInv, Copied, Reserved, Working, S!Waiting
  <2> QED BY <1>1, <1>2, <2>4, <2>8, TickAlone DEF SInv
<1> QED BY <1>1, <1>6, <1>7, <1>8, <1>9

\* The tick is told to stop, or the server is writing: the reservation is taken back.
LEMMA RecheckKeeps == ASSUME SInv, S!Recheck PROVE SInv'
<1> PICK j \in Jobs : j = tick.job
  BY DEF SInv, Copied, Working, S!Recheck
<1>1. /\ UNCHANGED <<sched, line, route, turn, ended, chat, server, now, limit, gate, slots>>
      /\ tick.pc = "admit"
      /\ \/ server = "up" /\ tick' = [tick EXCEPT !.pc = "load"]
         \/ S!ToNext
         \/ S!ToSave(tick.mem[j])
  BY DEF S!Recheck, S!outside, S!Closed
<1>2. /\ TickType /\ tick.mem[j] \in S!Job /\ tick.mem[j].status \in S!Waiting
      /\ S!InTurn /\ tick.now <= now /\ \A k \in Jobs : Alike(k)
  BY <1>1 DEF SInv, RunTypes, TickType, TickState, Copied, Later, S!InTurn, Working
<1>3. CASE S!ToNext
  BY <1>1, <1>2, <1>3, GoesOn
<1>4. CASE S!ToSave(tick.mem[j])
  <2>1. tick'.mem[j] = tick.mem[j] /\ tick'.job = j
    BY <1>2, <1>4, TickSaves
  <2>2. Failed(tick.job)'
    BY <1>2, <2>1 DEF Failed, S!Waiting
  <2>3. /\ tick.mem[j].occ = sched[j].occ /\ tick.mem[j].due = sched[j].due
        /\ tick.mem[j].status # "none"
    BY <1>2 DEF Alike, S!Waiting
  <2> QED BY <1>1, <1>2, <1>4, <2>2, <2>3, Saves DEF Working
<1>5. CASE server = "up" /\ tick' = [tick EXCEPT !.pc = "load"]
  <2>1. /\ TickType' /\ tick'.pc = "load" /\ tick'.mem = tick.mem /\ tick'.todo = tick.todo
        /\ tick'.now = tick.now /\ tick'.job = tick.job
    BY <1>2, <1>5, TickMoves DEF TickPcs
  <2>2. \A k \in Jobs : Alike(k)'
    BY <1>1, <1>2, <2>1 DEF Alike
  <2>3. Copied' /\ Reserved'
    BY <1>1, <1>5, <2>1, <2>2 DEF SInv, Copied, Reserved, Working
  <2> QED BY <1>1, <1>2, <2>1, <2>3, TickAlone DEF SInv
<1> QED BY <1>1, <1>3, <1>4, <1>5

\* The reservation, or the admission, fails.
LEMMA FaultKeeps == ASSUME SInv, S!ReserveFault \/ S!AdmitFault PROVE SInv'
<1> PICK j \in Jobs : j = tick.job
  BY DEF SInv, Copied, Working, S!ReserveFault, S!AdmitFault
<1>1. /\ UNCHANGED <<sched, line, route, turn, ended, chat, server, now, gate, slots>>
      /\ tick.pc \in {"reserve", "load"}
      /\ tick' = [tick EXCEPT !.mem[j].status = "failed", !.pc = "save", !.fault = TRUE]
  BY DEF S!ReserveFault, S!AdmitFault
<1>2. /\ TickType /\ tick \in TickState /\ tick.mem[j] \in S!Job
      /\ S!InTurn /\ tick.now <= now /\ \A k \in Jobs : Alike(k)
  BY <1>1 DEF SInv, RunTypes, TickType, TickState, Copied, Later, S!InTurn
<1> DEFINE x == [tick.mem[j] EXCEPT !.status = "failed"]
           m == [tick.mem EXCEPT ![j] = x]
<1>3. /\ x \in S!Job /\ x.status = "failed" /\ x.occ = tick.mem[j].occ
      /\ x.due = tick.mem[j].due
  BY <1>2, JobWith
<1>4. m \in [Jobs -> S!Job] /\ m[j] = x /\ \A k \in Jobs : k # j => m[k] = tick.mem[k]
  BY <1>2, <1>3 DEF TickState
<1>5. tick' = [tick EXCEPT !.mem = m, !.pc = "save", !.fault = TRUE]
  BY <1>1, <1>2 DEF TickState
<1> HIDE DEF m, x
<1>6. /\ TickType' /\ tick'.pc = "save" /\ tick'.mem = m /\ tick'.job = j
      /\ tick'.now = tick.now /\ tick'.todo = tick.todo /\ tick'.fault
  BY <1>2, <1>4, <1>5 DEF TickType, TickState, TickPcs
<1>7. \A k \in Jobs : k # j => Alike(k)'
  BY <1>1, <1>2, <1>4, <1>6 DEF Alike
<1>8. Failed(j)' /\ m[j].occ = sched[j].occ /\ m[j].due = sched[j].due
  BY <1>2, <1>3, <1>4, <1>6 DEF Failed, Alike
<1>9. sched[j].status \in S!Waiting /\ j \notin tick.todo
  BY <1>1 DEF SInv, Copied, Working
<1>10. Copied' /\ Reserved'
  BY <1>1, <1>3, <1>4, <1>6, <1>7, <1>8, <1>9 DEF Copied, Reserved, Working
<1> QED BY <1>1, <1>2, <1>6, <1>10, TickAlone DEF SInv

\* The save fails, and the tick with it.
LEMMA SaveFaultKeeps == ASSUME SInv, S!SaveFault PROVE SInv'
<1>1. /\ UNCHANGED <<sched, line, route, turn, ended, chat, server, now, gate, slots>>
      /\ tick.pc = "save" /\ tick' = S!IdleTick
  BY DEF S!SaveFault
<1>2. TickType' /\ tick'.pc = "idle" /\ tick'.now = 0
  BY <1>1, TickEnds
<1>3. Copied' /\ Reserved' /\ 0 <= now
  BY <1>2, BoundsAssumption DEF Copied, Reserved, Working, S!InTurn, SInv, RunTypes, PlaceType
<1> QED BY <1>1, <1>2, <1>3, TickAlone DEF SInv, S!InTurn

-----------------------------------------------------------------------------
(* The file is written, and a run admitted.                                 *)

\* A schedule that is written as it was, but for what it waits for.
LEMMA WrittenAlike ==
  ASSUME SInv, UNCHANGED <<turn, ended, now, slots>>, sched' = tick.mem, NEW j \in Jobs,
         /\ tick.mem[j].occ = sched[j].occ /\ tick.mem[j].due = sched[j].due
         /\ tick.mem[j].status = "none" <=> sched[j].status = "none"
  PROVE  Occurred(j)' /\ OnGrid(j)'
<1>1. /\ sched'[j].occ = sched[j].occ /\ sched'[j].due = sched[j].due
      /\ sched'[j].status = "none" <=> sched[j].status = "none"
      /\ tick.mem[j] \in S!Job /\ Occurred(j) /\ OnGrid(j)
  BY DEF SInv, RunTypes, TickType, TickState, Slotted, Gridded
<1>2. sched[j] = S!NoJob /\ sched'[j].status = "none" => sched'[j] = S!NoJob
  <2> DEFINE x == tick.mem[j]
  <2>1. x \in [status : {"none", "cancelled", "completed", "failed"} \cup S!Waiting,
               due : Nat, occ : Nat]
    BY <1>1 DEF S!Job
  <2>2. x = [status |-> x.status, due |-> x.due, occ |-> x.occ]
    BY <2>1
  <2> HIDE DEF x
  <2>3. sched'[j] = x
    BY DEF x
  <2> QED BY <1>1, <2>2, <2>3 DEF S!NoJob
<1>3. OnGrid(j)'
  BY <1>1 DEF OnGrid
<1>4. Occurred(j)'
  <2>1. sched'[j].status = "none" => sched'[j] = S!NoJob /\ Len(slots[j]) = 0
    BY <1>1, <1>2 DEF Occurred
  <2> QED BY <1>1, <2>1 DEF Occurred, S!Occs
<1> QED BY <1>3, <1>4

\* What a write leaves to show: the rest of the invariant does not see which of the
\* waiting states a schedule is in.
LEMMA Written ==
  ASSUME SInv, UNCHANGED <<line, turn, route, ended, chat, server, now, slots, gate>>,
         sched' = tick.mem, TickType', S!InTurn, tick'.pc # "queued"
  PROVE  /\ RunTypes' /\ OneTick' /\ OneRoute'
         /\ (\A k \in Jobs : tick.mem[k].status = "none" <=> sched[k].status = "none") =>
              Creations' /\ Turns'
<1>1. SchedType'
  BY DEF SInv, RunTypes, TickType, TickState, SchedType
<1>2. RunTypes'
  BY <1>1 DEF SInv, RunTypes, LineType, RouteType, TurnType, EndedType, PlaceType, SlotsType
<1>3. OneTick'
  BY DEF SInv, OneTick, S!InTurn
<1>4. OneRoute'
  BY LineKept DEF SInv
<1>5. ASSUME \A k \in Jobs : tick.mem[k].status = "none" <=> sched[k].status = "none"
      PROVE  Creations' /\ Turns'
  <2>1. LineType /\ TurnType
    BY DEF SInv, RunTypes
  <2>2. Creations'
    <3>1. \A i \in 1..Len(line) : line[i].kind = "create" => line[i].job \in Jobs
      BY <2>1, ItemIs
    <3> QED BY <1>5, <3>1 DEF SInv, Creations
  <2>3. Turns'
    BY <1>5, <2>1 DEF SInv, Turns, TurnType, TurnState
  <2> QED BY <2>2, <2>3
<1> QED BY <1>2, <1>3, <1>4, <1>5

\* A reservation is written.
LEMMA ReserveKeeps == ASSUME SInv, S!Reserve PROVE SInv'
<1> PICK j \in Jobs : j = tick.job
  BY DEF SInv, Copied, Working, S!Reserve
<1>1. /\ UNCHANGED <<line, route, turn, ended, chat, server, now, limit, gate, slots>>
      /\ tick.pc = "reserve" /\ sched' = tick.mem
      /\ tick' = [tick EXCEPT !.pc = "admit"]
  BY DEF S!Reserve, S!outside
<1>2. /\ TickType /\ S!InTurn /\ tick.mem[j].status \in S!Waiting /\ j \notin tick.todo
      /\ \A k \in Jobs : Alike(k)
  BY <1>1 DEF SInv, RunTypes, Copied, S!InTurn, Working
<1>3. /\ TickType' /\ tick'.pc = "admit" /\ tick'.mem = tick.mem /\ tick'.todo = tick.todo
      /\ tick'.now = tick.now /\ tick'.job = tick.job
  BY <1>1, <1>2, TickMoves DEF TickPcs
<1>4. \A k \in Jobs : /\ tick.mem[k].occ = sched[k].occ /\ tick.mem[k].due = sched[k].due
                      /\ tick.mem[k].status = "none" <=> sched[k].status = "none"
                      /\ sched[k].status = "cancelled" => tick.mem[k].status = "cancelled"
  BY <1>2 DEF Alike, S!Waiting
<1>5. RunTypes' /\ OneTick' /\ OneRoute' /\ Creations' /\ Turns'
  BY <1>1, <1>2, <1>3, <1>4, Written
<1>6. Slotted' /\ Gridded'
  <2> SUFFICES ASSUME NEW k \in Jobs PROVE Occurred(k)' /\ OnGrid(k)'
    BY DEF Slotted, Gridded
  <2> QED BY <1>1, <1>4, WrittenAlike
<1>7. \A k \in Jobs : Alike(k)'
  BY <1>1, <1>3 DEF Alike
<1>8. Copied' /\ Reserved'
  BY <1>1, <1>2, <1>3, <1>4, <1>7 DEF SInv, Copied, Reserved, Working
<1>9. Later'
  BY <1>1, <1>3 DEF SInv, Later, S!InTurn
<1>10. Routed'
  <2>1. \A k \in Jobs : Passed(k) => Passed(k)'
    BY <1>1, <1>3 DEF Passed, S!InTurn
  <2> QED BY <1>1, <1>4, <2>1 DEF SInv, Routed
<1> QED BY <1>1, <1>5, <1>6, <1>8, <1>9, <1>10, OrderKept DEF SInv

\* The outcome of a schedule is written: it stays at its occurrence or is advanced.
LEMMA SaveKeeps == ASSUME SInv, S!Save PROVE SInv'
<1> PICK j \in Jobs : j = tick.job
  BY DEF SInv, Copied, Working, S!Save
<1>1. /\ UNCHANGED <<line, route, turn, ended, chat, server, now, limit, gate, slots>>
      /\ tick.pc = "save" /\ sched' = tick.mem /\ S!ToNext
  BY DEF S!Save, S!outside
<1>2. /\ TickType /\ S!InTurn /\ sched[j].status \in S!Waiting /\ j \notin tick.todo
      /\ \A k \in Jobs : k # j => Alike(k)
      /\ \/ Advanced(j)
         \/ /\ tick.mem[j].occ = sched[j].occ /\ tick.mem[j].due = sched[j].due
            /\ tick.mem[j].status # "none"
  BY <1>1 DEF SInv, RunTypes, Copied, S!InTurn, Working
<1>3. /\ TickType' /\ tick'.pc = "scan" /\ tick'.mem = tick.mem /\ tick'.todo = tick.todo
      /\ tick'.now = tick.now /\ tick'.job = "none"
  <2>1. tick'.job = "none"
    BY <1>1, <1>2 DEF S!ToNext, TickType, TickState
  <2> QED BY <1>1, <1>2, <2>1, TickGoesOn
<1>4. \A k \in Jobs : k # j => /\ tick.mem[k].occ = sched[k].occ /\ tick.mem[k].due = sched[k].due
                               /\ tick.mem[k].status = "none" <=> sched[k].status = "none"
                               /\ sched[k].status = "cancelled" => tick.mem[k].status = "cancelled"
  BY <1>2 DEF Alike, S!Waiting
<1>5. \A k \in Jobs : tick.mem[k].status = "none" <=> sched[k].status = "none"
  BY <1>2, <1>4 DEF S!Waiting, Advanced
<1>6. RunTypes' /\ OneTick' /\ OneRoute' /\ Creations' /\ Turns'
  BY <1>1, <1>2, <1>3, <1>5, Written
<1>7. \A k \in Jobs : Alike(k)'
  BY <1>1, <1>3 DEF Alike
<1>8. Copied' /\ Reserved'
  BY <1>3, <1>7 DEF Copied, Reserved, Working
<1>9. Later'
  BY <1>1, <1>3 DEF SInv, Later, S!InTurn
<1>10. Advanced(j) =>
         /\ turn.job # j /\ Len(slots[j]) = sched[j].occ + 1
         /\ Occurred(j)' /\ OnGrid(j)'
  <2> SUFFICES ASSUME Advanced(j)
               PROVE  /\ turn.job # j /\ Len(slots[j]) = sched[j].occ + 1
                      /\ Occurred(j)' /\ OnGrid(j)'
    OBVIOUS
  <2> DEFINE o == sched[j].occ
             n == Len(slots[j])
  <2>1. /\ Occurred(j) /\ OnGrid(j) /\ slots[j] \in Seq(Slot) /\ n \in Nat
        /\ sched[j] \in S!Job /\ sched[j].due \in Nat /\ o \in 0..MaxTime /\ MaxTime \in Nat
        /\ tick.mem[j] \in S!Job /\ tick.mem[j].due \in Nat /\ now \in 0..MaxTime
    <3>1. Occurred(j) /\ OnGrid(j) /\ o \in 0..MaxTime
      BY DEF SInv, Slotted, Gridded, Occurred, S!Occs
    <3>2. /\ slots[j] \in Seq(Slot) /\ sched[j] \in S!Job /\ tick.mem[j] \in S!Job
          /\ now \in 0..MaxTime
      BY DEF SInv, RunTypes, SchedType, SlotsType, TickType, TickState, PlaceType
    <3> QED BY <3>1, <3>2, BoundsAssumption DEF S!Job
  <2>2. /\ sched'[j].occ = o + 1 /\ sched'[j].due = tick.mem[j].due
        /\ sched'[j].status = "scheduled"
        /\ Every[j] \in Nat \ {0} /\ ended[j][o] = "completed"
        /\ sched'[j].due > sched[j].due /\ (sched'[j].due - sched[j].due) % Every[j] = 0
        /\ n > 0 => sched'[j].due > slots[j][n].at
    BY <1>1, SchedulesAssumption DEF Advanced
  <2>3. turn.job # j /\ n = o + 1 /\ \A q \in S!Occs : q > o => ended[j][q] = "none"
    <3>1. o \in S!Occs /\ ended[j][o] # "none"
      BY <2>1, <2>2 DEF S!Occs
    <3>2. n # o /\ turn.job # j
      BY <2>1, <3>1 DEF Occurred
    <3> QED BY <2>1, <3>2 DEF Occurred
  <2>4. /\ slots[j][n].due >= n /\ slots[j][n].at <= now /\ slots[j][n].due <= slots[j][n].at
        /\ slots[j][n].due \in Nat /\ slots[j][n].at \in Nat
        /\ slots[j][1].due \in Nat /\ sched[j].due = slots[j][n].due
    <3>1. n \in 1..n /\ 1 \in 1..n
      BY <2>1, <2>3
    <3>2. j \notin OnTool
      BY <2>2, SchedulesAssumption
    <3> HIDE DEF n
    <3>3. slots[j][n].due <= slots[j][n].at
      BY <3>1, <3>2 DEF SInv, OccurrencesInOrder, S!OccurrencesInOrder, n
    <3>4. slots[j][n].due >= n /\ slots[j][n].at <= now /\ sched[j].due = slots[j][n].due
      BY <2>1, <2>3, <3>1 DEF OnGrid, n
    <3>5. /\ slots[j][n].due \in Nat /\ slots[j][n].at \in Nat /\ slots[j][1].due \in Nat
      BY <2>1, <3>1, SlotIs DEF n
    <3> QED BY <3>3, <3>4, <3>5
  <2> HIDE DEF n, o
  <2>5. o + 1 \in 0..MaxTime /\ sched'[j].due > o + 1
    <3>1. o + 1 <= now
      BY <2>1, <2>3, <2>4
    <3>2. sched[j].due >= o + 1
      BY <2>1, <2>3, <2>4
    <3> QED BY <2>1, <2>2, <3>1, <3>2
  <2>6. Occurred(j)'
    <3>1. \A q \in S!Occs : q >= o + 1 => ended[j][q] = "none"
      BY <2>1, <2>3 DEF S!Occs
    <3>2. Len(slots'[j]) = sched'[j].occ
      BY <1>1, <2>2, <2>3 DEF n
    <3>3. turn'.job # j /\ ended' = ended /\ Every[j] # 0
      BY <1>1, <2>2, <2>3
    <3>4. \A q \in S!Occs : q >= sched'[j].occ => ended'[j][q] = "none"
      BY <2>2, <3>1, <3>3
    <3>5. sched'[j].occ \in S!Occs /\ sched'[j].status # "none" /\ sched'[j].due > sched'[j].occ
          /\ sched'[j].occ # sched'[j].occ + 1
      BY <2>1, <2>2, <2>5 DEF S!Occs
    <3> QED BY <3>2, <3>3, <3>4, <3>5 DEF Occurred, S!Occs
  <2>7. OnGrid(j)'
    <3>1. (sched'[j].due - slots[j][1].due) % Every[j] = 0
      <4>1. (sched[j].due - slots[j][1].due) % Every[j] = 0
        BY <2>1, <2>2, <2>3 DEF OnGrid, n
      <4>2. /\ sched[j].due - slots[j][1].due \in Int /\ sched'[j].due - sched[j].due \in Int
            /\ (sched[j].due - slots[j][1].due) + (sched'[j].due - sched[j].due)
                 = sched'[j].due - slots[j][1].due
        <5>1. \A a, b, c \in Nat : a - b \in Int /\ c - a \in Int /\ (a - b) + (c - a) = c - b
          OBVIOUS
        <5>2. sched[j].due \in Nat /\ sched'[j].due \in Nat /\ slots[j][1].due \in Nat
          BY <2>1, <2>2, <2>4
        <5> QED BY <5>1, <5>2
      <4> DEFINE p == sched[j].due - slots[j][1].due
                 q == sched'[j].due - sched[j].due
      <4>3. p \in Int /\ q \in Int /\ p % Every[j] = 0 /\ q % Every[j] = 0
            /\ p + q = sched'[j].due - slots[j][1].due
        BY <2>2, <4>1, <4>2
      <4> HIDE DEF p, q
      <4>4. (p + q) % Every[j] = 0
        BY <2>2, <4>3, Grid
      <4> QED BY <4>3, <4>4
    <3>2. slots' = slots /\ now' = now /\ n = sched'[j].occ /\ n # sched'[j].occ + 1
      BY <1>1, <2>1, <2>2, <2>3
    <3>3. \A i \in 1..n : slots[j][i].at <= now /\ slots[j][i].due >= i
      BY <2>1 DEF OnGrid, n
    <3>4. n > 0 => sched'[j].due > slots[j][n].at
      BY <2>2
    <3> QED BY <3>1, <3>2, <3>3, <3>4 DEF OnGrid, n
  <2> QED BY <2>3, <2>6, <2>7 DEF n, o
<1>11. Slotted' /\ Gridded'
  <2> SUFFICES ASSUME NEW k \in Jobs PROVE Occurred(k)' /\ OnGrid(k)'
    BY DEF Slotted, Gridded
  <2>1. CASE k = j /\ Advanced(j)
    BY <1>10, <2>1
  <2>2. CASE ~(k = j /\ Advanced(j))
    <3>1. /\ tick.mem[k].occ = sched[k].occ /\ tick.mem[k].due = sched[k].due
          /\ tick.mem[k].status = "none" <=> sched[k].status = "none"
      BY <1>2, <1>4, <1>5, <2>2
    <3> QED BY <1>1, <3>1, WrittenAlike
  <2> QED BY <2>1, <2>2
<1>12. Routed'
  <2>1. CASE route.pc = "idle"
    BY <1>1, <2>1 DEF Routed
  <2>2. CASE route.pc # "idle"
    <3> PICK r \in Jobs : r = route.job
      BY <2>2 DEF SInv, Routed
    <3>1. Passed(r) => r # j /\ Passed(r)'
      BY <1>1, <1>2, <1>3, SchedulesAssumption DEF Passed, S!InTurn
    <3>2. Advanced(j) => Passed(j)'
      <4> SUFFICES ASSUME Advanced(j) PROVE Passed(j)'
        OBVIOUS
      <4>1. \A i \in 1..Len(line) : line[i].kind # "tick"
        BY <1>1 DEF SInv, OneTick
      <4>2. turn'.job # j /\ line' = line /\ j \notin tick'.todo /\ tick'.job # j
        BY <1>1, <1>2, <1>3, <1>10, SchedulesAssumption
      <4> QED BY <4>1, <4>2 DEF Passed
    <3>3. sched[r].status = "cancelled" => r # j
      BY <1>2 DEF S!Waiting
    <3>4. /\ sched'[r].status # "none"
          /\ sched[r].status = "cancelled" => sched'[r].status = "cancelled"
      BY <1>1, <1>4, <1>5, <2>2, <3>3 DEF SInv, Routed
    <3>5. route.pc = "cancelling" =>
            sched'[r].occ = route.occ \/ (sched'[r].occ = route.occ + 1 /\ Passed(r)')
      <4> SUFFICES ASSUME route.pc = "cancelling"
                   PROVE  sched'[r].occ = route.occ \/ (sched'[r].occ = route.occ + 1 /\ Passed(r)')
        OBVIOUS
      <4>1. sched[r].occ = route.occ \/ (sched[r].occ = route.occ + 1 /\ Passed(r))
        BY DEF SInv, Routed
      <4>2. CASE r # j
        BY <1>1, <1>4, <3>1, <4>1, <4>2
      <4>3. CASE r = j
        <5>1. sched[j].occ = route.occ
          BY <3>1, <4>1, <4>3
        <5>2. Advanced(j) => Passed(r)'
          BY <3>2, <4>3 DEF Passed
        <5>3. CASE Advanced(j)
          <6>1. sched'[r].occ = route.occ + 1
            BY <1>1, <4>3, <5>1, <5>3 DEF Advanced
          <6> QED BY <5>2, <5>3, <6>1
        <5>4. CASE ~Advanced(j)
          BY <1>1, <1>2, <4>3, <5>1, <5>4
        <5> QED BY <5>3, <5>4
      <4> QED BY <4>2, <4>3
    <3> QED BY <1>1, <2>2, <3>4, <3>5 DEF SInv, Routed
  <2> QED BY <2>1, <2>2
<1> QED BY <1>1, <1>6, <1>8, <1>9, <1>11, <1>12, OrderKept DEF SInv

\* A run is admitted, refused or found without a chat.
LEMMA AdmitKeeps == ASSUME SInv, S!Admit PROVE SInv'
<1> PICK j \in Jobs : j = tick.job
  BY DEF SInv, Copied, Working, S!Admit
<1> DEFINE job == tick.mem[j]
<1>1. /\ UNCHANGED <<sched, line, route, ended, chat, server, now, limit, gate>>
      /\ tick.pc = "load"
      /\ \/ /\ S!ToSave([job EXCEPT !.status = "cancelled"])
            /\ UNCHANGED <<turn, slots>>
         \/ /\ S!ToSave([job EXCEPT !.status = "failed"])
            /\ server # "up" /\ UNCHANGED <<turn, slots>>
         \/ /\ S!ToSave([job EXCEPT !.status = "scheduled"])
            /\ UNCHANGED <<turn, slots>>
         \/ /\ S!Refused(job) = tick.before
            /\ tick' = [tick EXCEPT !.mem[j] = tick.before, !.pc = "scan", !.job = "none"]
            /\ UNCHANGED <<turn, slots>>
         \/ /\ chat = "here" /\ turn = S!NoTurn
            /\ turn' = S!RunOf(j, job.occ)
            /\ slots' = [slots EXCEPT ![j] =
                           Append(@, [occ |-> job.occ, due |-> job.due, at |-> now])]
            /\ S!ToSave(job)
  BY DEF S!Admit, S!outside, S!Closed, S!Refused
<1>2. /\ TickType /\ tick \in TickState /\ job \in S!Job /\ job.status \in S!Waiting
      /\ S!InTurn /\ tick.now <= now /\ \A k \in Jobs : Alike(k)
  <2>1. TickType /\ tick \in TickState /\ tick.now <= now
    BY DEF SInv, RunTypes, TickType, Later
  <2>2. S!InTurn /\ tick.pc \in Working \ {"save"}
    BY <1>1 DEF S!InTurn, Working
  <2>3. job.status \in S!Waiting /\ \A k \in Jobs : Alike(k)
    BY <1>1, <2>2 DEF SInv, Copied
  <2> QED BY <2>1, <2>2, <2>3 DEF TickState
<1>3. /\ job.occ = sched[j].occ /\ job.due = sched[j].due /\ sched[j].status \in S!Waiting
      /\ j \notin tick.todo
  BY <1>1, <1>2 DEF Alike, SInv, Copied, Working
<1>4. /\ turn.job # j /\ (chat = "gone" \/ ended[j][sched[j].occ] = "none")
      /\ j \notin OnTool => sched[j].due <= tick.now
      /\ "shutdown" \notin Windows => server = "up"
  BY <1>1 DEF SInv, Reserved
<1>5. ASSUME NEW s \in {"cancelled", "failed", "scheduled"},
             S!ToSave([job EXCEPT !.status = s]), UNCHANGED <<turn, slots>>,
             s = "failed" => server # "up"
      PROVE  SInv'
  <2> DEFINE x == [job EXCEPT !.status = s]
  <2>1. x \in S!Job /\ x.status = s /\ x.occ = job.occ /\ x.due = job.due
    BY <1>2, JobWith DEF S!Waiting
  <2> HIDE DEF x
  <2>2. S!ToSave(x)
    BY <1>5 DEF x
  <2>3. tick'.job = j /\ tick'.mem[j] = x
    BY <1>2, <2>1, <2>2, TickSaves
  <2>4. Failed(tick.job)'
    BY <1>4, <1>5, <2>1, <2>3 DEF Failed
  <2> QED BY <1>1, <1>2, <1>3, <1>5, <2>1, <2>2, <2>4, Saves DEF Working
<1>6. CASE /\ S!Refused(job) = tick.before
           /\ tick' = [tick EXCEPT !.mem[j] = tick.before, !.pc = "scan", !.job = "none"]
           /\ UNCHANGED <<turn, slots>>
  <2> DEFINE b == tick.before
             m == [tick.mem EXCEPT ![j] = b]
  <2>1. b \in S!Job /\ b.status = "scheduled" /\ b.occ = job.occ /\ b.due = job.due
    <3>1. b = [job EXCEPT !.status = "scheduled"]
      BY <1>6 DEF S!Refused
    <3>2. /\ [job EXCEPT !.status = "scheduled"] \in S!Job
          /\ [job EXCEPT !.status = "scheduled"].status = "scheduled"
          /\ [job EXCEPT !.status = "scheduled"].occ = job.occ
          /\ [job EXCEPT !.status = "scheduled"].due = job.due
      BY <1>2, JobWith DEF S!Waiting
    <3> HIDE DEF b, job
    <3> QED BY <3>1, <3>2
  <2>2. m \in [Jobs -> S!Job] /\ m[j] = b /\ \A k \in Jobs : k # j => m[k] = tick.mem[k]
    BY <1>2, <2>1 DEF TickState
  <2>3. tick' = [tick EXCEPT !.mem = m, !.pc = "scan", !.job = "none"]
    BY <1>2, <1>6 DEF TickState
  <2> HIDE DEF m, b
  <2>4. /\ TickType' /\ tick'.pc = "scan" /\ tick'.mem = m /\ tick'.job = "none"
        /\ tick'.now = tick.now /\ tick'.todo = tick.todo
    BY <1>2, <2>2, <2>3 DEF TickType, TickState, TickPcs
  <2>5. \A k \in Jobs : Alike(k)'
    BY <1>1, <1>2, <1>3, <2>1, <2>2, <2>4 DEF Alike, S!Waiting
  <2>6. Copied' /\ Reserved'
    BY <2>4, <2>5 DEF Copied, Reserved, Working
  <2> QED BY <1>1, <1>2, <1>6, <2>4, <2>6, TickAlone DEF SInv
<1>7. CASE /\ chat = "here" /\ turn = S!NoTurn
           /\ turn' = S!RunOf(j, job.occ)
           /\ slots' = [slots EXCEPT ![j] =
                          Append(@, [occ |-> job.occ, due |-> job.due, at |-> now])]
           /\ S!ToSave(job)
  <2> DEFINE slot == [occ |-> job.occ, due |-> job.due, at |-> now]
             sj == Append(slots[j], slot)
             o == sched[j].occ
             n == Len(slots[j])
  <2>1. /\ Occurred(j) /\ OnGrid(j) /\ slots[j] \in Seq(Slot) /\ n \in Nat
        /\ sched[j].due \in Nat /\ o \in 0..MaxTime /\ MaxTime \in Nat
        /\ now \in 0..MaxTime /\ slots \in [Jobs -> Seq(Slot)] /\ tick.now \in Nat
    <3>1. Occurred(j) /\ OnGrid(j) /\ o \in 0..MaxTime
      BY DEF SInv, Slotted, Gridded, Occurred, S!Occs
    <3>2. /\ slots \in [Jobs -> Seq(Slot)] /\ sched[j] \in S!Job /\ tick.now \in Nat
          /\ now \in 0..MaxTime
      BY DEF SInv, RunTypes, SchedType, SlotsType, TickType, TickState, PlaceType
    <3> QED BY <3>1, <3>2, BoundsAssumption DEF S!Job
  <2>2. slot \in Slot /\ slot.occ = o /\ slot.due = sched[j].due /\ slot.at = now
    BY <1>3, <2>1 DEF Slot
  <2> HIDE DEF slot
  <2>3. /\ sj \in Seq(Slot) /\ Len(sj) = n + 1 /\ sj[n + 1] = slot
        /\ \A i \in 1..n : sj[i] = slots[j][i]
    BY <2>1, <2>2
  <2> HIDE DEF sj
  <2>4. slots' = [slots EXCEPT ![j] = sj]
    BY <1>7 DEF sj, slot
  <2>5. /\ slots' \in [Jobs -> Seq(Slot)] /\ slots'[j] = sj
        /\ \A k \in Jobs : k # j => slots'[k] = slots[k]
    BY <2>1, <2>3, <2>4
  <2>6. /\ turn' \in TurnState /\ turn'.job = j /\ turn'.occ = o /\ turn'.wake = "none"
        /\ turn'.job # "none" /\ turn.job \notin Jobs
    BY <1>3, <1>7, <2>1, NoTurnIs, SchedulesAssumption DEF S!RunOf, TurnState
  <2>7. /\ TickType' /\ tick'.pc = "save" /\ tick'.mem[j] = job
        /\ \A k \in Jobs : k # j => tick'.mem[k] = tick.mem[k]
        /\ tick'.job = j /\ tick'.now = tick.now /\ tick'.todo = tick.todo
    BY <1>2, <1>7, TickSaves
  <2>8. RunTypes'
    BY <1>1, <2>5, <2>6, <2>7 DEF SInv, RunTypes, SchedType, LineType, RouteType, TurnType,
       EndedType, PlaceType, SlotsType
  <2>9. n = o
    BY <1>4, <1>7, <2>1 DEF Occurred
  <2> HIDE DEF n, o
  <2>10. Slotted'
    <3> SUFFICES ASSUME NEW k \in Jobs PROVE Occurred(k)'
      BY DEF Slotted
    <3>1. CASE k = j
      <4>1. /\ Len(slots'[j]) = sched'[j].occ + 1 /\ sched'[j].occ \in S!Occs
            /\ sched'[j].status # "none" /\ turn'.job = j /\ turn'.occ = sched'[j].occ
            /\ ended'[j][sched'[j].occ] = "none" /\ sched'[j] = sched[j]
            /\ sched'[j].occ # sched'[j].occ + 1
        BY <1>1, <1>3, <1>4, <1>7, <2>1, <2>3, <2>5, <2>6, <2>9 DEF n, o, S!Occs, S!Waiting
      <4>2. \A q \in S!Occs : q > sched'[j].occ => ended'[j][q] = "none"
        <5>1. \A q \in S!Occs : q >= o => ended[j][q] = "none"
          BY <2>1, <2>9 DEF Occurred, n, o
        <5>2. \A q \in S!Occs : q > o => q >= o
          BY <2>1 DEF S!Occs
        <5> QED BY <1>1, <5>1, <5>2 DEF o
      <4>3. sched'[j].due > sched'[j].occ /\ (Every[j] = 0 => sched'[j].occ = 0)
        BY <1>1, <2>1, <4>1 DEF Occurred
      <4> QED BY <3>1, <4>1, <4>2, <4>3 DEF Occurred
    <3>2. CASE k # j
      <4>1. Occurred(k) /\ slots'[k] = slots[k] /\ turn.job # k /\ turn'.job # k
        BY <2>5, <2>6, <3>2 DEF SInv, Slotted
      <4> QED BY <1>1, <4>1 DEF Occurred, S!Occs
    <3> QED BY <3>1, <3>2
  <2>11. Gridded'
    <3> SUFFICES ASSUME NEW k \in Jobs PROVE OnGrid(k)'
      BY DEF Gridded
    <3>1. CASE k = j
      <4>1. \A i \in 1..(n + 1) : sj[i].at <= now /\ sj[i].due >= i
        <5> SUFFICES ASSUME NEW i \in 1..(n + 1) PROVE sj[i].at <= now /\ sj[i].due >= i
          OBVIOUS
        <5>1. CASE i \in 1..n
          BY <2>1, <2>3, <5>1 DEF OnGrid, n
        <5>2. CASE i = n + 1
          <6>1. sched[j].due > o
            BY <1>3, <2>1 DEF Occurred, o, S!Waiting
          <6> QED BY <2>1, <2>2, <2>3, <2>9, <5>2, <6>1
        <5> QED BY <2>1, <5>1, <5>2
      <4>2. Every[j] # 0 => (sched[j].due - sj[1].due) % Every[j] = 0
        <5>1. CASE n = 0
          <6>1. sj[1].due = sched[j].due
            BY <2>2, <2>3, <5>1
          <6>2. Every[j] # 0 => 0 % Every[j] = 0
            <7>1. Every[j] \in Nat
              BY SchedulesAssumption
            <7> QED BY <7>1
          <6> QED BY <2>1, <6>1, <6>2
        <5>2. CASE n > 0
          BY <2>1, <2>3, <5>2 DEF OnGrid, n
        <5> QED BY <2>1, <5>1, <5>2
      <4>3. /\ slots'[j] = sj /\ sched' = sched /\ now' = now /\ Len(sj) = n + 1
            /\ sched[j].due = sj[n + 1].due /\ n + 1 = sched[j].occ + 1 /\ n + 1 # sched[j].occ
        BY <1>1, <2>1, <2>2, <2>3, <2>5, <2>9 DEF o
      <4> QED BY <3>1, <4>1, <4>2, <4>3 DEF OnGrid
    <3>2. CASE k # j
      BY <1>1, <2>5, <3>2 DEF SInv, Gridded, OnGrid
    <3> QED BY <3>1, <3>2
  <2>12. OccurrencesInOrder'
    <3> SUFFICES ASSUME NEW k \in Jobs, NEW i \in 1..Len(slots'[k])
                 PROVE  /\ slots'[k][i].occ = i - 1
                        /\ k \notin OnTool => slots'[k][i].due <= slots'[k][i].at
                        /\ i > 1 => /\ slots'[k][i].due > slots'[k][i - 1].at
                                    /\ (slots'[k][i].due - slots'[k][1].due) % Every[k] = 0
      BY DEF OccurrencesInOrder, S!OccurrencesInOrder
    <3>1. CASE k # j
      BY <2>5, <3>1 DEF SInv, OccurrencesInOrder, S!OccurrencesInOrder
    <3>2. CASE k = j /\ i \in 1..n
      <4>1. sj[i] = slots[j][i] /\ sj[1] = slots[j][1] /\ (i > 1 => sj[i - 1] = slots[j][i - 1])
        <5>1. 1 \in 1..n /\ (i > 1 => i - 1 \in 1..n)
          BY <2>1, <3>2
        <5> QED BY <2>3, <3>2, <5>1
      <4> QED BY <2>5, <3>2, <4>1 DEF SInv, OccurrencesInOrder, S!OccurrencesInOrder, n
    <3>3. CASE k = j /\ i = n + 1
      <4>1. sj[i].occ = i - 1 /\ (j \notin OnTool => sj[i].due <= sj[i].at)
        BY <1>2, <1>4, <2>1, <2>2, <2>3, <2>9, <3>3
      <4>2. ASSUME i > 1
            PROVE  sj[i].due > sj[i - 1].at /\ (sj[i].due - sj[1].due) % Every[j] = 0
        <5>1. n > 0 /\ i - 1 = n /\ n \in 1..n /\ 1 \in 1..n
          BY <2>1, <3>3, <4>2
        <5>2. sj[i] = slot /\ sj[i - 1] = slots[j][n] /\ sj[1] = slots[j][1]
          BY <2>3, <3>3, <5>1
        <5>3. sched[j].due > slots[j][n].at
          BY <2>1, <2>9, <5>1 DEF OnGrid, n, o
        <5>4. Every[j] # 0
          BY <2>1, <2>9, <5>1 DEF Occurred, o
        <5>5. (sched[j].due - slots[j][1].due) % Every[j] = 0
          BY <2>1, <5>1, <5>4 DEF OnGrid, n
        <5> QED BY <2>2, <5>2, <5>3, <5>5
      <4> QED BY <2>5, <3>3, <4>1, <4>2
    <3> QED BY <2>1, <2>3, <2>5, <3>1, <3>2, <3>3
  <2>13. OneTick' /\ OneRoute' /\ Creations'
    <3>1. turn' # S!NoTurn
      BY <2>6, NoTurnIs
    <3> QED BY <1>1, <2>7, <3>1, LineKept DEF SInv, OneTick
  <2>14. Turns' /\ Later'
    <3>1. Turns'
      BY <2>6 DEF Turns
    <3>2. Later'
      BY <1>1, <1>3, <2>5, <2>7 DEF SInv, Later, S!InTurn
    <3> QED BY <3>1, <3>2
  <2>15. Copied' /\ Reserved'
    <3>1. \A k \in Jobs : k # j => Alike(k)'
      BY <1>1, <1>2, <2>7 DEF Alike
    <3>2. tick'.mem[j].occ = sched'[j].occ /\ tick'.mem[j].due = sched'[j].due
          /\ tick'.mem[j].status # "none" /\ tick'.mem[j].status # "failed"
      BY <1>1, <1>2, <1>3, <2>7 DEF S!Waiting
    <3> QED BY <1>1, <1>3, <2>7, <3>1, <3>2 DEF Copied, Reserved, Working, Failed
  <2>16. Routed'
    <3>1. \A k \in Jobs : Passed(k) => Passed(k)'
      BY <1>1, <2>6, <2>7 DEF Passed, S!InTurn
    <3>2. \A k \in Jobs : sched[k].status = "cancelled" => k # j
      BY <1>3 DEF S!Waiting
    <3> QED BY <1>1, <2>6, <3>1, <3>2 DEF SInv, Routed
  <2> QED BY <2>8, <2>10, <2>11, <2>12, <2>13, <2>14, <2>15, <2>16 DEF SInv
<1> QED BY <1>1, <1>5, <1>6, <1>7

-----------------------------------------------------------------------------
(* The invariant of the schedules.                                          *)

\* It holds at first, ...
LEMMA SchedulesInit == ASSUME S!Init PROVE SInv
<1>1. /\ \A j \in Jobs : sched[j] = S!NoJob /\ Len(slots[j]) = 0
      /\ \A j \in Jobs, q \in S!Occs : ended[j][q] = "none"
      /\ line = <<>> /\ Len(line) = 0 /\ tick = S!IdleTick /\ route = S!NoRoute
      /\ turn = S!NoTurn /\ chat = "here" /\ server = "up" /\ now = 0
      /\ gate = [writes |-> 0, cleaning |-> FALSE]
  BY DEF S!Init
<1>2. /\ SchedType /\ LineType /\ RouteType /\ TurnType /\ EndedType /\ PlaceType /\ SlotsType
  <2>1. S!NoJob \in S!Job
    BY DEF S!NoJob, S!Job
  <2>2. SchedType /\ LineType /\ EndedType /\ SlotsType
    BY <2>1 DEF S!Init, SchedType, LineType, EndedType, SlotsType, Outcome
  <2>3. RouteType /\ TurnType
    BY <1>1, NoTurnIs DEF RouteType, RouteState, TurnType, S!NoRoute
  <2>4. PlaceType
    BY <1>1, BoundsAssumption DEF PlaceType
  <2> QED BY <2>2, <2>3, <2>4
<1>3. TickType /\ tick.pc = "idle" /\ tick.now = 0
  BY <1>1 DEF S!IdleTick, S!NoJob, S!Job, TickType, TickState, TickPcs
<1>4. route.pc = "idle" /\ turn.job \notin Jobs /\ turn.wake = "none"
  BY <1>1, NoTurnIs DEF S!NoRoute
<1>5. OneTick /\ OneRoute /\ Creations /\ Turns /\ Routed
  BY <1>1, <1>4 DEF OneTick, OneRoute, InLine, Creations, Turns, Routed
<1>6. Copied /\ Reserved
  BY <1>3 DEF Copied, Reserved, Working, S!InTurn
<1>7. Slotted /\ Gridded /\ OccurrencesInOrder /\ Later
  <2>1. \A j \in Jobs : /\ sched[j].status = "none" /\ sched[j].occ = 0
                        /\ 1..Len(slots[j]) = {} /\ turn.job # j
    BY <1>1, <1>4 DEF S!NoJob
  <2>2. Slotted
    BY <1>1, <2>1, BoundsAssumption DEF Slotted, Occurred, S!Occs
  <2>3. Gridded /\ OccurrencesInOrder
    BY <1>1, <2>1 DEF Gridded, OnGrid, OccurrencesInOrder, S!OccurrencesInOrder
  <2>4. Later
    BY <1>1, <1>3 DEF Later, S!InTurn
  <2> QED BY <2>2, <2>3, <2>4
<1> QED BY <1>2, <1>3, <1>5, <1>6, <1>7 DEF SInv, RunTypes

\* ... every step of the schedules keeps it ...
LEMMA ScheduleKeeps ==
  ASSUME SInv, S!Outside \/ S!Step \/ S!Fault \/ S!Close \/ S!CloseReturn \/ S!Boot
  PROVE  SInv'
<1>1. CASE S!Outside
  BY <1>1, CreateKeeps, RouteCancelKeeps, FireKeeps, PostKeeps, AskUnsleepKeeps, RunEndsWell,
     PassKeeps DEF S!Outside
<1>2. CASE S!Step
  BY <1>2, ServeCreateKeeps, ServeUnsleepKeeps, ServeListKeeps, ServeCancelKeeps, ServeTickKeeps,
     ScanKeeps, LookKeeps, ReserveKeeps, RecheckKeeps, AdmitKeeps, SaveKeeps, RouteAbortKeeps
     DEF S!Step, S!ServeLine, S!TickStep
<1>3. CASE S!Fault
  BY <1>3, CancelFaultKeeps, FaultKeeps, SaveFaultKeeps DEF S!Fault
<1> QED BY <1>1, <1>2, <1>3, ServerKeeps

\* ... and so does every step of the server.
LEMMA SchedulesInductive == ASSUME SInv, [Next]_vars PROVE SInv'
<1>1. CASE UNCHANGED runVars
  <2>1. gate \in [writes : Nat, cleaning : BOOLEAN]
    BY DEF SInv, RunTypes, PlaceType
  <2> QED BY <1>1, <2>1, OuterKeeps DEF runVars
<1>2. CASE GateStep
  <2>1. gate \in [writes : Nat, cleaning : BOOLEAN]
    BY DEF SInv, RunTypes, PlaceType
  <2>2. UNCHANGED <<sched, line, tick, route, turn, ended, server, now, slots>>
        /\ chat' \in {chat, "gone"}
    BY <1>2 DEF GateStep, BeginWrite, EndWrite, BeginCleanup, EndCleanup, CheckDelete, RemoveChat,
       GateMoves
  <2>3. gate' \in [writes : Nat, cleaning : BOOLEAN]
    <3>1. CASE BeginWrite
      BY <2>1, <3>1 DEF BeginWrite
    <3>2. CASE EndWrite
      BY <2>1, <3>2 DEF EndWrite, Deleting
    <3>3. CASE BeginCleanup \/ EndCleanup \/ CheckDelete \/ RemoveChat
      BY <2>1, <3>3 DEF BeginCleanup, EndCleanup, CheckDelete, RemoveChat
    <3> QED BY <1>2, <3>1, <3>2, <3>3 DEF GateStep
  <2> QED BY <2>2, <2>3, OuterKeeps
<1>3. CASE Schedules \/ CloseSchedules \/ BootSchedules
  BY <1>3, ScheduleKeeps DEF Schedules, CloseSchedules, BootSchedules
<1>4. CASE Exit \/ Crash
  <2>1. CASE UNCHANGED runVars
    BY <1>1, <2>1
  <2>2. CASE S!Halt /\ Opened
    BY <2>2, ForgetKeeps DEF S!Halt, Opened
  <2>3. CASE S!Crash /\ Opened
    BY <2>3, ForgetKeeps DEF S!Crash, Opened
  <2> QED BY <1>4, <2>1, <2>2, <2>3 DEF Exit, Crash
<1> QED BY <1>1, <1>2, <1>3, <1>4
        DEF Next, GateStep, vars, StartTool, Tools, CloseTools, BootTools

\* The schedules' invariant holds of every behaviour.
LEMMA SchedulesInvariant == Spec => []SInv
<1>1. Init => SInv
  BY SchedulesInit DEF Init
<1>2. SInv /\ [Next]_vars => SInv'
  BY SchedulesInductive
<1> QED BY <1>1, <1>2, PTL DEF Spec

\* OccurrencesInOrder: whatever crashes, requests and faults come between, each
\* occurrence of a schedule has at most one run, in order, not before it is due; and a run
\* that was missed moves the next one past the present, on the same grid.
THEOREM OccurrencesKeepOrder == Spec => []OccurrencesInOrder
<1>1. SInv => OccurrencesInOrder
  BY DEF SInv
<1> QED BY <1>1, SchedulesInvariant, PTL

\* CancelledStaysQuiet: a schedule whose cancellation was answered has no run that goes
\* on, also when a tick advanced it between the listing and the cancellation.
THEOREM CancelledAreQuiet == Spec => []CancelledStaysQuiet
<1>1. SInv => CancelledStaysQuiet
  BY DEF SInv, Routed, CancelledStaysQuiet, S!CancelledStaysQuiet
<1> QED BY <1>1, SchedulesInvariant, PTL

\* (A step that marks a schedule as failed.)
LEMMA FailsAt ==
  ASSUME SInv, [Next]_vars, "shutdown" \notin Windows, NEW j \in Jobs,
         sched'[j].status = "failed", sched[j].status # "failed", ~tick.fault
  PROVE  j \in OnTool \/ ended[j][sched[j].occ] \in {"failed", "interrupted"}
<1>1. sched \in [Jobs -> S!Job] /\ turn.wake \in Jobs \cup {"none"}
  BY DEF SInv, RunTypes, SchedType, TurnType, TurnState
<1>2. CASE S!Save
  <2>1. sched' = tick.mem /\ tick.pc = "save"
    BY <1>2 DEF S!Save
  <2>2. j = tick.job
    BY <2>1 DEF SInv, Copied, S!InTurn, Alike, S!Waiting
  <2>3. Failed(j)
    BY <2>1, <2>2 DEF SInv, Copied, Advanced
  <2> QED BY <2>1, <2>3 DEF Failed
<1>3. CASE S!Reserve
  <2>1. sched' = tick.mem /\ tick.pc = "reserve"
    BY <1>3 DEF S!Reserve
  <2> QED BY <2>1 DEF SInv, Copied, S!InTurn, Alike, S!Waiting
<1>4. CASE S!ServeCreate \/ S!ServeCancel \/ S!ServeUnsleep
  <2>1. CASE S!ServeCreate
    BY <1>1, <2>1 DEF S!ServeCreate
  <2>2. CASE S!ServeCancel \/ S!ServeUnsleep
    <3>1. PICK k : sched' = [sched EXCEPT ![k].status = "cancelled"]
      BY <2>2 DEF S!ServeCancel, S!ServeUnsleep
    <3>2. sched[j] \in S!Job
      BY <1>1
    <3>3. CASE k = j
      BY <1>1, <3>1, <3>2, <3>3 DEF S!Job
    <3>4. CASE k # j
      BY <1>1, <3>1, <3>4
    <3> QED BY <3>3, <3>4
  <2> QED BY <1>4, <2>1, <2>2
<1>5. CASE UNCHANGED sched
  BY <1>5
<1>6. S!Save \/ S!Reserve \/ S!ServeCreate \/ S!ServeCancel \/ S!ServeUnsleep \/ UNCHANGED sched
  <2>1. CASE Schedules
    BY <2>1 DEF Schedules, S!Outside, S!Step, S!Fault, S!ServeLine, S!TickStep, S!Create,
       S!RouteCancel, S!Fire, S!Post, S!AskUnsleep, S!EndTurn, S!Pass, S!ServeList, S!ServeTick,
       S!Scan, S!Look, S!Recheck, S!Admit, S!RouteAbort, S!CancelFault, S!ReserveFault,
       S!AdmitFault, S!SaveFault
  <2>2. CASE CloseSchedules \/ BootSchedules \/ Exit \/ Crash
    BY <2>2 DEF CloseSchedules, BootSchedules, Exit, Crash, S!Close, S!CloseReturn, S!Boot,
       S!Halt, S!Crash, runVars
  <2>3. CASE GateStep
    BY <2>3 DEF GateStep, BeginWrite, EndWrite, BeginCleanup, EndCleanup, CheckDelete, RemoveChat,
       GateMoves
  <2>4. CASE UNCHANGED runVars
    BY <2>4 DEF runVars
  <2> QED BY <2>1, <2>2, <2>3, <2>4
          DEF Next, GateStep, vars, StartTool, Tools, CloseTools, BootTools
<1> QED BY <1>2, <1>3, <1>4, <1>5, <1>6

\* FailsForItsRun: a schedule fails for its run, a tool or a fault.  The hypothesis closes
\* the window of a server that is told to stop while the tick loads the chat: there
\* "closed" fails the schedule as an error would.
THEOREM SchedulesFailForTheirRun ==
  ASSUME "shutdown" \notin Windows
  PROVE  Spec => FailsForItsRun
<1>1. SInv /\ [Next]_vars =>
        [\A j \in Jobs :
           sched'[j].status = "failed" /\ sched[j].status # "failed" /\ ~tick.fault =>
             \/ j \in OnTool
             \/ ended[j][sched[j].occ] \in {"failed", "interrupted"}]_(S!vars)
  BY FailsAt
<1> QED BY <1>1, SchedulesInvariant, PTL DEF Spec, FailsForItsRun, S!FailsForItsRun

-----------------------------------------------------------------------------
(* What keeps the parts apart.                                              *)

\* A start that is in the queue is of a run that is not settled, the tools of a server
\* that goes on are active, and the schedules are closed before the tools are.  So no tool
\* is executed or started while data is cleaned up, nor from the look of a deletion on, until
\* a person's run is admitted before the removal; and a write that is held bars the ticks.
Starts == \E i \in 1..Len(queue) : queue[i].kind = "start"
Quiet == ~Starts /\ \A c \in Calls : entry[c].exec = "none"
Held == \A c \in Calls : entry[c].exec # "none" /\ ~closed => entry[c].active
Barred == gate.cleaning \/ removal = "checked"
Empty == gate.cleaning \/ ((chat = "gone" \/ removal = "checked") /\ ~late)
Apart ==
  /\ Barred => tick.pc \in {"idle", "queued"}
  /\ gate.cleaning => gate.writes = 0
  /\ removal = "checked" => gate.writes > 0
  /\ Empty => turn = S!NoTurn /\ Quiet
  /\ Starts => turn # S!NoTurn
  /\ Held
  /\ closed => server = "closed"

\* The queue of the tools gains no start but by a start.
LEMMA NoNewStart ==
  ASSUME IInv,
         \/ UNCHANGED queue
         \/ queue # <<>> /\ queue' = Tail(queue)
         \/ \E op : op.kind # "start" /\ queue' = Append(queue, op)
         \/ \E op : queue # <<>> /\ op.kind # "start" /\ queue' = Append(Tail(queue), op),
         Starts'
  PROVE  Starts
<1>1. queue \in Seq(B!Ops) /\ Len(queue) \in Nat
  BY DEF IInv, QueueType
<1> PICK i \in 1..Len(queue') : queue'[i].kind = "start"
  BY DEF Starts
<1>2. CASE UNCHANGED queue
  BY <1>2 DEF Starts
<1>3. CASE queue # <<>> /\ queue' = Tail(queue)
  <2>1. i + 1 \in 1..Len(queue) /\ queue'[i] = queue[i + 1]
    BY <1>1, <1>3
  <2> QED BY <2>1 DEF Starts
<1>4. CASE \E op : op.kind # "start" /\ queue' = Append(queue, op)
  <2> PICK op : op.kind # "start" /\ queue' = Append(queue, op)
    BY <1>4
  <2>1. i \in 1..Len(queue) /\ queue'[i] = queue[i]
    BY <1>1
  <2> QED BY <2>1 DEF Starts
<1>5. CASE \E op : queue # <<>> /\ op.kind # "start" /\ queue' = Append(Tail(queue), op)
  <2> PICK op : queue # <<>> /\ op.kind # "start" /\ queue' = Append(Tail(queue), op)
    BY <1>5
  <2> DEFINE q == Tail(queue)
  <2>1. q \in Seq(B!Ops) /\ Len(q) = Len(queue) - 1 /\ \A k \in 1..Len(q) : q[k] = queue[k + 1]
    BY <1>1
  <2> HIDE DEF q
  <2>2. i \in 1..Len(q) /\ queue'[i] = q[i]
    <3>1. queue' = Append(q, op)
      BY DEF q
    <3> QED BY <2>1, <3>1
  <2>3. i + 1 \in 1..Len(queue) /\ queue[i + 1].kind = "start"
    BY <1>1, <2>1, <2>2
  <2> QED BY <2>3 DEF Starts
<1> QED BY <1>2, <1>3, <1>4, <1>5

\* A tool is executed from the start of its call on: no step begins an execution but
\* one that was put in the queue, and an execution that goes on keeps its job active.
LEMMA ToolsStep ==
  ASSUME IInv, Held, Tools
  PROVE  (Quiet => Quiet') /\ Held' /\ (Starts' => Starts) /\ closed' = closed
<1>1. entry \in [Calls -> B!Entry]
  BY DEF IInv, EntryType
<1>2. queue # <<>> =>
        /\ 1 \in 1..Len(queue)
        /\ queue[1].kind # "close" => queue[1].call \in Calls
        /\ queue[1].kind \in {"report", "completed", "failed"} =>
             entry[queue[1].call].exec # "none"
        /\ queue[1].kind = "close" => closed
        /\ queue[1].kind = "start" => Starts
  <2> SUFFICES ASSUME queue # <<>>
               PROVE  /\ 1 \in 1..Len(queue)
                      /\ queue[1].kind # "close" => queue[1].call \in Calls
                      /\ queue[1].kind \in {"report", "completed", "failed"} =>
                           entry[queue[1].call].exec # "none"
                      /\ queue[1].kind = "close" => closed
                      /\ queue[1].kind = "start" => Starts
    OBVIOUS
  <2>1. 1 \in 1..Len(queue) /\ (queue[1].kind # "close" => queue[1].call \in Calls)
    BY HeadIs
  <2> QED BY <2>1 DEF IInv, Queued, ToolSaves, Awaits, Starts
<1> DEFINE Kept(c) ==
             /\ entry'[c].exec # "none" => entry[c].exec # "none"
             /\ entry'[c].exec # "none" /\ ~closed => entry'[c].active = entry[c].active
<1>3. ASSUME closed' = closed, Starts' => Starts, \A c \in Calls : Kept(c)
      PROVE  (Quiet => Quiet') /\ Held'
  BY <1>3 DEF Quiet, Held
<1>4. CASE \E c \in Calls : B!Cancel(c) \/ B!Report(c) \/ B!Return(c)
  <2> PICK c \in Calls : B!Cancel(c) \/ B!Report(c) \/ B!Return(c)
    BY <1>4
  <2>1. \E op : op.kind # "start" /\ queue' = Append(queue, op)
    BY DEF B!Cancel, B!Report, B!Return, B!Enqueue, B!Op
  <2>2. closed' = closed /\ (Starts' => Starts)
    BY <2>1, NoNewStart DEF B!Cancel, B!Report, B!Return
  <2>3. entry' = entry \/ (entry[c].exec = "running" /\ \E x : entry' = [entry EXCEPT ![c].exec = x])
    BY DEF B!Cancel, B!Report, B!Return
  <2>4. \A d \in Calls : Kept(d)
    <3>1. CASE entry' = entry
      BY <3>1
    <3>2. CASE entry[c].exec = "running" /\ \E x : entry' = [entry EXCEPT ![c].exec = x]
      <4> PICK x : entry' = [entry EXCEPT ![c].exec = x]
        BY <3>2
      <4> QED BY <1>1, <3>2 DEF B!Entry
    <3> QED BY <2>3, <3>1, <3>2
  <2> QED BY <1>3, <2>2, <2>4
<1>5. CASE B!StartBegin
  <2>1. closed' = closed /\ (Starts' => Starts)
    <3>1. UNCHANGED queue \/ (queue # <<>> /\ queue' = Tail(queue))
      BY <1>5 DEF B!StartBegin, B!Begins, B!AtHead
    <3> QED BY <1>5, <3>1, NoNewStart DEF B!StartBegin
  <2>2. \A d \in Calls : Kept(d)
    BY <1>1, <1>2, <1>5 DEF B!StartBegin, B!Begins, B!AtHead, B!NoEntry, B!Entry
  <2> QED BY <1>3, <2>1, <2>2
<1>6. CASE B!StartWrite
  <2> DEFINE c == queue[1].call
  <2>1. /\ queue # <<>> /\ queue[1].kind = "start" /\ closed' = closed /\ queue' = Tail(queue)
        /\ entry' = [entry EXCEPT ![c].status = "running", ![c].active = TRUE,
                                  ![c].exec = "running"]
    BY <1>6 DEF B!StartWrite, B!Lands, B!AtHead
  <2>2. Starts' => Starts
    BY <2>1, NoNewStart
  <2>3. Starts /\ c \in Calls
    BY <1>2, <2>1
  <2>4. entry'[c].active /\ \A d \in Calls : d # c => entry'[d] = entry[d]
    BY <1>1, <2>1, <2>3 DEF B!Entry
  <2>5. Held'
    BY <2>1, <2>4 DEF Held
  <2> QED BY <2>1, <2>2, <2>3, <2>5 DEF Quiet
<1>7. CASE B!SaveBegin \/ B!SaveWrite \/ B!SaveFault
  <2> DEFINE c == queue[1].call
  <2>1. /\ queue # <<>> /\ queue[1].kind \in {"report", "completed", "failed"} /\ closed' = closed
    BY <1>7 DEF B!SaveBegin, B!SaveWrite, B!SaveFault, B!Lands, B!Begins, B!AtHead
  <2>2. c \in Calls /\ entry[c].exec # "none"
    BY <1>2, <2>1
  <2>3. Starts' => Starts
    <3>1. \/ UNCHANGED queue
          \/ queue' = Tail(queue)
          \/ \E op : op.kind # "start" /\ queue' = Append(Tail(queue), op)
      BY <1>7 DEF B!SaveBegin, B!SaveWrite, B!SaveFault, B!Op
    <3> QED BY <2>1, <3>1, NoNewStart
  <2>4. \/ UNCHANGED entry
        \/ \E x : entry' = [entry EXCEPT ![c].status = x]
        \/ \E x : entry' = [entry EXCEPT ![c].exec = x]
        \/ entry' = [entry EXCEPT ![c] = B!Released(@)]
    BY <1>7 DEF B!SaveBegin, B!SaveWrite, B!SaveFault
  <2>5. \A d \in Calls : Kept(d)
    <3>1. CASE UNCHANGED entry
      BY <3>1
    <3>2. CASE \E x : entry' = [entry EXCEPT ![c].status = x]
      BY <1>1, <2>2, <3>2 DEF B!Entry
    <3>3. CASE \E x : entry' = [entry EXCEPT ![c].exec = x]
      BY <1>1, <2>2, <3>3 DEF B!Entry
    <3>4. CASE entry' = [entry EXCEPT ![c] = B!Released(@)]
      BY <1>1, <2>2, <3>4 DEF B!Entry, B!Released
    <3> QED BY <2>4, <3>1, <3>2, <3>3, <3>4
  <2> QED BY <1>3, <2>1, <2>3, <2>5
<1>8. CASE B!CancelBegin \/ B!CancelWrite \/ B!CancelFault \/ B!StartFault
  <2> DEFINE c == queue[1].call
  <2>1. /\ queue # <<>> /\ queue[1].kind \in {"start", "cancel"} /\ closed' = closed
        /\ UNCHANGED queue \/ queue' = Tail(queue)
    BY <1>8 DEF B!CancelBegin, B!CancelWrite, B!CancelFault, B!StartFault, B!Lands, B!Begins,
       B!AtHead
  <2>2. c \in Calls /\ (Starts' => Starts)
    BY <1>2, <2>1, NoNewStart
  <2>3. \/ UNCHANGED entry
        \/ entry' = [entry EXCEPT ![c].aborted = TRUE, ![c].status = "cancelling"]
        \/ entry' = [entry EXCEPT ![c] = B!NoEntry]
    BY <1>8 DEF B!CancelBegin, B!CancelWrite, B!CancelFault, B!StartFault
  <2>4. \A d \in Calls : Kept(d)
    <3>1. CASE UNCHANGED entry
      BY <3>1
    <3>2. CASE entry' = [entry EXCEPT ![c].aborted = TRUE, ![c].status = "cancelling"]
      BY <1>1, <2>2, <3>2 DEF B!Entry
    <3>3. CASE entry' = [entry EXCEPT ![c] = B!NoEntry]
      BY <1>1, <2>2, <3>3 DEF B!Entry, B!NoEntry
    <3> QED BY <2>3, <3>1, <3>2, <3>3
  <2> QED BY <1>3, <2>1, <2>2, <2>4
<1>9. CASE B!CloseBegin \/ B!CloseWrite \/ B!CloseReturn \/ B!CloseFault
  <2>1. /\ queue # <<>> /\ queue[1].kind = "close" /\ closed' = closed /\ closed
        /\ UNCHANGED queue \/ queue' = Tail(queue)
    BY <1>2, <1>9 DEF B!CloseBegin, B!CloseWrite, B!CloseReturn, B!CloseFault, B!Lands, B!Begins,
       B!AtHead
  <2>2. Starts' => Starts
    BY <2>1, NoNewStart
  <2>3. \A d \in Calls : entry'[d].exec = entry[d].exec
    <3>1. CASE B!CloseBegin \/ B!CloseFault
      BY <3>1 DEF B!CloseBegin, B!CloseFault
    <3>2. CASE B!CloseWrite
      <4> PICK c \in Calls : entry' = [entry EXCEPT ![c].status = "interrupted"]
        BY <3>2 DEF B!CloseWrite, B!Interrupts, B!Closing
      <4> QED BY <1>1 DEF B!Entry
    <3>3. CASE B!CloseReturn
      BY <1>1, <3>3 DEF B!CloseReturn, B!Entry
    <3> QED BY <1>9, <3>1, <3>2, <3>3
  <2> QED BY <1>3, <2>1, <2>2, <2>3
<1> QED BY <1>4, <1>5, <1>6, <1>7, <1>8, <1>9 DEF Tools, B!Turn, B!Fault

\* The schedules: what their steps leave of it to show.
LEMMA SchedulesApart ==
  ASSUME Apart, SInv, UNCHANGED <<toolVars, gate, removal>>, chat' = chat, late => late',
         closed => server' = "closed",
         Barred => tick'.pc \in {"idle", "queued"},
         Empty' => turn' = S!NoTurn,
         Starts => turn' # S!NoTurn
  PROVE  Apart'
<1>1. Empty' => Empty
  BY DEF Empty
<1>2. Barred' <=> Barred
  BY DEF Barred
<1>3. (Quiet' <=> Quiet) /\ (Held' <=> Held) /\ (Starts' <=> Starts) /\ closed' = closed
  BY DEF Quiet, Held, Starts, toolVars
<1> QED BY <1>1, <1>2, <1>3 DEF Apart

\* A run that goes on under the same request is there as it was.
LEMMA SameTurn ==
  ASSUME SInv, SInv', turn'.job = turn.job
  PROVE  turn = S!NoTurn <=> turn' = S!NoTurn
BY NoTurnIs DEF SInv, Turns

\* The schedules' steps keep the parts apart.
LEMMA SchedulesKeepApart == ASSUME Apart, SInv, SInv', Schedules PROVE Apart'
<1>1. /\ UNCHANGED <<toolVars, gate, server, removal>> /\ chat' = chat
      /\ late => late'
  BY DEF Schedules, S!Outside, S!Step, S!Fault, S!ServeLine, S!TickStep, S!Create, S!RouteCancel,
     S!Fire, S!Post, S!AskUnsleep, S!EndTurn, S!Pass, S!ServeCreate, S!ServeUnsleep, S!ServeList,
     S!ServeCancel, S!ServeTick, S!Scan, S!Look, S!Reserve, S!Recheck, S!Admit, S!Save,
     S!RouteAbort, S!CancelFault, S!ReserveFault, S!AdmitFault, S!SaveFault, S!outside
<1>2. TickType /\ turn \in TurnState
  BY DEF SInv, RunTypes, TurnType
<1>3. Barred => tick'.pc \in {"idle", "queued"}
  <2> SUFFICES ASSUME Barred PROVE tick'.pc \in {"idle", "queued"}
    OBVIOUS
  <2>1. tick.pc \in {"idle", "queued"} /\ ~S!CanDispatch
    BY DEF Apart, Barred, S!CanDispatch
  <2>2. CASE UNCHANGED tick
    BY <2>1, <2>2
  <2>3. CASE S!Fire
    BY <1>2, <2>3 DEF S!Fire, S!IdleTick
  <2>4. CASE S!ServeTick
    BY <2>1, <2>4 DEF S!ServeTick, S!IdleTick
  <2>5. S!Fire \/ S!ServeTick \/ UNCHANGED tick
    BY <2>1 DEF Schedules, S!Outside, S!Step, S!Fault, S!ServeLine, S!TickStep, S!Create,
       S!RouteCancel, S!Post, S!AskUnsleep, S!EndTurn, S!Pass, S!ServeCreate, S!ServeUnsleep,
       S!ServeList, S!ServeCancel, S!Scan, S!Look, S!Reserve, S!Recheck, S!Admit, S!Save,
       S!RouteAbort, S!CancelFault, S!ReserveFault, S!AdmitFault, S!SaveFault, S!outside
  <2> QED BY <2>2, <2>3, <2>4, <2>5
<1>4. /\ Empty' => turn' = S!NoTurn
      /\ Starts => turn' # S!NoTurn
  <2>0. Empty' => Empty
    BY <1>1 DEF Empty
  <2>1. CASE turn'.job = turn.job
    BY <2>0, <2>1, SameTurn DEF Apart
  <2>2. CASE S!EndTurn
    BY <2>2 DEF S!EndTurn, Schedules, Starts
  <2>3. CASE S!Post
    <3>1. gate.writes > 0 /\ chat = "here" /\ turn'.job = "human"
      BY <2>3 DEF S!Post, S!Human, S!RunOf
    <3>2. turn' # S!NoTurn
      BY <3>1, NoTurnIs DEF S!NoTurn, S!RunOf
    <3>3. ~gate.cleaning
      BY <3>1 DEF Apart
    <3>4. removal = "checked" => late'
      BY <2>3, <3>1, <3>2 DEF Schedules, Submitted, S!Post
    <3> QED BY <1>1, <3>1, <3>2, <3>3, <3>4 DEF Empty
  <2>4. CASE S!Admit /\ turn'.job # turn.job
    <3>1. tick.pc = "load" /\ chat = "here" /\ turn'.job = tick.job
      BY <2>4 DEF S!Admit, S!RunOf
    <3>2. turn' # S!NoTurn
      BY <3>1, NoTurnIs DEF SInv, Copied, Working
    <3>3. ~Barred
      BY <3>1 DEF Apart
    <3> QED BY <1>1, <3>1, <3>2, <3>3 DEF Barred, Empty
  <2>5. turn'.job = turn.job \/ S!EndTurn \/ S!Post \/ S!Admit
    BY <1>2 DEF TurnState, Schedules, S!Outside, S!Step, S!Fault, S!ServeLine, S!TickStep, S!Create,
       S!RouteCancel, S!Fire, S!AskUnsleep, S!Pass, S!ServeCreate, S!ServeUnsleep,
       S!ServeList, S!ServeCancel, S!ServeTick, S!Scan, S!Look, S!Reserve, S!Recheck, S!Save,
       S!RouteAbort, S!CancelFault, S!ReserveFault, S!AdmitFault, S!SaveFault
  <2> QED BY <2>1, <2>2, <2>3, <2>4, <2>5
<1> QED BY <1>1, <1>3, <1>4, SchedulesApart DEF Apart

\* The gate's steps look at all of the work before they begin.
LEMMA GateKeepsApart ==
  ASSUME Apart, SInv, IInv, GateStep
  PROVE  Apart'
<1>1. UNCHANGED <<toolVars, tick, turn, server>>
  BY DEF GateStep, BeginWrite, EndWrite, BeginCleanup, EndCleanup, CheckDelete, RemoveChat, GateMoves
<1>2. /\ Starts' <=> Starts
      /\ Quiet' <=> Quiet
      /\ Held' <=> Held
      /\ closed' = closed
  BY <1>1 DEF Starts, Quiet, Held, toolVars
<1>3. gate \in [writes : Nat, cleaning : BOOLEAN]
  BY DEF SInv, RunTypes, PlaceType
<1>4. CASE BeginWrite
  <2>1. /\ gate' = [gate EXCEPT !.writes = @ + 1] /\ ~gate.cleaning
        /\ UNCHANGED <<chat, removal, late>>
    BY <1>4 DEF BeginWrite, deletion
  <2>2. ~gate'.cleaning /\ gate'.writes > 0
    BY <1>3, <2>1
  <2> QED BY <1>1, <1>2, <2>1, <2>2 DEF Apart, Barred, Empty
<1>5. CASE EndWrite
  <2>1. /\ gate' = [gate EXCEPT !.writes = @ - 1] /\ gate.writes > Deleting
        /\ UNCHANGED <<chat, removal, late>>
    BY <1>5 DEF EndWrite, deletion
  <2>2. /\ gate'.cleaning = gate.cleaning /\ ~gate.cleaning
        /\ removal = "checked" => gate'.writes > 0
    BY <1>3, <2>1 DEF Apart, Deleting
  <2> QED BY <1>1, <1>2, <2>1, <2>2 DEF Apart, Barred, Empty
<1>6. CASE BeginCleanup
  <2>1. /\ server = "up" /\ gate.writes = 0 /\ turn = S!NoTurn /\ tick.pc = "idle"
        /\ \A c \in Calls : ~entry[c].active
        /\ gate' = [gate EXCEPT !.cleaning = TRUE] /\ UNCHANGED <<chat, removal, late>>
    BY <1>6 DEF BeginCleanup, MayClean, Searching, S!Pending, B!Busy, B!Active, deletion
  <2>2. Quiet /\ gate'.writes = 0 /\ removal # "checked"
    BY <1>3, <2>1 DEF Apart, Held, Quiet
  <2> QED BY <1>1, <1>2, <2>1, <2>2 DEF Apart
<1>7. CASE EndCleanup
  <2>1. /\ gate.cleaning /\ gate' = [gate EXCEPT !.cleaning = FALSE]
        /\ UNCHANGED <<removal, late>>
    BY <1>7 DEF EndCleanup, deletion
  <2>2. ~gate'.cleaning /\ removal # "checked"
    BY <1>3, <2>1 DEF Apart
  <2>3. turn = S!NoTurn /\ Quiet
    BY <2>1 DEF Apart, Empty
  <2> QED BY <1>1, <1>2, <2>1, <2>2, <2>3 DEF Apart, Barred
<1>8. CASE CheckDelete
  <2>1. /\ server = "up" /\ turn = S!NoTurn /\ tick.pc = "idle" /\ gate.writes > 0
        /\ UNCHANGED <<gate, chat, late>>
        /\ \A c \in Calls : ChatOf[c] = "chat" => ~entry[c].active
    BY <1>8 DEF CheckDelete, MayDelete, B!HasActive, B!ActiveIn, B!Active, S!Pending
  <2>2. Quiet /\ ~gate.cleaning
    BY <2>1, ToolsAssumption DEF Apart, Held, Quiet
  <2> QED BY <1>1, <1>2, <2>1, <2>2 DEF Apart
<1>9. CASE RemoveChat
  <2>1. /\ removal = "checked" /\ removal' = "idle" /\ gate' = gate
        /\ chat' = "gone" \/ (turn # S!NoTurn /\ chat' = chat)
        /\ late' = (late /\ chat' = "gone")
    BY <1>9 DEF RemoveChat
  <2>2. ~gate.cleaning
    BY <2>1 DEF Apart
  <2>3. Empty' => turn = S!NoTurn /\ Quiet
    <3> SUFFICES ASSUME Empty' PROVE turn = S!NoTurn /\ Quiet
      OBVIOUS
    <3>1. chat' = "gone"
      BY <2>1, <2>2 DEF Empty
    <3>2. ~late
      BY <2>1, <2>2, <3>1 DEF Empty
    <3> QED BY <2>1, <3>2 DEF Apart, Empty
  <2> QED BY <1>1, <1>2, <2>1, <2>2, <2>3 DEF Apart, Barred
<1> QED BY <1>4, <1>5, <1>6, <1>7, <1>8, <1>9 DEF GateStep

\* The process, ...
LEMMA ProcessKeepsApart ==
  ASSUME Apart, SInv, IInv, CloseSchedules \/ CloseTools \/ Exit \/ Crash \/ BootTools \/ BootSchedules
  PROVE  Apart'
<1>1. CASE CloseSchedules \/ BootSchedules
  <2>1. /\ UNCHANGED <<toolVars, gate, tick, turn, chat, removal, late>>
        /\ closed => server' = "closed"
    BY <1>1 DEF CloseSchedules, BootSchedules, S!Close, S!CloseReturn, S!Boot, Apart, deletion
  <2>2. Empty' <=> Empty
    BY <2>1 DEF Empty
  <2> QED BY <2>1, <2>2, SchedulesApart DEF Apart
<1>2. CASE CloseTools
  <2>1. /\ UNCHANGED <<gate, tick, turn, chat, server, removal, late>> /\ server = "closed"
        /\ \E op : op.kind # "start" /\ queue' = Append(queue, op)
        /\ entry' = [c \in Calls |-> [entry[c] EXCEPT !.closing = @ \/ entry[c].active,
                                                      !.aborted = @ \/ entry[c].active]]
        /\ closed'
    BY <1>2 DEF CloseTools, B!Close, B!Enqueue, runVars
  <2>2. Starts' => Starts
    BY <2>1, NoNewStart
  <2>3. \A c \in Calls : entry'[c].exec = entry[c].exec
    BY <2>1 DEF IInv, EntryType, B!Entry
  <2>4. (Quiet => Quiet') /\ Held'
    BY <2>1, <2>2, <2>3 DEF Quiet, Held
  <2> QED BY <2>1, <2>2, <2>4 DEF Apart, Barred, Empty
<1>3. CASE Exit \/ Crash
  <2>1. /\ B!Forget
        /\ \/ turn' = S!NoTurn /\ Opened
           \/ UNCHANGED <<gate, tick, turn, chat, server, removal, late>>
    BY <1>3 DEF Exit, Crash, B!Exit, B!Crash, S!Halt, S!Crash, S!Forget, runVars
  <2>2. ~Starts' /\ Quiet' /\ Held' /\ ~closed'
    <3>1. Len(queue') = 0 /\ \A c \in Calls : entry'[c].exec = "none" /\ ~closed'
      BY <2>1 DEF B!Forget, B!NoEntry
    <3>2. ~closed'
      BY <2>1 DEF B!Forget
    <3> QED BY <3>1, <3>2 DEF Starts, Quiet, Held
  <2>3. CASE turn' = S!NoTurn /\ Opened
    BY <2>2, <2>3 DEF Apart, Opened, Barred, Empty
  <2>4. CASE UNCHANGED <<gate, tick, turn, chat, server, removal, late>>
    BY <2>2, <2>4 DEF Apart, Barred, Empty
  <2> QED BY <2>1, <2>3, <2>4
<1>4. CASE BootTools
  BY <1>4 DEF BootTools, B!Restart, B!Boot, B!Recover, B!Recovered, B!RecoverFault, runVars, Apart,
     Barred, Empty, Quiet, Held, Starts
<1> QED BY <1>1, <1>2, <1>3, <1>4

\* ... and the tools.
LEMMA ToolsKeepApart ==
  ASSUME Apart, SInv, IInv, Tools \/ \E c \in Calls : StartTool(c)
  PROVE  Apart'
<1>1. CASE Tools
  BY <1>1, ToolsStep DEF Apart, Barred, Empty, Tools, runVars
<1>2. CASE \E c \in Calls : StartTool(c)
  <2>1. /\ turn # S!NoTurn
        /\ UNCHANGED <<gate, tick, turn, chat, server, entry, closed, removal, late>>
    BY <1>2 DEF StartTool, B!Start, runVars
  <2> QED BY <2>1 DEF Apart, Barred, Empty, Held, Starts
<1> QED BY <1>1, <1>2

\* Every step does.
LEMMA ApartInductive == ASSUME Apart, SInv, SInv', IInv, [Next]_vars PROVE Apart'
<1>1. CASE UNCHANGED vars
  BY <1>1 DEF Apart, Barred, Empty, Quiet, Held, Starts, vars, toolVars, runVars
<1> QED BY <1>1, SchedulesKeepApart, GateKeepsApart, ProcessKeepsApart, ToolsKeepApart
        DEF Next, GateStep

\* WorkIsApart: while data is cleaned up no run, no tick that could admit one, no request
\* that writes and no background tool is there; a chat that is gone has no run and no tool,
\* unless a person's run was admitted between the look of its deletion and the removal.
THEOREM WorkStaysApart == Spec => []WorkIsApart
<1>1. Init => Apart
  <2> SUFFICES ASSUME Init PROVE Apart
    OBVIOUS
  <2>1. ~gate.cleaning /\ chat = "here" /\ removal = "idle" /\ ~closed /\ Len(queue) = 0
        /\ \A c \in Calls : entry[c].exec = "none"
    BY DEF Init, S!Init, B!Init, B!NoEntry
  <2> QED BY <2>1 DEF Apart, Barred, Empty, Quiet, Held, Starts
<1>2. Apart /\ SInv /\ SInv' /\ IInv /\ [Next]_vars => Apart'
  BY ApartInductive
<1>3. Apart => WorkIsApart
  BY DEF Apart, Barred, Empty, Quiet, WorkIsApart
<1>4. Spec => []IInv
  BY ToolsKeepTheirRules, Invariant, PTL
<1> QED BY <1>1, <1>2, <1>3, <1>4, SchedulesInvariant, PTL DEF Spec
=============================================================================
