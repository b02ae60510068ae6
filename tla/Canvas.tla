------------------------------- MODULE Canvas -------------------------------
(***************************************************************************)
(* One chat's canvas: the store that agents' tools, browser tabs, a fork of *)
(* the chat and the settings write under one lock (agent/src/core/canvas),  *)
(* the feed that publishes it (agent/src/web/canvas) and the tabs that edit *)
(* and merge it (agent/web-ui/src/canvas).                                  *)
(*                                                                         *)
(* A scene is the edit each of its elements comes from.  The store counts   *)
(* revisions, so a revision stands for the scene that was stored as it.     *)
(***************************************************************************)
EXTENDS Integers, Sequences

CONSTANTS
  Turns,        \* agents' turns that draw, in the server or in a CLI
  Outside,      \* those in a CLI, whose process may be killed
  Tabs,         \* browser tabs with an editor
  Elements,
  Arrows,       \* elements of which the store keeps more than the browser has sent
  MaxConflicts, \* mutations a turn may lose to others' edits
  Budgets       \* bounds on what happens; one of them holds in a behaviour

ASSUME WritersAssumption ==
  /\ Turns \cap Tabs = {}
  /\ {"settings", "fork", "free", "dead"} \cap (Turns \cup Tabs) = {}
ASSUME DrawingAssumption == Outside \subseteq Turns /\ Arrows \subseteq Elements /\ MaxConflicts \in Nat
ASSUME BudgetsAssumption ==
  Budgets \subseteq [tabs : SUBSET Tabs, calls : Nat, edits : Nat, redraws : Nat, reloads : Nat,
                     drops : Nat, faults : Nat, toggles : Nat, forks : Nat, clis : Nat, kills : Nat,
                     turns : Nat, jobs : Nat, closes : Nat]

VARIABLES
  enabled, \* settings.json
  scenes,  \* the scenes stored so far, by revision; none of them is none at all
  lock,    \* .write-lock: free, its holder, or left by a process that was killed
  write,   \* each writer's request to the store
  turn,    \* each turn: the revision it has seen, its lost mutations
  tab,     \* each tab's CanvasSync
  feed,    \* CanvasFeed
  made,    \* history: the edits made so far, with their authors and what they saw
  budget   \* what is left of the bounds

canvas == <<enabled, scenes, lock, write, turn, tab, feed, made>>
canvasVars == <<canvas, budget>>

Writers == Turns \cup Tabs \cup {"settings", "fork"}

None == -1         \* no revision
Unavailable == -2  \* what the feed publishes when it finds no scene: empty, or an error

Stored == Len(scenes) - 1
Exists == scenes # <<>>
Scene(r) == scenes[r + 1]

\* An element: the edit it comes from, and whether it bears what the store adds.
Drawn(n) == [edit |-> n, marked |-> FALSE]
Marked(s) == [x \in Elements |-> [s[x] EXCEPT !.marked = @ \/ x \in Arrows]]
Blank == [x \in Elements |-> Drawn(0)]

Idle == [pc |-> "none", base |-> None, scene |-> Blank]
NewTab == [base |-> None, shown |-> Blank, dirty |-> FALSE, latest |-> None, blocked |-> FALSE,
           reload |-> "no", answer |-> None, open |-> FALSE, inbox |-> <<>>,
           mine |-> [x \in Elements |-> 0]]
NewFeed == [live |-> FALSE, wire |-> None, busy |-> FALSE, read |-> None]

CanvasInit ==
  /\ enabled \in BOOLEAN /\ scenes = <<>>
  /\ lock = "free" /\ write = [w \in Writers |-> Idle]
  /\ turn = [l \in Turns |-> [pc |-> "out", seen |-> None, conflicts |-> 0]]
  /\ tab = [t \in Tabs |-> NewTab] /\ feed = NewFeed
  /\ made = <<>>
  /\ budget \in Budgets

Record(w, s) == made' = Append(made, [by |-> w, seen |-> s])
Spend(what) == budget[what] > 0 /\ budget' = [budget EXCEPT ![what] = @ - 1]

-----------------------------------------------------------------------------
(* The store: every write takes the lock, reads, checks and renames.        *)

Ask(w, base, s) == write' = [write EXCEPT ![w] = [pc |-> "asked", base |-> base, scene |-> s]]

\* A mutant of Matches: whatever revision the request has, it is applied.
MatchesAny(w) == write[w].base = None \/ Exists

\* checkRevision(); ensure() asks for none, and is done when there is a scene.
Matches(w) == write[w].base = None \/ write[w].base = Stored

\* What a request finds under the lock.
Verdict(w) ==
  CASE w = "settings" -> "writing"
    [] w = "fork" -> IF Exists THEN "saved" ELSE "writing"
    [] w \in Turns \cup Tabs /\ ~enabled -> "failed"
    [] w \in Turns /\ enabled /\ write[w].base = None -> IF Exists THEN "saved" ELSE "writing"
    [] OTHER -> IF Exists /\ Matches(w) THEN "writing" ELSE "conflict"

\* A mutant of MayEnter: the settings are written without the lock.
MayEnterSettings(w) == lock = "free" \/ w = "settings"

\* open(..., 'wx')
MayEnter(w) == lock = "free"

Enter(w) ==
  /\ write[w].pc = "asked" /\ MayEnter(w)
  /\ write' = [write EXCEPT ![w].pc = Verdict(w)]
  /\ lock' = IF Verdict(w) = "writing" THEN w ELSE lock
  /\ UNCHANGED <<enabled, scenes, turn, tab, feed, made, budget>>

\* Fifty tries: the canvas is busy.
GiveUp(w) ==
  /\ write[w].pc = "asked" /\ lock # "free"
  /\ write' = [write EXCEPT ![w].pc = "failed"]
  /\ UNCHANGED <<enabled, scenes, lock, turn, tab, feed, made, budget>>

\* commit(): the next revision is renamed into place.
Commit(w) ==
  /\ write[w].pc = "writing"
  /\ write' = [write EXCEPT ![w].pc = "written"]
  /\ IF w = "settings" THEN enabled' = ~enabled /\ UNCHANGED scenes
     ELSE scenes' = Append(scenes, Marked(write[w].scene)) /\ UNCHANGED enabled
  /\ UNCHANGED <<lock, turn, tab, feed, made, budget>>

\* The disk fails before the rename: nothing has changed.
CommitFault(w) ==
  /\ write[w].pc = "writing" /\ Spend("faults")
  /\ write' = [write EXCEPT ![w].pc = "failed"] /\ lock' = "free"
  /\ UNCHANGED <<enabled, scenes, turn, tab, feed, made>>

Leave(w) ==
  /\ write[w].pc = "written"
  /\ write' = [write EXCEPT ![w] = [@ EXCEPT !.pc = "saved", !.base = Stored]]
  /\ lock' = "free"
  /\ UNCHANGED <<enabled, scenes, turn, tab, feed, made, budget>>

Answered(w) == write[w].pc \in {"saved", "conflict", "failed"}
Forget(w) == write' = [write EXCEPT ![w] = Idle]

\* A person switches the canvas on or off.
Toggle ==
  /\ write["settings"].pc = "none" /\ Spend("toggles")
  /\ Ask("settings", None, Blank)
  /\ UNCHANGED <<enabled, scenes, lock, turn, tab, feed, made>>

\* forkChatCanvas(): this chat is a branch of one with a drawing; its first save copies it.
Fork ==
  /\ write["fork"].pc = "none" /\ Spend("forks")
  /\ Record("fork", Blank)
  /\ Ask("fork", None, [x \in Elements |-> Drawn(Len(made) + 1)])
  /\ UNCHANGED <<enabled, scenes, lock, turn, tab, feed>>

Served(w) ==
  /\ w \in {"settings", "fork"} /\ Answered(w)
  /\ Forget(w)
  /\ UNCHANGED <<enabled, scenes, lock, turn, tab, feed, made, budget>>

\* A CLI is killed: what it has locked stays locked.
Kill(l) ==
  /\ l \in Outside /\ turn[l].pc # "out" /\ Spend("kills")
  /\ turn' = [turn EXCEPT ![l] = [pc |-> "out", seen |-> None, conflicts |-> 0]]
  /\ Forget(l)
  /\ lock' = IF lock = l THEN "dead" ELSE lock
  /\ UNCHANGED <<enabled, scenes, tab, feed, made>>

\* A person removes the lock, having seen that nobody writes.
RemoveLock ==
  /\ lock = "dead"
  /\ lock' = "free"
  /\ UNCHANGED <<enabled, scenes, write, turn, tab, feed, made, budget>>

-----------------------------------------------------------------------------
(* Turns: the tools canvas_get, and canvas_add to canvas_layout.            *)

Calls(l, pc) == turn' = [turn EXCEPT ![l].pc = pc]

\* withCanvasRecovery(): each turn has conflicts of its own.
Begin(l) ==
  /\ turn[l].pc = "out"
  /\ IF l \in Outside THEN Spend("clis") ELSE UNCHANGED budget
  /\ turn' = [turn EXCEPT ![l] = [pc |-> "ready", seen |-> None, conflicts |-> 0]]
  /\ UNCHANGED <<enabled, scenes, lock, write, tab, feed, made>>

End(l) ==
  /\ turn[l].pc = "ready"
  /\ turn' = [turn EXCEPT ![l] = [pc |-> "out", seen |-> None, conflicts |-> 0]]
  /\ UNCHANGED <<enabled, scenes, lock, write, tab, feed, made, budget>>

\* canvas_get: ensure() creates the scene if there is none, ...
Get(l) ==
  /\ turn[l].pc = "ready" /\ enabled
  /\ Spend("calls")
  /\ Ask(l, None, Blank) /\ Calls(l, "getting")
  /\ UNCHANGED <<enabled, scenes, lock, tab, feed, made>>

\* ... then current() reads it.
GetRead(l) ==
  /\ turn[l].pc = "getting" /\ Answered(l)
  /\ turn' = [turn EXCEPT ![l].pc = "ready",
                          ![l].seen = IF write[l].pc = "saved" /\ enabled THEN Stored ELSE @]
  /\ Forget(l)
  /\ UNCHANGED <<enabled, scenes, lock, tab, feed, made, budget>>

\* mutationProblem(): a revision, and not too many conflicts.
MayChange(l) == turn[l].seen # None /\ turn[l].conflicts < MaxConflicts

\* One element is added, changed or moved, or several are deleted or laid out.
Change(l, xs) ==
  /\ turn[l].pc = "ready" /\ enabled /\ MayChange(l)
  /\ Spend("calls")
  /\ LET seen == Scene(turn[l].seen) IN
     /\ Record(l, seen)
     /\ Ask(l, turn[l].seen, [x \in Elements |-> IF x \in xs THEN Drawn(Len(made) + 1) ELSE seen[x]])
  /\ Calls(l, "changing")
  /\ UNCHANGED <<enabled, scenes, lock, tab, feed>>

\* The tool's result: the new revision, or a conflict that counts.
Changed(l) ==
  /\ turn[l].pc = "changing" /\ Answered(l)
  /\ turn' = [turn EXCEPT ![l] =
       [pc |-> "ready",
        seen |-> IF write[l].pc = "saved" THEN write[l].base ELSE @.seen,
        conflicts |-> IF write[l].pc = "conflict" THEN @.conflicts + 1 ELSE @.conflicts]]
  /\ Forget(l)
  /\ UNCHANGED <<enabled, scenes, lock, tab, feed, made, budget>>

-----------------------------------------------------------------------------
(* The feed.                                                                *)

\* What a read of the scene returns now.
Readable == IF enabled /\ Exists THEN Stored ELSE Unavailable

\* refresh(): after a watched change, every 15 seconds, and for the first client.
\* To read what is published already changes nothing.
FeedRead ==
  /\ feed.live /\ ~feed.busy /\ feed.wire # Readable
  /\ feed' = [feed EXCEPT !.busy = TRUE, !.read = Readable]
  /\ UNCHANGED <<enabled, scenes, lock, write, turn, tab, made, budget>>

\* publish(): to every client, when it is not what was published before.
FeedPublish ==
  /\ feed.live /\ feed.busy
  /\ feed' = [feed EXCEPT !.busy = FALSE, !.read = None, !.wire = feed.read]
  /\ tab' = [t \in Tabs |->
               IF tab[t].open /\ feed.read # feed.wire
               THEN [tab[t] EXCEPT !.inbox = Append(@, feed.read)] ELSE tab[t]]
  /\ UNCHANGED <<enabled, scenes, lock, write, turn, made, budget>>

\* streamCanvas(), add(): a client is sent what was published last.
Connect(t) ==
  /\ t \in budget.tabs /\ ~tab[t].open /\ enabled
  /\ tab' = [tab EXCEPT ![t].open = TRUE,
                        ![t].inbox = IF feed.wire = None THEN <<>> ELSE <<feed.wire>>]
  /\ feed' = [feed EXCEPT !.live = TRUE]
  /\ UNCHANGED <<enabled, scenes, lock, write, turn, made, budget>>

\* A canvas that is off refuses the stream, and a browser does not ask again: the tab
\* is not one of those that connect any more.
Refused(t) ==
  /\ t \in budget.tabs /\ ~tab[t].open /\ ~enabled
  /\ budget' = [budget EXCEPT !.tabs = @ \ {t}]
  /\ UNCHANGED canvas

\* The stream breaks; the feed ends with its last client.
Disconnect(t) ==
  /\ tab[t].open /\ Spend("drops")
  /\ tab' = [tab EXCEPT ![t].open = FALSE, ![t].inbox = <<>>]
  /\ feed' = IF \E u \in Tabs \ {t} : tab[u].open THEN feed ELSE NewFeed
  /\ UNCHANGED <<enabled, scenes, lock, write, turn, made>>

-----------------------------------------------------------------------------
(* A tab: CanvasSync.                                                       *)

Sending(t) == write[t].pc # "none"

\* mergeRecords(): both sides have changed an element, differently.
Overlap(base, local, remote) ==
  \E x \in Elements : local[x] # base[x] /\ remote[x] # base[x] /\ local[x] # remote[x]

Merge(base, local, remote) ==
  [x \in Elements |-> IF local[x] = base[x] THEN remote[x] ELSE local[x]]

\* receive(): revision r arrives in a tab that is c and is sending or not.
Receive(c, sending, r) ==
  IF sending \/ c.blocked THEN [c EXCEPT !.latest = r]
  ELSE IF c.base = r THEN c
  ELSE IF ~c.dirty THEN [c EXCEPT !.base = r, !.shown = Scene(r)]
  ELSE IF Overlap(Scene(c.base), c.shown, Scene(r)) THEN [c EXCEPT !.latest = r, !.blocked = TRUE]
  ELSE [c EXCEPT !.base = r, !.shown = Merge(Scene(c.base), c.shown, Scene(r))]

\* An event of the stream.
Event(t) ==
  /\ tab[t].inbox # <<>>
  /\ LET c == [tab[t] EXCEPT !.inbox = Tail(@)]
         r == Head(tab[t].inbox)
     IN tab' = [tab EXCEPT ![t] = IF r = Unavailable THEN c ELSE Receive(c, Sending(t), r)]
  /\ UNCHANGED <<enabled, scenes, lock, write, turn, feed, made, budget>>

\* stage(): the user edits what the tab shows.
Stage(t, x) ==
  /\ tab[t].base # None /\ Spend("edits")
  /\ Record(t, Scene(tab[t].base))
  /\ tab' = [tab EXCEPT ![t].shown[x] = Drawn(Len(made) + 1), ![t].dirty = TRUE,
                        ![t].mine[x] = Len(made) + 1]
  /\ UNCHANGED <<enabled, scenes, lock, write, turn, feed>>

\* The editor reports what it shows though nobody has edited: what the store added to
\* the arrows it was sent makes that a change.
Redraw(t) ==
  /\ tab[t].base # None /\ ~tab[t].dirty /\ tab[t].shown # Scene(tab[t].base)
  /\ Spend("redraws")
  /\ tab' = [tab EXCEPT ![t].dirty = TRUE]
  /\ UNCHANGED <<enabled, scenes, lock, write, turn, feed, made>>

\* save(), 300 ms after the last change.
Save(t) ==
  /\ tab[t].dirty /\ tab[t].base # None /\ ~Sending(t) /\ ~tab[t].blocked
  /\ Ask(t, tab[t].base, tab[t].shown)
  /\ UNCHANGED <<enabled, scenes, lock, turn, tab, feed, made, budget>>

\* A mutant of Kept: a save that succeeds leaves nothing unsaved.
KeptNever(t) == FALSE

\* The user has edited since the save was sent.
Kept(t) == tab[t].shown # write[t].scene

\* A mutant of Pending: what arrived during the save is dropped.
PendingNever(c) == FALSE

\* Something newer arrived during the save.
Pending(c) == c.latest # None /\ (c.base = None \/ c.latest > c.base)

\* The end of save(): c is the tab after its answer.
Finished(c) ==
  LET d == [c EXCEPT !.latest = None]
  IN IF Pending(c) THEN Receive(d, FALSE, c.latest) ELSE d

SaveDone(t) ==
  /\ write[t].pc = "saved"
  /\ tab' = [tab EXCEPT ![t] = Finished([@ EXCEPT !.dirty = Kept(t), !.base = write[t].base])]
  /\ Forget(t)
  /\ UNCHANGED <<enabled, scenes, lock, turn, feed, made, budget>>

\* The save failed, or its answer is lost: the tab keeps the edits and stops saving.
SaveFailed(t) ==
  /\ \/ write[t].pc \in {"conflict", "failed"} /\ UNCHANGED budget
     \/ write[t].pc = "saved" /\ Spend("drops")
  /\ tab' = [tab EXCEPT ![t] = Finished([@ EXCEPT !.blocked = TRUE])]
  /\ Forget(t)
  /\ UNCHANGED <<enabled, scenes, lock, turn, feed, made>>

\* "Load saved canvas": reload() asks, ...
Reload(t) ==
  /\ tab[t].blocked /\ tab[t].reload \in {"no", "done"} /\ Spend("reloads")
  /\ tab' = [tab EXCEPT ![t].reload = "asked"]
  /\ UNCHANGED <<enabled, scenes, lock, write, turn, feed, made>>

\* ... is answered, ...
ReloadRead(t) ==
  /\ tab[t].reload = "asked"
  /\ tab' = [tab EXCEPT ![t].reload = IF enabled /\ Exists THEN "answered" ELSE "done",
                        ![t].answer = IF enabled /\ Exists THEN Stored ELSE None]
  /\ UNCHANGED <<enabled, scenes, lock, write, turn, feed, made, budget>>

\* ... gives up the tab's edits, ...
ReloadClear(t) ==
  /\ tab[t].reload = "answered"
  /\ tab' = [tab EXCEPT ![t] = [@ EXCEPT !.reload = "cleared", !.dirty = FALSE, !.base = None,
                                        !.blocked = FALSE, !.mine = [x \in Elements |-> 0]]]
  /\ UNCHANGED <<enabled, scenes, lock, write, turn, feed, made, budget>>

\* ... and shows the scene it has read.
ReloadShow(t) ==
  /\ tab[t].reload = "cleared"
  /\ tab' = [tab EXCEPT ![t] =
               Receive([@ EXCEPT !.reload = "done", !.answer = None], Sending(t), @.answer)]
  /\ UNCHANGED <<enabled, scenes, lock, write, turn, feed, made, budget>>

-----------------------------------------------------------------------------
Storing(w) == Enter(w) \/ Commit(w) \/ Leave(w)
Drawing(l) == Get(l) \/ GetRead(l) \/ Changed(l) \/ \E xs \in SUBSET Elements \ {{}} : Change(l, xs)
Editing(t) ==
  \/ Connect(t) \/ Refused(t) \/ Disconnect(t) \/ Event(t)
  \/ \E x \in Elements : Stage(t, x)
  \/ Redraw(t) \/ Save(t) \/ SaveDone(t) \/ SaveFailed(t)
  \/ Reload(t) \/ ReloadRead(t) \/ ReloadClear(t) \/ ReloadShow(t)
Feeding == FeedRead \/ FeedPublish

CanvasNext ==
  \/ \E w \in Writers : Storing(w) \/ GiveUp(w) \/ CommitFault(w) \/ Served(w)
  \/ Toggle \/ Fork \/ RemoveLock
  \/ \E l \in Turns : Begin(l) \/ End(l) \/ Drawing(l) \/ Kill(l)
  \/ \E t \in Tabs : Editing(t)
  \/ Feeding

\* What happens elsewhere may spend of the bounds.
CanvasSpec == CanvasInit /\ [][CanvasNext]_canvas

-----------------------------------------------------------------------------
(* Properties.                                                              *)

\* The types, with s revisions and k edits.
Picture(k) == [Elements -> [edit : 0..k, marked : BOOLEAN]]
Request(s, k) ==
  [pc : {"none", "asked", "writing", "written", "saved", "conflict", "failed"},
   base : -1..s - 1, scene : Picture(k)]
TurnState(s) ==
  [pc : {"out", "ready", "getting", "changing"}, seen : -1..s - 1, conflicts : 0..MaxConflicts]
Message(s) == {Unavailable} \cup 0..s - 1
TabState(s, k) ==
  [base : -1..s - 1, shown : Picture(k), dirty : BOOLEAN, latest : -1..s - 1, blocked : BOOLEAN,
   reload : {"no", "asked", "answered", "cleared", "done"}, answer : -1..s - 1, open : BOOLEAN,
   inbox : Seq(Message(s)), mine : [Elements -> 0..k]]
FeedState(s) ==
  [live : BOOLEAN, wire : Message(s) \cup {None}, busy : BOOLEAN, read : Message(s) \cup {None}]

Edits(k) == [by : Writers, seen : Picture(k)]

CanvasTypeOK ==
  /\ enabled \in BOOLEAN /\ lock \in Writers \cup {"free", "dead"}
  /\ scenes \in Seq(Picture(Len(made))) /\ made \in Seq(Edits(Len(made)))
  /\ write \in [Writers -> Request(Len(scenes), Len(made))]
  /\ turn \in [Turns -> TurnState(Len(scenes))]
  /\ tab \in [Tabs -> TabState(Len(scenes), Len(made))]
  /\ feed \in FeedState(Len(scenes))

\* Nobody's edit is lost to one who has not seen it: an edit that is stored replaces
\* what its author saw of that element, or an edit of its own, whatever tools, tabs, a
\* fork, merges, lost answers and overtaken events come between.
NoLostEdit ==
  \A r \in 1..Stored, x \in Elements :
    LET n == Scene(r)[x].edit
        m == Scene(r - 1)[x].edit
    IN n # m => /\ n > m
                /\ made[n].seen[x].edit = m \/ (m # 0 /\ made[m].by = made[n].by)

\* A tab's edits are kept: the last edit of an element since the tab was loaded is
\* on its screen or has been stored (docs/canvas.md: "failed writes retain your local
\* edits").
EditsAreKept ==
  \A t \in Tabs, x \in Elements :
    LET n == tab[t].mine[x] IN
    n # 0 => tab[t].shown[x].edit = n \/ \E r \in 0..Stored : Scene(r)[x].edit = n

\* A canvas that is off is not drawn on: tools that are running find it off before they
\* write (docs/canvas.md).  Only the copy of a branch is made.
DisabledIsKept == [][scenes' # scenes => enabled \/ write["fork"].pc = "writing"]_canvas

\* A tab that is not blocked, whose stream was not refused, and that has never given up
\* its edits, ends up showing what is stored, with its edits in it.
UpToDate(t) == tab[t].base = Stored /\ ~tab[t].dirty
Converges ==
  \A t \in Tabs :
    <>[](/\ t \in budget.tabs /\ enabled /\ Exists /\ lock = "free"
         /\ ~tab[t].blocked /\ tab[t].reload = "no"
         => UpToDate(t))
=============================================================================
