---------------------------- MODULE ChatContext ----------------------------
(***************************************************************************)
(* What a turn shows the model of its chat (agent/src/core): the history   *)
(* fitted to its budget (history.ts, history-checkpoints.ts), large tool   *)
(* results moved to files (context/), and every provider request fitted    *)
(* again, and retried smaller when the provider rejects it                  *)
(* (request-budget/).  Chats share the files and the checkpoints.          *)
(*                                                                         *)
(* A message is its identity, role and size.  A file is what can be read   *)
(* from it, following the files it names.                                  *)
(***************************************************************************)
EXTENDS Naturals, Sequences

CONSTANTS
  Chats,
  HistoryBudget, \* historyBudget(): the fitted history
  Recent,        \* what of it recent exchanges may take
  Ceiling,       \* what a provider request may take
  System,        \* instructions and tool schemas
  Slack,         \* what a request keeps free beside its recent messages
  Reference,     \* a marker without a summary
  Summaries,     \* sizes of a summary
  Sizes,         \* of a message or a tool's result
  Large,         \* a tool result above SPILL_CHARS; its preview has size 1
  Limits,        \* bounds, see below
  Windows        \* failures that are explored

\* "archive": writing the older messages to a history file may fail.
ASSUME ContextSizes ==
  /\ {HistoryBudget, Recent, Ceiling, System, Slack, Reference} \subseteq Nat
  /\ Summaries \subseteq Nat \ {0}
  /\ Sizes \subseteq Nat \ {0} \* estimateMessage() counts 8 for one without text
  /\ Large \in Nat \ {0, 1}
ASSUME ContextWindows == Windows \subseteq {"archive"}

\* messages: of all chats together; begun: the chats that may begin with a message, the
\* others can be branches.
Bounds == [messages : Nat, begun : SUBSET Chats, edits : Nat, branches : Nat,
           stops : Nat, faults : Nat]
ASSUME ContextLimits == Limits \subseteq Bounds

VARIABLES
  chat,   \* the stored messages of each chat
  turn,   \* the turn that each chat is in
  folded, \* conversation checkpoints: a prefix and the marker that replaces it
  cut,    \* request checkpoints: the same, and the user message that is kept
  fresh,  \* messages so far
  limit   \* bounds that are left

vars == <<chat, turn, folded, cut, fresh, limit>>

-----------------------------------------------------------------------------
(* Messages                                                                *)

\* stands: the messages a marker replaces; text: those readable from the files it names.
Message(role, id, size) == [role |-> role, id |-> id, size |-> size, stands |-> {}, text |-> {}]
Marker(size, stands, text) ==
  [role |-> "user", id |-> 0, size |-> size, stands |-> stands, text |-> text]

Items == [role : {"user", "assistant", "tool"}, id : Nat, size : Nat,
          stands : SUBSET Nat, text : SUBSET Nat]

IdsAt(items, places) == {items[i].id : i \in places} \ {0}
Ids(items) == IdsAt(items, DOMAIN items)
Stands(items) == Ids(items) \cup UNION {items[i].stands : i \in DOMAIN items}
\* A preview shows its file, not the message.
Readable(items) ==
  IdsAt(items, {i \in DOMAIN items : items[i].text = {}})
    \cup UNION {items[i].text : i \in DOMAIN items}
\* The history files named in a text; previews name theirs in another form.
FilesIn(items) == UNION {items[i].text : i \in {j \in DOMAIN items : items[j].id = 0}}

Total[items \in Seq(Items)] == IF items = <<>> THEN 0 ELSE Head(items).size + Total[Tail(items)]
Minus(a, b) == IF b > a THEN 0 ELSE a - b
UpTo(items, n) == SubSeq(items, 1, n)
From(items, n) == SubSeq(items, n, Len(items))
Roles(items, role) == {i \in DOMAIN items : items[i].role = role}
Last0(indices) == IF indices = {} THEN 0 ELSE CHOOSE i \in indices : \A j \in indices : j <= i

\* spillText(): a large tool result becomes a preview that names its file.
Presented(item) ==
  IF item.role = "tool" /\ item.size >= Large /\ item.text = {}
  THEN [item EXCEPT !.size = 1, !.text = {item.id}] ELSE item
Externalized(items) == [i \in DOMAIN items |-> Presented(items[i])]

-----------------------------------------------------------------------------
(* A chat and its turns                                                    *)

Idle == [pc |-> "idle", base |-> <<>>, input |-> <<>>, count |-> 0, request |-> <<>>,
         used |-> {}, attempt |-> 0, target |-> 0, rejected |-> 0]

Init ==
  /\ chat = [c \in Chats |-> <<>>]
  /\ turn = [c \in Chats |-> Idle]
  /\ folded = {} /\ cut = {}
  /\ fresh = 0 /\ limit \in Limits

Spend(what) == limit[what] > 0 /\ limit' = [limit EXCEPT ![what] = @ - 1]

Ask(c) ==
  /\ turn[c].pc = "idle" /\ fresh < limit.messages
  /\ c \in limit.begun \/ chat[c] # <<>>
  /\ fresh' = fresh + 1
  /\ \E size \in Sizes :
       turn' = [turn EXCEPT ![c] = [Idle EXCEPT !.pc = "history",
                  !.base = Append(chat[c], Message("user", fresh + 1, size))]]
  /\ UNCHANGED <<chat, folded, cut, limit>>

\* A user message is edited or answered again: it and what follows are taken back.
Edit(c) ==
  /\ turn[c].pc = "idle"
  /\ Spend("edits")
  /\ \E i \in Roles(chat[c], "user") : chat' = [chat EXCEPT ![c] = UpTo(@, i - 1)]
  /\ UNCHANGED <<turn, folded, cut, fresh>>

\* A branch copies a chat up to the end of a turn, or of a question without an answer.
Branch(c, d) ==
  /\ c # d /\ turn[d].pc = "idle" /\ chat[d] = <<>>
  /\ Spend("branches")
  /\ \E i \in DOMAIN chat[c] :
       (i + 1 \in DOMAIN chat[c] => chat[c][i + 1].role = "user")
         /\ chat' = [chat EXCEPT ![d] = UpTo(chat[c], i)]
  /\ UNCHANGED <<turn, folded, cut, fresh>>

\* A turn ends; what it had finished stays.
End(c, base) ==
  /\ chat' = [chat EXCEPT ![c] = base]
  /\ turn' = [turn EXCEPT ![c] = Idle]

\* A stop, a crash, or an error that ends the turn.
Stop(c) ==
  /\ turn[c].pc # "idle"
  /\ Spend("stops")
  /\ End(c, turn[c].base)
  /\ UNCHANGED <<folded, cut, fresh>>

-----------------------------------------------------------------------------
(* The history                                                             *)

\* recentHistoryStart(): whole exchanges, the latest always.
RecentStart(items) ==
  LET starts == {1} \cup Roles(items, "user")
  IN CHOOSE i \in starts :
       /\ Total[From(items, i)] <= Recent \/ \A j \in starts : j <= i
       /\ \A j \in starts : j < i => Total[From(items, j)] > Recent

\* A mutant of Matches: the records are found by the number of messages they replace.
MatchesLength(items, prefix) == Len(prefix) <= Len(items)

Matches(items, prefix) == Len(prefix) <= Len(items) /\ UpTo(items, Len(prefix)) = prefix

\* load(): the longest prefix that has a checkpoint.
Longest(records, items) ==
  LET found == {r \in records : Matches(items, r.prefix)}
  IN {r \in found : \A s \in found : Len(s.prefix) <= Len(r.prefix)}

\* save(), which may fail.
Saved(records, record, ok) ==
  IF ok THEN {r \in records : r.prefix # record.prefix} \cup {record} ELSE records

\* compactHistory(): results are moved to files, then a checkpoint is looked for.
LoadHistory(c) ==
  LET base == Externalized(turn[c].base)
      found == Longest(folded, base)
  IN /\ turn[c].pc = "history"
     /\ \/ /\ found = {}
           /\ turn' = [turn EXCEPT ![c] = [@ EXCEPT !.pc = "fit", !.base = base, !.input = base]]
        \/ \E r \in found :
             turn' = [turn EXCEPT ![c] = [@ EXCEPT !.pc = "fit", !.base = base,
                        !.count = Len(r.prefix),
                        !.input = <<r.marker>> \o From(base, Len(r.prefix) + 1)]]
     /\ UNCHANGED <<chat, folded, cut, fresh, limit>>

HistoryFits(c) ==
  /\ turn[c].pc = "fit"
  /\ Total[turn[c].input] <= HistoryBudget \/ RecentStart(turn[c].input) = 1
  /\ turn' = [turn EXCEPT ![c].pc = "restore", ![c].request = turn[c].input]
  /\ UNCHANGED <<chat, folded, cut, fresh, limit>>

\* A mutant of Archived: the file is written of the messages that are kept.
ArchivedRecent(items, start) == From(items, start)

\* What the history file of a compaction holds.
Archived(items, start) == UpTo(items, start - 1)

\* summarizeArchived(): no summary when the summarizer cannot give a whole one.
Summarized == {0} \cup Summaries

\* fitHistory(), with a summary of size 0 when none may be used, and the checkpoint.
FoldHistory(c) ==
  /\ turn[c].pc = "fit" /\ Total[turn[c].input] > HistoryBudget
  /\ \E start \in {RecentStart(turn[c].input)}, summary \in Summarized,
        archived, saved \in BOOLEAN :
       LET input == turn[c].input
           older == UpTo(input, start - 1)
           recent == From(input, start)
           text == FilesIn(older) \cup (IF archived THEN Readable(Archived(input, start)) ELSE {})
           size == IF Reference + summary + Total[recent] <= HistoryBudget
                   THEN Reference + summary ELSE Reference
           marker == Marker(size, Stands(older), text)
           \* The checkpoint's prefix: an earlier marker stands for the messages of its own.
           count == Len(older) + Minus(turn[c].count, 1)
       IN /\ older # <<>>
          /\ archived \/ "archive" \in Windows
          /\ summary > 0 \/ text # {}
          /\ IF saved THEN UNCHANGED limit ELSE Spend("faults")
          /\ folded' = Saved(folded, [prefix |-> UpTo(turn[c].base, count), marker |-> marker],
                             saved /\ text # {})
          /\ turn' = [turn EXCEPT ![c].pc = "restore", ![c].input = <<marker>> \o recent,
                                  ![c].request = <<marker>> \o recent]
  /\ UNCHANGED <<chat, cut, fresh>>

-----------------------------------------------------------------------------
(* A provider request                                                      *)

Size(items) == System + Total[items]

\* RequestCheckpoints.restore(), one pass.
Restore(c) ==
  LET request == turn[c].request
      found == {r \in Longest(cut, request) : r.prefix \notin turn[c].used}
  IN /\ turn[c].pc = "restore"
     /\ \/ /\ found = {}
           /\ turn' = [turn EXCEPT ![c] = [@ EXCEPT !.pc = "budget", !.used = {}, !.attempt = 0,
                                           !.target = Ceiling, !.rejected = 0]]
        \/ \E r \in found :
             turn' = [turn EXCEPT
               ![c].used = @ \cup {r.prefix},
               ![c].request = <<r.marker>> \o (IF r.keep = 0 THEN <<>> ELSE <<request[r.keep]>>)
                                \o From(request, Len(r.prefix) + 1)]
     /\ UNCHANGED <<chat, folded, cut, fresh, limit>>

\* A mutant of LatestStep: the latest results are kept, whoever asked for them.
LatestMessage(request) == Len(request)

LatestStep(request) == Last0(Roles(request, "assistant"))

\* splitRequest(): the latest user message and what follows it, or of that only the
\* latest assistant message with its results.
SplitRequest(request, allowance) ==
  LET user == Last0(Roles(request, "user"))
      assistant == LatestStep(request)
  IN IF Total[From(request, user)] + Slack < allowance \/ assistant <= user
     THEN [older |-> UpTo(request, user - 1), recent |-> From(request, user),
           count |-> user - 1, keep |-> 0]
     ELSE [older |-> UpTo(request, user - 1) \o SubSeq(request, user + 1, assistant - 1),
           recent |-> <<request[user]>> \o From(request, assistant),
           count |-> assistant - 1, keep |-> user]

Send(c) ==
  /\ turn[c].pc = "budget" /\ turn[c].attempt = 0
  /\ Size(turn[c].request) <= turn[c].target
  /\ turn' = [turn EXCEPT ![c].pc = "call"]
  /\ UNCHANGED <<chat, folded, cut, fresh, limit>>

Room(split, target) == Minus(target, System + Total[split.recent])

\* compactRequest() has something to cut, and room for the marker.
Split(t) == SplitRequest(t.request, Minus(t.target, System))
Compactable(t) == \E split \in {Split(t)} : split.older # <<>> /\ Room(split, t.target) > Reference

MarkerSize(summary, room) ==
  IF Reference + summary <= room THEN Reference + summary ELSE Reference

\* Also when the request fits: RequestUsage.estimate() may know it to be larger.
CompactRequest(c) ==
  /\ turn[c].pc = "budget" /\ Compactable(turn[c])
  /\ \E split \in {Split(turn[c])}, summary \in Summaries, saved \in BOOLEAN :
       LET room == Room(split, turn[c].target)
           marker == Marker(MarkerSize(summary, room), Stands(split.older), Readable(split.older))
           record == [prefix |-> UpTo(turn[c].request, split.count), marker |-> marker,
                      keep |-> split.keep]
       IN /\ IF saved THEN UNCHANGED limit ELSE Spend("faults")
          /\ cut' = Saved(cut, record, saved)
          /\ turn' = [turn EXCEPT ![c].pc = "call", ![c].request = <<marker>> \o split.recent]
  /\ UNCHANGED <<chat, folded, fresh>>

\* ContextBudgetError
TooLarge(c) ==
  /\ turn[c].pc = "budget" /\ ~Compactable(turn[c])
  /\ End(c, turn[c].base)
  /\ UNCHANGED <<folded, cut, fresh, limit>>

Shrink == <<70, 50, 35>>

\* A mutant of Attempted: the retries are not counted.
Uncounted(t) == 0

Attempted(t) == t.attempt + 1

\* The provider rejects the request as too long, before any output.
Overflow(c) ==
  LET t == turn[c]
      rejected == IF t.rejected = 0 THEN Size(t.request) ELSE t.rejected
      smaller == System + ((rejected - System) * Shrink[t.attempt + 1]) \div 100
  IN /\ t.pc = "call"
     /\ IF t.attempt >= Len(Shrink) THEN End(c, t.base)
        ELSE /\ turn' = [turn EXCEPT ![c].pc = "budget", ![c].attempt = Attempted(t),
                           ![c].rejected = rejected,
                           ![c].target = IF smaller < Ceiling THEN smaller ELSE Ceiling]
             /\ UNCHANGED chat
     /\ UNCHANGED <<folded, cut, fresh, limit>>

\* A step: the model calls a tool, and the result goes into the next request.  A result
\* that cannot be moved to a file is shown as it is.
CallTool(c) ==
  LET t == turn[c]
      call == Message("assistant", fresh + 1, 1)
  IN /\ t.pc = "call" /\ fresh + 2 <= limit.messages
     /\ fresh' = fresh + 2
     /\ \E size \in Sizes, spilled \in BOOLEAN :
          LET raw == Message("tool", fresh + 2, size)
              step == <<call, IF spilled THEN Presented(raw) ELSE raw>>
          IN /\ IF spilled THEN UNCHANGED limit ELSE size >= Large /\ Spend("faults")
             /\ turn' = [turn EXCEPT ![c] = [t EXCEPT !.pc = "restore", !.base = @ \o step,
                           !.input = @ \o step, !.request = t.input \o step]]
     /\ UNCHANGED <<chat, folded, cut>>

Answer(c) ==
  /\ turn[c].pc = "call"
  /\ fresh' = fresh + 1
  /\ \E size \in Sizes : End(c, Append(turn[c].base, Message("assistant", fresh + 1, size)))
  /\ UNCHANGED <<folded, cut, limit>>

-----------------------------------------------------------------------------
Step(c) ==
  \/ LoadHistory(c) \/ HistoryFits(c) \/ FoldHistory(c) \/ Restore(c)
  \/ Send(c) \/ CompactRequest(c) \/ TooLarge(c) \/ Overflow(c) \/ CallTool(c) \/ Answer(c)

Next ==
  \E c \in Chats : \/ Ask(c) \/ Edit(c) \/ Stop(c) \/ Step(c)
                  \/ \E d \in Chats : Branch(c, d)

Spec == Init /\ [][Next]_vars

\* A turn goes on: files are read, the summarizer and the provider answer or time out.
Fairness == \A c \in Chats : WF_vars(Step(c))
FairSpec == Spec /\ Fairness

-----------------------------------------------------------------------------
(* Properties                                                              *)

Turns == [pc : {"idle", "history", "fit", "restore", "budget", "call"}, base : Seq(Items),
          input : Seq(Items), count : Nat, request : Seq(Items), used : SUBSET Seq(Items),
          attempt : 0..3, target : Nat, rejected : Nat]

TypeOK ==
  /\ chat \in [Chats -> Seq(Items)]
  /\ turn \in [Chats -> Turns]
  /\ folded \subseteq [prefix : Seq(Items), marker : Items]
  /\ cut \subseteq [prefix : Seq(Items), marker : Items, keep : Nat]
  /\ fresh \in Nat /\ limit \in Bounds

Calling(c) == turn[c].pc = "call"

\* What the model is shown stands for the chat as it is: each of its messages is there or
\* is replaced by a marker, and none that was edited away, of another branch, or of a
\* turn that was taken back.  A checkpoint is shared by chats and outlives their edits.
ShowsThisChat ==
  \A c \in Chats : Calling(c) => Stands(turn[c].request) = Ids(turn[c].base)

\* Compaction loses no text: every message of the chat is in the request, or in a file
\* that can be reached from it, after any number of compactions of either kind.
EvidenceRemains ==
  \A c \in Chats : Calling(c) => Ids(turn[c].base) \subseteq Readable(turn[c].request)

\* The latest user message is in the request with its latest step, and a tool's result is
\* there with its call, whatever was cut between them; though no request is larger than
\* its model takes by the estimate, and a retry is smaller than what was rejected first.
ExchangesAreWhole ==
  \A c \in Chats : Calling(c) =>
    LET base == turn[c].base
        shown == Ids(turn[c].request)
        user == Last0(Roles(base, "user"))
        step == Last0(Roles(base, "assistant"))
    IN /\ base[user].id \in shown
       /\ step > user => base[step].id \in shown
       /\ \A i \in Roles(base, "tool") : base[i].id \in shown <=> base[i - 1].id \in shown
       /\ Size(turn[c].request) <= Ceiling
       /\ turn[c].attempt > 0 => Size(turn[c].request) < turn[c].rejected

\* Every turn ends, however often the provider rejects its requests.
TurnsEnd == \A c \in Chats : turn[c].pc # "idle" ~> turn[c].pc = "idle"
=============================================================================
