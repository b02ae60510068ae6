--------------------------- MODULE ChatTabProofs ---------------------------
(***************************************************************************)
(* Proofs about ChatTab, for every number of retries and events, whatever  *)
(* the bounds, and for every set of Windows that a theorem allows.         *)
(*                                                                         *)
(* The properties of a tab hold by what ties it to the server, and that    *)
(* is the inductive invariant: where its turn is, which run or request it  *)
(* follows, how far it has read, which of its submissions the server may   *)
(* still admit, and what it would send next.  The lemmas are about values: *)
(* each says that the invariant of some runs, a session, refused requests, *)
(* submissions and a tab becomes that of others, and a step of the system  *)
(* takes them for what its variables were and become.                      *)
(***************************************************************************)
EXTENDS ChatTab, NaturalsInduction, SequenceTheorems, WellFoundedInduction, TLAPS

-----------------------------------------------------------------------------
(* The inductive invariant, of runs rs, a session s, refused requests rf,  *)
(* mail box, a tab t and a look p.                                         *)

OpType == [
  kind : {"none", "send", "regenerate", "replay", "resume", "retry"},
  pc : {"none", "saving", "posting", "status", "asking", "opening", "reading",
        "reconnecting", "closing"},
  tries : 0..Attempts, draft : Seq(Nat \X Nat), kept : Seq(Message)]
LinkType == [run : Nat, req : Nat, after : Nat, messages : Seq(Message), regen : BOOLEAN]
StopType == [pc : {"none", "asking", "waiting", "reading"}, req : Nat, run : Nat,
             then : {"none", "stop", "steer", "resume"}, item : Nat]
PollType == [on : BOOLEAN, session : Session]

\* The first n events of run r.
Parts(r, n) == [k \in 1..n |-> <<r, k>>]

ReqIn(rs, q) == {r \in 1..Len(rs) : q # 0 /\ rs[r].req = q}
PromptOf(rs, r) == Last(rs[r].messages).prompt
TranscriptOf(rs, r) ==
  rs[r].messages \o (IF rs[r].n = 0 THEN <<>> ELSE <<Answer(r, Parts(r, rs[r].n))>>)
Mine(rs) == \A r \in 1..Len(rs) : rs[r].mine
\* Nobody extends the chat between the tab's reads of it.
Calm(rs) == "overtaken" \notin Windows \/ Mine(rs)

\* A question, or an answer of one of n runs.
Plain(x, n) == IF x.run = 0 THEN x.prompt # 0 /\ x.parts = <<>> ELSE x.prompt = 0 /\ x.run <= n
\* An answer is the events of its run from its first, under its question.
Right(ms, i, rs) ==
  /\ ms[i].parts = Parts(ms[i].run, Len(ms[i].parts))
  /\ Len(ms[i].parts) \in 1..rs[ms[i].run].n
  /\ i > 1 /\ ms[i - 1] = Question(PromptOf(rs, ms[i].run))
Good(ms, rs) ==
  /\ \A i \in 1..Len(ms) : Plain(ms[i], Len(rs))
  /\ Calm(rs) => \A i \in 1..Len(ms) : ms[i].run # 0 => Right(ms, i, rs)
SettledIn(ms, rs) == \A i \in 1..Len(ms) : ms[i].run # 0 => rs[ms[i].run].settled
Asking(ms) == ms # <<>> /\ Last(ms).run = 0

\* The same questions and answers, whatever is known of an answer.
Same(a, b) ==
  Len(a) = Len(b) /\ \A i \in 1..Len(a) : a[i].prompt = b[i].prompt /\ a[i].run = b[i].run
\* ms is what run r was asked with, perhaps with its answer.
Shows(ms, rs, r) ==
  \/ Same(ms, rs[r].messages)
  \/ Answered(ms) /\ Last(ms).run = r /\ Same(Front(ms), rs[r].messages)
\* a is b with further questions.
Extends(a, b) ==
  /\ Len(b) <= Len(a)
  /\ \A i \in 1..Len(b) : a[i].prompt = b[i].prompt /\ a[i].run = b[i].run
  /\ \A i \in 1..Len(a) : i > Len(b) => a[i].run = 0

\* The server: one run at most goes on, and it owns the chat.
RunOK(rs, s, r) ==
  /\ Good(rs[r].messages, rs) /\ SettledIn(rs[r].messages, rs)
  /\ rs[r].settled => rs[r].status # "running"
  /\ ~rs[r].settled => r = s.run
  /\ rs[r].mine => rs[r].req # 0
  /\ Calm(rs) => Asking(rs[r].messages) /\ PromptOf(rs, r) \in Asked(s.messages)
ServerOK(rs, s) ==
  /\ \A r \in 1..Len(rs) : RunOK(rs, s, r)
  /\ \A r, q \in 1..Len(rs) : rs[r].req = rs[q].req /\ rs[r].req # 0 => r = q
  /\ s.run <= Len(rs) /\ (s.run = 0 => rs = <<>>)
  /\ Good(s.messages, rs) /\ SettledIn(s.messages, rs)
  /\ s.run # 0 =>
       s.messages = IF rs[s.run].settled THEN TranscriptOf(rs, s.run) ELSE rs[s.run].messages

\* Nothing that the tab sent is without its answer.
Loose(t) ==
  \/ t.op.pc = "saving" /\ t.op.kind # "replay"
  \/ t.op.pc = "none" /\ t.status = "ready" /\ ~t.sync
\* The tab shows a run, or a chat that it has sent.
Tied(t) == ~Loose(t) /\ ~t.sync
Reads(t) == t.op.pc \in {"reading", "reconnecting", "closing"}
Unlinked(t) == t.link.run = 0 /\ t.link.req = 0

\* The tab by itself.
StepsOK(t) ==
  /\ t.op.pc = "none" <=> t.op = NoOp
  /\ t.op.pc = "none" <=> t.op.kind = "none"
  /\ t.op.pc = "none" => t.status # "busy"
  /\ t.op.pc = "saving" => t.op.kind \in {"send", "regenerate", "replay"}
  /\ t.op.kind = "replay" => t.op.pc \in {"saving", "opening"} \/ Reads(t)
  /\ t.op.pc = "saving" \/ Reads(t) => t.status = "busy"
  /\ t.op.pc = "status" => t.status = "error"
  /\ t.op.pc = "asking" => t.status # "busy" /\ (t.link.req # 0 => t.status = "error")
LinksOK(t) ==
  /\ t.link.run = 0 => t.link.after = 0
  /\ t.link.req = 0 => t.link.messages = <<>>
  /\ t.op.pc = "posting" => t.link.run = 0 /\ t.link.req # 0
  /\ t.op.pc = "asking" => t.link.run = 0
  /\ t.op.pc = "opening" => t.link.run # 0 /\ t.link.after = 0
  /\ t.op.kind = "replay" \/ Reads(t) => t.link.run # 0
  /\ Tied(t) /\ t.link.run = 0 /\ t.link.req # 0 => t.messages = t.link.messages
StopsOK(t) ==
  /\ t.stop.pc = "none" <=> t.stop = NoStop
  /\ t.stop # NoStop => t.sync /\ t.stop.then # "none" /\ t.stop.run = t.link.run
                        /\ t.stop.req = IF t.link.run = 0 THEN t.link.req ELSE 0
  /\ t.sync => /\ t.op.pc = "none" /\ t.status = "ready" /\ t.paused
               /\ ~Unlinked(t) /\ (t.stop = NoStop => t.error)
  /\ t.steering => t.stop.then = "steer"
  /\ t.stop.then = "steer" => t.stop.item # 0
  /\ t.error => t.op.pc = "none" /\ t.paused /\ (t.sync \/ t.status = "error")
                /\ t.stop.then \notin {"stop", "steer"}
TabOK(t) == StepsOK(t) /\ LinksOK(t) /\ StopsOK(t) /\ 0 \notin ToSet(t.items)

\* What it shows.
ShownOK(t, rs, s) ==
  /\ t.link.req # 0 => Asking(t.link.messages)
  /\ Tied(t) /\ t.link.run # 0 => Shows(t.messages, rs, t.link.run)
  /\ Tied(t) /\ Unlinked(t) /\ s.run # 0 => Shows(t.messages, rs, s.run)
  /\ Reads(t) =>
       /\ t.op.draft = Parts(t.link.run, t.link.after)
       /\ IF t.link.after = 0 THEN ~Answered(t.messages)
          ELSE t.messages # <<>> /\ Last(t.messages) = Answer(t.link.run, t.op.draft)
  /\ t.op.pc = "opening" \/ (t.op.pc = "saving" /\ t.op.kind = "replay") => ~Answered(t.messages)
  /\ t.op.pc = "saving" => Asking(t.messages)
  /\ t.op.kind = "replay" =>
       Shows(t.op.kept, rs, t.link.run) /\ Asked(t.op.kept) = Asked(t.messages)
StopOf(t, rs) == IF t.stop.run # 0 THEN {t.stop.run} ELSE ReqIn(rs, t.stop.req)
FollowOK(t, rs, s, rf) ==
  /\ Good(t.messages, rs) /\ Good(t.link.messages, rs) /\ Good(t.op.kept, rs)
  /\ t.link.run <= Len(rs)
  /\ Reads(t) => t.link.after <= rs[t.link.run].n
  /\ t.op.pc = "closing" =>
       rs[t.link.run].status # "running" /\ t.link.after = rs[t.link.run].n
  /\ t.stop.pc = "reading" => \A r \in StopOf(t, rs) : rs[r].settled
  /\ t.stop.pc \in {"waiting", "reading"} /\ t.stop.req # 0 => t.stop.req \in rf
  /\ \A r \in ReqIn(rs, t.link.req) : Same(t.link.messages, rs[r].messages)
  /\ Tied(t) /\ Unlinked(t) => SettledIn(t.messages, rs)
  /\ Calm(rs) => ShownOK(t, rs, s)

\* A run of the tab goes on only while it is tied to it.
QuietOK(t, rs) ==
  {"impatient", "settling"} \cap Windows = {} =>
    \A r \in 1..Len(rs) : ~rs[r].settled /\ rs[r].mine =>
      /\ ~Loose(t)
      /\ t.link.run # 0 => r = t.link.run
      /\ t.link.run = 0 /\ t.link.req # 0 => rs[r].req = t.link.req

\* What it would send next is what the server has, and more.
HistoryOf(s, regen) ==
  IF s.run = 0 THEN <<>> ELSE IF regen THEN Unanswered(s.messages) ELSE s.messages
Follows(ms, regen, s) ==
  LET saved == HistoryOf(s, regen)
  IN s.run # 0 =>
       /\ IF regen THEN Len(ms) = Len(saved) ELSE Len(ms) > Len(saved)
       /\ \A i \in 1..Len(saved) : saved[i].prompt = ms[i].prompt /\ saved[i].run = ms[i].run
FitOK(t, rs, s) ==
  {"withdrawn", "impatient", "settling"} \cap Windows = {} /\ Mine(rs) /\ s.run # 0 =>
    /\ Loose(t) /\ t.op.kind # "regenerate" => Extends(t.messages, s.messages)
    /\ Loose(t) /\ t.op.kind = "send" => Len(t.messages) > Len(s.messages)
    /\ Loose(t) /\ t.op.kind = "regenerate" => Same(t.messages, Unanswered(s.messages))
    /\ Tied(t) /\ t.link.run # 0 => t.link.run = s.run
    /\ Tied(t) /\ t.link.run = 0 /\ t.link.req # 0 =>
         \/ rs[s.run].req = t.link.req
         \/ ReqIn(rs, t.link.req) = {} /\ Follows(t.link.messages, t.link.regen, s)

\* Submissions that are on their way.
MailOK(rs, m) ==
  /\ m.req # 0 /\ Good(m.messages, rs)
  /\ ~m.waited => m.reply = "none"
  /\ m.reply = "run" => ReqIn(rs, m.req) # {}
  /\ \A r \in ReqIn(rs, m.req) : Same(m.messages, rs[r].messages)
  /\ Calm(rs) => Asking(m.messages)
BoxOK(rs, box) ==
  /\ \A m \in box : MailOK(rs, m)
  /\ \A m, l \in box : m.req = l.req => m.messages = l.messages
  /\ \A m, l \in box : m.waited /\ l.waited => m = l
\* One that the server may still admit is the tab's last.
Pends(rs, rf, m) == m.mine /\ m.req \notin rf /\ ReqIn(rs, m.req) = {}
PostOK(t, rs, rf, box) ==
  /\ \A m \in box :
       /\ m.waited => /\ m.mine /\ t.op.pc = "posting" /\ m.req = t.link.req
                      /\ m.regen = t.link.regen
       /\ m.req = t.link.req => m.messages = t.link.messages
  /\ Calm(rs) \/ "impatient" \notin Windows =>
       \A m \in box : Pends(rs, rf, m) => ~Loose(t) /\ t.link.run = 0 /\ m.req = t.link.req

\* A look for scheduled turns.
PollOK(t, p, rs, s) ==
  /\ Good(p.session.messages, rs)
  /\ p.on =>
       /\ t.op.pc = "none" /\ t.status = "ready" /\ ~t.sync
       /\ ~Mine(rs) /\ SettledIn(p.session.messages, rs)
       /\ p.session.run # 0 /\ p.session.run <= Len(rs)
       /\ "overtaken" \notin Windows =>
            /\ p.session.run = s.run
            /\ p.session.messages \in {s.messages, rs[s.run].messages}

\* Requests are numbered.
Used(rs, rf, box, t) ==
  {0, t.link.req} \cup rf \cup {m.req : m \in box} \cup {rs[r].req : r \in 1..Len(rs)}
Numbered(rs, rf, box, t) == \E b \in Nat : \A q \in Used(rs, rf, box, t) : q <= b

\* The chat and its tab; and the look.
Chat(rs, s, rf, box, t) ==
  /\ rs \in Seq(Run) /\ s \in Session /\ rf \subseteq Nat /\ box \subseteq Mail /\ t \in Tabs
  /\ Numbered(rs, rf, box, t) /\ ServerOK(rs, s)
  /\ TabOK(t) /\ FollowOK(t, rs, s, rf) /\ QuietOK(t, rs) /\ FitOK(t, rs, s)
  /\ BoxOK(rs, box) /\ PostOK(t, rs, rf, box)
Look(t, p, rs, s) == p \in PollType /\ PollOK(t, p, rs, s)

IInv ==
  /\ Chat(runs, session, refused, mail, tab) /\ Look(tab, poll, runs, session)
  /\ limit \in Bounds

-----------------------------------------------------------------------------
(* Sequences                                                               *)

\* A sequence is its front and its last element.
LEMMA FrontIs ==
  ASSUME NEW S, NEW s \in Seq(S), s # <<>>
  PROVE  /\ Front(s) \in Seq(S) /\ Len(s) \in Nat \ {0} /\ Len(Front(s)) = Len(s) - 1
         /\ \A i \in 1..Len(s) - 1 : Front(s)[i] = s[i]
         /\ Last(s) \in S /\ Last(s) = s[Len(s)]
<1>1. Len(s) \in Nat \ {0}
  OBVIOUS
<1>2. Len(s) - 1 \in Int /\ 1 \in Int /\ Len(s) - 1 <= Len(s)
  BY <1>1
<1>3. \A i \in 1..Len(s) : s[i] \in S
  BY ElementOfSeq
<1>4. \A i \in 1..Len(s) - 1 : i \in 1..Len(s) /\ 1 + i - 1 = i
  BY <1>1
<1>5. Front(s) = SubSeq(s, 1, Len(s) - 1) /\ Last(s) = s[Len(s)]
  BY DEF Front, Last
<1>6. PICK n \in Int : n = Len(s) - 1
  BY <1>2
<1>7. \A i \in 1..n : s[i] \in S
  BY <1>3, <1>4, <1>6
<1>8. /\ SubSeq(s, 1, n) \in Seq(S) /\ Len(SubSeq(s, 1, n)) = IF 1 <= n THEN n - 1 + 1 ELSE 0
      /\ \A i \in 1..n - 1 + 1 : SubSeq(s, 1, n)[i] = s[1 + i - 1]
  BY <1>2, <1>7, SubSeqProperties
<1>9. (IF 1 <= n THEN n - 1 + 1 ELSE 0) = n /\ n - 1 + 1 = n
  BY <1>1, <1>6
<1>10. \A i \in 1..n : SubSeq(s, 1, n)[i] = s[i]
  BY <1>4, <1>6, <1>8, <1>9
<1>11. Last(s) \in S
  BY <1>1, <1>3, <1>5
<1> QED
  BY <1>1, <1>5, <1>6, <1>8, <1>9, <1>10, <1>11

\* The elements of a sequence are those at its places.
LEMMA ToSetIs ==
  ASSUME NEW S, NEW s \in Seq(S)
  PROVE  ToSet(s) = {s[i] : i \in 1..Len(s)} /\ ToSet(s) \subseteq S
BY DEF ToSet

\* A set of numbers has a least one.
LEMMA LeastNat ==
  ASSUME NEW S, S \subseteq Nat, S # {}
  PROVE  Min(S) \in S /\ \A n \in S : Min(S) <= n
<1>1. \E m \in S : \A n \in S : m <= n
  <2>1. \E m \in S : \A n \in S : ~ (<<n, m>> \in OpToRel(<, Nat))
    BY WFMin, NatLessThanWellFounded, Zenon
  <2>2. PICK m \in S : \A n \in S : ~ (<<n, m>> \in OpToRel(<, Nat))
    BY <2>1
  <2>3. ASSUME NEW n \in S PROVE m <= n
    <3>1. <<n, m>> \notin OpToRel(<, Nat)
      BY <2>2
    <3>2. n \in Nat /\ m \in Nat
      OBVIOUS
    <3>3. ASSUME n < m PROVE FALSE
      <4>1. <<n, m>>[1] = n /\ <<n, m>>[2] = m /\ <<n, m>> \in Nat \X Nat
        BY <3>2
      <4>2. <<n, m>>[1] < <<n, m>>[2]
        BY <3>3, <4>1
      <4>3. <<n, m>> \in OpToRel(<, Nat)
        BY <4>1, <4>2, Zenon DEF OpToRel
      <4> QED
        BY <3>1, <4>3
    <3> QED
      BY <3>2, <3>3
  <2> QED
    BY <2>3
<1> QED
  BY <1>1 DEF Min

\* A set of numbers with a bound has a greatest one.
LEMMA GreatestNat ==
  ASSUME NEW S, S \subseteq Nat, S # {}, NEW b \in Nat, \A n \in S : n <= b
  PROVE  Max(S) \in S /\ \A n \in S : n <= Max(S)
<1> DEFINE U == {u \in Nat : \A n \in S : n <= u}
<1>1. U \subseteq Nat /\ b \in U
  OBVIOUS
<1>2. Min(U) \in U /\ \A n \in U : Min(U) <= n
  BY <1>1, LeastNat
<1>3. PICK u \in Nat : u = Min(U)
  BY <1>2
<1>4. (\A n \in S : n <= u) /\ \A v \in U : u <= v
  BY <1>2, <1>3
<1>5. u \in S
  <2>1. SUFFICES ASSUME u \notin S PROVE FALSE
    OBVIOUS
  <2>2. \A n \in S : n < u
    BY <1>4, <2>1
  <2>3. u > 0
    <3>1. PICK n \in S : TRUE
      OBVIOUS
    <3>2. n \in Nat /\ n < u
      BY <2>2
    <3> QED
      BY <3>2
  <2>4. u - 1 \in U
    BY <2>2, <2>3
  <2>5. u <= u - 1
    BY <1>4, <2>4
  <2> QED
    BY <2>5
<1>6. \E m \in S : \A n \in S : m >= n
  BY <1>4, <1>5
<1> QED
  BY <1>6 DEF Max

\* Removing an element leaves the others.
LEMMA RemoveFirstIs ==
  ASSUME NEW s \in Seq(Nat), NEW e \in Nat
  PROVE  /\ RemoveFirst(s, e) \in Seq(Nat)
         /\ ToSet(RemoveFirst(s, e)) \subseteq ToSet(s)
         /\ ToSet(s) \ {e} \subseteq ToSet(RemoveFirst(s, e))
<1> DEFINE I == {i \in 1..Len(s) : s[i] = e}
<1>1. CASE I = {}
  BY <1>1 DEF RemoveFirst
<1>2. CASE I # {}
  <2>1. Min(I) \in I
    <3>1. I \subseteq Nat
      OBVIOUS
    <3> HIDE DEF I
    <3> QED
      BY <1>2, <3>1, LeastNat
  <2>2. PICK j \in 1..Len(s) : j = Min(I) /\ s[j] = e
    BY <2>1
  <2>3. RemoveFirst(s, e) = RemoveAt(s, j)
    BY <1>2, <2>2 DEF RemoveFirst, SelectInSeq
  <2> HIDE DEF I
  <2> DEFINE a == SubSeq(s, 1, j - 1)
             b == SubSeq(s, j + 1, Len(s))
             c == RemoveAt(s, j)
  <2>4. j \in Nat /\ Len(s) \in Nat /\ 1 <= j /\ j <= Len(s)
    OBVIOUS
  <2>5. a \in Seq(Nat) /\ Len(a) = j - 1 /\ \A i \in 1..j - 1 : a[i] = s[i]
    BY <2>4
  <2>6. b \in Seq(Nat) /\ Len(b) = Len(s) - j /\ \A i \in 1..Len(s) - j : b[i] = s[j + i]
    <3>1. \A i \in j + 1..Len(s) : s[i] \in Nat
      BY <2>4, ElementOfSeq
    <3>2. PICK k \in Int, n \in Int : k = j + 1 /\ n = Len(s)
      BY <2>4
    <3>3. \A i \in k..n : s[i] \in Nat
      BY <3>1, <3>2
    <3>4. /\ SubSeq(s, k, n) \in Seq(Nat) /\ Len(SubSeq(s, k, n)) = IF k <= n THEN n - k + 1 ELSE 0
          /\ \A i \in 1..n - k + 1 : SubSeq(s, k, n)[i] = s[k + i - 1]
      BY ONLY <3>3, SubSeqProperties, k \in Int, n \in Int
    <3>5. (IF k <= n THEN n - k + 1 ELSE 0) = Len(s) - j /\ n - k + 1 = Len(s) - j
      BY <2>4, <3>2
    <3>6. \A i \in 1..Len(s) - j : k + i - 1 = j + i
      BY <2>4, <3>2
    <3> QED
      BY <3>2, <3>4, <3>5, <3>6
  <2>7. c = a \o b
    BY DEF RemoveAt
  <2> HIDE DEF a, b, c
  <2>8. c \in Seq(Nat) /\ Len(c) = Len(s) - 1
    <3>1. c \in Seq(Nat) /\ Len(c) = Len(a) + Len(b)
      BY <2>5, <2>6, <2>7, ConcatProperties
    <3>2. Len(a) + Len(b) = Len(s) - 1
      BY <2>4, <2>5, <2>6
    <3> QED
      BY <3>1, <3>2
  <2>9. \A i \in 1..Len(c) : c[i] = IF i < j THEN s[i] ELSE s[i + 1]
    <3>1. TAKE i \in 1..Len(c)
    <3>2. CASE i < j
      BY <2>4, <2>5, <2>6, <2>7, <2>8, <3>2
    <3>3. CASE ~(i < j)
      <4>1. c[i] = b[i - (j - 1)]
        <5>1. i \in 1..Len(a) + Len(b) /\ ~(i <= Len(a)) /\ i - Len(a) = i - (j - 1)
          BY <2>4, <2>5, <2>6, <2>8, <3>3
        <5>2. (a \o b)[i] = IF i <= Len(a) THEN a[i] ELSE b[i - Len(a)]
          BY <2>5, <2>6, <5>1, ConcatProperties
        <5> QED
          BY <2>7, <5>1, <5>2
      <4>2. i - (j - 1) \in 1..Len(s) - j /\ j + (i - (j - 1)) = i + 1
        BY <2>4, <2>8, <3>3
      <4> QED
        BY <2>6, <3>3, <4>1, <4>2
    <3> QED
      BY <3>2, <3>3
  <2>10. ASSUME NEW i \in 1..Len(c) PROVE c[i] \in ToSet(s)
    <3>1. PICK n \in Nat : n = Len(s)
      BY <2>4
    <3>2. i \in 1..n - 1
      BY <2>8, <3>1
    <3>3. i \in 1..n /\ i + 1 \in 1..n
      BY ONLY <3>2, n \in Nat
    <3> QED
      BY <2>9, <3>1, <3>3, ToSetIs
  <2>12. ToSet(c) = {c[i] : i \in 1..Len(c)}
    BY <2>8, ToSetIs
  <2>11. ASSUME NEW x \in ToSet(s), x # e PROVE x \in ToSet(c)
    <3>1. PICK i \in 1..Len(s) : s[i] = x
      BY ToSetIs
    <3>2. i # j
      BY <2>2, <2>11, <3>1
    <3>3. CASE i < j
      <4>1. i \in 1..Len(c)
        BY <2>4, <2>8, <3>3
      <4>2. c[i] = x
        BY <2>9, <3>1, <3>3, <4>1
      <4> QED
        BY <2>12, <4>1, <4>2
    <3>4. CASE ~(i < j)
      <4>1. i - 1 \in 1..Len(c) /\ ~(i - 1 < j) /\ i - 1 + 1 = i
        BY <2>4, <2>8, <3>2, <3>4
      <4>2. c[i - 1] = x
        BY <2>9, <3>1, <4>1
      <4> QED
        BY <2>12, <4>1, <4>2
    <3> QED
      BY <3>3, <3>4
  <2>13. RemoveFirst(s, e) = c
    BY <2>3 DEF c
  <2>14. ToSet(c) \subseteq ToSet(s) /\ ToSet(s) \ {e} \subseteq ToSet(c)
    BY <2>10, <2>11, <2>12
  <2> QED
    BY <2>8, <2>13, <2>14
<1> QED
  BY <1>1, <1>2

\* Adding one adds it.
LEMMA AddedTo ==
  ASSUME NEW s \in Seq(Nat), NEW e \in Nat
  PROVE  /\ Append(s, e) \in Seq(Nat) /\ ToSet(Append(s, e)) = ToSet(s) \cup {e}
         /\ <<e>> \o s \in Seq(Nat) /\ ToSet(<<e>> \o s) = ToSet(s) \cup {e}
<1>1. Append(s, e) \in Seq(Nat) /\ Len(Append(s, e)) = Len(s) + 1 /\ Append(s, e)[Len(s) + 1] = e
      /\ \A i \in 1..Len(s) : Append(s, e)[i] = s[i]
  OBVIOUS
<1>2. ToSet(Append(s, e)) = ToSet(s) \cup {e}
  <2>1. PICK d \in Seq(Nat) : d = Append(s, e)
    BY <1>1
  <2>2. ToSet(d) = {d[i] : i \in 1..Len(d)} /\ ToSet(s) = {s[i] : i \in 1..Len(s)}
    BY ToSetIs
  <2>3. 1..Len(d) = 1..Len(s) \cup {Len(s) + 1}
    BY <1>1, <2>1
  <2> QED
    BY <1>1, <2>1, <2>2, <2>3
<1> DEFINE c == <<e>> \o s
<1>3. c \in Seq(Nat) /\ Len(c) = Len(s) + 1 /\ c[1] = e /\ \A i \in 1..Len(s) : c[i + 1] = s[i]
  OBVIOUS
<1> HIDE DEF c
<1>4. ToSet(c) = {c[i] : i \in 1..Len(c)} /\ ToSet(s) = {s[i] : i \in 1..Len(s)}
  BY <1>3, ToSetIs
<1>5. ASSUME NEW i \in 1..Len(c) PROVE c[i] \in ToSet(s) \cup {e}
  <2>1. CASE i = 1
    BY <1>3, <2>1
  <2>2. CASE i # 1
    <3>1. i - 1 \in 1..Len(s) /\ i - 1 + 1 = i
      BY <1>3, <2>2
    <3> QED
      BY <1>3, <1>4, <3>1
  <2> QED
    BY <2>1, <2>2
<1>6. \A i \in 1..Len(s) : i + 1 \in 1..Len(c)
  BY <1>3
<1>7. 1 \in 1..Len(c)
  BY <1>3
<1>8. ToSet(c) = ToSet(s) \cup {e}
  BY <1>3, <1>4, <1>5, <1>6, <1>7
<1> QED
  BY <1>1, <1>2, <1>3, <1>8 DEF c

\* The first and the others.
LEMMA HeadTail ==
  ASSUME NEW s \in Seq(Nat), s # <<>>
  PROVE  /\ Head(s) \in Nat /\ Tail(s) \in Seq(Nat) /\ Head(s) \in ToSet(s)
         /\ ToSet(s) = ToSet(Tail(s)) \cup {Head(s)}
<1>1. /\ Tail(s) \in Seq(Nat) /\ Len(Tail(s)) = Len(s) - 1 /\ Head(s) = s[1] /\ Len(s) \in Nat \ {0}
      /\ \A i \in 1..Len(s) - 1 : Tail(s)[i] = s[i + 1]
  OBVIOUS
<1>2. ToSet(Tail(s)) = {Tail(s)[i] : i \in 1..Len(Tail(s))} /\ ToSet(s) = {s[i] : i \in 1..Len(s)}
  BY <1>1, ToSetIs
<1>3. PICK t \in Seq(Nat) : t = Tail(s)
  BY <1>1
<1>4. ASSUME NEW i \in 1..Len(s) PROVE s[i] \in ToSet(t) \cup {s[1]}
  <2>1. CASE i # 1
    <3>1. i - 1 \in 1..Len(s) - 1 /\ i - 1 + 1 = i
      BY <1>1, <2>1
    <3> QED
      BY <1>1, <1>2, <1>3, <3>1
  <2> QED
    BY <2>1
<1>5. ASSUME NEW i \in 1..Len(t) PROVE t[i] \in ToSet(s)
  <2>1. i + 1 \in 1..Len(s) /\ i \in 1..Len(s) - 1
    BY <1>1, <1>3
  <2> QED
    BY <1>1, <1>2, <1>3, <2>1
<1>6. 1 \in 1..Len(s)
  BY <1>1
<1> QED
  BY <1>1, <1>2, <1>3, <1>4, <1>5, <1>6

-----------------------------------------------------------------------------
(* Messages                                                                *)

\* Questions and answers are messages.
LEMMA MessageIs ==
  /\ \A p \in Nat : /\ Question(p) \in Message
                    /\ Question(p).prompt = p /\ Question(p).run = 0 /\ Question(p).parts = <<>>
  /\ \A r \in Nat, parts \in Seq(Nat \X Nat) :
       /\ Answer(r, parts) \in Message
       /\ Answer(r, parts).prompt = 0 /\ Answer(r, parts).run = r /\ Answer(r, parts).parts = parts
BY EmptySeq DEF Question, Answer, Message

\* A message without a run and parts is a question.
LEMMA QuestionIs ==
  ASSUME NEW x \in Message, x.run = 0, x.parts = <<>>
  PROVE  x = Question(x.prompt)
BY DEF Question, Message

\* The events of a run, one after the other.
LEMMA PartsIs ==
  ASSUME NEW r \in Nat, NEW n \in Nat
  PROVE  /\ Parts(r, n) \in Seq(Nat \X Nat) /\ Len(Parts(r, n)) = n
         /\ Append(Parts(r, n), <<r, n + 1>>) = Parts(r, n + 1)
         /\ Parts(r, 0) = <<>>
<1>1. \A m \in Nat : Parts(r, m) \in Seq(Nat \X Nat) /\ Len(Parts(r, m)) = m
      /\ \A k \in 1..m : Parts(r, m)[k] = <<r, k>>
  BY DEF Parts
<1>2. n + 1 \in Nat
  OBVIOUS
<1>3. PICK a \in Seq(Nat \X Nat), b \in Seq(Nat \X Nat) : a = Parts(r, n) /\ b = Parts(r, n + 1)
  BY <1>1, <1>2
<1>4. PICK x \in Nat \X Nat : x = <<r, n + 1>>
  <2>1. <<r, n + 1>> \in Nat \X Nat
    BY <1>2
  <2> QED
    BY <2>1
<1>5. Append(a, x) \in Seq(Nat \X Nat) /\ Len(Append(a, x)) = n + 1
      /\ (\A k \in 1..n : Append(a, x)[k] = a[k]) /\ Append(a, x)[n + 1] = x
  <2>1. /\ Append(a, x) \in Seq(Nat \X Nat) /\ Len(Append(a, x)) = Len(a) + 1
        /\ (\A k \in 1..Len(a) : Append(a, x)[k] = a[k]) /\ Append(a, x)[Len(a) + 1] = x
    BY AppendProperties
  <2>2. Len(a) = n
    BY <1>1, <1>3
  <2> QED
    BY <2>1, <2>2
<1>6. PICK c \in Seq(Nat \X Nat) : c = Append(a, x)
  BY <1>5
<1>7. \A k \in 1..n + 1 : c[k] = b[k]
  <2>1. TAKE k \in 1..n + 1
  <2>2. b[k] = <<r, k>>
    BY <1>1, <1>2, <1>3
  <2>3. CASE k = n + 1
    BY <1>4, <1>5, <1>6, <2>2, <2>3
  <2>4. CASE k # n + 1
    <3>1. k \in 1..n
      BY <2>4
    <3>2. a[k] = <<r, k>>
      BY <1>1, <1>3, <3>1
    <3> QED
      BY <1>5, <1>6, <2>2, <3>1, <3>2
  <2> QED
    BY <2>3, <2>4
<1>8. c = b
  <2>1. Len(c) = Len(b) /\ Len(c) = n + 1
    BY <1>1, <1>2, <1>3, <1>5, <1>6
  <2> QED
    BY <1>7, <2>1, SeqEqual
<1>9. Parts(r, 0) = <<>>
  BY <1>1
<1>10. Append(Parts(r, n), <<r, n + 1>>) = Append(a, x)
  BY <1>3, <1>4
<1>11. Append(Parts(r, n), <<r, n + 1>>) = Parts(r, n + 1)
  BY <1>3, <1>6, <1>8, <1>10
<1> QED
  BY <1>1, <1>9, <1>11

\* The messages without the answer at their end.
LEMMA UnansweredIs ==
  ASSUME NEW ms \in Seq(Message)
  PROVE  /\ Unanswered(ms) \in Seq(Message)
         /\ Len(Unanswered(ms)) = IF Answered(ms) THEN Len(ms) - 1 ELSE Len(ms)
         /\ \A i \in 1..Len(Unanswered(ms)) : i \in 1..Len(ms) /\ Unanswered(ms)[i] = ms[i]
         /\ ~Answered(ms) => Unanswered(ms) = ms
         /\ Answered(ms) => Unanswered(ms) = Front(ms)
         /\ Answered(ms) => Len(ms) \in Nat \ {0} /\ ms[Len(ms)].run # 0 /\ Last(ms) = ms[Len(ms)]
<1>1. CASE Answered(ms)
  <2>1. ms # <<>>
    BY <1>1 DEF Answered
  <2>2. /\ Front(ms) \in Seq(Message) /\ Len(ms) \in Nat \ {0} /\ Len(Front(ms)) = Len(ms) - 1
        /\ (\A i \in 1..Len(ms) - 1 : Front(ms)[i] = ms[i]) /\ Last(ms) = ms[Len(ms)]
    BY <2>1, FrontIs
  <2>3. \A i \in 1..Len(ms) - 1 : i \in 1..Len(ms)
    BY <2>2
  <2>4. ms[Len(ms)].run # 0
    BY <1>1, <2>2 DEF Answered
  <2>5. Unanswered(ms) = Front(ms)
    BY <1>1 DEF Unanswered
  <2> QED
    BY <1>1, <2>2, <2>3, <2>4, <2>5
<1>2. CASE ~Answered(ms)
  BY <1>2 DEF Unanswered
<1> QED
  BY <1>1, <1>2

\* The prompts of messages.
LEMMA AskedIs ==
  ASSUME NEW ms \in Seq(Message), NEW x \in Message
  PROVE  /\ Append(ms, x) \in Seq(Message) /\ Len(Append(ms, x)) = Len(ms) + 1
         /\ Append(ms, x)[Len(ms) + 1] = x /\ \A i \in 1..Len(ms) : Append(ms, x)[i] = ms[i]
         /\ Asked(Append(ms, x)) = Asked(ms) \cup ({x.prompt} \ {0})
         /\ Append(ms, x) # <<>> /\ Last(Append(ms, x)) = x /\ Front(Append(ms, x)) = ms
<1>1. PICK a \in Seq(Message) : a = Append(ms, x)
  BY AppendProperties
<1>2. Len(a) = Len(ms) + 1 /\ a[Len(ms) + 1] = x /\ \A i \in 1..Len(ms) : a[i] = ms[i]
  BY <1>1, AppendProperties
<1>3. a # <<>>
  BY <1>2
<1>4. Last(a) = x
  BY <1>2 DEF Last
<1>5. 1..Len(a) = 1..Len(ms) \cup {Len(ms) + 1}
  BY <1>2
<1>6. Asked(a) = Asked(ms) \cup ({x.prompt} \ {0})
  BY <1>2, <1>5 DEF Asked
<1>7. Front(a) = ms
  <2>1. Front(a) \in Seq(Message) /\ Len(Front(a)) = Len(ms) /\ \A i \in 1..Len(ms) : Front(a)[i] = ms[i]
    <3>1. /\ Front(a) \in Seq(Message) /\ Len(Front(a)) = Len(a) - 1
          /\ \A i \in 1..Len(a) - 1 : Front(a)[i] = a[i]
      BY <1>3, FrontIs
    <3>2. Len(a) - 1 = Len(ms)
      BY <1>2
    <3> QED
      BY <1>2, <3>1, <3>2
  <2> QED
    BY <2>1, SeqEqual
<1> QED
  BY <1>1, <1>2, <1>3, <1>4, <1>6, <1>7

\* Taking an answer away leaves the questions of a chat as they are.
LEMMA AskedUnanswered ==
  ASSUME NEW ms \in Seq(Message), \A i \in 1..Len(ms) : ms[i].run # 0 => ms[i].prompt = 0
  PROVE  Asked(Unanswered(ms)) = Asked(ms)
<1>1. CASE Answered(ms)
  <2>1. PICK a \in Seq(Message) : a = Unanswered(ms)
    BY UnansweredIs
  <2>2. /\ Len(a) = Len(ms) - 1 /\ (\A i \in 1..Len(a) : i \in 1..Len(ms) /\ a[i] = ms[i])
        /\ Len(ms) \in Nat \ {0} /\ ms[Len(ms)].run # 0
    BY <1>1, <2>1, UnansweredIs
  <2>3. 1..Len(ms) = 1..Len(a) \cup {Len(ms)}
    BY <2>2
  <2>4. ms[Len(ms)].prompt = 0
    BY <2>2, <2>3
  <2>5. Asked(a) = Asked(ms)
    <3>1. Asked(a) = {a[i].prompt : i \in 1..Len(a)} \ {0} /\ Asked(ms) = {ms[i].prompt : i \in 1..Len(ms)} \ {0}
      BY DEF Asked
    <3>2. Asked(a) \subseteq Asked(ms)
      BY <2>2, <3>1
    <3>3. ASSUME NEW y \in Asked(ms) PROVE y \in Asked(a)
      <4>1. PICK i \in 1..Len(ms) : y = ms[i].prompt /\ y # 0
        BY <3>1
      <4>2. i \in 1..Len(a)
        BY <2>3, <2>4, <4>1
      <4> QED
        BY <2>2, <3>1, <4>1, <4>2
    <3> QED
      BY <3>2, <3>3
  <2> QED
    BY <2>1, <2>5
<1>2. CASE ~Answered(ms)
  BY <1>2 DEF Unanswered
<1> QED
  BY <1>1, <1>2

\* Messages that are the same.
LEMMA SameIs ==
  /\ \A a : Same(a, a)
  /\ \A a, b : Same(a, b) => Same(b, a)
  /\ \A a, b, c : Same(a, b) /\ Same(b, c) => Same(a, c)
BY DEF Same

\* Chats with the same questions and answers end in the same way.
LEMMA SameEnds ==
  ASSUME NEW a \in Seq(Message), NEW b \in Seq(Message), Same(a, b)
  PROVE  /\ Asking(b) => Asking(a) /\ Last(a).prompt = Last(b).prompt
         /\ Answered(b) => Answered(a) /\ Last(a).run = Last(b).run
         /\ Asked(a) = Asked(b) /\ Same(Unanswered(a), Unanswered(b))
<1>1. Len(a) = Len(b) /\ Len(a) \in Nat
      /\ \A i \in 1..Len(a) : a[i].prompt = b[i].prompt /\ a[i].run = b[i].run
  BY DEF Same
<1>2. a = <<>> <=> b = <<>>
  BY <1>1
<1>3. b # <<>> => Last(a).run = Last(b).run /\ Last(a).prompt = Last(b).prompt
  <2>1. HAVE b # <<>>
  <2>2. Last(a) = a[Len(a)] /\ Last(b) = b[Len(a)] /\ Len(a) \in 1..Len(a)
    BY <1>1, <2>1 DEF Last
  <2> QED
    BY <1>1, <2>2
<1>4. Asked(a) = Asked(b)
  BY <1>1 DEF Asked
<1>5. Answered(a) <=> Answered(b)
  BY <1>2, <1>3 DEF Answered
<1>6. Same(Unanswered(a), Unanswered(b))
  <2>1. PICK c \in Seq(Message), d \in Seq(Message) : c = Unanswered(a) /\ d = Unanswered(b)
    BY UnansweredIs
  <2>2. /\ Len(c) = (IF Answered(a) THEN Len(a) - 1 ELSE Len(a))
        /\ \A i \in 1..Len(c) : i \in 1..Len(a) /\ c[i] = a[i]
    BY <2>1, UnansweredIs
  <2>3. /\ Len(d) = (IF Answered(b) THEN Len(b) - 1 ELSE Len(b))
        /\ \A i \in 1..Len(d) : i \in 1..Len(b) /\ d[i] = b[i]
    BY <2>1, UnansweredIs
  <2>4. Len(c) = Len(d)
    BY <1>1, <1>5, <2>2, <2>3
  <2>5. Same(c, d)
    BY <1>1, <2>2, <2>3, <2>4 DEF Same
  <2> QED
    BY <2>1, <2>5
<1> QED
  BY <1>2, <1>3, <1>4, <1>5, <1>6 DEF Asking, Answered

\* Messages that show a run, whose own end with a question.
LEMMA ShowsIs ==
  ASSUME NEW ms \in Seq(Message), NEW rs, NEW r, rs[r].messages \in Seq(Message), Shows(ms, rs, r),
         Asking(rs[r].messages)
  PROVE  /\ Same(Unanswered(ms), rs[r].messages) /\ Asking(Unanswered(ms))
         /\ Answered(ms) => Last(ms).run = r
         /\ Last(Unanswered(ms)).prompt = Last(rs[r].messages).prompt
<1>1. PICK q \in Seq(Message) : q = rs[r].messages
  OBVIOUS
<1>2. PICK u \in Seq(Message) : u = Unanswered(ms)
  BY UnansweredIs
<1>3. CASE Answered(ms)
  <2>1. ~Same(ms, q)
    <3>1. SUFFICES ASSUME Same(ms, q) PROVE FALSE
      OBVIOUS
    <3>2. Asking(ms)
      BY <1>1, <3>1, SameEnds
    <3> QED
      BY <1>3, <3>2 DEF Asking, Answered
  <2>2. Last(ms).run = r /\ Same(u, q)
    BY <1>1, <1>2, <1>3, <2>1, UnansweredIs DEF Shows
  <2>3. Asking(u) /\ Last(u).prompt = Last(q).prompt
    BY <1>1, <2>2, SameEnds
  <2> QED
    BY <1>1, <1>2, <2>2, <2>3
<1>4. CASE ~Answered(ms)
  <2>1. u = ms /\ Same(ms, q)
    BY <1>1, <1>2, <1>4, UnansweredIs DEF Shows
  <2>2. Asking(u) /\ Last(u).prompt = Last(q).prompt
    BY <1>1, <2>1, SameEnds
  <2> QED
    BY <1>1, <1>2, <1>4, <2>1, <2>2
<1> QED
  BY <1>3, <1>4

\* and the other way.
LEMMA ShowsIf ==
  ASSUME NEW ms \in Seq(Message), NEW rs, NEW r,
         Same(Unanswered(ms), rs[r].messages), Answered(ms) => Last(ms).run = r
  PROVE  Shows(ms, rs, r)
<1>1. CASE Answered(ms)
  BY <1>1, UnansweredIs DEF Shows
<1>2. CASE ~Answered(ms)
  BY <1>2, UnansweredIs DEF Shows
<1> QED
  BY <1>1, <1>2

\* The messages after a last answer is written.
LEMMA WrittenIs ==
  ASSUME NEW ms \in Seq(Message), NEW r \in Nat \ {0}, NEW parts \in Seq(Nat \X Nat)
  PROVE  /\ Written(ms, r, parts) \in Seq(Message)
         /\ Draft(ms) \in Seq(Nat \X Nat) /\ (~Answered(ms) => Draft(ms) = <<>>)
         /\ \E u \in Seq(Message) :
              /\ Answered(ms) /\ Last(ms).run = r => u = Unanswered(ms)
              /\ ~(Answered(ms) /\ Last(ms).run = r) => u = ms
              /\ Written(ms, r, parts) = Append(u, Answer(r, parts))
              /\ Unanswered(Written(ms, r, parts)) = u
              /\ Asked(Written(ms, r, parts)) = Asked(u)
              /\ Answered(Written(ms, r, parts)) /\ Last(Written(ms, r, parts)) = Answer(r, parts)
<1>1. PICK u \in Seq(Message) : u = IF Answered(ms) /\ Last(ms).run = r THEN Unanswered(ms) ELSE ms
  BY UnansweredIs
<1>2. Written(ms, r, parts) = Append(u, Answer(r, parts))
  BY <1>1, UnansweredIs DEF Written
<1>3. PICK x \in Message : x = Answer(r, parts) /\ x.run = r /\ x.prompt = 0
  BY MessageIs
<1>4. /\ Append(u, x) \in Seq(Message) /\ Append(u, x) # <<>> /\ Last(Append(u, x)) = x
      /\ Front(Append(u, x)) = u /\ Asked(Append(u, x)) = Asked(u)
  <2>1. {x.prompt} \ {0} = {}
    BY <1>3
  <2>2. /\ Append(u, x) \in Seq(Message) /\ Append(u, x) # <<>> /\ Last(Append(u, x)) = x
        /\ Front(Append(u, x)) = u /\ Asked(Append(u, x)) = Asked(u) \cup ({x.prompt} \ {0})
    BY AskedIs
  <2> QED
    BY <2>1, <2>2
<1>5. Answered(Append(u, x)) /\ Unanswered(Append(u, x)) = u
  BY <1>3, <1>4 DEF Answered, Unanswered
<1>6. Draft(ms) \in Seq(Nat \X Nat) /\ (~Answered(ms) => Draft(ms) = <<>>)
  <2>1. CASE Answered(ms)
    <3>1. ms # <<>>
      BY <2>1 DEF Answered
    <3>2. Last(ms) \in Message
      BY <3>1, FrontIs
    <3> QED
      BY <2>1, <3>2 DEF Draft, Message
  <2>2. CASE ~Answered(ms)
    BY <2>2, EmptySeq DEF Draft
  <2> QED
    BY <2>1, <2>2
<1> QED
  BY <1>1, <1>2, <1>3, <1>4, <1>5, <1>6

-----------------------------------------------------------------------------
(* Good messages                                                           *)

\* Runs go on and others begin; what is known of a run before stays true.
Grows(rs, more) ==
  /\ rs \in Seq(Run) /\ more \in Seq(Run) /\ Len(rs) <= Len(more)
  /\ \A r \in 1..Len(rs) : more[r].messages = rs[r].messages /\ rs[r].n <= more[r].n
                           /\ (rs[r].settled => more[r].settled)
  /\ Calm(more) => Calm(rs)

\* The fields of a run.
LEMMA RunTypes ==
  ASSUME NEW rs \in Seq(Run), NEW r \in 1..Len(rs)
  PROVE  /\ r \in Nat \ {0} /\ rs[r] \in Run /\ rs[r].req \in Nat /\ rs[r].n \in 0..Events
         /\ rs[r].n \in Nat /\ rs[r].messages \in Seq(Message)
         /\ rs[r].settled \in BOOLEAN /\ rs[r].mine \in BOOLEAN /\ rs[r].regen \in BOOLEAN
<1>1. rs[r] \in Run
  BY ElementOfSeq
<1>2. \A k \in 0..Events : k \in Nat
  OBVIOUS
<1> QED
  BY <1>1, <1>2 DEF Run

\* A message of a good chat is a question, or an answer of a run that there is.
LEMMA GoodIs ==
  ASSUME NEW rs \in Seq(Run), NEW ms \in Seq(Message), Good(ms, rs), NEW i \in 1..Len(ms)
  PROVE  /\ ms[i] \in Message /\ ms[i].run \in 0..Len(rs)
         /\ ms[i].run = 0 => ms[i].prompt # 0 /\ ms[i].parts = <<>> /\ ms[i] = Question(ms[i].prompt)
         /\ ms[i].run # 0 => ms[i].prompt = 0 /\ ms[i].run \in 1..Len(rs)
<1>1. ms[i] \in Message
  BY ElementOfSeq
<1>2. ms[i].run \in Nat
  BY <1>1 DEF Message
<1>3. Plain(ms[i], Len(rs))
  BY DEF Good
<1>4. Len(rs) \in Nat
  OBVIOUS
<1>5. ms[i].run = 0 => ms[i].prompt # 0 /\ ms[i].parts = <<>>
  BY <1>3 DEF Plain
<1>6. ms[i].run # 0 => ms[i].prompt = 0 /\ ms[i].run <= Len(rs)
  BY <1>3 DEF Plain
<1>7. ms[i].run = 0 => ms[i] = Question(ms[i].prompt)
  BY <1>1, <1>5, QuestionIs
<1> QED
  BY <1>1, <1>2, <1>4, <1>5, <1>6, <1>7

\* A good chat stays good as runs go on and more of them begin.
LEMMA GoodGrows ==
  ASSUME NEW rs, NEW more, Grows(rs, more), NEW ms \in Seq(Message), Good(ms, rs)
  PROVE  Good(ms, more)
<1>1. rs \in Seq(Run) /\ more \in Seq(Run) /\ Len(rs) \in Nat /\ Len(more) \in Nat /\ Len(rs) <= Len(more)
  BY DEF Grows
<1>2. ASSUME NEW i \in 1..Len(ms) PROVE Plain(ms[i], Len(more))
  <2>1. ms[i].run \in 0..Len(rs) /\ Plain(ms[i], Len(rs))
    BY <1>1, GoodIs DEF Good
  <2> QED
    BY <1>1, <2>1 DEF Plain
<1>3. ASSUME Calm(more), NEW i \in 1..Len(ms), ms[i].run # 0 PROVE Right(ms, i, more)
  <2>1. ms[i].run \in 1..Len(rs)
    BY <1>1, <1>3, GoodIs
  <2>2. PICK r \in 1..Len(rs) : r = ms[i].run
    BY <2>1
  <2>3. Calm(rs) /\ more[r].messages = rs[r].messages /\ rs[r].n <= more[r].n
    BY <1>3 DEF Grows
  <2>4. Right(ms, i, rs)
    BY <1>3, <2>3 DEF Good
  <2>5. r \in 1..Len(more)
    BY <1>1
  <2>6. rs[r].n \in Nat /\ more[r].n \in Nat
    BY <1>1, <2>5, RunTypes
  <2>7. PromptOf(more, r) = PromptOf(rs, r)
    BY <2>3 DEF PromptOf
  <2>8. Len(ms[i].parts) \in 1..rs[r].n
    BY <2>2, <2>4 DEF Right
  <2>9. Len(ms[i].parts) \in 1..more[r].n
    BY <2>3, <2>6, <2>8
  <2> QED
    BY <2>2, <2>4, <2>7, <2>9 DEF Right
<1> QED
  BY <1>2, <1>3 DEF Good

\* Its answers stay those of settled runs.
LEMMA SettledGrows ==
  ASSUME NEW rs, NEW more, Grows(rs, more), NEW ms \in Seq(Message), Good(ms, rs), SettledIn(ms, rs)
  PROVE  SettledIn(ms, more)
<1>1. rs \in Seq(Run)
  BY DEF Grows
<1>2. ASSUME NEW i \in 1..Len(ms), ms[i].run # 0 PROVE more[ms[i].run].settled
  <2>1. ms[i].run \in 1..Len(rs)
    BY <1>1, <1>2, GoodIs
  <2>2. rs[ms[i].run].settled
    BY <1>2 DEF SettledIn
  <2> QED
    BY <2>1, <2>2 DEF Grows
<1> QED
  BY <1>2 DEF SettledIn

\* A part from the start.
LEMMA GoodPrefix ==
  ASSUME NEW rs \in Seq(Run), NEW ms \in Seq(Message), Good(ms, rs), NEW a \in Seq(Message),
         Len(a) <= Len(ms), \A i \in 1..Len(a) : a[i] = ms[i]
  PROVE  Good(a, rs) /\ (SettledIn(ms, rs) => SettledIn(a, rs))
<1>1. Len(a) \in Nat /\ Len(ms) \in Nat /\ \A i \in 1..Len(a) : i \in 1..Len(ms)
  OBVIOUS
<1>2. ASSUME NEW i \in 1..Len(a) PROVE Plain(a[i], Len(rs))
  BY <1>1 DEF Good
<1>3. ASSUME Calm(rs), NEW i \in 1..Len(a), a[i].run # 0 PROVE Right(a, i, rs)
  <2>1. Right(ms, i, rs)
    BY <1>1, <1>3 DEF Good
  <2>2. i > 1 => i - 1 \in 1..Len(a)
    OBVIOUS
  <2> QED
    BY <2>1, <2>2 DEF Right
<1>4. Good(a, rs)
  BY <1>2, <1>3 DEF Good
<1>5. SettledIn(ms, rs) => SettledIn(a, rs)
  BY <1>1 DEF SettledIn
<1> QED
  BY <1>4, <1>5

\* A good chat without its last answer is good, and asks the same.
LEMMA GoodUnanswered ==
  ASSUME NEW rs \in Seq(Run), NEW ms \in Seq(Message), Good(ms, rs)
  PROVE  /\ Good(Unanswered(ms), rs) /\ (SettledIn(ms, rs) => SettledIn(Unanswered(ms), rs))
         /\ Asked(Unanswered(ms)) = Asked(ms)
<1>1. PICK a \in Seq(Message) : a = Unanswered(ms)
  BY UnansweredIs
<1>2. Len(a) <= Len(ms) /\ \A i \in 1..Len(a) : a[i] = ms[i]
  <2>1. Len(a) = IF Answered(ms) THEN Len(ms) - 1 ELSE Len(ms)
    BY <1>1, UnansweredIs
  <2>2. Len(ms) \in Nat
    OBVIOUS
  <2> QED
    BY <1>1, <2>1, <2>2, UnansweredIs
<1>3. Good(a, rs) /\ (SettledIn(ms, rs) => SettledIn(a, rs))
  BY <1>2, GoodPrefix
<1>4. \A i \in 1..Len(ms) : ms[i].run # 0 => ms[i].prompt = 0
  BY GoodIs
<1> QED
  BY <1>1, <1>3, <1>4, AskedUnanswered

\* One more message.
LEMMA GoodAppend ==
  ASSUME NEW rs \in Seq(Run), NEW ms \in Seq(Message), Good(ms, rs), NEW x \in Message,
         Plain(x, Len(rs)),
         Calm(rs) /\ x.run # 0 =>
           /\ x.parts = Parts(x.run, Len(x.parts)) /\ Len(x.parts) \in 1..rs[x.run].n
           /\ ms # <<>> /\ Last(ms) = Question(PromptOf(rs, x.run))
  PROVE  Good(Append(ms, x), rs)
<1>1. PICK a \in Seq(Message) : a = Append(ms, x)
  BY AskedIs
<1>2. Len(a) = Len(ms) + 1 /\ a[Len(ms) + 1] = x /\ \A i \in 1..Len(ms) : a[i] = ms[i]
  BY <1>1, AskedIs
<1>3. ASSUME NEW i \in 1..Len(a) PROVE Plain(a[i], Len(rs))
  <2>1. CASE i \in 1..Len(ms)
    BY <1>2, <2>1 DEF Good
  <2>2. CASE i \notin 1..Len(ms)
    <3>1. i = Len(ms) + 1
      BY <1>2, <2>2
    <3> QED
      BY <1>2, <3>1
  <2> QED
    BY <2>1, <2>2
<1>4. ASSUME Calm(rs), NEW i \in 1..Len(a), a[i].run # 0 PROVE Right(a, i, rs)
  <2>1. CASE i \in 1..Len(ms)
    <3>1. Right(ms, i, rs)
      BY <1>2, <1>4, <2>1 DEF Good
    <3>2. i > 1 => i - 1 \in 1..Len(ms)
      BY <2>1
    <3> QED
      BY <1>2, <2>1, <3>1, <3>2 DEF Right
  <2>2. CASE i \notin 1..Len(ms)
    <3>1. i = Len(ms) + 1
      BY <1>2, <2>2
    <3>2. a[i] = x
      BY <1>2, <3>1
    <3>3. /\ x.parts = Parts(x.run, Len(x.parts)) /\ Len(x.parts) \in 1..rs[x.run].n
          /\ ms # <<>> /\ Last(ms) = Question(PromptOf(rs, x.run))
      BY <1>4, <3>2
    <3>4. Len(ms) \in Nat \ {0} /\ Last(ms) = ms[Len(ms)]
      BY <3>3, FrontIs
    <3>5. i > 1 /\ i - 1 = Len(ms) /\ i - 1 \in 1..Len(ms)
      BY <3>1, <3>4
    <3>6. a[i - 1] = ms[Len(ms)]
      BY <1>2, <3>5
    <3>7. a[i - 1] = Question(PromptOf(rs, x.run))
      BY <3>3, <3>4, <3>6
    <3> QED
      BY <3>2, <3>3, <3>5, <3>7 DEF Right
  <2> QED
    BY <2>1, <2>2
<1>5. Good(a, rs)
  BY <1>3, <1>4 DEF Good
<1> QED
  BY <1>1, <1>5

\* A good chat with one more question is good.
LEMMA GoodQuestion ==
  ASSUME NEW rs \in Seq(Run), NEW ms \in Seq(Message), Good(ms, rs), NEW p \in Nat \ {0}
  PROVE  Good(Append(ms, Question(p)), rs)
<1>1. PICK x \in Message : x = Question(p) /\ x.run = 0 /\ x.prompt = p /\ x.parts = <<>>
  BY MessageIs
<1>2. Plain(x, Len(rs))
  BY <1>1 DEF Plain
<1> QED
  BY <1>1, <1>2, GoodAppend

\* The end of messages that are the same as those of a run.
LEMMA GoodEnd ==
  ASSUME NEW rs \in Seq(Run), NEW ms \in Seq(Message), Good(ms, rs), NEW b \in Seq(Message),
         Same(ms, b), Asking(b)
  PROVE  ms # <<>> /\ Last(ms) = Question(Last(b).prompt)
<1>1. ms # <<>> /\ Last(ms).run = 0 /\ Last(ms).prompt = Last(b).prompt
  BY SameEnds DEF Asking
<1>2. Last(ms) = ms[Len(ms)] /\ Len(ms) \in 1..Len(ms)
  <2>1. Len(ms) \in Nat \ {0} /\ Last(ms) = ms[Len(ms)]
    BY <1>1, FrontIs
  <2> QED
    BY <2>1
<1> QED
  BY <1>1, <1>2, GoodIs

\* A good chat that a run was asked with is good with the first events of that run.
LEMMA GoodAnswer ==
  ASSUME NEW rs \in Seq(Run), NEW ms \in Seq(Message), Good(ms, rs), NEW r \in 1..Len(rs),
         NEW k \in 1..rs[r].n,
         Calm(rs) => Same(ms, rs[r].messages) /\ Asking(rs[r].messages)
  PROVE  Good(Append(ms, Answer(r, Parts(r, k))), rs)
<1>1. r \in Nat \ {0} /\ rs[r].n \in Nat /\ rs[r].messages \in Seq(Message)
  BY RunTypes
<1>2. k \in Nat
  BY <1>1
<1>3. Parts(r, k) \in Seq(Nat \X Nat) /\ Len(Parts(r, k)) = k
  BY <1>1, <1>2, PartsIs
<1>4. PICK x \in Message : x = Answer(r, Parts(r, k)) /\ x.run = r /\ x.prompt = 0 /\ x.parts = Parts(r, k)
  BY <1>1, <1>3, MessageIs
<1>5. Plain(x, Len(rs))
  BY <1>1, <1>4 DEF Plain
<1>6. Calm(rs) => ms # <<>> /\ Last(ms) = Question(PromptOf(rs, r))
  BY <1>1, GoodEnd DEF PromptOf
<1>7. x.parts = Parts(x.run, Len(x.parts)) /\ Len(x.parts) \in 1..rs[x.run].n
  BY <1>3, <1>4
<1> QED
  BY <1>4, <1>5, <1>6, <1>7, GoodAppend

\* The messages of a run and its answer.
LEMMA TranscriptIs ==
  ASSUME NEW rs \in Seq(Run), NEW r \in 1..Len(rs), Good(rs[r].messages, rs)
  PROVE  LET ms == TranscriptOf(rs, r) IN
         /\ ms \in Seq(Message) /\ Asked(ms) = Asked(rs[r].messages)
         /\ (Calm(rs) => Asking(rs[r].messages)) => Good(ms, rs)
         /\ SettledIn(rs[r].messages, rs) /\ rs[r].settled => SettledIn(ms, rs)
         /\ Asking(rs[r].messages) =>
              /\ Unanswered(ms) = rs[r].messages /\ Shows(ms, rs, r)
              /\ Answered(ms) <=> rs[r].n # 0
              /\ Answered(ms) => Last(ms).run = r
<1>1. PICK q \in Seq(Message) : q = rs[r].messages
  BY RunTypes
<1>2. PICK n \in Nat : n = rs[r].n
  BY RunTypes
<1>3. r \in Nat \ {0}
  BY RunTypes
<1> DEFINE ms == TranscriptOf(rs, r)
<1>4. CASE n = 0
  <2>1. ms = q \o <<>>
    BY <1>1, <1>2, <1>4 DEF TranscriptOf
  <2>2. ms = q
    BY <2>1, ConcatEmptySeq
  <2>3. Asking(q) => ~Answered(q)
    BY DEF Asking, Answered
  <2>4. Asking(q) => Unanswered(q) = q /\ Shows(q, rs, r)
    BY <1>1, <2>3, SameIs DEF Unanswered, Shows
  <2> HIDE DEF ms
  <2> QED
    BY <1>1, <1>2, <1>4, <2>2, <2>3, <2>4 DEF ms
<1>5. CASE n # 0
  <2>1. PICK x \in Message : x = Answer(r, Parts(r, n)) /\ x.run = r /\ x.prompt = 0
    <3>1. Parts(r, n) \in Seq(Nat \X Nat)
      BY <1>3, PartsIs
    <3> QED
      BY <1>3, <3>1, MessageIs
  <2>2. ms = q \o <<x>>
    BY <1>1, <1>2, <1>5, <2>1 DEF TranscriptOf
  <2>3. ms = Append(q, x)
    BY <2>2, AppendIsConcat
  <2>4. PICK a \in Seq(Message) : a = Append(q, x)
    BY AskedIs
  <2>5. /\ Len(a) = Len(q) + 1 /\ a[Len(q) + 1] = x /\ (\A i \in 1..Len(q) : a[i] = q[i])
        /\ a # <<>> /\ Last(a) = x /\ Front(a) = q
    BY <2>4, AskedIs
  <2>6. Asked(a) = Asked(q)
    <3>1. Asked(a) = Asked(q) \cup ({x.prompt} \ {0}) /\ {x.prompt} \ {0} = {}
      BY <2>1, <2>4, AskedIs
    <3> QED
      BY <3>1
  <2>7. ASSUME Calm(rs) => Asking(q) PROVE Good(a, rs)
    <3>1. n \in 1..rs[r].n
      BY <1>2, <1>5
    <3> QED
      BY <1>1, <2>1, <2>4, <2>7, <3>1, GoodAnswer, SameIs
  <2>8. ASSUME SettledIn(q, rs), rs[r].settled PROVE SettledIn(a, rs)
    <3>1. ASSUME NEW i \in 1..Len(a), a[i].run # 0 PROVE rs[a[i].run].settled
      <4>1. CASE i \in 1..Len(q)
        BY <2>5, <2>8, <3>1, <4>1 DEF SettledIn
      <4>2. CASE i \notin 1..Len(q)
        <5>1. i = Len(q) + 1
          BY <2>5, <4>2
        <5> QED
          BY <2>1, <2>5, <2>8, <5>1
      <4> QED
        BY <4>1, <4>2
    <3> QED
      BY <3>1 DEF SettledIn
  <2>9. Answered(a) /\ Unanswered(a) = q /\ Last(a).run = r
    BY <1>3, <2>1, <2>5 DEF Answered, Unanswered
  <2>10. Shows(a, rs, r)
    BY <1>1, <2>5, <2>9, SameIs DEF Shows
  <2>11. ms = a
    BY <2>3, <2>4
  <2> HIDE DEF ms
  <2> QED
    BY <1>1, <1>2, <1>5, <2>6, <2>7, <2>8, <2>9, <2>10, <2>11 DEF ms
<1> QED
  BY <1>4, <1>5

-----------------------------------------------------------------------------
(* Runs go on                                                              *)

\* The fields of a tab.
LEMMA TabTypes ==
  ASSUME NEW t \in Tabs
  PROVE  /\ t.messages \in Seq(Message) /\ t.items \in Seq(Nat) /\ t.status \in {"ready", "busy", "error"}
         /\ t.paused \in BOOLEAN /\ t.steering \in BOOLEAN /\ t.error \in BOOLEAN /\ t.sync \in BOOLEAN
         /\ t.link \in LinkType /\ t.stop \in StopType /\ t.op \in OpType
         /\ t.link.run \in Nat /\ t.link.req \in Nat /\ t.link.after \in Nat
         /\ t.link.messages \in Seq(Message) /\ t.link.regen \in BOOLEAN
         /\ t.stop.run \in Nat /\ t.stop.req \in Nat /\ t.stop.item \in Nat
         /\ t.op.kept \in Seq(Message) /\ t.op.draft \in Seq(Nat \X Nat) /\ t.op.tries \in 0..Attempts
BY DEF Tabs, LinkType, StopType, OpType

\* Each run goes on; one that ended stays as it is, but for its settling.
Moves(rs, more) ==
  /\ rs \in Seq(Run) /\ more \in Seq(Run) /\ Len(more) = Len(rs)
  /\ \A r \in 1..Len(rs) :
       /\ more[r].messages = rs[r].messages /\ more[r].req = rs[r].req /\ more[r].mine = rs[r].mine
       /\ rs[r].n <= more[r].n /\ (rs[r].settled => more[r].settled)
       /\ rs[r].status # "running" => more[r].status = rs[r].status /\ more[r].n = rs[r].n
       /\ more[r].settled => more[r].status # "running"

\* The chat is what its owner left.
Left(more, s, s2) ==
  /\ s2 \in Session /\ s2.run = s.run
  /\ s.run = 0 => s2 = s
  /\ s.run # 0 =>
       s2.messages = IF more[s.run].settled THEN TranscriptOf(more, s.run) ELSE more[s.run].messages

\* Runs that go on are the same runs, of the same requests.
LEMMA MovesGrow ==
  ASSUME NEW rs, NEW more, Moves(rs, more)
  PROVE  /\ Grows(rs, more) /\ (Mine(rs) <=> Mine(more)) /\ (Calm(rs) <=> Calm(more))
         /\ \A q : ReqIn(more, q) = ReqIn(rs, q)
<1>1. Mine(rs) <=> Mine(more)
  BY DEF Moves, Mine
<1>2. Calm(rs) <=> Calm(more)
  BY <1>1 DEF Calm
<1>3. Grows(rs, more)
  <2>1. Len(rs) \in Nat /\ Len(rs) <= Len(more)
    BY DEF Moves
  <2> QED
    BY <1>2, <2>1 DEF Moves, Grows
<1>4. \A q : ReqIn(more, q) = ReqIn(rs, q)
  BY DEF Moves, ReqIn
<1> QED
  BY <1>1, <1>2, <1>3, <1>4

\* What a chat shows of a run does not depend on how far the run is.
LEMMA ShowsGrows ==
  ASSUME NEW rs, NEW more, Grows(rs, more), NEW r \in 1..Len(rs)
  PROVE  /\ \A ms : Shows(ms, more, r) <=> Shows(ms, rs, r)
         /\ PromptOf(more, r) = PromptOf(rs, r)
         /\ r \in 1..Len(more)
<1>1. more[r].messages = rs[r].messages
  BY DEF Grows
<1>2. r \in 1..Len(more)
  <2>1. Len(rs) \in Nat /\ Len(more) \in Nat /\ Len(rs) <= Len(more)
    BY DEF Grows
  <2> QED
    BY <2>1
<1> QED
  BY <1>1, <1>2 DEF Shows, PromptOf

\* What a tab shows stays right as runs go on and more of them begin.
LEMMA ShownGrows ==
  ASSUME NEW rs, NEW more, Grows(rs, more), NEW t \in Tabs, t.link.run <= Len(rs),
         NEW s \in Session, s.run <= Len(rs), NEW s2, Tied(t) /\ Unlinked(t) => s2.run = s.run,
         TabOK(t), ShownOK(t, rs, s)
  PROVE  ShownOK(t, more, s2)
<1>1. Len(rs) \in Nat /\ t.link.run \in Nat /\ s.run \in Nat
  BY TabTypes DEF Grows, Session
<1>2. t.link.run # 0 => \A ms : Shows(ms, more, t.link.run) <=> Shows(ms, rs, t.link.run)
  BY <1>1, ShowsGrows
<1>3. s.run # 0 => \A ms : Shows(ms, more, s.run) <=> Shows(ms, rs, s.run)
  BY <1>1, ShowsGrows
<1>4. Tied(t) /\ t.link.run # 0 => Shows(t.messages, more, t.link.run)
  BY <1>2 DEF ShownOK
<1>5. Tied(t) /\ Unlinked(t) /\ s2.run # 0 => Shows(t.messages, more, s2.run)
  BY <1>3 DEF ShownOK
<1>6. t.op.kind = "replay" => Shows(t.op.kept, rs, t.link.run) <=> Shows(t.op.kept, more, t.link.run)
  <2>1. t.op.kind = "replay" => t.link.run # 0
    BY DEF TabOK, LinksOK
  <2> QED
    BY <1>2, <2>1
<1> QED
  BY <1>4, <1>5, <1>6 DEF ShownOK

\* The server keeps its order as runs go on, when the chat is what its owner left.
LEMMA ServerMoves ==
  ASSUME NEW rs, NEW more, Moves(rs, more), NEW s \in Session, NEW s2, Left(more, s, s2),
         ServerOK(rs, s)
  PROVE  ServerOK(more, s2) /\ Asked(s2.messages) = Asked(s.messages)
<1>1. Grows(rs, more) /\ (Calm(rs) <=> Calm(more))
  BY MovesGrow
<1>2. rs \in Seq(Run) /\ more \in Seq(Run) /\ Len(more) = Len(rs) /\ Len(rs) \in Nat
  BY DEF Moves
<1>3. \A r \in 1..Len(rs) : rs[r].messages \in Seq(Message) /\ more[r].messages = rs[r].messages
      /\ RunOK(rs, s, r)
  BY <1>2, RunTypes DEF Moves, ServerOK
<1>4. ASSUME NEW r \in 1..Len(rs)
      PROVE  Good(more[r].messages, more) /\ SettledIn(more[r].messages, more)
  BY <1>1, <1>3, GoodGrows, SettledGrows DEF RunOK
<1>5. /\ s.run \in Nat /\ s.messages \in Seq(Message) /\ s2.messages \in Seq(Message) /\ s2.run = s.run
      /\ s.run <= Len(rs) /\ (s.run = 0 => rs = <<>> /\ s2 = s)
  BY DEF Session, Left, ServerOK
<1>6. CASE s.run = 0
  <2>1. rs = <<>> /\ more = <<>> /\ s2 = s
    <3>1. rs = <<>> /\ s2 = s
      BY <1>5, <1>6
    <3>2. Len(more) = 0
      BY <1>2, <3>1
    <3> QED
      BY <1>2, <3>1, <3>2
  <2>2. more = rs
    BY <2>1
  <2> QED
    BY <2>1, <2>2
<1>7. CASE s.run # 0
  <2>1. PICK o \in 1..Len(rs) : o = s.run
    BY <1>2, <1>5, <1>7
  <2>2. PICK q \in Seq(Message) : q = more[o].messages /\ q = rs[o].messages
    BY <1>3
  <2>3. Good(q, rs) /\ SettledIn(q, rs) /\ Good(q, more) /\ SettledIn(q, more)
    BY <1>3, <1>4, <2>2 DEF RunOK
  <2>4. o \in 1..Len(more)
    BY <1>2
  <2>5. Calm(more) => Asking(q)
    BY <1>1, <1>3, <2>2 DEF RunOK
  <2>6. LET ms == TranscriptOf(more, o) IN
        ms \in Seq(Message) /\ Asked(ms) = Asked(q) /\ Good(ms, more)
        /\ (more[o].settled => SettledIn(ms, more))
    BY <1>2, <2>2, <2>3, <2>4, <2>5, TranscriptIs
  <2>7. LET ms == TranscriptOf(rs, o) IN Asked(ms) = Asked(q)
    BY <1>2, <2>2, <2>3, TranscriptIs
  <2>8. s2.messages = IF more[o].settled THEN TranscriptOf(more, o) ELSE q
    BY <1>7, <2>1, <2>2 DEF Left
  <2>9. s.messages = IF rs[o].settled THEN TranscriptOf(rs, o) ELSE q
    BY <1>7, <2>1, <2>2 DEF ServerOK
  <2>10. Asked(s2.messages) = Asked(s.messages)
    BY <2>6, <2>7, <2>8, <2>9
  <2>11. Good(s2.messages, more) /\ SettledIn(s2.messages, more)
    BY <2>3, <2>6, <2>8
  <2>12. ASSUME NEW r \in 1..Len(more) PROVE RunOK(more, s2, r)
    <3>1. r \in 1..Len(rs) /\ RunOK(rs, s, r)
      BY <1>2, <1>3
    <3>2. more[r].settled => more[r].status # "running"
      BY <3>1 DEF Moves
    <3>3. ~more[r].settled => r = s2.run
      BY <1>5, <3>1 DEF Moves, RunOK
    <3>4. more[r].mine => more[r].req # 0
      BY <3>1 DEF Moves, RunOK
    <3>5. PromptOf(more, r) = PromptOf(rs, r)
      BY <1>1, <3>1, ShowsGrows
    <3>6. Calm(more) => Asking(more[r].messages) /\ PromptOf(more, r) \in Asked(s2.messages)
      BY <1>1, <1>3, <2>10, <3>1, <3>5 DEF RunOK
    <3> QED
      BY <1>4, <3>1, <3>2, <3>3, <3>4, <3>6 DEF RunOK
  <2>13. \A r, x \in 1..Len(more) : more[r].req = more[x].req /\ more[r].req # 0 => r = x
    BY <1>2 DEF Moves, ServerOK
  <2>14. s2.run # 0 =>
           s2.messages = IF more[s2.run].settled THEN TranscriptOf(more, s2.run) ELSE more[s2.run].messages
    BY <1>5, <1>7 DEF Left
  <2>15. s2.run <= Len(more) /\ (s2.run = 0 => more = <<>>)
    BY <1>2, <1>5, <1>7
  <2>16. ServerOK(more, s2)
    BY <2>11, <2>12, <2>13, <2>14, <2>15 DEF ServerOK
  <2> QED
    BY <2>10, <2>16
<1> QED
  BY <1>6, <1>7

\* A chat whose owner had been settled is as it was.
LEMMA LeftAlone ==
  ASSUME NEW rs, NEW more, Moves(rs, more), NEW s \in Session, NEW s2, Left(more, s, s2),
         ServerOK(rs, s)
  PROVE  /\ s.run = 0 \/ rs[s.run].settled => s2 = s
         /\ s2 = s \/ (s.run # 0 /\ s.messages = rs[s.run].messages)
         /\ s.run # 0 => s2.messages = s.messages \/ s2.messages = TranscriptOf(more, s.run)
<1>1. s.run \in Nat /\ s.run <= Len(rs) /\ Len(rs) \in Nat /\ s2 \in Session /\ s2.run = s.run
  BY DEF Session, Left, ServerOK, Moves
<1>2. s2.messages = s.messages => s2 = s
  BY <1>1 DEF Session
<1>3. CASE s.run = 0
  BY <1>3 DEF Left
<1>4. CASE s.run # 0
  <2>1. PICK o \in 1..Len(rs) : o = s.run
    BY <1>1, <1>4
  <2>2. more[o].messages = rs[o].messages
    BY DEF Moves
  <2>3. rs[o].settled => s2.messages = s.messages
    <3>1. HAVE rs[o].settled
    <3>2. rs[o].status # "running"
      BY <3>1 DEF ServerOK, RunOK
    <3>3. more[o].n = rs[o].n /\ more[o].settled
      BY <3>1, <3>2 DEF Moves
    <3>4. TranscriptOf(more, o) = TranscriptOf(rs, o)
      BY <2>2, <3>3 DEF TranscriptOf
    <3> QED
      BY <1>4, <2>1, <3>1, <3>3, <3>4 DEF Left, ServerOK
  <2>4. ~rs[o].settled => s.messages = rs[o].messages
    BY <1>4, <2>1 DEF ServerOK
  <2>5. s2.messages = rs[o].messages \/ s2.messages = TranscriptOf(more, o)
    BY <1>4, <2>1, <2>2 DEF Left
  <2>6. s2.messages = s.messages \/ s2.messages = TranscriptOf(more, o)
    BY <2>3, <2>4, <2>5
  <2> QED
    BY <1>2, <1>4, <2>1, <2>3, <2>4, <2>6
<1> QED
  BY <1>3, <1>4

\* A tab still follows what it followed as runs go on.
LEMMA FollowMoves ==
  ASSUME NEW rs, NEW more, Moves(rs, more), NEW s \in Session, NEW s2, Left(more, s, s2),
         ServerOK(rs, s), NEW t \in Tabs, TabOK(t), NEW rf, FollowOK(t, rs, s, rf)
  PROVE  FollowOK(t, more, s2, rf)
<1>1. Grows(rs, more) /\ (Calm(rs) <=> Calm(more)) /\ \A q : ReqIn(more, q) = ReqIn(rs, q)
  BY MovesGrow
<1>2. rs \in Seq(Run) /\ more \in Seq(Run) /\ Len(more) = Len(rs) /\ Len(rs) \in Nat
  BY DEF Moves
<1>3. /\ t.messages \in Seq(Message) /\ t.link.messages \in Seq(Message) /\ t.op.kept \in Seq(Message)
      /\ t.link.run \in Nat /\ t.link.after \in Nat /\ t.link.run <= Len(rs)
  BY TabTypes DEF FollowOK
<1>4. Good(t.messages, more) /\ Good(t.link.messages, more) /\ Good(t.op.kept, more)
  BY <1>1, <1>3, GoodGrows DEF FollowOK
<1>5. ASSUME Reads(t)
      PROVE  /\ t.link.after <= more[t.link.run].n
             /\ t.op.pc = "closing" => /\ more[t.link.run].status # "running"
                                        /\ t.link.after = more[t.link.run].n
  <2>1. t.link.run # 0
    BY <1>5 DEF TabOK, LinksOK
  <2>2. PICK r \in 1..Len(rs) : r = t.link.run
    BY <1>2, <1>3, <2>1
  <2>3. t.link.after <= rs[r].n /\ rs[r].n <= more[r].n
    BY <1>5, <2>2 DEF FollowOK, Moves
  <2>4. rs[r].n \in Nat /\ more[r].n \in Nat
    BY <1>2, RunTypes
  <2>5. t.link.after <= more[r].n
    BY <1>3, <2>3, <2>4
  <2>6. t.op.pc = "closing" => rs[r].status # "running" /\ t.link.after = rs[r].n
    BY <2>2 DEF FollowOK
  <2> QED
    BY <2>2, <2>5, <2>6 DEF Moves
<1>6. t.op.pc = "closing" => Reads(t)
  BY DEF Reads
<1>7. ASSUME t.stop.pc = "reading" PROVE \A r \in StopOf(t, more) : more[r].settled
  <2>1. t.stop # NoStop
    BY <1>7 DEF NoStop
  <2>2. t.stop.run = t.link.run
    BY <2>1 DEF TabOK, StopsOK
  <2>3. StopOf(t, more) = StopOf(t, rs) /\ \A r \in StopOf(t, rs) : rs[r].settled
    BY <1>1, <1>7 DEF StopOf, FollowOK
  <2>4. \A r \in StopOf(t, rs) : r \in 1..Len(rs)
    BY <1>2, <1>3, <2>2 DEF StopOf, ReqIn
  <2> QED
    BY <2>3, <2>4 DEF Moves
<1>8. \A r \in ReqIn(more, t.link.req) : Same(t.link.messages, more[r].messages)
  BY <1>1 DEF FollowOK, ReqIn, Moves
<1>9. Tied(t) /\ Unlinked(t) => SettledIn(t.messages, more)
  BY <1>1, <1>3, SettledGrows DEF FollowOK
<1>10. Calm(more) => ShownOK(t, more, s2)
  <2>1. HAVE Calm(more)
  <2>2. ShownOK(t, rs, s)
    BY <1>1, <2>1 DEF FollowOK
  <2>3. s.run <= Len(rs) /\ s2.run = s.run
    BY DEF ServerOK, Left
  <2> QED
    BY <1>1, <1>3, <2>2, <2>3, ShownGrows
<1>11. t.link.run <= Len(more)
  BY <1>2, <1>3
<1>12. t.stop.pc \in {"waiting", "reading"} /\ t.stop.req # 0 => t.stop.req \in rf
  BY DEF FollowOK
<1> QED
  BY <1>4, <1>5, <1>6, <1>7, <1>8, <1>9, <1>10, <1>11, <1>12 DEF FollowOK

\* No run of the tab comes up as runs go on.
LEMMA QuietMoves ==
  ASSUME NEW rs, NEW more, Moves(rs, more), NEW t, QuietOK(t, rs)
  PROVE  QuietOK(t, more)
<1>1. \A r \in 1..Len(more) : ~more[r].settled /\ more[r].mine =>
        r \in 1..Len(rs) /\ ~rs[r].settled /\ rs[r].mine /\ more[r].req = rs[r].req
  BY DEF Moves
<1> QED
  BY <1>1 DEF QuietOK

\* What the tab would send fits as runs go on and end.
LEMMA FitMoves ==
  ASSUME NEW rs, NEW more, Moves(rs, more), NEW s \in Session, NEW s2, Left(more, s, s2),
         ServerOK(rs, s), NEW t, QuietOK(t, rs), FitOK(t, rs, s)
  PROVE  FitOK(t, more, s2)
<1>1. SUFFICES ASSUME {"withdrawn", "impatient", "settling"} \cap Windows = {}, Mine(more), s2.run # 0
      PROVE  /\ Loose(t) /\ t.op.kind # "regenerate" => Extends(t.messages, s2.messages)
             /\ Loose(t) /\ t.op.kind = "send" => Len(t.messages) > Len(s2.messages)
             /\ Loose(t) /\ t.op.kind = "regenerate" => Same(t.messages, Unanswered(s2.messages))
             /\ Tied(t) /\ t.link.run # 0 => t.link.run = s2.run
             /\ Tied(t) /\ t.link.run = 0 /\ t.link.req # 0 =>
                  \/ more[s2.run].req = t.link.req
                  \/ ReqIn(more, t.link.req) = {} /\ Follows(t.link.messages, t.link.regen, s2)
  BY DEF FitOK
<1>2. Mine(rs) /\ (\A q : ReqIn(more, q) = ReqIn(rs, q)) /\ s2.run = s.run
  BY <1>1, MovesGrow DEF Left
<1>3. PICK o \in 1..Len(rs) : o = s.run
  <2>1. s.run \in Nat /\ s.run <= Len(rs) /\ Len(rs) \in Nat /\ s.run # 0
    BY <1>1, <1>2 DEF Session, ServerOK, Moves
  <2> QED
    BY <2>1
<1>4. rs[o].mine /\ more[o].req = rs[o].req
  BY <1>2 DEF Mine, Moves
<1>5. {"impatient", "settling"} \cap Windows = {}
  BY <1>1
<1>6. CASE rs[o].settled
  <2>1. s2 = s
    BY <1>3, <1>6, LeftAlone
  <2> QED
    BY <1>1, <1>2, <1>3, <1>4, <2>1 DEF FitOK
<1>7. CASE ~rs[o].settled
  <2>1. ~Loose(t) /\ (t.link.run = 0 /\ t.link.req # 0 => rs[o].req = t.link.req)
    BY <1>4, <1>5, <1>7 DEF QuietOK
  <2>2. Tied(t) /\ t.link.run # 0 => t.link.run = s.run
    BY <1>1, <1>2 DEF FitOK
  <2> QED
    BY <1>2, <1>3, <1>4, <2>1, <2>2
<1> QED
  BY <1>6, <1>7

\* Submissions on their way stay in order as runs go on.
LEMMA BoxMoves ==
  ASSUME NEW rs, NEW more, Moves(rs, more), NEW box, box \subseteq Mail, BoxOK(rs, box)
  PROVE  BoxOK(more, box)
<1>1. Grows(rs, more) /\ (Calm(rs) <=> Calm(more)) /\ \A q : ReqIn(more, q) = ReqIn(rs, q)
  BY MovesGrow
<1>2. ASSUME NEW m \in box PROVE MailOK(more, m)
  <2>1. MailOK(rs, m) /\ m.messages \in Seq(Message)
    BY DEF BoxOK, Mail
  <2>2. Good(m.messages, more)
    BY <1>1, <2>1, GoodGrows DEF MailOK
  <2>3. \A r \in ReqIn(rs, m.req) : more[r].messages = rs[r].messages
    BY DEF ReqIn, Moves
  <2> QED
    BY <1>1, <2>1, <2>2, <2>3 DEF MailOK
<1> QED
  BY <1>2 DEF BoxOK

\* The last request of the tab is still the only one that can be admitted.
LEMMA PostMoves ==
  ASSUME NEW rs, NEW more, Moves(rs, more), NEW t, NEW rf, NEW box, PostOK(t, rs, rf, box)
  PROVE  PostOK(t, more, rf, box)
<1>1. (Calm(rs) <=> Calm(more)) /\ \A q : ReqIn(more, q) = ReqIn(rs, q)
  BY MovesGrow
<1>2. \A m : Pends(more, rf, m) <=> Pends(rs, rf, m)
  BY <1>1 DEF Pends
<1> QED
  BY <1>1, <1>2 DEF PostOK

\* A look for scheduled turns has read what is still so.
LEMMA PollMoves ==
  ASSUME NEW rs, NEW more, Moves(rs, more), NEW s \in Session, NEW s2, Left(more, s, s2),
         ServerOK(rs, s), NEW t, NEW p \in PollType, PollOK(t, p, rs, s)
  PROVE  PollOK(t, p, more, s2)
<1>1. Grows(rs, more) /\ (Mine(rs) <=> Mine(more)) /\ Len(more) = Len(rs)
  BY MovesGrow DEF Moves
<1>2. p.session.messages \in Seq(Message)
  BY DEF PollType, Session
<1>3. Good(p.session.messages, more)
  BY <1>1, <1>2, GoodGrows DEF PollOK
<1>4. p.on => SettledIn(p.session.messages, more)
  BY <1>1, <1>2, SettledGrows DEF PollOK
<1>5. ASSUME p.on, "overtaken" \notin Windows
      PROVE  p.session.run = s2.run /\ p.session.messages \in {s2.messages, more[s2.run].messages}
  <2>1. /\ p.session.run = s.run /\ p.session.messages \in {s.messages, rs[s.run].messages}
        /\ p.session.run # 0 /\ p.session.run <= Len(rs)
    BY <1>5 DEF PollOK
  <2>2. s2.run = s.run /\ s.run \in Nat /\ Len(rs) \in Nat
    BY DEF Left, Session, Moves
  <2>3. s.run \in 1..Len(rs)
    BY <2>1, <2>2
  <2>4. more[s.run].messages = rs[s.run].messages
    BY <2>3 DEF Moves
  <2>5. s2 = s \/ s.messages = rs[s.run].messages
    BY LeftAlone
  <2> QED
    BY <2>1, <2>2, <2>4, <2>5
<1> QED
  BY <1>1, <1>3, <1>4, <1>5 DEF PollOK

-----------------------------------------------------------------------------
(* What the steps make of a tab                                            *)

\* Tabs, by the names of their parts.
TabRecords == [
  messages : Seq(Message), status : {"ready", "busy", "error"}, items : Seq(Nat),
  paused : BOOLEAN, steering : BOOLEAN, error : BOOLEAN, sync : BOOLEAN,
  link : LinkType, stop : StopType, op : OpType]

\* A tab is a record of seven fields and three records.
LEMMA TabsAre == Tabs = TabRecords
BY DEF Tabs, TabRecords, LinkType, StopType, OpType

\* The fields of a tab that does nothing.
LEMMA Nothing ==
  /\ NoOp \in OpType /\ NoOp.kind = "none" /\ NoOp.pc = "none" /\ NoOp.tries = 0
  /\ NoOp.draft = <<>> /\ NoOp.kept = <<>>
  /\ NoLink \in LinkType /\ NoLink.run = 0 /\ NoLink.req = 0 /\ NoLink.after = 0
  /\ NoLink.messages = <<>>
  /\ NoStop \in StopType /\ NoStop.pc = "none" /\ NoStop.req = 0 /\ NoStop.run = 0
  /\ NoStop.then = "none" /\ NoStop.item = 0
<1>1. <<>> \in Seq(Nat \X Nat) /\ <<>> \in Seq(Message) /\ 0 \in 0..Attempts
  BY TabConstants, EmptySeq
<1> QED
  BY <1>1 DEF NoOp, OpType, NoLink, LinkType, NoStop, StopType

\* An operation of the kind, at its first step.
LEMMA Starting ==
  ASSUME NEW kind \in {"send", "regenerate", "replay", "resume", "retry"},
         NEW pc \in {"saving", "status", "asking"}
  PROVE  LET o == [NoOp EXCEPT !.kind = kind, !.pc = pc] IN
         /\ o \in OpType /\ o.kind = kind /\ o.pc = pc /\ o.tries = 0 /\ o.draft = <<>> /\ o.kept = <<>>
BY Nothing DEF OpType

\* A question is added, and its turn begins (Send).
LEMMA SendIs ==
  ASSUME NEW t \in Tabs, NEW p \in Nat
  PROVE  LET n == Send(t, p) IN
         /\ n \in Tabs
         /\ n.messages = Append(t.messages, Question(p)) /\ n.status = "busy"
         /\ n.items = t.items /\ n.paused = t.paused /\ n.steering = t.steering
         /\ n.error = t.error /\ n.sync = t.sync /\ n.link = t.link /\ n.stop = t.stop
         /\ n.op.kind = "send" /\ n.op.pc = "saving" /\ n.op.kept = <<>>
<1> DEFINE o == [NoOp EXCEPT !.kind = "send", !.pc = "saving"]
<1>1. Append(t.messages, Question(p)) \in Seq(Message)
  BY TabTypes, MessageIs, AskedIs
<1>2. o \in OpType /\ o.kind = "send" /\ o.pc = "saving" /\ o.kept = <<>>
  BY Starting
<1>3. Send(t, p) = [t EXCEPT !.messages = Append(t.messages, Question(p)), !.status = "busy", !.op = o]
  BY DEF Send
<1> HIDE DEF o
<1>4. PICK ms \in Seq(Message) : ms = Append(t.messages, Question(p))
  BY <1>1
<1>5. Send(t, p) = [t EXCEPT !.messages = ms, !.status = "busy", !.op = o]
  BY <1>3, <1>4
<1> QED
  BY <1>2, <1>4, <1>5, TabsAre DEF TabRecords

\* Only the queue changes.
LEMMA ItemsIs ==
  ASSUME NEW t \in Tabs, NEW q \in Seq(Nat)
  PROVE  LET n == [t EXCEPT !.items = q] IN
         /\ n \in Tabs
         /\ n.messages = t.messages /\ n.status = t.status /\ n.items = q /\ n.paused = t.paused
         /\ n.steering = t.steering /\ n.error = t.error /\ n.sync = t.sync /\ n.link = t.link
         /\ n.stop = t.stop /\ n.op = t.op
BY DEF Tabs

\* The queue goes on, and the error is cleared.
LEMMA ClearedIs ==
  ASSUME NEW t \in Tabs
  PROVE  LET n == [t EXCEPT !.paused = FALSE, !.error = FALSE] IN
         /\ n \in Tabs
         /\ n.messages = t.messages /\ n.status = t.status /\ n.items = t.items /\ ~n.paused
         /\ n.steering = t.steering /\ ~n.error /\ n.sync = t.sync /\ n.link = t.link
         /\ n.stop = t.stop /\ n.op = t.op
BY DEF Tabs

\* A replay that came to less than there was before puts that back (Restored).
LEMMA RestoredIs ==
  ASSUME NEW t \in Tabs
  PROVE  LET n == Restored(t) IN
         /\ n \in Tabs
         /\ n.messages = IF t.op.kind = "replay" /\ Len(t.messages) < Len(t.op.kept)
                         THEN t.op.kept ELSE t.messages
         /\ n.status = t.status /\ n.items = t.items /\ n.paused = t.paused
         /\ n.steering = t.steering /\ n.error = t.error /\ n.sync = t.sync /\ n.link = t.link
         /\ n.stop = t.stop /\ n.op = t.op
<1>1. t.op.kept \in Seq(Message)
  BY TabTypes
<1>2. PICK ms \in Seq(Message) : ms = IF t.op.kind = "replay" /\ Len(t.messages) < Len(t.op.kept)
                                      THEN t.op.kept ELSE t.messages
  BY <1>1, TabTypes
<1>3. Restored(t) = [t EXCEPT !.messages = ms]
  BY <1>2, TabsAre DEF Restored, TabRecords
<1> QED
  BY <1>2, <1>3, TabsAre DEF TabRecords

\* A turn is over; what is next in the queue is not yet sent.
Over(t, status) ==
  [Restored(t) EXCEPT !.op = NoOp, !.status = status, !.paused = t.paused \/ status = "error"]

\* A turn is over, before the next question is sent (Finished).
LEMMA OverIs ==
  ASSUME NEW t \in Tabs, NEW status \in {"ready", "busy", "error"}
  PROVE  LET n == Over(t, status) IN
         /\ n \in Tabs /\ Finished(t, status) = Drained(n)
         /\ n.messages = IF t.op.kind = "replay" /\ Len(t.messages) < Len(t.op.kept)
                         THEN t.op.kept ELSE t.messages
         /\ n.status = status /\ n.items = t.items /\ n.paused = (t.paused \/ status = "error")
         /\ n.steering = t.steering /\ n.error = t.error /\ n.sync = t.sync /\ n.link = t.link
         /\ n.stop = t.stop /\ n.op = NoOp
<1>1. PICK u \in Tabs : u = Restored(t)
  BY RestoredIs
<1>2. u.paused = t.paused /\ u.paused \in BOOLEAN
  BY <1>1, RestoredIs DEF Tabs
<1>3. Over(t, status) = [u EXCEPT !.op = NoOp, !.status = status, !.paused = t.paused \/ status = "error"]
  BY <1>1 DEF Over
<1>4. Finished(t, status) = Drained([u EXCEPT !.op = NoOp, !.status = status,
                                              !.paused = t.paused \/ status = "error"])
  BY <1>1, <1>2 DEF Finished
<1>5. (t.paused \/ status = "error") \in BOOLEAN
  BY DEF Tabs
<1>6. NoOp \in OpType
  BY Nothing
<1>7. LET n == [u EXCEPT !.op = NoOp, !.status = status, !.paused = t.paused \/ status = "error"] IN
      /\ n \in Tabs
      /\ n.messages = u.messages /\ n.status = status /\ n.items = u.items
      /\ n.paused = (t.paused \/ status = "error")
      /\ n.steering = u.steering /\ n.error = u.error /\ n.sync = u.sync /\ n.link = u.link
      /\ n.stop = u.stop /\ n.op = NoOp
  BY <1>5, <1>6, TabsAre DEF TabRecords
<1> QED
  BY <1>1, <1>3, <1>4, <1>7, RestoredIs

\* The action itself failed (Thrown).
LEMMA ThrownIs ==
  ASSUME NEW t \in Tabs
  PROVE  LET n == Thrown(t) IN
         /\ n \in Tabs
         /\ n.messages = t.messages /\ n.status = t.status /\ n.items = t.items /\ n.paused
         /\ n.steering = t.steering /\ n.error /\ n.sync = t.sync /\ n.link = t.link
         /\ n.stop = t.stop /\ n.op = NoOp
<1>1. NoOp \in OpType
  BY Nothing
<1> QED
  BY <1>1, TabsAre DEF TabRecords, Thrown

\* A Stop failed (StopFailed).
LEMMA StopFailedIs ==
  ASSUME NEW t \in Tabs
  PROVE  LET n == StopFailed(t) IN
         /\ n \in Tabs
         /\ n.messages = t.messages /\ n.status = t.status /\ n.items = t.items /\ n.paused
         /\ ~n.steering /\ n.error /\ n.sync = t.sync /\ n.link = t.link
         /\ n.stop = NoStop /\ n.op = t.op
<1>1. NoStop \in StopType
  BY Nothing
<1> QED
  BY <1>1, TabsAre DEF TabRecords, StopFailed

\* Another operation of the tab.
LEMMA OpIs ==
  ASSUME NEW t \in Tabs, NEW o \in OpType
  PROVE  LET n == [t EXCEPT !.op = o] IN
         /\ n \in Tabs
         /\ n.messages = t.messages /\ n.status = t.status /\ n.items = t.items
         /\ n.paused = t.paused /\ n.steering = t.steering /\ n.error = t.error /\ n.sync = t.sync
         /\ n.link = t.link /\ n.stop = t.stop /\ n.op = o
BY TabsAre DEF TabRecords

\* and another step of it.
LEMMA StepIs ==
  ASSUME NEW t \in Tabs,
         NEW pc \in {"none", "saving", "posting", "status", "asking", "opening", "reading",
                     "reconnecting", "closing"}
  PROVE  LET n == [t EXCEPT !.op.pc = pc] IN
         /\ n = [t EXCEPT !.op = [t.op EXCEPT !.pc = pc]]
         /\ [t.op EXCEPT !.pc = pc] \in OpType
         /\ n.op.pc = pc /\ n.op.kind = t.op.kind /\ n.op.draft = t.op.draft /\ n.op.kept = t.op.kept
<1>1. t.op \in OpType
  BY TabTypes
<1>2. LET o == [t.op EXCEPT !.pc = pc] IN
      o \in OpType /\ o.pc = pc /\ o.kind = t.op.kind /\ o.draft = t.op.draft /\ o.kept = t.op.kept
  BY <1>1 DEF OpType
<1>3. [t EXCEPT !.op.pc = pc] = [t EXCEPT !.op = [t.op EXCEPT !.pc = pc]]
  BY DEF Tabs
<1>4. PICK o \in OpType : o = [t.op EXCEPT !.pc = pc]
  BY <1>2
<1>5. [t EXCEPT !.op = o].op = o
  BY TabsAre DEF TabRecords
<1> QED
  BY <1>2, <1>3, <1>4, <1>5

\* Another try, of a submission or of a stream.
LEMMA TriedIs ==
  ASSUME NEW t \in Tabs, t.op.pc \in {"posting", "reading", "reconnecting"}, t.op.tries < Attempts
  PROVE  \E o \in OpType :
           /\ Broken(t) = [t EXCEPT !.op = o]
           /\ IF t.op.pc = "posting" THEN o.pc = "posting" ELSE o.pc = "reconnecting"
           /\ o.kind = t.op.kind /\ o.draft = t.op.draft /\ o.kept = t.op.kept
<1>1. t.op \in OpType
  BY TabTypes
<1>2. PICK k \in 0..Attempts : k = t.op.tries + 1
  BY <1>1, TabConstants DEF OpType
<1>3. PICK pc \in {"posting", "reconnecting"} :
        pc = IF t.op.pc = "posting" THEN "posting" ELSE "reconnecting"
  OBVIOUS
<1>4. PICK o : o = [t.op EXCEPT !.tries = k, !.pc = pc]
  OBVIOUS
<1>5. /\ o \in OpType /\ o.pc = pc /\ o.kind = t.op.kind /\ o.draft = t.op.draft
      /\ o.kept = t.op.kept
  BY <1>1, <1>4 DEF OpType
<1>6. Broken(t) = [t EXCEPT !.op = o]
  BY <1>1, <1>2, <1>3, <1>4, TabsAre DEF Broken, TabRecords, OpType
<1> QED
  BY <1>3, <1>5, <1>6

\* An answer is taken away, to be asked for again (Again).
LEMMA AgainIs ==
  ASSUME NEW t \in Tabs, NEW kind \in {"regenerate", "replay"}
  PROVE  LET n == Again(t, kind) IN
         /\ n \in Tabs
         /\ n.messages = Unanswered(t.messages) /\ n.status = "busy" /\ n.items = t.items
         /\ ~n.paused /\ n.steering = t.steering /\ ~n.error /\ n.sync = t.sync
         /\ n.link = t.link /\ n.stop = t.stop
         /\ n.op.pc = "saving" /\ n.op.kind = kind /\ n.op.kept = t.messages
<1> DEFINE o == [NoOp EXCEPT !.kind = kind, !.pc = "saving", !.kept = t.messages]
<1>1. Unanswered(t.messages) \in Seq(Message) /\ t.messages \in Seq(Message)
  BY TabTypes, UnansweredIs
<1>2. o \in OpType /\ o.kind = kind /\ o.pc = "saving" /\ o.kept = t.messages
  BY <1>1, Nothing DEF OpType
<1>3. Again(t, kind) = [t EXCEPT !.messages = Unanswered(t.messages), !.status = "busy",
                                 !.paused = FALSE, !.error = FALSE, !.op = o]
  BY DEF Again
<1> HIDE DEF o
<1>4. PICK ms \in Seq(Message) : ms = Unanswered(t.messages)
  BY <1>1
<1>5. Again(t, kind) = [t EXCEPT !.messages = ms, !.status = "busy", !.paused = FALSE,
                                 !.error = FALSE, !.op = o]
  BY <1>3, <1>4
<1> QED
  BY <1>2, <1>4, <1>5, TabsAre DEF TabRecords

\* Only what the tab is tied to changes.
LEMMA LinkIs ==
  ASSUME NEW t \in Tabs, NEW l \in LinkType
  PROVE  LET n == [t EXCEPT !.link = l] IN
         /\ n \in Tabs
         /\ n.messages = t.messages /\ n.status = t.status /\ n.items = t.items
         /\ n.paused = t.paused /\ n.steering = t.steering /\ n.error = t.error /\ n.sync = t.sync
         /\ n.link = l /\ n.stop = t.stop /\ n.op = t.op
BY TabsAre DEF TabRecords

\* The stream of run r is open.
LEMMA FollowIs ==
  ASSUME NEW t \in Tabs, NEW r \in Nat \ {0}
  PROVE  LET n == Follow(t, r) IN
         /\ n \in Tabs
         /\ n.messages = t.messages /\ n.status = "busy" /\ n.items = t.items
         /\ n.paused = t.paused /\ n.steering = t.steering /\ n.error = t.error /\ n.sync = t.sync
         /\ n.stop = t.stop
         /\ n.link.run = r /\ n.link.req = t.link.req /\ n.link.after = t.link.after
         /\ n.link.messages = t.link.messages /\ n.link.regen = t.link.regen
         /\ n.op.pc = "reading" /\ n.op.kind = t.op.kind /\ n.op.kept = t.op.kept
         /\ n.op.draft = Draft(t.messages)
<1> DEFINE o == [t.op EXCEPT !.pc = "reading", !.tries = 0, !.draft = Draft(t.messages)]
           l == [t.link EXCEPT !.run = r]
<1>1. t.op \in OpType /\ t.link \in LinkType /\ Draft(t.messages) \in Seq(Nat \X Nat) /\ 0 \in 0..Attempts
  BY TabTypes, WrittenIs, TabConstants
<1>2. /\ o \in OpType /\ o.pc = "reading" /\ o.kind = t.op.kind /\ o.kept = t.op.kept
      /\ o.draft = Draft(t.messages)
  BY <1>1 DEF OpType
<1>3. /\ l \in LinkType /\ l.run = r /\ l.req = t.link.req /\ l.after = t.link.after
      /\ l.messages = t.link.messages /\ l.regen = t.link.regen
  BY <1>1 DEF LinkType
<1>4. Follow(t, r) = [t EXCEPT !.link = l, !.status = "busy", !.op = o]
  BY DEF Follow, Tabs
<1> HIDE DEF o, l
<1> QED
  BY <1>2, <1>3, <1>4, TabsAre DEF TabRecords

\* A chat that is opened (Opened).
LEMMA OpenedIs ==
  ASSUME NEW saved \in Session
  PROVE  LET n == Opened(saved) IN
         /\ n \in Tabs
         /\ n.messages = saved.messages /\ n.status = "ready" /\ n.items = <<>>
         /\ ~n.paused /\ ~n.steering /\ ~n.error /\ ~n.sync
         /\ n.link = NoLink /\ n.stop = NoStop /\ n.op.kept = <<>>
         /\ saved.run = 0 => n.op = NoOp
         /\ saved.run # 0 => n.op.kind = "resume" /\ n.op.pc = "asking"
<1> DEFINE o == IF saved.run = 0 THEN NoOp ELSE [NoOp EXCEPT !.kind = "resume", !.pc = "asking"]
<1>1. saved.messages \in Seq(Message)
  BY DEF Session
<1>2. /\ o \in OpType /\ o.kept = <<>> /\ (saved.run = 0 => o = NoOp)
      /\ (saved.run # 0 => o.kind = "resume" /\ o.pc = "asking")
  BY Nothing, Starting
<1>3. NoLink \in LinkType /\ NoStop \in StopType /\ <<>> \in Seq(Nat)
  BY Nothing, EmptySeq
<1>4. Opened(saved) = [messages |-> saved.messages, status |-> "ready", items |-> <<>>,
                       paused |-> FALSE, steering |-> FALSE, error |-> FALSE, sync |-> FALSE,
                       link |-> NoLink, stop |-> NoStop, op |-> o]
  BY DEF Opened
<1> HIDE DEF o
<1>5. PICK ms \in Seq(Message) : ms = saved.messages
  BY <1>1
<1>6. Opened(saved) = [messages |-> ms, status |-> "ready", items |-> <<>>,
                       paused |-> FALSE, steering |-> FALSE, error |-> FALSE, sync |-> FALSE,
                       link |-> NoLink, stop |-> NoStop, op |-> o]
  BY <1>4, <1>5
<1> QED
  BY <1>2, <1>3, <1>5, <1>6, TabsAre DEF TabRecords

\* Only the pause changes.
LEMMA PausedIs ==
  ASSUME NEW t \in Tabs, NEW b \in BOOLEAN
  PROVE  LET n == [t EXCEPT !.paused = b] IN
         /\ n \in Tabs
         /\ n.messages = t.messages /\ n.status = t.status /\ n.items = t.items
         /\ n.paused = b /\ n.steering = t.steering /\ n.error = t.error /\ n.sync = t.sync
         /\ n.link = t.link /\ n.stop = t.stop /\ n.op = t.op
BY TabsAre DEF TabRecords

\* Only what is shown changes.
LEMMA MessagesIs ==
  ASSUME NEW t \in Tabs, NEW ms \in Seq(Message)
  PROVE  LET n == [t EXCEPT !.messages = ms] IN
         /\ n \in Tabs
         /\ n.messages = ms /\ n.status = t.status /\ n.items = t.items
         /\ n.paused = t.paused /\ n.steering = t.steering /\ n.error = t.error /\ n.sync = t.sync
         /\ n.link = t.link /\ n.stop = t.stop /\ n.op = t.op
BY DEF Tabs

\* Only the Stop changes.
LEMMA StopIs ==
  ASSUME NEW t \in Tabs, NEW stop \in StopType
  PROVE  LET n == [t EXCEPT !.stop = stop] IN
         /\ n \in Tabs
         /\ n.messages = t.messages /\ n.status = t.status /\ n.items = t.items
         /\ n.paused = t.paused /\ n.steering = t.steering /\ n.error = t.error /\ n.sync = t.sync
         /\ n.link = t.link /\ n.stop = stop /\ n.op = t.op
BY TabsAre DEF TabRecords

\* The next question of the queue is sent, or nothing changes (Drained).
LEMMA DrainedIs ==
  ASSUME NEW t \in Tabs
  PROVE  \/ Drained(t) = t
         \/ /\ t.op = NoOp /\ ~t.paused /\ ~t.steering /\ t.status = "ready" /\ t.items # <<>>
            /\ Drained(t) = Send([t EXCEPT !.items = Tail(t.items)], Head(t.items))
BY DEF Drained, Idle

\* The queue goes on, or nothing changes (Resumed).
LEMMA ResumedIs ==
  ASSUME NEW t \in Tabs
  PROVE  IF t.status = "error" \/ t.stop # NoStop \/ t.sync THEN Resumed(t) = t
         ELSE Resumed(t) = Drained([t EXCEPT !.paused = FALSE, !.error = FALSE])
BY DEF Resumed

-----------------------------------------------------------------------------
(* What keeps the invariant                                                *)

\* Submissions are read, given up, or asked again.
Lessens(box, less) ==
  /\ less \subseteq Mail
  /\ \A x \in less : \E m \in box :
       /\ x.req = m.req /\ x.messages = m.messages /\ x.regen = m.regen
       /\ (x.mine => m.mine) /\ (x.waited => m.waited /\ x.mine = m.mine)
       /\ x.reply # "none" => x.reply = m.reply /\ x.waited
  /\ \A x, y \in less : x.waited /\ y.waited => x = y

\* Fewer submissions on their way are still in order.
LEMMA LessBox ==
  ASSUME NEW rs, NEW box, NEW less, BoxOK(rs, box), Lessens(box, less)
  PROVE  BoxOK(rs, less)
<1>1. ASSUME NEW x \in less PROVE MailOK(rs, x)
  <2>1. PICK m \in box : /\ x.req = m.req /\ x.messages = m.messages
                         /\ x.reply # "none" => x.reply = m.reply /\ x.waited
    BY DEF Lessens
  <2>2. MailOK(rs, m)
    BY DEF BoxOK
  <2> QED
    BY <2>1, <2>2 DEF MailOK
<1>2. ASSUME NEW x \in less, NEW y \in less, x.req = y.req PROVE x.messages = y.messages
  <2>1. PICK m \in box : x.req = m.req /\ x.messages = m.messages
    BY DEF Lessens
  <2>2. PICK l \in box : y.req = l.req /\ y.messages = l.messages
    BY DEF Lessens
  <2> QED
    BY <1>2, <2>1, <2>2 DEF BoxOK
<1> QED
  BY <1>1, <1>2 DEF BoxOK, Lessens

\* A step of the tab that is not about its submissions.
LEMMA StepKeeps ==
  ASSUME NEW rs, NEW s, NEW rf, NEW box, NEW t, Chat(rs, s, rf, box, t), NEW n \in Tabs, NEW less,
         Lessens(box, less), TabOK(n), FollowOK(n, rs, s, rf), QuietOK(n, rs), FitOK(n, rs, s),
         n.link.req = t.link.req, n.link.messages = t.link.messages, n.link.regen = t.link.regen,
         \A x \in less : x.waited => n.op.pc = "posting",
         Calm(rs) \/ "impatient" \notin Windows =>
           \A m \in box : Pends(rs, rf, m) => ~Loose(n) /\ n.link.run = 0 /\ m.req = t.link.req
  PROVE  Chat(rs, s, rf, less, n)
<1>1. Numbered(rs, rf, less, n)
  <2>1. PICK b \in Nat : \A q \in Used(rs, rf, box, t) : q <= b
    BY DEF Chat, Numbered
  <2>2. Used(rs, rf, less, n) \subseteq Used(rs, rf, box, t)
    BY DEF Used, Lessens
  <2> QED
    BY <2>1, <2>2 DEF Numbered
<1>2. BoxOK(rs, less)
  BY LessBox DEF Chat
<1>3. PostOK(n, rs, rf, less)
  <2>1. PostOK(t, rs, rf, box)
    BY DEF Chat
  <2>2. ASSUME NEW x \in less
        PROVE  /\ x.waited => /\ x.mine /\ n.op.pc = "posting" /\ x.req = n.link.req
                              /\ x.regen = n.link.regen
               /\ x.req = n.link.req => x.messages = n.link.messages
               /\ Calm(rs) \/ "impatient" \notin Windows =>
                    (Pends(rs, rf, x) => ~Loose(n) /\ n.link.run = 0 /\ x.req = n.link.req)
    <3>1. PICK m \in box : /\ x.req = m.req /\ x.messages = m.messages /\ x.regen = m.regen
                           /\ (x.mine => m.mine) /\ (x.waited => m.waited /\ x.mine = m.mine)
      BY DEF Lessens
    <3>2. Pends(rs, rf, x) => Pends(rs, rf, m)
      BY <3>1 DEF Pends
    <3>3. x.waited => x.mine
      BY <2>1, <3>1 DEF PostOK
    <3> QED
      BY <2>1, <3>1, <3>2, <3>3 DEF PostOK
  <2> QED
    BY <2>2 DEF PostOK
<1> QED
  BY <1>1, <1>2, <1>3 DEF Chat, Lessens

\* Nothing is shown of a run: what was shown may be left.
LEMMA UntiedFollow ==
  ASSUME NEW rs \in Seq(Run), NEW s, NEW rf, NEW t, NEW n, FollowOK(t, rs, s, rf),
         n.link.run = t.link.run, n.link.req = t.link.req, n.link.messages = t.link.messages,
         ~Tied(n), n.op.pc \in {"none", "saving"}, n.op.kind # "replay",
         Good(n.messages, rs), Good(n.op.kept, rs),
         Calm(rs) /\ n.op.pc = "saving" => Asking(n.messages),
         n.stop.pc \in {"none", "asking"} \/ n.stop = t.stop
  PROVE  FollowOK(n, rs, s, rf)
<1>1. ~Reads(n) /\ n.op.pc # "opening" /\ n.op.pc # "closing"
  BY DEF Reads
<1>2. Calm(rs) => (n.link.req # 0 => Asking(n.link.messages))
  BY DEF FollowOK, ShownOK
<1>3. Calm(rs) => ShownOK(n, rs, s)
  BY <1>1, <1>2 DEF ShownOK
<1>4. /\ n.stop.pc = "reading" => \A r \in StopOf(n, rs) : rs[r].settled
      /\ n.stop.pc \in {"waiting", "reading"} /\ n.stop.req # 0 => n.stop.req \in rf
  BY DEF FollowOK, StopOf
<1> QED
  BY <1>1, <1>3, <1>4 DEF FollowOK

\* The tab goes on to show what it showed.
LEMMA TiedFollow ==
  ASSUME NEW rs \in Seq(Run), NEW s, NEW rf, NEW t, NEW n, FollowOK(t, rs, s, rf), TabOK(t),
         n.link = t.link, n.stop = t.stop, Tied(t),
         \/ n.messages = t.messages
         \/ t.op.kind = "replay" /\ n.messages = t.op.kept,
         Reads(n) => Reads(t) /\ n.op.draft = t.op.draft /\ n.messages = t.messages,
         n.op.pc \notin {"opening", "saving"}, Good(n.op.kept, rs),
         n.op.pc = "closing" =>
           rs[n.link.run].status # "running" /\ n.link.after = rs[n.link.run].n,
         n.op.kind = "replay" =>
           t.op.kind = "replay" /\ n.op.kept = t.op.kept /\ n.messages = t.messages
  PROVE  FollowOK(n, rs, s, rf)
<1>1. Good(n.messages, rs)
  BY DEF FollowOK
<1>2. n.messages = t.messages \/ ~Unlinked(n)
  BY DEF TabOK, LinksOK, Unlinked
<1>3. Unlinked(n) <=> Unlinked(t)
  BY DEF Unlinked
<1>4. Tied(n) /\ Unlinked(n) => SettledIn(n.messages, rs)
  BY <1>2, <1>3 DEF FollowOK
<1>5. Calm(rs) => ShownOK(n, rs, s)
  <2>1. HAVE Calm(rs)
  <2>2. ShownOK(t, rs, s)
    BY <2>1 DEF FollowOK
  <2>3. Tied(n) /\ n.link.run # 0 => Shows(n.messages, rs, n.link.run)
    BY <2>2 DEF ShownOK
  <2>4. Tied(n) /\ Unlinked(n) /\ s.run # 0 => Shows(n.messages, rs, s.run)
    BY <1>2, <1>3, <2>2 DEF ShownOK
  <2>5. Reads(n) =>
          /\ n.op.draft = Parts(n.link.run, n.link.after)
          /\ IF n.link.after = 0 THEN ~Answered(n.messages)
             ELSE n.messages # <<>> /\ Last(n.messages) = Answer(n.link.run, n.op.draft)
    BY <2>2 DEF ShownOK
  <2>6. n.op.kind = "replay" =>
          Shows(n.op.kept, rs, n.link.run) /\ Asked(n.op.kept) = Asked(n.messages)
    BY <2>2 DEF ShownOK
  <2>7. n.link.req # 0 => Asking(n.link.messages)
    BY <2>2 DEF ShownOK
  <2> QED
    BY <2>3, <2>4, <2>5, <2>6, <2>7 DEF ShownOK
<1>6. Reads(n) => n.link.after <= rs[n.link.run].n
  BY DEF FollowOK
<1>7. /\ n.stop.pc = "reading" => \A r \in StopOf(n, rs) : rs[r].settled
      /\ n.stop.pc \in {"waiting", "reading"} /\ n.stop.req # 0 => n.stop.req \in rf
  BY DEF FollowOK, StopOf
<1>8. Good(n.link.messages, rs) /\ n.link.run <= Len(rs)
      /\ \A r \in ReqIn(rs, n.link.req) : Same(n.link.messages, rs[r].messages)
  BY DEF FollowOK
<1> QED
  BY <1>1, <1>4, <1>5, <1>6, <1>7, <1>8 DEF FollowOK

\* and what is looked for stays the same.
LEMMA TiedFits ==
  ASSUME NEW rs, NEW s, NEW t, NEW n, n.link.run = t.link.run, n.link.req = t.link.req,
         n.link.messages = t.link.messages, n.link.regen = t.link.regen, ~Loose(n)
  PROVE  /\ QuietOK(t, rs) => QuietOK(n, rs)
         /\ FitOK(t, rs, s) /\ (Tied(n) => Tied(t)) => FitOK(n, rs, s)
BY DEF QuietOK, FitOK

\* The tab is ready: no run of its own goes on, and what it shows is saved.
LEMMA LooseFits ==
  ASSUME NEW rs, NEW s, NEW n, Loose(n), n.op.kind \notin {"send", "regenerate"},
         {"impatient", "settling"} \cap Windows = {} =>
           \A r \in 1..Len(rs) : ~(~rs[r].settled /\ rs[r].mine),
         {"withdrawn", "impatient", "settling"} \cap Windows = {} /\ Mine(rs) /\ s.run # 0 =>
           Extends(n.messages, s.messages)
  PROVE  QuietOK(n, rs) /\ FitOK(n, rs, s)
BY DEF QuietOK, FitOK, Tied

\* What is the same extends.
LEMMA SameExtends ==
  ASSUME NEW a \in Seq(Message), NEW b \in Seq(Message)
  PROVE  /\ Same(a, b) => Extends(a, b)
         /\ Extends(a, b) /\ Answered(a) => Same(a, b)
         /\ \A p \in Nat : Extends(a, b) =>
              Extends(Append(a, Question(p)), b) /\ Len(Append(a, Question(p))) > Len(b)
<1>1. Len(a) \in Nat /\ Len(b) \in Nat
  OBVIOUS
<1>2. Same(a, b) => Extends(a, b)
  BY <1>1 DEF Same, Extends
<1>3. ASSUME Extends(a, b), Answered(a) PROVE Same(a, b)
  <2>1. Len(a) \in Nat \ {0} /\ a[Len(a)].run # 0
    BY <1>3, UnansweredIs
  <2>2. Len(b) <= Len(a) /\ (Len(a) > Len(b) => a[Len(a)].run = 0)
    BY <1>1, <1>3, <2>1 DEF Extends
  <2>3. Len(a) = Len(b)
    BY <1>1, <2>1, <2>2
  <2> QED
    BY <1>3, <2>3 DEF Extends, Same
<1>4. ASSUME NEW p \in Nat, Extends(a, b)
      PROVE  Extends(Append(a, Question(p)), b) /\ Len(Append(a, Question(p))) > Len(b)
  <2>1. PICK x \in Message : x = Question(p) /\ x.run = 0
    BY MessageIs
  <2>2. PICK c \in Seq(Message) : c = Append(a, x)
    BY AskedIs
  <2>3. Len(c) = Len(a) + 1 /\ c[Len(a) + 1] = x /\ \A i \in 1..Len(a) : c[i] = a[i]
    BY <2>2, AskedIs
  <2>4. Len(b) <= Len(a)
    BY <1>4 DEF Extends
  <2>5. \A i \in 1..Len(b) : i \in 1..Len(a) /\ c[i].prompt = b[i].prompt /\ c[i].run = b[i].run
    <3>1. TAKE i \in 1..Len(b)
    <3>2. i \in 1..Len(a)
      BY <1>1, <2>4
    <3> QED
      BY <1>4, <2>3, <3>2 DEF Extends
  <2>6. ASSUME NEW i \in 1..Len(c), i > Len(b) PROVE c[i].run = 0
    <3>1. CASE i \in 1..Len(a)
      BY <1>4, <2>3, <2>6, <3>1 DEF Extends
    <3>2. CASE i \notin 1..Len(a)
      <4>1. i = Len(a) + 1
        BY <1>1, <2>3, <3>2
      <4> QED
        BY <2>1, <2>3, <4>1
    <3> QED
      BY <3>1, <3>2
  <2>7. Len(b) <= Len(c) /\ Len(c) > Len(b)
    BY <1>1, <2>3, <2>4
  <2>8. Extends(c, b)
    BY <2>5, <2>6, <2>7 DEF Extends
  <2> QED
    BY <2>1, <2>2, <2>7, <2>8
<1> QED
  BY <1>2, <1>3, <1>4

\* Nobody waits for what is given up.
LEMMA GivenUp ==
  ASSUME NEW rs, NEW box, box \subseteq Mail, BoxOK(rs, box),
         NEW less, less = {[m EXCEPT !.waited = FALSE] : m \in {x \in box : x.reply = "none"}}
  PROVE  Lessens(box, less) /\ \A x \in less : ~x.waited
<1>1. ASSUME NEW x \in less
      PROVE  /\ x \in Mail /\ ~x.waited
             /\ \E m \in box :
                  /\ x.req = m.req /\ x.messages = m.messages /\ x.regen = m.regen
                  /\ (x.mine => m.mine) /\ (x.waited => m.waited /\ x.mine = m.mine)
                  /\ x.reply # "none" => x.reply = m.reply /\ x.waited
  <2>1. PICK m \in box : x = [m EXCEPT !.waited = FALSE] /\ m.reply = "none"
    OBVIOUS
  <2>2. m \in Mail
    OBVIOUS
  <2>3. /\ x \in Mail /\ ~x.waited /\ x.req = m.req /\ x.messages = m.messages /\ x.regen = m.regen
        /\ x.mine = m.mine /\ x.reply = m.reply
    BY <2>1, <2>2 DEF Mail
  <2> QED
    BY <2>1, <2>3
<1> QED
  BY <1>1 DEF Lessens

\* All of the submissions are no more than they were.
LEMMA AllOfIt ==
  ASSUME NEW rs, NEW box, box \subseteq Mail, BoxOK(rs, box)
  PROVE  Lessens(box, box)
BY DEF Lessens, BoxOK, MailOK

-----------------------------------------------------------------------------
(* Steps of the tab                                                        *)

\* The parts of the invariant that most steps use.
LEMMA ChatIs ==
  ASSUME NEW rs, NEW s, NEW rf, NEW box, NEW t, Chat(rs, s, rf, box, t)
  PROVE  /\ rs \in Seq(Run) /\ s \in Session /\ rf \subseteq Nat /\ box \subseteq Mail /\ t \in Tabs
         /\ TabOK(t) /\ FollowOK(t, rs, s, rf) /\ QuietOK(t, rs) /\ FitOK(t, rs, s)
         /\ BoxOK(rs, box) /\ PostOK(t, rs, rf, box) /\ ServerOK(rs, s)
         /\ Good(t.messages, rs) /\ Good(t.op.kept, rs) /\ Good(t.link.messages, rs)
         /\ Lessens(box, box)
         /\ \A x \in box : x.waited => t.op.pc = "posting"
         /\ Good(<<>>, rs)
<1>1. /\ rs \in Seq(Run) /\ s \in Session /\ rf \subseteq Nat /\ box \subseteq Mail /\ t \in Tabs
      /\ TabOK(t) /\ FollowOK(t, rs, s, rf) /\ QuietOK(t, rs) /\ FitOK(t, rs, s)
      /\ BoxOK(rs, box) /\ PostOK(t, rs, rf, box) /\ ServerOK(rs, s)
  BY DEF Chat
<1>2. Lessens(box, box)
  BY <1>1, AllOfIt
<1>3. Good(<<>>, rs)
  BY EmptySeq DEF Good
<1> QED
  BY <1>1, <1>2, <1>3 DEF FollowOK, PostOK

\* A step that changes none of what the tab shows.
LEMMA CoreKeeps ==
  ASSUME NEW rs, NEW s, NEW rf, NEW box, NEW t, Chat(rs, s, rf, box, t), NEW n \in Tabs, TabOK(n),
         n.messages = t.messages, n.status = t.status, n.op = t.op, n.link = t.link, n.sync = t.sync,
         \/ n.stop.pc = "none"
         \/ n.stop.pc = t.stop.pc /\ n.stop.run = t.stop.run /\ n.stop.req = t.stop.req
  PROVE  Chat(rs, s, rf, box, n)
<1>1. /\ Loose(n) <=> Loose(t)
      /\ Tied(n) <=> Tied(t)
      /\ Reads(n) <=> Reads(t)
      /\ Unlinked(n) <=> Unlinked(t)
  BY DEF Loose, Tied, Reads, Unlinked
<1>2. ShownOK(t, rs, s) => ShownOK(n, rs, s)
  BY <1>1 DEF ShownOK
<1>3. /\ n.stop.pc = "reading" => \A r \in StopOf(n, rs) : rs[r].settled
      /\ n.stop.pc \in {"waiting", "reading"} /\ n.stop.req # 0 => n.stop.req \in rf
  BY ChatIs DEF FollowOK, StopOf
<1>4. FollowOK(n, rs, s, rf)
  BY <1>1, <1>2, <1>3, ChatIs DEF FollowOK
<1>5. QuietOK(n, rs)
  BY <1>1, ChatIs DEF QuietOK
<1>6. FitOK(n, rs, s)
  <2>1. FitOK(t, rs, s)
    BY ChatIs
  <2> QED
    BY <1>1, <2>1 DEF FitOK
<1>7. Calm(rs) \/ "impatient" \notin Windows =>
        \A m \in box : Pends(rs, rf, m) => ~Loose(n) /\ n.link.run = 0 /\ m.req = t.link.req
  BY <1>1, ChatIs DEF PostOK
<1>8. Lessens(box, box) /\ \A x \in box : x.waited => n.op.pc = "posting"
  BY ChatIs
<1> QED
  BY <1>4, <1>5, <1>6, <1>7, <1>8, StepKeeps

\* The queue may change at any time.
LEMMA ItemsKeep ==
  ASSUME NEW rs, NEW s, NEW rf, NEW box, NEW t, Chat(rs, s, rf, box, t), NEW q \in Seq(Nat),
         0 \notin ToSet(q)
  PROVE  Chat(rs, s, rf, box, [t EXCEPT !.items = q])
<1>1. t \in Tabs /\ TabOK(t)
  BY ChatIs
<1>2. PICK n \in Tabs : n = [t EXCEPT !.items = q]
  BY <1>1, ItemsIs
<1>3. /\ n.messages = t.messages /\ n.status = t.status /\ n.items = q /\ n.paused = t.paused
      /\ n.steering = t.steering /\ n.error = t.error /\ n.sync = t.sync /\ n.link = t.link
      /\ n.stop = t.stop /\ n.op = t.op
  BY <1>1, <1>2, ItemsIs
<1>4. TabOK(n)
  BY <1>1, <1>3 DEF TabOK, StepsOK, LinksOK, StopsOK, Reads, Unlinked, Tied, Loose
<1> QED
  BY <1>2, <1>3, <1>4, CoreKeeps

\* A question is sent when nothing goes on.
LEMMA SendKeeps ==
  ASSUME NEW rs, NEW s, NEW rf, NEW box, NEW t, Chat(rs, s, rf, box, t), NEW p \in Nat \ {0},
         t.op = NoOp, t.status = "ready", ~t.paused, ~t.steering
  PROVE  Chat(rs, s, rf, box, Send(t, p))
<1>1. t \in Tabs /\ TabOK(t) /\ rs \in Seq(Run) /\ s \in Session
  BY ChatIs
<1>2. PICK n \in Tabs : n = Send(t, p)
  BY <1>1, SendIs
<1>3. /\ n.messages = Append(t.messages, Question(p)) /\ n.status = "busy"
      /\ n.items = t.items /\ n.paused = t.paused /\ n.steering = t.steering
      /\ n.error = t.error /\ n.sync = t.sync /\ n.link = t.link /\ n.stop = t.stop
      /\ n.op.kind = "send" /\ n.op.pc = "saving" /\ n.op.kept = <<>>
  BY <1>1, <1>2, SendIs
<1>4. t.op.pc = "none" /\ t.op.kind = "none" /\ NoOp.pc = "none"
  BY Nothing
<1>5. ~t.sync /\ t.stop = NoStop /\ ~t.error
  BY <1>1 DEF TabOK, StopsOK
<1>6. n.op # NoOp
  BY <1>3, <1>4
<1>7. NoStop.pc = "none" /\ NoStop.then = "none"
  BY Nothing
<1>8. StepsOK(n)
  BY <1>3, <1>6 DEF StepsOK, Reads
<1>9. Loose(n) /\ Loose(t) /\ ~Tied(n)
  BY <1>3, <1>4, <1>5 DEF Loose, Tied
<1>10. LinksOK(n)
  BY <1>1, <1>3, <1>9 DEF TabOK, LinksOK, Reads
<1>11. StopsOK(n)
  BY <1>1, <1>3, <1>5, <1>7 DEF TabOK, StopsOK
<1>12. TabOK(n)
  BY <1>1, <1>3, <1>8, <1>10, <1>11 DEF TabOK
<1>13. Good(n.messages, rs) /\ Good(n.op.kept, rs) /\ Asking(n.messages)
  <2>1. t.messages \in Seq(Message) /\ Good(t.messages, rs) /\ Good(<<>>, rs)
    BY <1>1, TabTypes, ChatIs
  <2>2. PICK x \in Message : x = Question(p) /\ x.run = 0
    BY MessageIs
  <2>3. Asking(n.messages)
    BY <1>3, <2>1, <2>2, AskedIs DEF Asking
  <2> QED
    BY <1>1, <1>3, <2>1, <2>3, GoodQuestion
<1>14. FollowOK(n, rs, s, rf)
  <2>1. FollowOK(t, rs, s, rf)
    BY ChatIs
  <2> QED
    BY <1>1, <1>3, <1>5, <1>7, <1>9, <1>13, <2>1, UntiedFollow
<1>15. QuietOK(n, rs)
  <2>1. QuietOK(t, rs)
    BY ChatIs
  <2> QED
    BY <1>9, <2>1 DEF QuietOK
<1>16. FitOK(n, rs, s)
  <2>1. FitOK(t, rs, s) /\ t.messages \in Seq(Message) /\ s.messages \in Seq(Message)
    BY <1>1, ChatIs, TabTypes DEF Session
  <2>2. Extends(t.messages, s.messages) =>
          Extends(n.messages, s.messages) /\ Len(n.messages) > Len(s.messages)
    BY <1>3, <2>1, SameExtends
  <2> QED
    BY <1>3, <1>4, <1>9, <2>1, <2>2 DEF FitOK
<1>17. Calm(rs) \/ "impatient" \notin Windows =>
         \A m \in box : Pends(rs, rf, m) => ~Loose(n) /\ n.link.run = 0 /\ m.req = t.link.req
  BY <1>9, ChatIs DEF PostOK
<1>18. Lessens(box, box) /\ \A x \in box : x.waited => n.op.pc = "posting"
  BY <1>4, ChatIs
<1> QED
  BY <1>2, <1>3, <1>12, <1>14, <1>15, <1>16, <1>17, <1>18, StepKeeps

\* The next question may be sent; the chat changes when it is.
LEMMA DrainedKeeps ==
  ASSUME NEW rs, NEW s, NEW rf, NEW box, NEW t, Chat(rs, s, rf, box, t)
  PROVE  /\ Chat(rs, s, rf, box, Drained(t))
         /\ Drained(t) = t \/ Drained(t).messages # t.messages
<1>1. t \in Tabs /\ TabOK(t)
  BY ChatIs
<1>2. CASE Drained(t) = t
  BY <1>2
<1>3. CASE Drained(t) # t
  <2>1. /\ t.op = NoOp /\ ~t.paused /\ ~t.steering /\ t.status = "ready" /\ t.items # <<>>
        /\ Drained(t) = Send([t EXCEPT !.items = Tail(t.items)], Head(t.items))
    BY <1>1, <1>3, DrainedIs
  <2>2. t.items \in Seq(Nat) /\ 0 \notin ToSet(t.items)
    BY <1>1, TabTypes DEF TabOK
  <2>3. PICK q \in Seq(Nat), p \in Nat \ {0} :
          q = Tail(t.items) /\ p = Head(t.items) /\ 0 \notin ToSet(q)
    BY <2>1, <2>2, HeadTail
  <2>4. PICK u \in Tabs : u = [t EXCEPT !.items = q]
    BY <1>1, ItemsIs
  <2>5. Chat(rs, s, rf, box, u)
    BY <2>3, <2>4, ItemsKeep
  <2>6. /\ u.op = NoOp /\ u.status = "ready" /\ ~u.paused /\ ~u.steering /\ u.messages = t.messages
    BY <1>1, <2>1, <2>4, ItemsIs
  <2>7. Chat(rs, s, rf, box, Send(u, p))
    BY <2>5, <2>6, SendKeeps
  <2>8. Send(u, p).messages = Append(t.messages, Question(p))
    <3>1. p \in Nat
      OBVIOUS
    <3>2. Send(u, p).messages = Append(u.messages, Question(p))
      BY <3>1, SendIs
    <3> QED
      BY <2>6, <3>2
  <2>9. Append(t.messages, Question(p)) # t.messages
    <3>1. Len(Append(t.messages, Question(p))) = Len(t.messages) + 1 /\ Len(t.messages) \in Nat
      BY <1>1, TabTypes, MessageIs, AskedIs
    <3> QED
      BY <3>1
  <2> QED
    BY <2>1, <2>3, <2>4, <2>7, <2>8, <2>9
<1> QED
  BY <1>2, <1>3

\* While something goes on there is no Stop.
LEMMA Working ==
  ASSUME NEW t \in Tabs, TabOK(t), t.op.pc # "none"
  PROVE  /\ ~t.sync /\ t.stop = NoStop /\ ~t.steering /\ ~t.error /\ t.op # NoOp /\ t.op.kind # "none"
         /\ t.op.pc # "saving" \/ t.op.kind = "replay" => Tied(t) /\ ~Loose(t)
<1>1. NoOp.pc = "none" /\ NoStop.then = "none"
  BY Nothing
<1>2. ~t.sync
  BY DEF TabOK, StopsOK
<1>3. t.stop = NoStop /\ ~t.error
  BY <1>2 DEF TabOK, StopsOK
<1>4. ~t.steering
  BY <1>1, <1>3 DEF TabOK, StopsOK
<1> QED
  BY <1>1, <1>2, <1>3, <1>4, TabTypes DEF TabOK, StepsOK, Tied, Loose

\* A step of the tab to one that still shows the same.
LEMMA TiedKeeps ==
  ASSUME NEW rs, NEW s, NEW rf, NEW box, NEW t, Chat(rs, s, rf, box, t), NEW n \in Tabs, TabOK(n),
         NEW less, Lessens(box, less), \A x \in less : x.waited => n.op.pc = "posting",
         Tied(t), Tied(n), n.link = t.link, n.stop = t.stop,
         \/ n.messages = t.messages
         \/ t.op.kind = "replay" /\ n.messages = t.op.kept,
         Reads(n) => Reads(t) /\ n.op.draft = t.op.draft /\ n.messages = t.messages,
         n.op.pc \notin {"opening", "saving"}, Good(n.op.kept, rs),
         n.op.pc = "closing" =>
           rs[n.link.run].status # "running" /\ n.link.after = rs[n.link.run].n,
         n.op.kind = "replay" =>
           t.op.kind = "replay" /\ n.op.kept = t.op.kept /\ n.messages = t.messages
  PROVE  Chat(rs, s, rf, less, n)
<1>1. FollowOK(n, rs, s, rf)
  BY ChatIs, TiedFollow
<1>2. ~Loose(n)
  BY DEF Tied
<1>3. QuietOK(n, rs) /\ FitOK(n, rs, s)
  <2>1. QuietOK(t, rs) /\ FitOK(t, rs, s)
    BY ChatIs
  <2> QED
    BY <1>2, <2>1, TiedFits
<1>4. Calm(rs) \/ "impatient" \notin Windows =>
        \A m \in box : Pends(rs, rf, m) => ~Loose(n) /\ n.link.run = 0 /\ m.req = t.link.req
  <2>1. PostOK(t, rs, rf, box)
    BY ChatIs
  <2> QED
    BY <1>2, <2>1 DEF PostOK
<1> QED
  BY <1>1, <1>3, <1>4, StepKeeps

\* A turn ends with an error.
LEMMA ErrorKeeps ==
  ASSUME NEW rs, NEW s, NEW rf, NEW box, NEW t, Chat(rs, s, rf, box, t),
         t.op.pc \in {"posting", "asking", "opening", "reading", "reconnecting", "closing"},
         NEW less, Lessens(box, less), \A x \in less : ~x.waited
  PROVE  Chat(rs, s, rf, less, Over(t, "error")) /\ Drained(Over(t, "error")) = Over(t, "error")
<1>1. t \in Tabs /\ TabOK(t) /\ Good(<<>>, rs)
  BY ChatIs
<1>2. PICK n \in Tabs : n = Over(t, "error")
  BY <1>1, OverIs
<1>3. /\ n.messages = t.messages \/ (t.op.kind = "replay" /\ n.messages = t.op.kept)
      /\ n.status = "error" /\ n.items = t.items /\ n.paused
      /\ n.steering = t.steering /\ n.error = t.error /\ n.sync = t.sync /\ n.link = t.link
      /\ n.stop = t.stop /\ n.op = NoOp
  <2>1. "error" \in {"ready", "busy", "error"}
    OBVIOUS
  <2>2. /\ n.messages = IF t.op.kind = "replay" /\ Len(t.messages) < Len(t.op.kept)
                        THEN t.op.kept ELSE t.messages
        /\ n.status = "error" /\ n.items = t.items /\ n.paused = (t.paused \/ "error" = "error")
        /\ n.steering = t.steering /\ n.error = t.error /\ n.sync = t.sync /\ n.link = t.link
        /\ n.stop = t.stop /\ n.op = NoOp
    BY <1>1, <1>2, <2>1, OverIs
  <2> QED
    BY <2>2
<1>4. NoOp.pc = "none" /\ NoOp.kind = "none" /\ NoOp.kept = <<>> /\ NoStop.pc = "none" /\ NoStop.then = "none"
  BY Nothing
<1>5. ~t.sync /\ t.stop = NoStop /\ ~t.steering /\ ~t.error /\ Tied(t)
  BY <1>1, Working
<1>6. ~Loose(n) /\ Tied(n) /\ ~Reads(n)
  BY <1>3, <1>4, <1>5 DEF Loose, Tied, Reads
<1>7. StepsOK(n)
  BY <1>3, <1>4, <1>6 DEF StepsOK
<1>8. t.op.kind = "replay" => t.link.run # 0
  BY <1>1 DEF TabOK, LinksOK
<1>9. LinksOK(n)
  <2>1. LinksOK(t)
    BY <1>1 DEF TabOK
  <2> QED
    BY <1>3, <1>4, <1>5, <1>6, <1>8, <2>1 DEF LinksOK
<1>10. StopsOK(n)
  BY <1>3, <1>4, <1>5 DEF StopsOK
<1>11. TabOK(n)
  BY <1>1, <1>3, <1>7, <1>9, <1>10 DEF TabOK
<1>12. Chat(rs, s, rf, less, n)
  BY <1>1, <1>3, <1>4, <1>5, <1>6, <1>11, TiedKeeps
<1>13. Drained(n) = n
  BY <1>3, DrainedIs
<1> QED
  BY <1>2, <1>12, <1>13

\* A Retry fails.
LEMMA ThrownKeeps ==
  ASSUME NEW rs, NEW s, NEW rf, NEW box, NEW t, Chat(rs, s, rf, box, t), t.op.pc = "status",
         NEW less, Lessens(box, less), \A x \in less : ~x.waited
  PROVE  Chat(rs, s, rf, less, Thrown(t))
<1>1. t \in Tabs /\ TabOK(t) /\ Good(<<>>, rs)
  BY ChatIs
<1>2. PICK n \in Tabs : n = Thrown(t)
  BY <1>1, ThrownIs
<1>3. /\ n.messages = t.messages /\ n.status = t.status /\ n.items = t.items /\ n.paused
      /\ n.steering = t.steering /\ n.error /\ n.sync = t.sync /\ n.link = t.link
      /\ n.stop = t.stop /\ n.op = NoOp
  BY <1>1, <1>2, ThrownIs
<1>4. NoOp.pc = "none" /\ NoOp.kind = "none" /\ NoOp.kept = <<>> /\ NoStop.pc = "none" /\ NoStop.then = "none"
  BY Nothing
<1>5. ~t.sync /\ t.stop = NoStop /\ ~t.steering /\ Tied(t)
  BY <1>1, Working
<1>6. t.status = "error"
  BY <1>1 DEF TabOK, StepsOK
<1>7. ~Loose(n) /\ Tied(n) /\ ~Reads(n)
  BY <1>3, <1>4, <1>5, <1>6 DEF Loose, Tied, Reads
<1>8. StepsOK(n)
  BY <1>3, <1>4, <1>6, <1>7 DEF StepsOK
<1>9. LinksOK(n)
  <2>1. LinksOK(t)
    BY <1>1 DEF TabOK
  <2> QED
    BY <1>3, <1>4, <1>5, <1>7, <2>1 DEF LinksOK
<1>10. StopsOK(n)
  BY <1>3, <1>4, <1>5, <1>6 DEF StopsOK
<1>11. TabOK(n)
  BY <1>1, <1>3, <1>8, <1>9, <1>10 DEF TabOK
<1> QED
  BY <1>1, <1>2, <1>3, <1>4, <1>5, <1>7, <1>11, TiedKeeps

\* Retry, of a tab that ended with an error.
LEMMA RetryKeeps ==
  ASSUME NEW rs, NEW s, NEW rf, NEW box, NEW t, Chat(rs, s, rf, box, t), t.op = NoOp, ~t.sync,
         t.stop = NoStop, t.status = "error"
  PROVE  LET v == [t EXCEPT !.paused = FALSE, !.error = FALSE,
                            !.op = [NoOp EXCEPT !.kind = "retry", !.pc = "status"]] IN
         Chat(rs, s, rf, box, v) /\ v.messages = t.messages /\ v.items = t.items
<1>1. t \in Tabs /\ TabOK(t) /\ Good(<<>>, rs) /\ Lessens(box, box)
      /\ \A x \in box : x.waited => t.op.pc = "posting"
  BY ChatIs
<1>2. PICK o \in OpType : o = [NoOp EXCEPT !.kind = "retry", !.pc = "status"] /\ o.kind = "retry"
                          /\ o.pc = "status" /\ o.kept = <<>>
  BY Starting
<1>3. PICK u \in Tabs : u = [t EXCEPT !.paused = FALSE, !.error = FALSE]
  BY <1>1, ClearedIs
<1>4. PICK n \in Tabs : n = [u EXCEPT !.op = o]
  BY <1>3, OpIs
<1>0. n = [t EXCEPT !.paused = FALSE, !.error = FALSE,
                    !.op = [NoOp EXCEPT !.kind = "retry", !.pc = "status"]]
  BY <1>1, <1>2, <1>3, <1>4, TabsAre DEF TabRecords
<1>5. /\ n.messages = t.messages /\ n.status = "error" /\ n.items = t.items /\ ~n.paused
      /\ n.steering = t.steering /\ ~n.error /\ n.sync = t.sync /\ n.link = t.link
      /\ n.stop = t.stop /\ n.op = o
  <2>1. /\ u.messages = t.messages /\ u.status = t.status /\ u.items = t.items /\ ~u.paused
        /\ u.steering = t.steering /\ ~u.error /\ u.sync = t.sync /\ u.link = t.link
        /\ u.stop = t.stop
    BY <1>1, <1>3, ClearedIs
  <2>2. /\ n.messages = u.messages /\ n.status = u.status /\ n.items = u.items
        /\ n.paused = u.paused /\ n.steering = u.steering /\ n.error = u.error /\ n.sync = u.sync
        /\ n.link = u.link /\ n.stop = u.stop /\ n.op = o
    BY <1>3, <1>4, OpIs
  <2> QED
    BY <2>1, <2>2
<1>6. NoOp.pc = "none" /\ NoOp.kind = "none" /\ NoStop.pc = "none" /\ NoStop.then = "none"
  BY Nothing
<1>7. ~Loose(n) /\ Tied(n) /\ ~Reads(n) /\ Tied(t)
  BY <1>2, <1>5, <1>6 DEF Loose, Tied, Reads
<1>8. StepsOK(n)
  BY <1>2, <1>5, <1>6, <1>7 DEF StepsOK
<1>9. LinksOK(n)
  <2>1. LinksOK(t)
    BY <1>1 DEF TabOK
  <2> QED
    BY <1>2, <1>5, <1>7, <2>1 DEF LinksOK
<1>10. StopsOK(n)
  <2>1. StopsOK(t)
    BY <1>1 DEF TabOK
  <2> QED
    BY <1>2, <1>5, <1>6, <2>1 DEF StopsOK
<1>11. TabOK(n)
  BY <1>1, <1>5, <1>8, <1>9, <1>10 DEF TabOK
<1>12. \A x \in box : ~x.waited
  BY <1>1, <1>6
<1>13. Chat(rs, s, rf, box, n)
  BY <1>1, <1>2, <1>5, <1>7, <1>11, <1>12, TiedKeeps
<1> QED
  BY <1>0, <1>5, <1>13

\* A step of a turn: o is its operation then.
LEMMA TurnKeeps ==
  ASSUME NEW rs, NEW s, NEW rf, NEW box, NEW t, Chat(rs, s, rf, box, t), NEW o \in OpType,
         \/ t.op.pc = "posting" /\ o.pc = "posting" /\ o.kind = t.op.kind
         \/ Reads(t) /\ o.pc \in {"reading", "reconnecting", "closing"} /\ o.kind = t.op.kind
         \/ t.op.pc = "status" /\ t.link.run = 0 /\ o.pc = "asking" /\ o.kind = "resume",
         o.draft = t.op.draft, o.kept = t.op.kept,
         o.pc = "closing" =>
           rs[t.link.run].status # "running" /\ t.link.after = rs[t.link.run].n,
         NEW less, Lessens(box, less), \A x \in less : x.waited => o.pc = "posting"
  PROVE  Chat(rs, s, rf, less, [t EXCEPT !.op = o])
<1>1. t \in Tabs /\ TabOK(t) /\ Good(t.op.kept, rs)
  BY ChatIs
<1>2. PICK n \in Tabs : n = [t EXCEPT !.op = o]
  BY <1>1, OpIs
<1>3. /\ n.messages = t.messages /\ n.status = t.status /\ n.items = t.items
      /\ n.paused = t.paused /\ n.steering = t.steering /\ n.error = t.error /\ n.sync = t.sync
      /\ n.link = t.link /\ n.stop = t.stop /\ n.op = o
  BY <1>1, <1>2, OpIs
<1>4. NoOp.pc = "none" /\ NoOp.kind = "none" /\ NoStop.pc = "none" /\ NoStop.then = "none"
  BY Nothing
<1>5. t.op.pc \in {"posting", "status", "reading", "reconnecting", "closing"}
  BY DEF Reads
<1>6. ~t.sync /\ t.stop = NoStop /\ ~t.steering /\ ~t.error /\ Tied(t) /\ t.op.kind # "none"
  BY <1>1, <1>5, Working
<1>7. o.pc \notin {"none", "saving", "opening", "status"} /\ o # NoOp /\ o.kind # "none"
  BY <1>4, <1>6
<1>8. ~Loose(n) /\ Tied(n) /\ (Reads(n) => Reads(t))
  BY <1>3, <1>6, <1>7 DEF Loose, Tied, Reads
<1>9. StepsOK(n)
  <2>1. StepsOK(t)
    BY <1>1 DEF TabOK
  <2> QED
    BY <1>3, <1>5, <1>7, <1>8, <2>1 DEF StepsOK, Reads
<1>10. LinksOK(n)
  <2>1. LinksOK(t)
    BY <1>1 DEF TabOK
  <2> QED
    BY <1>3, <1>6, <1>7, <1>8, <2>1 DEF LinksOK
<1>11. StopsOK(n)
  BY <1>3, <1>4, <1>6 DEF StopsOK
<1>12. TabOK(n)
  BY <1>1, <1>3, <1>9, <1>10, <1>11 DEF TabOK
<1>13. n.op.kind = "replay" => t.op.kind = "replay"
  BY <1>3
<1> QED
  BY <1>1, <1>2, <1>3, <1>6, <1>7, <1>8, <1>12, <1>13, TiedKeeps

\* Two chats are the same when they are but for an answer that both end with.
LEMMA SameIf ==
  ASSUME NEW a \in Seq(Message), NEW b \in Seq(Message), Same(Unanswered(a), Unanswered(b)),
         Answered(a) <=> Answered(b),
         Answered(a) => Last(a).run = Last(b).run /\ Last(a).prompt = Last(b).prompt
  PROVE  Same(a, b)
<1>1. CASE ~Answered(a)
  BY <1>1, UnansweredIs
<1>2. CASE Answered(a)
  <2>1. /\ Len(Unanswered(a)) = Len(a) - 1 /\ Len(Unanswered(b)) = Len(b) - 1
        /\ Len(a) \in Nat \ {0} /\ Len(b) \in Nat \ {0}
        /\ Last(a) = a[Len(a)] /\ Last(b) = b[Len(b)]
        /\ \A i \in 1..Len(Unanswered(a)) : Unanswered(a)[i] = a[i]
        /\ \A i \in 1..Len(Unanswered(b)) : Unanswered(b)[i] = b[i]
    BY <1>2, UnansweredIs
  <2>2. Len(a) = Len(b)
    <3>1. Len(Unanswered(a)) = Len(Unanswered(b))
      BY DEF Same
    <3>2. Len(a) - 1 = Len(b) - 1
      BY <2>1, <3>1
    <3> QED
      BY <2>1, <3>2
  <2>3. ASSUME NEW i \in 1..Len(a) PROVE a[i].prompt = b[i].prompt /\ a[i].run = b[i].run
    <3>1. CASE i = Len(a)
      BY <1>2, <2>1, <2>2, <3>1
    <3>2. CASE i # Len(a)
      <4>1. i \in 1..Len(Unanswered(a)) /\ i \in 1..Len(Unanswered(b))
        BY <2>1, <2>2, <3>2
      <4> QED
        BY <2>1, <4>1 DEF Same
    <3> QED
      BY <3>1, <3>2
  <2> QED
    BY <2>2, <2>3 DEF Same
<1> QED
  BY <1>1, <1>2

\* A chat that shows a run with its answer, when it has one, is its transcript.
LEMMA TranscriptShown ==
  ASSUME NEW rs \in Seq(Run), NEW r \in 1..Len(rs), NEW ms \in Seq(Message), Good(ms, rs),
         Shows(ms, rs, r), Good(rs[r].messages, rs), Asking(rs[r].messages),
         Answered(ms) <=> rs[r].n # 0
  PROVE  Same(ms, TranscriptOf(rs, r))
<1>1. rs[r].messages \in Seq(Message)
  BY RunTypes
<1>2. PICK b \in Seq(Message) : b = TranscriptOf(rs, r)
  BY TranscriptIs
<1>3. Unanswered(b) = rs[r].messages /\ (Answered(b) <=> rs[r].n # 0)
      /\ (Answered(b) => Last(b).run = r)
  BY <1>2, TranscriptIs
<1>4. Same(Unanswered(ms), rs[r].messages) /\ (Answered(ms) => Last(ms).run = r)
  BY <1>1, ShowsIs
<1>5. Answered(ms) => Last(ms).prompt = 0
  <2>1. HAVE Answered(ms)
  <2>2. Len(ms) \in Nat \ {0} /\ ms[Len(ms)].run # 0 /\ Last(ms) = ms[Len(ms)]
    BY <2>1, UnansweredIs
  <2>3. Len(ms) \in 1..Len(ms)
    BY <2>2
  <2> QED
    BY <2>2, <2>3, GoodIs
<1>6. Answered(b) => Last(b).prompt = 0
  <2>1. HAVE Answered(b)
  <2>2. rs[r].n # 0 /\ rs[r].n \in Nat /\ r \in Nat
    BY <1>3, <2>1, RunTypes
  <2>3. Parts(r, rs[r].n) \in Seq(Nat \X Nat)
    BY <2>2, PartsIs
  <2>4. PICK x \in Message : x = Answer(r, Parts(r, rs[r].n)) /\ x.prompt = 0
    BY <2>2, <2>3, MessageIs
  <2>5. b = rs[r].messages \o <<x>>
    BY <1>2, <2>2, <2>4 DEF TranscriptOf
  <2>6. b = Append(rs[r].messages, x)
    BY <1>1, <2>5, AppendIsConcat
  <2> QED
    BY <1>1, <2>4, <2>6, AskedIs
<1> QED
  BY <1>2, <1>3, <1>4, <1>5, <1>6, SameIf

\* What the server says of the run that the tab shows.
LEMMA ShownRun ==
  ASSUME NEW rs, NEW s, NEW rf, NEW box, NEW t, Chat(rs, s, rf, box, t), NEW r \in 1..Len(rs)
  PROVE  /\ Good(rs[r].messages, rs) /\ SettledIn(rs[r].messages, rs)
         /\ Calm(rs) => Asking(rs[r].messages) /\ PromptOf(rs, r) \in Asked(s.messages)
         /\ ~rs[r].settled => r = s.run
         /\ rs[r].settled => rs[r].status # "running"
         /\ rs[r].mine => rs[r].req # 0
BY ChatIs DEF ServerOK, RunOK

\* A turn ends well.
LEMMA ReadyKeeps ==
  ASSUME NEW rs, NEW s, NEW rf, NEW box, NEW t, Chat(rs, s, rf, box, t),
         t.op.pc \in {"asking", "closing"},
         NEW less, Lessens(box, less), \A x \in less : ~x.waited,
         {"impatient", "settling"} \cap Windows = {} =>
           \A r \in 1..Len(rs) : ~(~rs[r].settled /\ rs[r].mine),
         {"withdrawn", "impatient", "settling"} \cap Windows = {} /\ Mine(rs) /\ s.run # 0 =>
           Extends(Over(t, "ready").messages, s.messages),
         Calm(rs) \/ "impatient" \notin Windows => \A m \in box : ~Pends(rs, rf, m)
  PROVE  Chat(rs, s, rf, less, Over(t, "ready"))
<1>1. t \in Tabs /\ TabOK(t) /\ Good(<<>>, rs) /\ Good(t.messages, rs) /\ Good(t.op.kept, rs)
      /\ rs \in Seq(Run) /\ FollowOK(t, rs, s, rf)
  BY ChatIs
<1>2. PICK n \in Tabs : n = Over(t, "ready")
  BY <1>1, OverIs
<1>3. /\ n.messages = t.messages \/ (t.op.kind = "replay" /\ n.messages = t.op.kept)
      /\ n.status = "ready" /\ n.items = t.items /\ n.paused = t.paused
      /\ n.steering = t.steering /\ n.error = t.error /\ n.sync = t.sync /\ n.link = t.link
      /\ n.stop = t.stop /\ n.op = NoOp
  <2>1. "ready" \in {"ready", "busy", "error"}
    OBVIOUS
  <2>2. /\ n.messages = IF t.op.kind = "replay" /\ Len(t.messages) < Len(t.op.kept)
                        THEN t.op.kept ELSE t.messages
        /\ n.status = "ready" /\ n.items = t.items /\ n.paused = (t.paused \/ "ready" = "error")
        /\ n.steering = t.steering /\ n.error = t.error /\ n.sync = t.sync /\ n.link = t.link
        /\ n.stop = t.stop /\ n.op = NoOp
    BY <1>1, <1>2, <2>1, OverIs
  <2>3. t.paused \in BOOLEAN
    BY <1>1, TabTypes
  <2> QED
    BY <2>2, <2>3
<1>4. NoOp.pc = "none" /\ NoOp.kind = "none" /\ NoOp.kept = <<>> /\ NoStop.pc = "none" /\ NoStop.then = "none"
  BY Nothing
<1>5. ~t.sync /\ t.stop = NoStop /\ ~t.steering /\ ~t.error /\ Tied(t)
  BY <1>1, Working
<1>6. Loose(n) /\ ~Tied(n) /\ ~Reads(n)
  BY <1>3, <1>4, <1>5 DEF Loose, Tied, Reads
<1>7. StepsOK(n)
  BY <1>3, <1>4, <1>6 DEF StepsOK
<1>8. LinksOK(n)
  <2>1. LinksOK(t)
    BY <1>1 DEF TabOK
  <2> QED
    BY <1>3, <1>4, <1>5, <1>6, <2>1 DEF LinksOK
<1>9. StopsOK(n)
  BY <1>3, <1>4, <1>5 DEF StopsOK
<1>10. TabOK(n)
  BY <1>1, <1>3, <1>7, <1>8, <1>9 DEF TabOK
<1>11. FollowOK(n, rs, s, rf)
  BY <1>1, <1>3, <1>4, <1>5, <1>6, UntiedFollow
<1>12. QuietOK(n, rs) /\ FitOK(n, rs, s)
  BY <1>2, <1>3, <1>4, <1>6, LooseFits
<1> QED
  BY <1>2, <1>3, <1>10, <1>11, <1>12, StepKeeps

\* The stream of a run that is settled is closed.
LEMMA ClosedKeeps ==
  ASSUME NEW rs, NEW s, NEW rf, NEW box, NEW t, Chat(rs, s, rf, box, t), t.op.pc = "closing",
         rs[t.link.run].settled \/ "settling" \in Windows,
         NEW less, Lessens(box, less), \A x \in less : ~x.waited
  PROVE  Chat(rs, s, rf, less, Over(t, "ready"))
<1>1. /\ t \in Tabs /\ TabOK(t) /\ Good(t.messages, rs) /\ Good(t.op.kept, rs) /\ rs \in Seq(Run)
      /\ FollowOK(t, rs, s, rf) /\ QuietOK(t, rs) /\ FitOK(t, rs, s) /\ PostOK(t, rs, rf, box)
      /\ s \in Session /\ ServerOK(rs, s)
  BY ChatIs
<1>2. Reads(t) /\ Tied(t) /\ ~Loose(t) /\ t.link.run \in Nat /\ t.messages \in Seq(Message)
      /\ t.op.kept \in Seq(Message) /\ t.link.after \in Nat
  BY <1>1, Working, TabTypes DEF Reads
<1>3. t.link.run \in 1..Len(rs) /\ t.link.after = rs[t.link.run].n
  <2>1. t.link.run # 0
    BY <1>1, <1>2 DEF TabOK, LinksOK
  <2>2. t.link.run <= Len(rs) /\ t.link.after = rs[t.link.run].n
    BY <1>1 DEF FollowOK
  <2> QED
    BY <1>1, <1>2, <2>1, <2>2
<1>4. {"impatient", "settling"} \cap Windows = {} =>
        \A r \in 1..Len(rs) : ~(~rs[r].settled /\ rs[r].mine)
  BY <1>1, <1>3 DEF QuietOK
<1>5. ASSUME {"withdrawn", "impatient", "settling"} \cap Windows = {}, Mine(rs), s.run # 0
      PROVE  Extends(Over(t, "ready").messages, s.messages)
  <2>1. Calm(rs)
    BY <1>5 DEF Calm
  <2>2. t.link.run = s.run
    BY <1>1, <1>2, <1>3, <1>5 DEF FitOK
  <2>3. rs[s.run].settled
    BY <1>5, <2>2
  <2>4. PICK r \in 1..Len(rs) : r = s.run
    BY <1>3, <2>2
  <2>5. s.messages = TranscriptOf(rs, r) /\ s.messages \in Seq(Message)
    BY <1>1, <1>5, <2>3, <2>4 DEF ServerOK, Session
  <2>6. Asking(rs[r].messages) /\ Good(rs[r].messages, rs) /\ rs[r].messages \in Seq(Message)
    BY <1>1, <2>1, ShownRun, RunTypes
  <2>7. ShownOK(t, rs, s)
    BY <1>1, <2>1 DEF FollowOK
  <2>8. Shows(t.messages, rs, r)
    BY <1>2, <1>3, <2>2, <2>4, <2>7 DEF ShownOK
  <2>9. Answered(t.messages) <=> rs[r].n # 0
    <3>1. /\ t.op.draft = Parts(t.link.run, t.link.after)
          /\ IF t.link.after = 0 THEN ~Answered(t.messages)
             ELSE t.messages # <<>> /\ Last(t.messages) = Answer(t.link.run, t.op.draft)
      BY <1>2, <2>7 DEF ShownOK
    <3>2. t.op.draft \in Seq(Nat \X Nat)
      BY <1>1, TabTypes
    <3>3. Answer(t.link.run, t.op.draft).run = t.link.run
      BY <1>2, <3>2, MessageIs
    <3> QED
      BY <1>3, <2>2, <2>4, <3>1, <3>3 DEF Answered
  <2>10. Same(t.messages, s.messages)
    BY <1>1, <1>2, <2>5, <2>6, <2>8, <2>9, TranscriptShown
  <2>11. ~(t.op.kind = "replay" /\ Len(t.messages) < Len(t.op.kept))
    <3>1. SUFFICES ASSUME t.op.kind = "replay" PROVE ~(Len(t.messages) < Len(t.op.kept))
      OBVIOUS
    <3>2. Shows(t.op.kept, rs, r)
      BY <2>2, <2>4, <2>7, <3>1 DEF ShownOK
    <3>3. /\ Same(Unanswered(t.op.kept), rs[r].messages)
          /\ Answered(t.op.kept) => Last(t.op.kept).run = r
      BY <1>2, <2>6, <3>2, ShowsIs
    <3>4. Same(Unanswered(t.messages), rs[r].messages)
      BY <1>2, <2>6, <2>8, ShowsIs
    <3>5. Answered(t.op.kept) => rs[r].n # 0
      <4>1. HAVE Answered(t.op.kept)
      <4>2. /\ Len(t.op.kept) \in Nat \ {0} /\ t.op.kept[Len(t.op.kept)].run = r /\ r # 0
        BY <1>2, <3>3, <4>1, UnansweredIs
      <4>3. Len(t.op.kept) \in 1..Len(t.op.kept)
        BY <4>2
      <4>4. Right(t.op.kept, Len(t.op.kept), rs)
        BY <1>1, <2>1, <4>2, <4>3 DEF Good
      <4>5. Len(t.op.kept[Len(t.op.kept)].parts) \in 1..rs[r].n
        BY <4>2, <4>4 DEF Right
      <4>6. rs[r].n \in Nat
        BY <1>1, RunTypes
      <4> QED
        BY <4>5, <4>6
    <3>6. Len(Unanswered(t.op.kept)) = Len(Unanswered(t.messages))
      BY <3>3, <3>4 DEF Same
    <3>7. /\ Len(Unanswered(t.op.kept)) = IF Answered(t.op.kept) THEN Len(t.op.kept) - 1 ELSE Len(t.op.kept)
          /\ Len(Unanswered(t.messages)) = IF Answered(t.messages) THEN Len(t.messages) - 1 ELSE Len(t.messages)
          /\ Len(t.op.kept) \in Nat /\ Len(t.messages) \in Nat
      BY <1>2, UnansweredIs
    <3>8. Answered(t.op.kept) => Answered(t.messages)
      BY <2>9, <3>5
    <3>9. Len(t.op.kept) <= Len(t.messages)
      <4>1. CASE Answered(t.op.kept)
        <5>1. Len(t.op.kept) - 1 = Len(t.messages) - 1
          BY <3>6, <3>7, <3>8, <4>1
        <5> QED
          BY <3>7, <5>1
      <4>2. CASE ~Answered(t.op.kept) /\ Answered(t.messages)
        <5>1. Len(t.op.kept) = Len(t.messages) - 1
          BY <3>6, <3>7, <4>2
        <5> QED
          BY <3>7, <5>1
      <4>3. CASE ~Answered(t.op.kept) /\ ~Answered(t.messages)
        <5>1. Len(t.op.kept) = Len(t.messages)
          BY <3>6, <3>7, <4>3
        <5> QED
          BY <3>7, <5>1
      <4> QED
        BY <4>1, <4>2, <4>3
    <3> QED
      BY <3>7, <3>9
  <2>12. Over(t, "ready").messages = t.messages
    <3>1. "ready" \in {"ready", "busy", "error"}
      OBVIOUS
    <3>2. Over(t, "ready").messages = IF t.op.kind = "replay" /\ Len(t.messages) < Len(t.op.kept)
                                      THEN t.op.kept ELSE t.messages
      BY <1>1, <3>1, OverIs
    <3> QED
      BY <2>11, <3>2
  <2> QED
    BY <1>2, <2>5, <2>10, <2>12, SameExtends
<1>6. Calm(rs) \/ "impatient" \notin Windows => \A m \in box : ~Pends(rs, rf, m)
  BY <1>1, <1>3 DEF PostOK
<1> QED
  BY <1>4, <1>5, <1>6, ReadyKeeps

\* A chat that is opened has its last answer already.
LEMMA CurrentKeeps ==
  ASSUME NEW rs, NEW s, NEW rf, NEW box, NEW t, Chat(rs, s, rf, box, t), t.op.pc = "asking",
         t.status = "ready",
         s.run # 0 => rs[s.run].n > 0 /\ Answered(t.messages) /\ Last(t.messages).run = s.run,
         NEW less, Lessens(box, less), \A x \in less : ~x.waited
  PROVE  Chat(rs, s, rf, less, Over(t, "ready"))
<1>1. /\ t \in Tabs /\ TabOK(t) /\ Good(t.messages, rs) /\ rs \in Seq(Run)
      /\ FollowOK(t, rs, s, rf) /\ PostOK(t, rs, rf, box) /\ BoxOK(rs, box)
      /\ s \in Session /\ ServerOK(rs, s)
  BY ChatIs
<1>2. Tied(t) /\ t.messages \in Seq(Message) /\ t.op.kind # "replay"
  BY <1>1, Working, TabTypes DEF TabOK, StepsOK, Reads
<1>3. Unlinked(t)
  BY <1>1 DEF Unlinked, TabOK, StepsOK, LinksOK
<1>4. SettledIn(t.messages, rs)
  BY <1>1, <1>2, <1>3 DEF FollowOK
<1>5. s.run # 0 => s.run \in 1..Len(rs) /\ rs[s.run].settled
  <2>1. HAVE s.run # 0
  <2>2. /\ Len(t.messages) \in Nat \ {0} /\ t.messages[Len(t.messages)].run = s.run
    BY <1>2, <2>1, UnansweredIs
  <2>3. Len(t.messages) \in 1..Len(t.messages)
    BY <2>2
  <2>4. s.run \in Nat /\ s.run <= Len(rs)
    BY <1>1 DEF ServerOK, Session
  <2> QED
    BY <1>1, <1>4, <2>1, <2>2, <2>3, <2>4 DEF SettledIn
<1>6. \A r \in 1..Len(rs) : rs[r].settled
  <2>1. CASE s.run = 0
    <3>1. Len(rs) = 0
      BY <1>1, <2>1 DEF ServerOK
    <3> QED
      BY <3>1
  <2>2. CASE s.run # 0
    BY <1>5, <2>2, ShownRun
  <2> QED
    BY <2>1, <2>2
<1>7. ASSUME Mine(rs), s.run # 0 PROVE Extends(Over(t, "ready").messages, s.messages)
  <2>1. Calm(rs)
    BY <1>7 DEF Calm
  <2>2. PICK r \in 1..Len(rs) : r = s.run
    BY <1>5, <1>7
  <2>3. s.messages = TranscriptOf(rs, r) /\ s.messages \in Seq(Message)
    BY <1>1, <1>5, <1>7, <2>2 DEF ServerOK, Session
  <2>4. Asking(rs[r].messages) /\ Good(rs[r].messages, rs)
    BY <2>1, ShownRun
  <2>5. Shows(t.messages, rs, r)
    <3>1. ShownOK(t, rs, s)
      BY <1>1, <2>1 DEF FollowOK
    <3> QED
      BY <1>2, <1>3, <1>7, <2>2, <3>1 DEF ShownOK
  <2>6. Answered(t.messages) <=> rs[r].n # 0
    <3>1. rs[r].n \in Nat /\ rs[r].n > 0
      BY <1>1, <1>7, <2>2, RunTypes
    <3> QED
      BY <1>7, <3>1
  <2>7. Same(t.messages, s.messages)
    BY <1>1, <1>2, <2>3, <2>4, <2>5, <2>6, TranscriptShown
  <2>8. Over(t, "ready").messages = t.messages
    <3>1. "ready" \in {"ready", "busy", "error"}
      OBVIOUS
    <3>2. Over(t, "ready").messages = IF t.op.kind = "replay" /\ Len(t.messages) < Len(t.op.kept)
                                      THEN t.op.kept ELSE t.messages
      BY <1>1, <3>1, OverIs
    <3> QED
      BY <1>2, <3>2
  <2> QED
    BY <1>2, <2>3, <2>7, <2>8, SameExtends
<1>8. Calm(rs) \/ "impatient" \notin Windows => \A m \in box : ~Pends(rs, rf, m)
  <2>1. \A m \in box : m.req # 0
    BY <1>1 DEF BoxOK, MailOK
  <2> QED
    BY <1>1, <1>3, <2>1 DEF PostOK, Unlinked
<1> QED
  BY <1>6, <1>7, <1>8, ReadyKeeps

-----------------------------------------------------------------------------
(* Stop                                                                    *)

\* What a Stop that was confirmed, and what a Stop, make of the tab.
LEMMA StoppedIs ==
  ASSUME NEW u \in Tabs
  PROVE  \E v \in Tabs :
           /\ v.messages = u.messages /\ v.status = u.status /\ v.link = u.link /\ v.op = u.op
           /\ ~v.sync /\ v.stop = NoStop
           /\ IF u.stop.then = "steer"
              THEN /\ v.items = RemoveFirst(u.items, u.stop.item)
                   /\ ~v.paused /\ ~v.steering /\ ~v.error
                   /\ Stopped(u) = Send(v, u.stop.item)
              ELSE /\ v.items = u.items /\ v.paused = u.paused /\ v.steering = u.steering
                   /\ v.error = u.error
                   /\ Stopped(u) = IF u.stop.then = "resume" THEN Resumed(v) ELSE v
<1>1. PICK w : w = [u EXCEPT !.stop = NoStop, !.sync = FALSE]
  OBVIOUS
<1>2. NoStop \in StopType
  BY Nothing
<1>3. /\ w \in Tabs /\ w.messages = u.messages /\ w.status = u.status /\ w.link = u.link
      /\ w.op = u.op /\ ~w.sync /\ w.stop = NoStop /\ w.items = u.items /\ w.paused = u.paused
      /\ w.steering = u.steering /\ w.error = u.error
  BY <1>1, <1>2, TabsAre DEF TabRecords
<1>4. CASE u.stop.then = "steer"
  <2>1. u.items \in Seq(Nat) /\ u.stop.item \in Nat
    BY TabTypes
  <2>2. PICK q \in Seq(Nat) : q = RemoveFirst(u.items, u.stop.item)
    BY <2>1, RemoveFirstIs
  <2>3. PICK v : v = [w EXCEPT !.paused = FALSE, !.steering = FALSE, !.error = FALSE, !.items = q]
    OBVIOUS
  <2>4. /\ v \in Tabs /\ v.messages = w.messages /\ v.status = w.status /\ v.link = w.link
        /\ v.op = w.op /\ v.sync = w.sync /\ v.stop = w.stop /\ v.items = q
        /\ ~v.paused /\ ~v.steering /\ ~v.error
    BY <1>3, <2>3, TabsAre DEF TabRecords
  <2>5. [w EXCEPT !.paused = FALSE, !.steering = FALSE, !.error = FALSE,
                  !.items = RemoveFirst(@, u.stop.item)] = v
    BY <1>3, <2>2, <2>3
  <2>6. Stopped(u) = Send(v, u.stop.item)
    BY <1>1, <1>4, <2>5 DEF Stopped
  <2> QED
    BY <1>3, <1>4, <2>2, <2>4, <2>6
<1>5. CASE u.stop.then # "steer"
  <2>1. Stopped(u) = IF u.stop.then = "resume" THEN Resumed(w) ELSE w
    BY <1>1, <1>5 DEF Stopped
  <2> QED
    BY <1>3, <1>5, <2>1
<1> QED
  BY <1>4, <1>5

\* What a Stop is asked for.
Thens == {"stop", "steer", "resume"}

\* The tab when its turn was broken off.
Cut(u, then, item) ==
  [Restored(u) EXCEPT
     !.op = NoOp, !.status = IF @ = "busy" THEN "ready" ELSE @,
     !.sync = ~(u.op.pc = "saving" /\ u.op.kind # "replay"),
     !.stop = [pc |-> "asking", then |-> then, item |-> item, run |-> u.link.run,
               req |-> IF u.link.run = 0 THEN u.link.req ELSE 0]]
\* A turn is broken off (Aborted).
LEMMA AbortedIs ==
  ASSUME NEW u \in Tabs, NEW then \in Thens, NEW item \in Nat
  PROVE  LET unsent == u.op.pc = "saving" /\ u.op.kind # "replay"
             n == Cut(u, then, item) IN
         /\ Aborted(u, then, item) = IF unsent THEN Stopped(n) ELSE n
         /\ n \in Tabs
         /\ n.messages = u.messages \/ (u.op.kind = "replay" /\ n.messages = u.op.kept)
         /\ n.status = (IF u.status = "busy" THEN "ready" ELSE u.status) /\ n.items = u.items
         /\ n.paused = u.paused /\ n.steering = u.steering /\ n.error = u.error
         /\ n.sync = ~unsent /\ n.link = u.link /\ n.op = NoOp
         /\ n.stop.pc = "asking" /\ n.stop.then = then /\ n.stop.item = item
         /\ n.stop.run = u.link.run
         /\ n.stop.req = IF u.link.run = 0 THEN u.link.req ELSE 0
<1>1. PICK w \in Tabs : w = Restored(u)
  BY RestoredIs
<1>2. /\ w.messages = u.messages \/ (u.op.kind = "replay" /\ w.messages = u.op.kept)
      /\ w.status = u.status /\ w.items = u.items /\ w.paused = u.paused /\ w.steering = u.steering
      /\ w.error = u.error /\ w.link = u.link
  BY <1>1, RestoredIs
<1>3. u.link.run \in Nat /\ u.link.req \in Nat /\ u.status \in {"ready", "busy", "error"}
  BY TabTypes
<1>4. PICK st \in StopType :
        st = [pc |-> "asking", then |-> then, item |-> item, run |-> u.link.run,
              req |-> IF u.link.run = 0 THEN u.link.req ELSE 0]
  <2>1. PICK q \in Nat : q = IF u.link.run = 0 THEN u.link.req ELSE 0
    BY <1>3
  <2>2. then \in {"none", "stop", "steer", "resume"} /\ "asking" \in {"none", "asking", "waiting", "reading"}
    BY DEF Thens
  <2>3. [pc |-> "asking", then |-> then, item |-> item, run |-> u.link.run, req |-> q] \in StopType
    BY <1>3, <2>2 DEF StopType
  <2> QED
    BY <2>1, <2>3
<1>5. PICK status \in {"ready", "busy", "error"} :
        status = IF u.status = "busy" THEN "ready" ELSE u.status
  BY <1>3
<1>6. PICK sync \in BOOLEAN : sync = ~(u.op.pc = "saving" /\ u.op.kind # "replay")
  OBVIOUS
<1>7. PICK n : n = [w EXCEPT !.op = NoOp, !.status = status, !.sync = sync, !.stop = st]
  OBVIOUS
<1>8. NoOp \in OpType
  BY Nothing
<1>9. /\ n \in Tabs /\ n.messages = w.messages /\ n.status = status /\ n.items = w.items
      /\ n.paused = w.paused /\ n.steering = w.steering /\ n.error = w.error
      /\ n.sync = sync /\ n.link = w.link /\ n.op = NoOp /\ n.stop = st
  BY <1>7, <1>8, TabsAre DEF TabRecords
<1>10. n = Cut(u, then, item)
  BY <1>1, <1>2, <1>4, <1>5, <1>6, <1>7 DEF Cut
<1>11. /\ st.pc = "asking" /\ st.then = then /\ st.item = item /\ st.run = u.link.run
       /\ st.req = IF u.link.run = 0 THEN u.link.req ELSE 0
  BY <1>4
<1>12. Aborted(u, then, item) =
         IF u.op.pc = "saving" /\ u.op.kind # "replay" THEN Stopped(Cut(u, then, item))
         ELSE Cut(u, then, item)
  BY DEF Aborted, Cut
<1> QED
  BY <1>2, <1>5, <1>6, <1>9, <1>10, <1>11, <1>12

\* A Stop fails.
LEMMA StopFailedKeeps ==
  ASSUME NEW rs, NEW s, NEW rf, NEW box, NEW t, Chat(rs, s, rf, box, t), t.stop # NoStop
  PROVE  Chat(rs, s, rf, box, StopFailed(t)) /\ StopFailed(t).messages = t.messages
<1>1. t \in Tabs /\ TabOK(t)
  BY ChatIs
<1>2. PICK n \in Tabs : n = StopFailed(t)
  BY <1>1, StopFailedIs
<1>3. /\ n.messages = t.messages /\ n.status = t.status /\ n.items = t.items /\ n.paused
      /\ ~n.steering /\ n.error /\ n.sync = t.sync /\ n.link = t.link
      /\ n.stop = NoStop /\ n.op = t.op
  BY <1>1, <1>2, StopFailedIs
<1>4. NoStop.pc = "none" /\ NoStop.then = "none"
  BY Nothing
<1>5. StopsOK(t)
  BY <1>1 DEF TabOK
<1>6. t.sync /\ t.op.pc = "none" /\ t.status = "ready" /\ ~Unlinked(t)
  BY <1>5 DEF StopsOK
<1>7. StopsOK(n)
  BY <1>3, <1>4, <1>6 DEF StopsOK, Unlinked
<1>8. StepsOK(n) /\ LinksOK(n)
  BY <1>1, <1>3 DEF TabOK, StepsOK, LinksOK, Reads, Tied, Loose
<1>9. TabOK(n)
  BY <1>1, <1>3, <1>7, <1>8 DEF TabOK
<1> QED
  BY <1>2, <1>3, <1>4, <1>9, CoreKeeps

\* A Stop goes on; one by request is remembered.
Halted(t, pc) == [t EXCEPT !.stop.pc = pc]

\* A Stop that was served waits for its runs, and then reads what is saved.
LEMMA StoppingKeeps ==
  ASSUME NEW rs, NEW s, NEW rf, NEW box, NEW t, Chat(rs, s, rf, box, t), t.stop # NoStop,
         NEW pc \in {"waiting", "reading"},
         pc = "reading" => \A r \in StopOf(t, rs) : rs[r].settled,
         NEW more, more \subseteq rf \cup {t.stop.req}, rf \subseteq more,
         t.stop.req # 0 => t.stop.req \in more
  PROVE  LET v == Halted(t, pc) IN
         Chat(rs, s, more, box, v) /\ v.messages = t.messages /\ v.items = t.items
<1>1. /\ t \in Tabs /\ TabOK(t) /\ rs \in Seq(Run) /\ s \in Session /\ rf \subseteq Nat
      /\ box \subseteq Mail /\ ServerOK(rs, s) /\ FollowOK(t, rs, s, rf) /\ QuietOK(t, rs)
      /\ FitOK(t, rs, s) /\ BoxOK(rs, box) /\ PostOK(t, rs, rf, box)
  BY ChatIs
<1>2. t.stop \in StopType /\ t.stop.req \in Nat
  BY <1>1, TabTypes
<1>3. PICK st \in StopType : st = [t.stop EXCEPT !.pc = pc]
  BY <1>2 DEF StopType
<1>4. st.pc = pc /\ st.run = t.stop.run /\ st.req = t.stop.req /\ st.then = t.stop.then
      /\ st.item = t.stop.item
  BY <1>2, <1>3 DEF StopType
<1>5. PICK n \in Tabs : n = [t EXCEPT !.stop = st]
  BY <1>1, StopIs
<1>6. n = Halted(t, pc)
  BY <1>1, <1>3, <1>5, TabsAre DEF TabRecords, Halted
<1>7. /\ n.messages = t.messages /\ n.status = t.status /\ n.items = t.items
      /\ n.paused = t.paused /\ n.steering = t.steering /\ n.error = t.error /\ n.sync = t.sync
      /\ n.link = t.link /\ n.stop = st /\ n.op = t.op
  BY <1>1, <1>5, StopIs
<1>8. NoStop.pc = "none" /\ NoStop.then = "none"
  BY Nothing
<1>9. /\ Loose(n) <=> Loose(t)
      /\ Tied(n) <=> Tied(t)
      /\ Reads(n) <=> Reads(t)
      /\ Unlinked(n) <=> Unlinked(t)
  BY <1>7 DEF Loose, Tied, Reads, Unlinked
<1>10. st # NoStop
  BY <1>4, <1>8
<1>11. StopsOK(n)
  <2>1. StopsOK(t)
    BY <1>1 DEF TabOK
  <2> QED
    BY <1>4, <1>7, <1>8, <1>9, <1>10, <2>1 DEF StopsOK
<1>12. StepsOK(n) /\ LinksOK(n)
  BY <1>1, <1>7, <1>9 DEF TabOK, StepsOK, LinksOK
<1>13. TabOK(n)
  BY <1>1, <1>7, <1>11, <1>12 DEF TabOK
<1>14. ShownOK(t, rs, s) => ShownOK(n, rs, s)
  BY <1>7, <1>9 DEF ShownOK
<1>15. /\ n.stop.pc = "reading" => \A r \in StopOf(n, rs) : rs[r].settled
       /\ n.stop.pc \in {"waiting", "reading"} /\ n.stop.req # 0 => n.stop.req \in more
  BY <1>4, <1>7 DEF StopOf
<1>16. FollowOK(n, rs, s, more)
  BY <1>1, <1>7, <1>9, <1>14, <1>15 DEF FollowOK
<1>17. QuietOK(n, rs)
  BY <1>1, <1>7, <1>9 DEF QuietOK
<1>18. FitOK(n, rs, s)
  BY <1>1, <1>7, <1>9 DEF FitOK
<1>19. PostOK(n, rs, more, box)
  BY <1>1, <1>7, <1>9 DEF PostOK, Pends
<1>20. Numbered(rs, more, box, n)
  <2>1. PICK b \in Nat : \A q \in Used(rs, rf, box, t) : q <= b
    BY DEF Chat, Numbered
  <2>2. t.stop.req \in {0, t.link.req}
    BY <1>1 DEF TabOK, StopsOK
  <2>3. Used(rs, more, box, n) \subseteq Used(rs, rf, box, t)
    BY <1>7, <2>2 DEF Used
  <2> QED
    BY <2>1, <2>3 DEF Numbered
<1>21. more \subseteq Nat
  BY <1>1, <1>2
<1>22. Chat(rs, s, more, box, n)
  BY <1>1, <1>13, <1>16, <1>17, <1>18, <1>19, <1>20, <1>21 DEF Chat
<1> QED
  BY <1>6, <1>7, <1>22

\* A tab that is ready.
LEMMA LooseKeeps ==
  ASSUME NEW rs, NEW s, NEW rf, NEW box, NEW t, Chat(rs, s, rf, box, t), NEW n \in Tabs,
         n.op = NoOp, n.status = "ready", ~n.sync, n.stop = NoStop, ~n.steering, ~n.error,
         n.link = t.link, 0 \notin ToSet(n.items), Good(n.messages, rs),
         NEW less, Lessens(box, less), \A x \in less : ~x.waited,
         {"impatient", "settling"} \cap Windows = {} =>
           \A r \in 1..Len(rs) : ~(~rs[r].settled /\ rs[r].mine),
         {"withdrawn", "impatient", "settling"} \cap Windows = {} /\ Mine(rs) /\ s.run # 0 =>
           Extends(n.messages, s.messages),
         Calm(rs) \/ "impatient" \notin Windows => \A m \in box : ~Pends(rs, rf, m)
  PROVE  Chat(rs, s, rf, less, n)
<1>1. t \in Tabs /\ TabOK(t) /\ Good(<<>>, rs) /\ rs \in Seq(Run) /\ FollowOK(t, rs, s, rf)
  BY ChatIs
<1>2. NoOp.pc = "none" /\ NoOp.kind = "none" /\ NoOp.kept = <<>> /\ NoStop.pc = "none" /\ NoStop.then = "none"
  BY Nothing
<1>3. Loose(n) /\ ~Tied(n) /\ ~Reads(n)
  BY <1>2 DEF Loose, Tied, Reads
<1>4. StepsOK(n)
  BY <1>2, <1>3 DEF StepsOK
<1>5. LinksOK(n)
  <2>1. LinksOK(t)
    BY <1>1 DEF TabOK
  <2> QED
    BY <1>2, <1>3, <2>1 DEF LinksOK
<1>6. StopsOK(n)
  BY <1>2 DEF StopsOK
<1>7. TabOK(n)
  BY <1>4, <1>5, <1>6 DEF TabOK
<1>8. FollowOK(n, rs, s, rf)
  BY <1>1, <1>2, <1>3, UntiedFollow
<1>9. QuietOK(n, rs) /\ FitOK(n, rs, s)
  BY <1>2, <1>3, LooseFits
<1> QED
  BY <1>2, <1>7, <1>8, <1>9, StepKeeps

\* What follows a Stop.
LEMMA StoppedKeeps ==
  ASSUME NEW rs, NEW s, NEW rf, NEW box, NEW t, Chat(rs, s, rf, box, t), NEW u \in Tabs,
         u.op = NoOp, u.status = "ready", u.link = t.link, 0 \notin ToSet(u.items),
         Good(u.messages, rs), u.stop.then \in {"stop", "steer", "resume"},
         u.stop.then = "steer" => u.stop.item # 0, u.steering => u.stop.then = "steer",
         u.error => u.stop.then = "resume",
         NEW less, Lessens(box, less), \A x \in less : ~x.waited,
         {"impatient", "settling"} \cap Windows = {} =>
           \A r \in 1..Len(rs) : ~(~rs[r].settled /\ rs[r].mine),
         {"withdrawn", "impatient", "settling"} \cap Windows = {} /\ Mine(rs) /\ s.run # 0 =>
           Extends(u.messages, s.messages),
         Calm(rs) \/ "impatient" \notin Windows => \A m \in box : ~Pends(rs, rf, m)
  PROVE  Chat(rs, s, rf, less, Stopped(u))
<1>1. PICK v \in Tabs :
        /\ v.messages = u.messages /\ v.status = u.status /\ v.link = u.link /\ v.op = u.op
        /\ ~v.sync /\ v.stop = NoStop
        /\ IF u.stop.then = "steer"
           THEN /\ v.items = RemoveFirst(u.items, u.stop.item)
                /\ ~v.paused /\ ~v.steering /\ ~v.error
                /\ Stopped(u) = Send(v, u.stop.item)
           ELSE /\ v.items = u.items /\ v.paused = u.paused /\ v.steering = u.steering
                /\ v.error = u.error
                /\ Stopped(u) = IF u.stop.then = "resume" THEN Resumed(v) ELSE v
  BY StoppedIs
<1>2. 0 \notin ToSet(v.items)
  <2>1. u.items \in Seq(Nat) /\ u.stop.item \in Nat
    BY TabTypes
  <2>2. ToSet(RemoveFirst(u.items, u.stop.item)) \subseteq ToSet(u.items)
    BY <2>1, RemoveFirstIs
  <2> QED
    BY <1>1, <2>2
<1>3. CASE u.stop.then = "steer"
  <2>1. PICK p \in Nat \ {0} : p = u.stop.item
    BY <1>3, TabTypes
  <2>2. Chat(rs, s, rf, less, v)
    BY <1>1, <1>2, <1>3, LooseKeeps
  <2>3. Chat(rs, s, rf, less, Send(v, p))
    BY <1>1, <1>3, <2>2, SendKeeps
  <2> QED
    BY <1>1, <1>3, <2>1, <2>3
<1>4. CASE u.stop.then = "resume"
  <2>1. PICK w \in Tabs : w = [v EXCEPT !.paused = FALSE, !.error = FALSE]
    BY <1>1, ClearedIs
  <2>2. /\ w.messages = v.messages /\ w.status = v.status /\ w.items = v.items /\ ~w.paused
        /\ w.steering = v.steering /\ ~w.error /\ w.sync = v.sync /\ w.link = v.link
        /\ w.stop = v.stop /\ w.op = v.op
    BY <1>1, <2>1, ClearedIs
  <2>3. Chat(rs, s, rf, less, w)
    BY <1>1, <1>2, <1>4, <2>2, LooseKeeps
  <2>4. Resumed(v) = Drained(w)
    BY <1>1, <2>1, ResumedIs
  <2> QED
    BY <1>1, <1>4, <2>3, <2>4, DrainedKeeps
<1>5. CASE u.stop.then = "stop"
  BY <1>1, <1>2, <1>5, LooseKeeps
<1> QED
  BY <1>3, <1>4, <1>5

\* What was shown in part is replaced by what is saved.
LEMMA SynchronizedKeeps ==
  ASSUME NEW rs, NEW s, NEW rf, NEW box, NEW t, Chat(rs, s, rf, box, t), t.stop.pc = "reading"
  PROVE  Chat(rs, s, rf, box, Stopped([t EXCEPT !.messages = s.messages]))
<1>1. /\ t \in Tabs /\ TabOK(t) /\ rs \in Seq(Run) /\ s \in Session /\ ServerOK(rs, s)
      /\ FollowOK(t, rs, s, rf) /\ QuietOK(t, rs) /\ PostOK(t, rs, rf, box) /\ BoxOK(rs, box)
      /\ Lessens(box, box) /\ \A x \in box : x.waited => t.op.pc = "posting"
  BY ChatIs
<1>2. s.messages \in Seq(Message) /\ Good(s.messages, rs)
  BY <1>1 DEF Session, ServerOK
<1>3. PICK u \in Tabs : u = [t EXCEPT !.messages = s.messages]
  BY <1>1, <1>2, MessagesIs
<1>4. /\ u.messages = s.messages /\ u.status = t.status /\ u.items = t.items /\ u.paused = t.paused
      /\ u.steering = t.steering /\ u.error = t.error /\ u.sync = t.sync /\ u.link = t.link
      /\ u.stop = t.stop /\ u.op = t.op
  BY <1>1, <1>2, <1>3, MessagesIs
<1>5. StopsOK(t) /\ NoStop.pc = "none"
  BY <1>1, Nothing DEF TabOK
<1>6. t.stop # NoStop
  BY <1>5
<1>7. /\ t.sync /\ t.stop.then # "none" /\ t.stop.run = t.link.run
      /\ t.stop.req = (IF t.link.run = 0 THEN t.link.req ELSE 0)
      /\ t.op.pc = "none" /\ t.status = "ready" /\ ~Unlinked(t)
      /\ (t.steering => t.stop.then = "steer") /\ (t.stop.then = "steer" => t.stop.item # 0)
      /\ (t.error => t.stop.then \notin {"stop", "steer"})
  BY <1>5, <1>6 DEF StopsOK
<1>8. t.stop.then \in {"stop", "steer", "resume"}
  BY <1>1, <1>7, TabTypes DEF StopType
<1>9. t.op = NoOp /\ 0 \notin ToSet(t.items)
  BY <1>1, <1>7 DEF TabOK, StepsOK
<1>10. (\A r \in StopOf(t, rs) : rs[r].settled) /\ (t.stop.req # 0 => t.stop.req \in rf)
  BY <1>1 DEF FollowOK
<1>11. {"impatient", "settling"} \cap Windows = {} =>
         \A r \in 1..Len(rs) : ~(~rs[r].settled /\ rs[r].mine)
  BY <1>1, <1>7, <1>10 DEF QuietOK, StopOf, ReqIn, Unlinked
<1>12. Extends(s.messages, s.messages)
  BY <1>2, SameIs, SameExtends
<1>13. Calm(rs) \/ "impatient" \notin Windows => \A m \in box : ~Pends(rs, rf, m)
  <2>1. \A m \in box : m.req # 0
    BY <1>1 DEF BoxOK, MailOK
  <2> QED
    BY <1>1, <1>7, <1>10, <2>1 DEF PostOK, Pends
<1>14. u.stop.then \in {"stop", "steer", "resume"} /\ \A x \in box : ~x.waited
  BY <1>1, <1>4, <1>7, <1>8
<1>15. /\ u.op = NoOp /\ u.status = "ready" /\ 0 \notin ToSet(u.items)
       /\ Good(u.messages, rs)
       /\ (u.stop.then = "steer" => u.stop.item # 0) /\ (u.steering => u.stop.then = "steer")
       /\ (u.error => u.stop.then = "resume")
  BY <1>2, <1>4, <1>7, <1>8, <1>9
<1>16. Chat(rs, s, rf, box, Stopped(u))
  BY <1>1, <1>4, <1>11, <1>12, <1>13, <1>14, <1>15, StoppedKeeps
<1> QED
  BY <1>3, <1>16

\* Stop: u is the tab with its queue as the Stop leaves it.
LEMMA AbortedKeeps ==
  ASSUME NEW rs, NEW s, NEW rf, NEW box, NEW t, Chat(rs, s, rf, box, t), NEW u \in Tabs,
         u.messages = t.messages, u.status = t.status, u.op = t.op, u.link = t.link, u.paused,
         u.error = t.error, 0 \notin ToSet(u.items), t.stop = NoStop,
         NEW then \in Thens, NEW item \in Nat,
         then = "steer" => item # 0, u.steering => then = "steer",
         t.status = "busy" \/ (t.sync /\ then = "resume"),
         t.op.kind = "regenerate" /\ t.op.pc = "saving" => "withdrawn" \in Windows,
         NEW less, Lessens(box, less), \A x \in less : ~x.waited
  PROVE  Chat(rs, s, rf, less, Aborted(u, then, item))
<1>1. /\ t \in Tabs /\ TabOK(t) /\ rs \in Seq(Run) /\ s \in Session /\ ServerOK(rs, s)
      /\ FollowOK(t, rs, s, rf) /\ QuietOK(t, rs) /\ FitOK(t, rs, s) /\ PostOK(t, rs, rf, box)
      /\ Good(t.messages, rs) /\ Good(t.op.kept, rs) /\ Good(<<>>, rs)
  BY ChatIs
<1>2. StopsOK(t) /\ StepsOK(t) /\ LinksOK(t)
  BY <1>1 DEF TabOK
<1>3. PICK n \in Tabs : n = Cut(u, then, item)
  BY AbortedIs
<1>4. /\ n.messages = t.messages \/ (t.op.kind = "replay" /\ n.messages = t.op.kept)
      /\ n.status = (IF t.status = "busy" THEN "ready" ELSE t.status) /\ n.items = u.items
      /\ n.paused /\ n.steering = u.steering /\ n.error = t.error
      /\ n.sync = ~(t.op.pc = "saving" /\ t.op.kind # "replay") /\ n.link = t.link /\ n.op = NoOp
      /\ n.stop.pc = "asking" /\ n.stop.then = then /\ n.stop.item = item
      /\ n.stop.run = t.link.run
      /\ n.stop.req = IF t.link.run = 0 THEN t.link.req ELSE 0
  BY <1>3, AbortedIs
<1>5. Aborted(u, then, item) =
        IF t.op.pc = "saving" /\ t.op.kind # "replay" THEN Stopped(n) ELSE n
  BY <1>3, AbortedIs
<1>6. /\ NoOp.pc = "none" /\ NoOp.kind = "none" /\ NoOp.kept = <<>> /\ NoStop.pc = "none"
      /\ NoStop.then = "none"
  BY Nothing
<1>7. n.status = "ready" /\ Good(n.messages, rs)
  BY <1>1, <1>2, <1>4 DEF StopsOK
<1>8. (t.error => then = "resume") /\ then # "none"
  <2>1. t.error => t.op.pc = "none"
    BY <1>2 DEF StopsOK
  <2>2. t.op.pc = "none" => t.status # "busy"
    BY <1>2 DEF StepsOK
  <2> QED
    BY <2>1, <2>2 DEF Thens
<1>9. CASE t.op.pc = "saving" /\ t.op.kind # "replay"
  <2>1. Loose(t) /\ ~Tied(t)
    BY <1>9 DEF Loose, Tied
  <2>2. {"impatient", "settling"} \cap Windows = {} =>
          \A r \in 1..Len(rs) : ~(~rs[r].settled /\ rs[r].mine)
    BY <1>1, <2>1 DEF QuietOK
  <2>3. {"withdrawn", "impatient", "settling"} \cap Windows = {} /\ Mine(rs) /\ s.run # 0 =>
          Extends(n.messages, s.messages)
    BY <1>1, <1>4, <1>9, <2>1 DEF FitOK
  <2>4. Calm(rs) \/ "impatient" \notin Windows => \A m \in box : ~Pends(rs, rf, m)
    BY <1>1, <2>1 DEF PostOK
  <2>5. n.stop.then \in {"stop", "steer", "resume"} /\ (n.error => n.stop.then = "resume")
        /\ (n.steering => n.stop.then = "steer") /\ (n.stop.then = "steer" => n.stop.item # 0)
        /\ 0 \notin ToSet(n.items)
    BY <1>4, <1>8 DEF Thens
  <2>6. Chat(rs, s, rf, less, Stopped(n))
    BY <1>4, <1>7, <2>2, <2>3, <2>4, <2>5, StoppedKeeps
  <2> QED
    BY <1>5, <1>9, <2>6
<1>10. CASE ~(t.op.pc = "saving" /\ t.op.kind # "replay")
  <2>1. n.sync /\ ~Loose(n) /\ ~Tied(n) /\ ~Reads(n)
    BY <1>4, <1>6, <1>10 DEF Loose, Tied, Reads
  <2>2. ~Unlinked(n)
    <3>1. CASE t.sync
      BY <1>2, <1>4, <3>1 DEF StopsOK, Unlinked
    <3>2. CASE t.status = "busy"
      <4>1. t.op.pc \notin {"none", "status", "asking"}
        BY <1>2, <3>2 DEF StepsOK
      <4>2. t.op.pc \in {"saving", "posting", "opening", "reading", "reconnecting", "closing"}
        BY <1>1, <4>1, TabTypes DEF OpType
      <4> QED
        BY <1>2, <1>4, <1>10, <4>2 DEF LinksOK, Reads, Unlinked
    <3> QED
      BY <3>1, <3>2
  <2>3. StepsOK(n)
    BY <1>4, <1>6, <1>7, <2>1 DEF StepsOK
  <2>4. LinksOK(n)
    BY <1>2, <1>4, <1>6, <2>1 DEF LinksOK
  <2>5. n.stop # NoStop
    BY <1>4, <1>6
  <2>6. StopsOK(n)
    BY <1>4, <1>6, <1>7, <1>8, <2>1, <2>2, <2>5 DEF StopsOK
  <2>7. TabOK(n)
    BY <1>4, <2>3, <2>4, <2>6 DEF TabOK
  <2>8. FollowOK(n, rs, s, rf)
    BY <1>1, <1>4, <1>6, <1>7, <2>1, UntiedFollow
  <2>9. QuietOK(n, rs) /\ FitOK(n, rs, s)
    BY <1>1, <1>4, <2>1, TiedFits
  <2>10. Calm(rs) \/ "impatient" \notin Windows =>
           \A m \in box : Pends(rs, rf, m) => ~Loose(n) /\ n.link.run = 0 /\ m.req = t.link.req
    BY <1>1, <1>4, <2>1 DEF PostOK
  <2>11. Chat(rs, s, rf, less, n)
    BY <1>4, <2>7, <2>8, <2>9, <2>10, StepKeeps
  <2> QED
    BY <1>5, <1>10, <2>11
<1> QED
  BY <1>9, <1>10

\* The queue goes on.
LEMMA ResumedKeeps ==
  ASSUME NEW rs, NEW s, NEW rf, NEW box, NEW t, Chat(rs, s, rf, box, t), t.status # "busy",
         ~t.steering
  PROVE  Chat(rs, s, rf, box, Resumed(t))
         /\ (Resumed(t) = t \/ Resumed(t).messages # t.messages \/
              Resumed(t) = [t EXCEPT !.paused = FALSE, !.error = FALSE])
<1>1. t \in Tabs /\ TabOK(t)
  BY ChatIs
<1>2. CASE t.status = "error" \/ t.stop # NoStop \/ t.sync
  BY <1>1, <1>2, ResumedIs
<1>3. CASE ~(t.status = "error" \/ t.stop # NoStop \/ t.sync)
  <2>1. PICK n \in Tabs : n = [t EXCEPT !.paused = FALSE, !.error = FALSE]
    BY <1>1, ClearedIs
  <2>2. /\ n.messages = t.messages /\ n.status = t.status /\ n.items = t.items /\ ~n.paused
        /\ n.steering = t.steering /\ ~n.error /\ n.sync = t.sync /\ n.link = t.link
        /\ n.stop = t.stop /\ n.op = t.op
    BY <1>1, <2>1, ClearedIs
  <2>3. Resumed(t) = Drained(n)
    BY <1>1, <1>3, <2>1, ResumedIs
  <2>4. StopsOK(n)
    <3>1. StopsOK(t) /\ NoStop.pc = "none" /\ NoStop.then = "none"
      BY <1>1, Nothing DEF TabOK
    <3> QED
      BY <1>3, <2>2, <3>1 DEF StopsOK
  <2>5. StepsOK(n) /\ LinksOK(n)
    BY <1>1, <2>2 DEF TabOK, StepsOK, LinksOK, Reads, Tied, Loose
  <2>6. TabOK(n)
    BY <1>1, <2>2, <2>4, <2>5 DEF TabOK
  <2>7. Chat(rs, s, rf, box, n)
    BY <2>2, <2>6, Nothing, <1>3, CoreKeeps
  <2>8. Chat(rs, s, rf, box, Drained(n)) /\ (Drained(n) = n \/ Drained(n).messages # n.messages)
    BY <2>7, DrainedKeeps
  <2> QED
    BY <2>1, <2>2, <2>3, <2>8
<1> QED
  BY <1>2, <1>3

-----------------------------------------------------------------------------
(* The run of the tab                                                      *)

LookedAt(t, rs, s) ==
  IF t.link.run # 0 THEN {t.link.run}
  ELSE IF t.link.req # 0 THEN ReqIn(rs, t.link.req) ELSE {s.run} \ {0}

\* The run a tab looks at is the one it shows, and no other of its own goes on.
LEMMA LookedIs ==
  ASSUME NEW rs, NEW s, NEW rf, NEW box, NEW t, Chat(rs, s, rf, box, t), Tied(t),
         NEW r \in LookedAt(t, rs, s)
  PROVE  /\ r \in 1..Len(rs)
         /\ Calm(rs) => Shows(t.messages, rs, r)
         /\ {"impatient", "settling"} \cap Windows = {} =>
              \A q \in 1..Len(rs) : ~rs[q].settled /\ rs[q].mine => q = r
         /\ {"withdrawn", "impatient", "settling"} \cap Windows = {} /\ Mine(rs) /\ s.run # 0 =>
              r = s.run
         /\ Calm(rs) \/ "impatient" \notin Windows => \A m \in box : ~Pends(rs, rf, m)
<1>1. /\ t \in Tabs /\ TabOK(t) /\ rs \in Seq(Run) /\ s \in Session /\ ServerOK(rs, s)
      /\ FollowOK(t, rs, s, rf) /\ QuietOK(t, rs) /\ FitOK(t, rs, s) /\ PostOK(t, rs, rf, box)
      /\ BoxOK(rs, box)
  BY ChatIs
<1>2. /\ t.link.run \in Nat /\ t.link.req \in Nat /\ s.run \in Nat /\ s.run <= Len(rs)
      /\ t.link.run <= Len(rs) /\ Len(rs) \in Nat
  BY <1>1, TabTypes DEF Session, ServerOK, FollowOK
<1>3. \A m \in box : m.req # 0
  BY <1>1 DEF BoxOK, MailOK
<1>4. \A q, p \in 1..Len(rs) : rs[q].req = rs[p].req /\ rs[q].req # 0 => q = p
  BY <1>1 DEF ServerOK
<1>5. CASE t.link.run # 0
  <2>1. r = t.link.run /\ r \in 1..Len(rs)
    BY <1>2, <1>5 DEF LookedAt
  <2>2. Calm(rs) => Shows(t.messages, rs, r)
    BY <1>1, <1>5, <2>1 DEF FollowOK, ShownOK
  <2> QED
    BY <1>1, <1>5, <2>1, <2>2 DEF QuietOK, FitOK, PostOK
<1>6. CASE t.link.run = 0 /\ t.link.req # 0
  <2>1. r \in 1..Len(rs) /\ rs[r].req = t.link.req /\ r \in ReqIn(rs, t.link.req)
    BY <1>6 DEF LookedAt, ReqIn
  <2>2. t.messages = t.link.messages
    BY <1>1, <1>6 DEF TabOK, LinksOK
  <2>3. Shows(t.messages, rs, r)
    BY <1>1, <2>1, <2>2 DEF FollowOK, Shows
  <2>4. ASSUME {"withdrawn", "impatient", "settling"} \cap Windows = {}, Mine(rs), s.run # 0
        PROVE  r = s.run
    <3>1. rs[s.run].req = t.link.req
      BY <1>1, <1>6, <2>1, <2>4 DEF FitOK
    <3>2. s.run \in 1..Len(rs)
      BY <1>2, <2>4
    <3> QED
      BY <1>4, <1>6, <2>1, <3>1, <3>2
  <2>5. ASSUME {"impatient", "settling"} \cap Windows = {}, NEW q \in 1..Len(rs),
               ~rs[q].settled, rs[q].mine
        PROVE  q = r
    <3>1. rs[q].req = t.link.req
      BY <1>1, <1>6, <2>5 DEF QuietOK
    <3> QED
      BY <1>4, <1>6, <2>1, <3>1
  <2>6. Calm(rs) \/ "impatient" \notin Windows => \A m \in box : ~Pends(rs, rf, m)
    BY <1>1, <2>1 DEF PostOK, Pends
  <2> QED
    BY <2>1, <2>3, <2>4, <2>5, <2>6
<1>7. CASE t.link.run = 0 /\ t.link.req = 0
  <2>1. r = s.run /\ r \in 1..Len(rs)
    BY <1>2, <1>7 DEF LookedAt
  <2>2. Calm(rs) => Shows(t.messages, rs, r)
    BY <1>1, <1>2, <1>7, <2>1 DEF FollowOK, ShownOK, Unlinked
  <2>3. \A q \in 1..Len(rs) : ~rs[q].settled => q = r
    BY <2>1, ShownRun
  <2>4. Calm(rs) \/ "impatient" \notin Windows => \A m \in box : ~Pends(rs, rf, m)
    BY <1>1, <1>3, <1>7 DEF PostOK
  <2> QED
    BY <2>1, <2>2, <2>3, <2>4
<1> QED
  BY <1>2, <1>5, <1>6, <1>7

\* When there is no such run, none of the tab's own goes on.
LEMMA LookedNone ==
  ASSUME NEW rs, NEW s, NEW rf, NEW box, NEW t, Chat(rs, s, rf, box, t), Tied(t),
         \A r \in LookedAt(t, rs, s) : rs[r].settled \/ "settling" \in Windows
  PROVE  {"impatient", "settling"} \cap Windows = {} =>
           \A r \in 1..Len(rs) : ~(~rs[r].settled /\ rs[r].mine)
<1>1. QuietOK(t, rs)
  BY ChatIs
<1>2. SUFFICES ASSUME {"impatient", "settling"} \cap Windows = {}, NEW r \in 1..Len(rs),
                      ~rs[r].settled, rs[r].mine
               PROVE  FALSE
  OBVIOUS
<1>3. /\ t.link.run # 0 => r = t.link.run
      /\ t.link.run = 0 /\ t.link.req # 0 => rs[r].req = t.link.req
      /\ r = s.run /\ r # 0
  BY <1>1, <1>2, ShownRun DEF QuietOK
<1>4. r \in LookedAt(t, rs, s)
  BY <1>3 DEF LookedAt, ReqIn
<1> QED
  BY <1>2, <1>4

\* A question is left when the answer is taken away.
LEMMA AskingUnanswered ==
  ASSUME NEW rs \in Seq(Run), NEW ms \in Seq(Message), Good(ms, rs), Calm(rs), ms # <<>>
  PROVE  Asking(Unanswered(ms))
<1>1. CASE ~Answered(ms)
  BY <1>1, UnansweredIs DEF Asking, Answered
<1>2. CASE Answered(ms)
  <2>1. PICK u \in Seq(Message) : u = Unanswered(ms)
    BY UnansweredIs
  <2>2. /\ Len(u) = Len(ms) - 1 /\ Len(ms) \in Nat \ {0} /\ ms[Len(ms)].run # 0
        /\ \A i \in 1..Len(u) : u[i] = ms[i]
    BY <1>2, <2>1, UnansweredIs
  <2>3. Len(ms) \in 1..Len(ms)
    BY <2>2
  <2>4. Right(ms, Len(ms), rs)
    BY <2>2, <2>3 DEF Good
  <2>5. Len(ms) > 1 /\ ms[Len(ms) - 1] = Question(PromptOf(rs, ms[Len(ms)].run))
    BY <2>4 DEF Right
  <2>6. Len(u) \in 1..Len(u) /\ u # <<>> /\ Len(ms) - 1 = Len(u)
    BY <2>2, <2>5, EmptySeq
  <2>7. Last(u) = Question(PromptOf(rs, ms[Len(ms)].run))
    BY <2>2, <2>5, <2>6 DEF Last
  <2>8. Last(u).run = 0
    BY <2>7 DEF Question
  <2> QED
    BY <2>1, <2>6, <2>8 DEF Asking
<1> QED
  BY <1>1, <1>2

\* The user asks for an answer again.
LEMMA RegenerateKeeps ==
  ASSUME NEW rs, NEW s, NEW rf, NEW box, NEW t, Chat(rs, s, rf, box, t), t.op = NoOp,
         t.stop = NoStop, ~t.sync, t.status = "ready" \/ "impatient" \in Windows, ~t.steering,
         Answered(t.messages)
  PROVE  Chat(rs, s, rf, box, Again(t, "regenerate"))
<1>1. /\ t \in Tabs /\ TabOK(t) /\ Good(t.messages, rs) /\ rs \in Seq(Run) /\ FollowOK(t, rs, s, rf)
      /\ QuietOK(t, rs) /\ FitOK(t, rs, s) /\ PostOK(t, rs, rf, box) /\ BoxOK(rs, box)
      /\ Lessens(box, box) /\ \A x \in box : x.waited => t.op.pc = "posting"
      /\ s \in Session
  BY ChatIs
<1>2. t.messages \in Seq(Message) /\ s.messages \in Seq(Message)
  BY <1>1, TabTypes DEF Session
<1>3. PICK n \in Tabs : n = Again(t, "regenerate")
  BY <1>1, AgainIs
<1>4. /\ n.messages = Unanswered(t.messages) /\ n.status = "busy" /\ n.items = t.items
      /\ ~n.paused /\ n.steering = t.steering /\ ~n.error /\ n.sync = t.sync
      /\ n.link = t.link /\ n.stop = t.stop
      /\ n.op.pc = "saving" /\ n.op.kind = "regenerate" /\ n.op.kept = t.messages
  <2>1. "regenerate" \in {"regenerate", "replay"}
    OBVIOUS
  <2> QED
    BY <1>1, <1>3, <2>1, AgainIs
<1>5. NoOp.pc = "none" /\ NoOp.kind = "none" /\ NoStop.pc = "none" /\ NoStop.then = "none"
  BY Nothing
<1>6. Loose(n) /\ ~Tied(n) /\ ~Reads(n) /\ n.op # NoOp /\ t.op.pc = "none" /\ t.op.kind = "none"
  BY <1>4, <1>5 DEF Loose, Tied, Reads
<1>7. StepsOK(n)
  BY <1>4, <1>6 DEF StepsOK
<1>8. LinksOK(n)
  BY <1>1, <1>4, <1>6 DEF TabOK, LinksOK
<1>9. StopsOK(n)
  BY <1>4, <1>5 DEF StopsOK
<1>10. TabOK(n)
  BY <1>1, <1>4, <1>7, <1>8, <1>9 DEF TabOK
<1>11. Good(n.messages, rs) /\ Good(n.op.kept, rs)
  BY <1>1, <1>2, <1>4, GoodUnanswered
<1>12. Calm(rs) => Asking(n.messages)
  BY <1>1, <1>2, <1>4, AskingUnanswered DEF Answered
<1>13. FollowOK(n, rs, s, rf)
  BY <1>1, <1>4, <1>5, <1>6, <1>11, <1>12, UntiedFollow
<1>14. t.status = "ready" => Loose(t)
  BY <1>6 DEF Loose
<1>15. QuietOK(n, rs)
  BY <1>1, <1>14 DEF QuietOK
<1>16. FitOK(n, rs, s)
  <2>1. ASSUME {"withdrawn", "impatient", "settling"} \cap Windows = {}, Mine(rs), s.run # 0
        PROVE  Same(n.messages, Unanswered(s.messages))
    <3>1. Extends(t.messages, s.messages)
      BY <1>1, <1>6, <1>14, <2>1 DEF FitOK
    <3>2. Same(t.messages, s.messages)
      BY <1>2, <3>1, SameExtends
    <3> QED
      BY <1>2, <1>4, <3>2, SameEnds
  <2> QED
    BY <1>4, <1>6, <2>1 DEF FitOK
<1>17. Calm(rs) \/ "impatient" \notin Windows => \A m \in box : ~Pends(rs, rf, m)
  <2>1. CASE t.status = "ready"
    BY <1>1, <1>14, <2>1 DEF PostOK
  <2>2. CASE t.status # "ready"
    <3>1. SUFFICES ASSUME Calm(rs), NEW m \in box, Pends(rs, rf, m) PROVE FALSE
      BY <2>2
    <3>2. ~Loose(t) /\ t.link.run = 0 /\ m.req = t.link.req /\ m.req # 0
      BY <1>1, <3>1 DEF PostOK, BoxOK, MailOK
    <3>3. t.messages = t.link.messages
      BY <1>1, <3>2 DEF TabOK, LinksOK, Tied
    <3>4. Asking(t.link.messages)
      BY <1>1, <3>1, <3>2 DEF FollowOK, ShownOK
    <3> QED
      BY <3>3, <3>4 DEF Asking, Answered
  <2> QED
    BY <2>1, <2>2
<1>18. \A x \in box : ~x.waited
  BY <1>1, <1>6
<1> QED
  BY <1>1, <1>3, <1>4, <1>10, <1>13, <1>15, <1>16, <1>17, <1>18, StepKeeps

\* Retry asks again for what failed.
LEMMA AskedAgainKeeps ==
  ASSUME NEW rs, NEW s, NEW rf, NEW box, NEW t, Chat(rs, s, rf, box, t), t.op.pc = "status",
         NEW r \in LookedAt(t, rs, s), t.messages # <<>>,
         \A q \in LookedAt(t, rs, s) : rs[q].settled \/ "settling" \in Windows
  PROVE  LET v == [Again(t, "regenerate") EXCEPT !.link.after = 0] IN
         Chat(rs, s, rf, box, v) /\ v.messages = Unanswered(t.messages) /\ v.items = t.items
<1>1. /\ t \in Tabs /\ TabOK(t) /\ Good(t.messages, rs) /\ rs \in Seq(Run) /\ FollowOK(t, rs, s, rf)
      /\ QuietOK(t, rs) /\ FitOK(t, rs, s) /\ PostOK(t, rs, rf, box)
      /\ Lessens(box, box) /\ \A x \in box : x.waited => t.op.pc = "posting"
      /\ s \in Session /\ ServerOK(rs, s)
  BY ChatIs
<1>2. t.messages \in Seq(Message) /\ s.messages \in Seq(Message) /\ t.link \in LinkType
  BY <1>1, TabTypes DEF Session
<1>3. PICK w \in Tabs : w = Again(t, "regenerate")
  BY <1>1, AgainIs
<1>4. /\ w.messages = Unanswered(t.messages) /\ w.status = "busy" /\ w.items = t.items
      /\ ~w.paused /\ w.steering = t.steering /\ ~w.error /\ w.sync = t.sync
      /\ w.link = t.link /\ w.stop = t.stop
      /\ w.op.pc = "saving" /\ w.op.kind = "regenerate" /\ w.op.kept = t.messages
  <2>1. "regenerate" \in {"regenerate", "replay"}
    OBVIOUS
  <2> QED
    BY <1>1, <1>3, <2>1, AgainIs
<1>51. PICK l \in LinkType : l = [t.link EXCEPT !.after = 0]
  BY <1>2 DEF LinkType
<1>52. /\ l.run = t.link.run /\ l.req = t.link.req /\ l.after = 0 /\ l.messages = t.link.messages
       /\ l.regen = t.link.regen
  BY <1>2, <1>51 DEF LinkType
<1>5. /\ l = [t.link EXCEPT !.after = 0] /\ l.run = t.link.run /\ l.req = t.link.req
      /\ l.after = 0 /\ l.messages = t.link.messages /\ l.regen = t.link.regen
  BY <1>51, <1>52
<1>6. PICK n \in Tabs : n = [w EXCEPT !.link = l]
  BY <1>3, LinkIs
<1>7. n = [Again(t, "regenerate") EXCEPT !.link.after = 0]
  BY <1>3, <1>4, <1>5, <1>6, TabsAre DEF TabRecords
<1>8. /\ n.messages = w.messages /\ n.status = w.status /\ n.items = w.items
      /\ n.paused = w.paused /\ n.steering = w.steering /\ n.error = w.error /\ n.sync = w.sync
      /\ n.link = l /\ n.stop = w.stop /\ n.op = w.op
  BY <1>3, <1>6, LinkIs
<1>9. NoOp.pc = "none" /\ NoOp.kind = "none" /\ NoStop.pc = "none" /\ NoStop.then = "none"
  BY Nothing
<1>10. ~t.sync /\ t.stop = NoStop /\ ~t.steering /\ Tied(t)
  BY <1>1, Working
<1>11. Loose(n) /\ ~Tied(n) /\ ~Reads(n) /\ n.op # NoOp
  BY <1>4, <1>8, <1>9 DEF Loose, Tied, Reads
<1>12. StepsOK(n)
  BY <1>4, <1>8, <1>11 DEF StepsOK
<1>13. LinksOK(n)
  BY <1>1, <1>4, <1>5, <1>8, <1>11 DEF TabOK, LinksOK
<1>14. StopsOK(n)
  BY <1>4, <1>8, <1>9, <1>10 DEF StopsOK
<1>15. TabOK(n)
  BY <1>1, <1>4, <1>8, <1>12, <1>13, <1>14 DEF TabOK
<1>16. Good(n.messages, rs) /\ Good(n.op.kept, rs)
  BY <1>1, <1>2, <1>4, <1>8, GoodUnanswered
<1>17. Calm(rs) => Asking(n.messages)
  BY <1>1, <1>2, <1>4, <1>8, AskingUnanswered
<1>18. FollowOK(n, rs, s, rf)
  <2>1. /\ n.link.run = t.link.run /\ n.link.req = t.link.req /\ n.link.messages = t.link.messages
        /\ n.op.pc = "saving" /\ n.op.kind = "regenerate" /\ n.stop = t.stop
    BY <1>4, <1>5, <1>8
  <2> QED
    BY <1>1, <1>11, <1>16, <1>17, <2>1, UntiedFollow
<1>19. QuietOK(n, rs)
  <2>1. {"impatient", "settling"} \cap Windows = {} =>
          \A q \in 1..Len(rs) : ~(~rs[q].settled /\ rs[q].mine)
    BY <1>10, LookedNone
  <2> QED
    BY <2>1 DEF QuietOK
<1>20. FitOK(n, rs, s)
  <2>1. ASSUME {"withdrawn", "impatient", "settling"} \cap Windows = {}, Mine(rs), s.run # 0
        PROVE  Same(n.messages, Unanswered(s.messages))
    <3>1. Calm(rs)
      BY <2>1 DEF Calm
    <3>2. r \in 1..Len(rs) /\ Shows(t.messages, rs, r) /\ r = s.run
      BY <1>10, <2>1, <3>1, LookedIs
    <3>3. rs[r].settled
      BY <2>1
    <3>4. Asking(rs[r].messages) /\ Good(rs[r].messages, rs) /\ rs[r].messages \in Seq(Message)
      BY <1>1, <3>1, <3>2, ShownRun, RunTypes
    <3>5. Unanswered(s.messages) = rs[r].messages
      <4>1. s.messages = TranscriptOf(rs, r)
        BY <1>1, <2>1, <3>2, <3>3 DEF ServerOK
      <4> QED
        BY <1>1, <3>2, <3>4, <4>1, TranscriptIs
    <3> QED
      BY <1>2, <1>4, <1>8, <3>2, <3>4, <3>5, ShowsIs
  <2> QED
    BY <1>4, <1>8, <1>11, <2>1 DEF FitOK
<1>21. Calm(rs) \/ "impatient" \notin Windows => \A m \in box : ~Pends(rs, rf, m)
  BY <1>10, LookedIs
<1>22. \A x \in box : ~x.waited
  BY <1>1
<1>23. Chat(rs, s, rf, box, n)
  BY <1>1, <1>5, <1>8, <1>15, <1>18, <1>19, <1>20, <1>21, <1>22, StepKeeps
<1> QED
  BY <1>4, <1>7, <1>8, <1>23

\* The tab is linked to the run that it looks at, and shows what that was asked.
LEMMA LinkedKeeps ==
  ASSUME NEW rs, NEW s, NEW rf, NEW box, NEW t, Chat(rs, s, rf, box, t), Tied(t),
         NEW r \in LookedAt(t, rs, s), NEW n \in Tabs, TabOK(n), n.stop = NoStop,
         n.link.run = r, n.link.req = t.link.req, n.link.messages = t.link.messages,
         n.link.regen = t.link.regen, Tied(n),
         n.op.pc \in {"saving", "opening", "reading"}, n.op.pc = "saving" => n.op.kind = "replay",
         n.op.pc = "reading" => n.link.after = 0 /\ n.op.draft = Draft(n.messages),
         Good(n.messages, rs), Good(n.op.kept, rs),
         Calm(rs) => Same(n.messages, rs[r].messages),
         Calm(rs) /\ n.op.kind = "replay" =>
           Shows(n.op.kept, rs, r) /\ Asked(n.op.kept) = Asked(n.messages),
         NEW less, Lessens(box, less), \A x \in less : ~x.waited
  PROVE  Chat(rs, s, rf, less, n)
<1>1. /\ t \in Tabs /\ rs \in Seq(Run) /\ s \in Session /\ FollowOK(t, rs, s, rf)
  BY ChatIs
<1>2. /\ r \in 1..Len(rs)
      /\ {"impatient", "settling"} \cap Windows = {} =>
           \A q \in 1..Len(rs) : ~rs[q].settled /\ rs[q].mine => q = r
      /\ {"withdrawn", "impatient", "settling"} \cap Windows = {} /\ Mine(rs) /\ s.run # 0 =>
           r = s.run
      /\ Calm(rs) \/ "impatient" \notin Windows => \A m \in box : ~Pends(rs, rf, m)
  BY LookedIs
<1>3. r \in Nat /\ r # 0 /\ r <= Len(rs) /\ rs[r].n \in Nat
  BY <1>1, <1>2, RunTypes
<1>4. ~Loose(n) /\ ~Unlinked(n) /\ NoStop.pc = "none"
  BY <1>3, Nothing DEF Tied, Unlinked
<1>5. n.messages \in Seq(Message)
  BY TabTypes
<1>6. Calm(rs) => Asking(n.messages) /\ ~Answered(n.messages) /\ Draft(n.messages) = <<>>
  <2>1. HAVE Calm(rs)
  <2>2. Asking(rs[r].messages) /\ rs[r].messages \in Seq(Message)
    BY <1>1, <1>2, <2>1, ShownRun, RunTypes
  <2>3. Asking(n.messages)
    BY <1>5, <2>1, <2>2, SameEnds
  <2>4. ~Answered(n.messages)
    BY <2>3 DEF Asking, Answered
  <2>5. Draft(n.messages) = <<>>
    BY <2>4 DEF Draft
  <2> QED
    BY <2>3, <2>4, <2>5
<1>7. Calm(rs) => ShownOK(n, rs, s)
  <2>1. HAVE Calm(rs)
  <2>2. n.link.req # 0 => Asking(n.link.messages)
    BY <1>1, <2>1 DEF FollowOK, ShownOK
  <2>3. Shows(n.messages, rs, r)
    BY <2>1 DEF Shows
  <2>4. Reads(n) => n.op.pc = "reading"
    BY DEF Reads
  <2>5. Reads(n) => n.op.draft = Parts(n.link.run, n.link.after) /\ n.link.after = 0
    BY <1>3, <1>6, <2>1, <2>4, PartsIs
  <2> QED
    BY <1>4, <1>6, <2>1, <2>2, <2>3, <2>5 DEF ShownOK
<1>8. n.op.pc # "closing" /\ (Reads(n) => n.link.after <= rs[r].n)
  <2>1. Reads(n) => n.link.after = 0
    BY DEF Reads
  <2> QED
    BY <1>3, <2>1
<1>9. \A q \in ReqIn(rs, n.link.req) : Same(n.link.messages, rs[q].messages)
  BY <1>1 DEF FollowOK
<1>10. Good(n.link.messages, rs)
  BY <1>1 DEF FollowOK
<1>11. FollowOK(n, rs, s, rf)
  BY <1>3, <1>4, <1>7, <1>8, <1>9, <1>10 DEF FollowOK
<1>12. QuietOK(n, rs)
  BY <1>2, <1>3, <1>4 DEF QuietOK
<1>13. FitOK(n, rs, s)
  BY <1>2, <1>3, <1>4 DEF FitOK
<1> QED
  BY <1>2, <1>11, <1>12, <1>13, StepKeeps

\* What a tab that is tied shows of the run it looks at, without an answer.
LEMMA ShownAlone ==
  ASSUME NEW rs, NEW s, NEW rf, NEW box, NEW t, Chat(rs, s, rf, box, t), Tied(t),
         NEW r \in LookedAt(t, rs, s), Calm(rs)
  PROVE  /\ Same(Unanswered(t.messages), rs[r].messages)
         /\ ~Answered(t.messages) => Same(t.messages, rs[r].messages)
         /\ Answered(t.messages) => Last(t.messages).run = r
<1>1. t \in Tabs /\ rs \in Seq(Run)
  BY ChatIs
<1>2. r \in 1..Len(rs) /\ Shows(t.messages, rs, r)
  BY LookedIs
<1>3. Asking(rs[r].messages) /\ rs[r].messages \in Seq(Message) /\ t.messages \in Seq(Message)
  BY <1>1, <1>2, ShownRun, RunTypes, TabTypes
<1>4. /\ Same(Unanswered(t.messages), rs[r].messages)
      /\ Answered(t.messages) => Last(t.messages).run = r
  BY <1>2, <1>3, ShowsIs
<1> QED
  BY <1>3, <1>4, UnansweredIs

\* Retry replays what goes on or is completed.
LEMMA ReplayKeeps ==
  ASSUME NEW rs, NEW s, NEW rf, NEW box, NEW t, Chat(rs, s, rf, box, t), t.op.pc = "status",
         NEW r \in LookedAt(t, rs, s)
  PROVE  LET v == [Again(t, "replay") EXCEPT !.link.run = r] IN
         Chat(rs, s, rf, box, v) /\ v.messages = Unanswered(t.messages) /\ v.items = t.items
<1>1. /\ t \in Tabs /\ TabOK(t) /\ Good(t.messages, rs) /\ rs \in Seq(Run)
      /\ Lessens(box, box) /\ \A x \in box : x.waited => t.op.pc = "posting"
  BY ChatIs
<1>2. t.messages \in Seq(Message) /\ t.link \in LinkType
  BY <1>1, TabTypes
<1>3. PICK w \in Tabs : w = Again(t, "replay")
  BY <1>1, AgainIs
<1>4. /\ w.messages = Unanswered(t.messages) /\ w.status = "busy" /\ w.items = t.items
      /\ ~w.paused /\ w.steering = t.steering /\ ~w.error /\ w.sync = t.sync
      /\ w.link = t.link /\ w.stop = t.stop
      /\ w.op.pc = "saving" /\ w.op.kind = "replay" /\ w.op.kept = t.messages
  <2>1. "replay" \in {"regenerate", "replay"}
    OBVIOUS
  <2> QED
    BY <1>1, <1>3, <2>1, AgainIs
<1>5. ~t.sync /\ t.stop = NoStop /\ ~t.steering /\ Tied(t)
  BY <1>1, Working
<1>6. r \in 1..Len(rs) /\ (Calm(rs) => Shows(t.messages, rs, r))
  BY <1>5, LookedIs
<1>7. r \in Nat \ {0}
  BY <1>1, <1>6, RunTypes
<1>8. PICK l \in LinkType : l = [t.link EXCEPT !.run = r]
  BY <1>2, <1>7 DEF LinkType
<1>9. l.run = r /\ l.req = t.link.req /\ l.after = t.link.after /\ l.messages = t.link.messages
      /\ l.regen = t.link.regen
  BY <1>2, <1>8 DEF LinkType
<1>10. PICK n \in Tabs : n = [w EXCEPT !.link = l]
  BY <1>3, LinkIs
<1>11. n = [Again(t, "replay") EXCEPT !.link.run = r]
  BY <1>3, <1>4, <1>8, <1>10, TabsAre DEF TabRecords
<1>12. /\ n.messages = w.messages /\ n.status = w.status /\ n.items = w.items
       /\ n.paused = w.paused /\ n.steering = w.steering /\ n.error = w.error /\ n.sync = w.sync
       /\ n.link = l /\ n.stop = w.stop /\ n.op = w.op
  BY <1>3, <1>10, LinkIs
<1>13. NoOp.pc = "none" /\ NoOp.kind = "none" /\ NoStop.pc = "none" /\ NoStop.then = "none"
  BY Nothing
<1>14. ~Loose(n) /\ Tied(n) /\ ~Reads(n) /\ n.op # NoOp
  BY <1>4, <1>5, <1>12, <1>13 DEF Loose, Tied, Reads
<1>15. StepsOK(n)
  BY <1>4, <1>12, <1>14 DEF StepsOK
<1>16. LinksOK(n)
  BY <1>1, <1>4, <1>7, <1>9, <1>12, <1>14 DEF TabOK, LinksOK
<1>17. StopsOK(n)
  BY <1>4, <1>5, <1>12, <1>13 DEF StopsOK
<1>18. TabOK(n)
  BY <1>1, <1>4, <1>12, <1>15, <1>16, <1>17 DEF TabOK
<1>19. Good(n.messages, rs) /\ Good(n.op.kept, rs) /\ Asked(n.op.kept) = Asked(n.messages)
  BY <1>1, <1>2, <1>4, <1>12, GoodUnanswered
<1>20. Calm(rs) => Same(n.messages, rs[r].messages) /\ Shows(n.op.kept, rs, r)
  BY <1>4, <1>5, <1>6, <1>12, ShownAlone
<1>21. \A x \in box : ~x.waited
  BY <1>1
<1>22. /\ n.stop = NoStop /\ n.link.run = r /\ n.link.req = t.link.req
       /\ n.link.messages = t.link.messages /\ n.link.regen = t.link.regen
       /\ n.op.pc = "saving" /\ n.op.kind = "replay"
  BY <1>4, <1>5, <1>9, <1>12
<1>23. Chat(rs, s, rf, box, n)
  BY <1>1, <1>5, <1>14, <1>18, <1>19, <1>20, <1>21, <1>22, LinkedKeeps
<1> QED
  BY <1>4, <1>11, <1>12, <1>23

\* A run's stream is opened.
LEMMA FollowKeeps ==
  ASSUME NEW rs, NEW s, NEW rf, NEW box, NEW t, Chat(rs, s, rf, box, t),
         t.op.pc \in {"posting", "opening"}, NEW r \in LookedAt(t, rs, s),
         NEW less, Lessens(box, less), \A x \in less : ~x.waited
  PROVE  Chat(rs, s, rf, less, Follow(t, r))
<1>1. /\ t \in Tabs /\ TabOK(t) /\ Good(t.messages, rs) /\ Good(t.op.kept, rs) /\ rs \in Seq(Run)
      /\ FollowOK(t, rs, s, rf)
  BY ChatIs
<1>2. ~t.sync /\ t.stop = NoStop /\ ~t.steering /\ ~t.error /\ Tied(t) /\ t.op.kind # "none"
  BY <1>1, Working
<1>3. r \in 1..Len(rs) /\ (Calm(rs) => Shows(t.messages, rs, r))
  BY <1>2, LookedIs
<1>4. r \in Nat \ {0}
  BY <1>1, <1>3, RunTypes
<1>5. PICK n \in Tabs : n = Follow(t, r)
  BY <1>1, <1>4, FollowIs
<1>6. /\ n.messages = t.messages /\ n.status = "busy" /\ n.items = t.items
      /\ n.paused = t.paused /\ n.steering = t.steering /\ n.error = t.error /\ n.sync = t.sync
      /\ n.stop = t.stop
      /\ n.link.run = r /\ n.link.req = t.link.req /\ n.link.after = t.link.after
      /\ n.link.messages = t.link.messages /\ n.link.regen = t.link.regen
      /\ n.op.pc = "reading" /\ n.op.kind = t.op.kind /\ n.op.kept = t.op.kept
      /\ n.op.draft = Draft(t.messages)
  BY <1>1, <1>4, <1>5, FollowIs
<1>7. NoOp.pc = "none" /\ NoOp.kind = "none" /\ NoStop.pc = "none" /\ NoStop.then = "none"
  BY Nothing
<1>8. ~Loose(n) /\ Tied(n) /\ Reads(n) /\ n.op # NoOp
  BY <1>2, <1>6, <1>7 DEF Loose, Tied, Reads
<1>9. StepsOK(n)
  BY <1>2, <1>6, <1>8 DEF StepsOK
<1>10. LinksOK(t)
  BY <1>1 DEF TabOK
<1>11. LinksOK(n)
  BY <1>4, <1>6, <1>8, <1>10 DEF LinksOK
<1>12. StopsOK(n)
  BY <1>2, <1>6, <1>7 DEF StopsOK
<1>13. TabOK(n)
  BY <1>1, <1>6, <1>9, <1>11, <1>12 DEF TabOK
<1>14. n.link.after = 0
  BY <1>6, <1>10 DEF LinksOK
<1>15. Calm(rs) => ~Answered(t.messages)
  <2>1. HAVE Calm(rs)
  <2>2. ShownOK(t, rs, s)
    BY <1>1, <2>1 DEF FollowOK
  <2>3. CASE t.op.pc = "opening"
    BY <2>2, <2>3 DEF ShownOK
  <2>4. CASE t.op.pc = "posting"
    <3>1. t.link.run = 0 /\ t.link.req # 0
      BY <1>10, <2>4 DEF LinksOK
    <3>2. t.messages = t.link.messages
      BY <1>2, <1>10, <3>1 DEF LinksOK
    <3>3. Asking(t.link.messages)
      BY <2>2, <3>1 DEF ShownOK
    <3> QED
      BY <3>2, <3>3 DEF Asking, Answered
  <2> QED
    BY <2>3, <2>4
<1>16. Calm(rs) => Same(n.messages, rs[r].messages)
  BY <1>2, <1>6, <1>15, ShownAlone
<1>17. ASSUME Calm(rs), n.op.kind = "replay"
       PROVE  Shows(n.op.kept, rs, r) /\ Asked(n.op.kept) = Asked(n.messages)
  <2>1. Shows(t.op.kept, rs, t.link.run) /\ Asked(t.op.kept) = Asked(t.messages)
    BY <1>1, <1>6, <1>17 DEF FollowOK, ShownOK
  <2>2. t.link.run # 0
    BY <1>6, <1>10, <1>17 DEF LinksOK
  <2>3. r = t.link.run
    BY <2>2 DEF LookedAt
  <2> QED
    BY <1>6, <2>1, <2>3
<1>18. n.stop = NoStop /\ n.op.draft = Draft(n.messages)
  BY <1>2, <1>6
<1>19. Chat(rs, s, rf, less, n)
  BY <1>1, <1>2, <1>6, <1>8, <1>13, <1>14, <1>16, <1>17, <1>18, LinkedKeeps
<1> QED
  BY <1>5, <1>19

\* The stream of the run that the tab looks at is to be opened.
LEMMA OpeningKeeps ==
  ASSUME NEW rs, NEW s, NEW rf, NEW box, NEW t, Chat(rs, s, rf, box, t),
         t.op.pc = "asking" \/ (t.op.pc = "saving" /\ t.op.kind = "replay"),
         NEW r \in LookedAt(t, rs, s), Calm(rs) => ~Answered(t.messages)
  PROVE  LET v == [t EXCEPT !.op.pc = "opening", !.link.after = 0, !.link.run = r] IN
         Chat(rs, s, rf, box, v) /\ v.messages = t.messages /\ v.items = t.items
<1>1. /\ t \in Tabs /\ TabOK(t) /\ Good(t.messages, rs) /\ Good(t.op.kept, rs) /\ rs \in Seq(Run)
      /\ FollowOK(t, rs, s, rf)
      /\ Lessens(box, box) /\ \A x \in box : x.waited => t.op.pc = "posting"
  BY ChatIs
<1>2. ~t.sync /\ t.stop = NoStop /\ ~t.steering /\ ~t.error /\ Tied(t) /\ t.op.kind # "none"
  BY <1>1, Working
<1>3. r \in 1..Len(rs)
  BY <1>2, LookedIs
<1>4. r \in Nat \ {0} /\ t.link \in LinkType
  BY <1>1, <1>3, RunTypes, TabTypes
<1>5. PICK l \in LinkType : l = [t.link EXCEPT !.after = 0, !.run = r]
  BY <1>4 DEF LinkType
<1>6. l.run = r /\ l.req = t.link.req /\ l.after = 0 /\ l.messages = t.link.messages
      /\ l.regen = t.link.regen
  BY <1>4, <1>5 DEF LinkType
<1>71. PICK o \in OpType : o = [t.op EXCEPT !.pc = "opening"]
  <2>1. PICK pc \in {"none", "saving", "posting", "status", "asking", "opening", "reading",
                     "reconnecting", "closing"} : pc = "opening"
    OBVIOUS
  <2> QED
    BY <1>1, <2>1, StepIs
<1>72. t.op \in OpType
  BY <1>1, TabTypes
<1>7. o.pc = "opening" /\ o.kind = t.op.kind /\ o.kept = t.op.kept
  BY <1>71, <1>72 DEF OpType
<1>8. PICK u \in Tabs : u = [t EXCEPT !.op = o]
  BY <1>1, OpIs
<1>9. PICK n \in Tabs : n = [u EXCEPT !.link = l]
  BY LinkIs
<1>10. n = [t EXCEPT !.op.pc = "opening", !.link.after = 0, !.link.run = r]
  BY <1>1, <1>5, <1>71, <1>8, <1>9, TabsAre DEF TabRecords
<1>11. /\ n.messages = t.messages /\ n.status = t.status /\ n.items = t.items
       /\ n.paused = t.paused /\ n.steering = t.steering /\ n.error = t.error /\ n.sync = t.sync
       /\ n.link = l /\ n.stop = t.stop /\ n.op = o
  <2>1. /\ u.messages = t.messages /\ u.status = t.status /\ u.items = t.items
        /\ u.paused = t.paused /\ u.steering = t.steering /\ u.error = t.error /\ u.sync = t.sync
        /\ u.link = t.link /\ u.stop = t.stop /\ u.op = o
    BY <1>1, <1>8, OpIs
  <2>2. /\ n.messages = u.messages /\ n.status = u.status /\ n.items = u.items
        /\ n.paused = u.paused /\ n.steering = u.steering /\ n.error = u.error /\ n.sync = u.sync
        /\ n.link = l /\ n.stop = u.stop /\ n.op = u.op
    BY <1>9, LinkIs
  <2> QED
    BY <2>1, <2>2
<1>12. NoOp.pc = "none" /\ NoOp.kind = "none" /\ NoStop.pc = "none" /\ NoStop.then = "none"
  BY Nothing
<1>13. ~Loose(n) /\ Tied(n) /\ ~Reads(n) /\ n.op # NoOp
  BY <1>2, <1>7, <1>11, <1>12 DEF Loose, Tied, Reads
<1>14. StepsOK(n)
  BY <1>2, <1>7, <1>11, <1>13 DEF StepsOK
<1>15. LinksOK(t) /\ StepsOK(t)
  BY <1>1 DEF TabOK
<1>16. LinksOK(n)
  BY <1>4, <1>6, <1>7, <1>11, <1>13, <1>15 DEF LinksOK
<1>17. StopsOK(n)
  BY <1>2, <1>11, <1>12 DEF StopsOK
<1>18. TabOK(n)
  BY <1>1, <1>11, <1>14, <1>16, <1>17 DEF TabOK
<1>19. Calm(rs) => Same(n.messages, rs[r].messages)
  BY <1>2, <1>11, ShownAlone
<1>20. ASSUME Calm(rs), n.op.kind = "replay"
       PROVE  Shows(n.op.kept, rs, r) /\ Asked(n.op.kept) = Asked(n.messages)
  <2>1. t.op.kind = "replay"
    BY <1>7, <1>11, <1>20
  <2>2. Shows(t.op.kept, rs, t.link.run) /\ Asked(t.op.kept) = Asked(t.messages)
    BY <1>1, <1>20, <2>1 DEF FollowOK, ShownOK
  <2>3. t.link.run # 0
    BY <1>15, <2>1 DEF LinksOK
  <2>4. r = t.link.run
    BY <2>3 DEF LookedAt
  <2> QED
    BY <1>7, <1>11, <2>2, <2>4
<1>21. /\ n.stop = NoStop /\ n.link.run = r /\ n.link.req = t.link.req
       /\ n.link.messages = t.link.messages /\ n.link.regen = t.link.regen
       /\ n.op.pc = "opening" /\ Good(n.messages, rs) /\ Good(n.op.kept, rs)
  BY <1>1, <1>2, <1>6, <1>7, <1>11
<1>22. \A x \in box : ~x.waited
  BY <1>1
<1>23. Chat(rs, s, rf, box, n)
  BY <1>1, <1>2, <1>13, <1>18, <1>19, <1>20, <1>21, <1>22, LinkedKeeps
<1> QED
  BY <1>10, <1>11, <1>23

-----------------------------------------------------------------------------
(* Submissions                                                             *)

\* The submission of a tab.
LEMMA PostIs ==
  ASSUME NEW t \in Tabs, NEW q \in Nat
  PROVE  \E m \in Mail :
           /\ Post(t, q) = {m} /\ m.req = q /\ m.messages = t.link.messages
           /\ m.regen = t.link.regen /\ m.mine /\ m.waited /\ m.reply = "none"
<1>1. t.link.messages \in Seq(Message) /\ t.link.regen \in BOOLEAN
  BY TabTypes
<1>2. PICK ms \in Seq(Message), regen \in BOOLEAN : ms = t.link.messages /\ regen = t.link.regen
  BY <1>1
<1>3. PICK m \in Mail : m = [req |-> q, messages |-> ms, regen |-> regen, mine |-> TRUE,
                             waited |-> TRUE, reply |-> "none"]
  BY DEF Mail
<1> QED
  BY <1>2, <1>3 DEF Post

\* A submission is on its way.
LEMMA PostedKeeps ==
  ASSUME NEW rs, NEW s, NEW rf, NEW box, NEW t, Chat(rs, s, rf, box, t), t.op.pc = "posting",
         \A x \in box : ~x.waited, ReqIn(rs, t.link.req) = {}
  PROVE  Chat(rs, s, rf, box \cup Post(t, t.link.req), t)
<1>1. /\ rs \in Seq(Run) /\ s \in Session /\ rf \subseteq Nat /\ box \subseteq Mail /\ t \in Tabs
      /\ TabOK(t) /\ FollowOK(t, rs, s, rf) /\ QuietOK(t, rs) /\ FitOK(t, rs, s)
      /\ BoxOK(rs, box) /\ PostOK(t, rs, rf, box) /\ ServerOK(rs, s)
  BY ChatIs
<1>2. t.link.req \in Nat
  BY <1>1, TabTypes
<1>3. PICK m \in Mail :
        /\ Post(t, t.link.req) = {m} /\ m.req = t.link.req /\ m.messages = t.link.messages
        /\ m.regen = t.link.regen /\ m.mine /\ m.waited /\ m.reply = "none"
  BY <1>1, <1>2, PostIs
<1>4. PICK more : more = box \cup {m}
  OBVIOUS
<1>5. t.link.req # 0 /\ t.link.run = 0 /\ Tied(t) /\ ~Loose(t)
  BY <1>1, Working DEF TabOK, LinksOK
<1>6. MailOK(rs, m)
  <2>1. Good(m.messages, rs) /\ (Calm(rs) => Asking(m.messages))
    BY <1>1, <1>3, <1>5 DEF FollowOK, ShownOK
  <2> QED
    BY <1>3, <1>5, <2>1 DEF MailOK
<1>7. \A x \in box : x.req = m.req => x.messages = m.messages
  BY <1>1, <1>3 DEF PostOK
<1>8. BoxOK(rs, more)
  <2>1. \A x \in more : MailOK(rs, x)
    BY <1>1, <1>4, <1>6 DEF BoxOK
  <2>2. \A x, y \in more : x.req = y.req => x.messages = y.messages
    BY <1>1, <1>4, <1>7 DEF BoxOK
  <2>3. \A x, y \in more : x.waited /\ y.waited => x = y
    BY <1>4
  <2> QED
    BY <2>1, <2>2, <2>3 DEF BoxOK
<1>9. PostOK(t, rs, rf, more)
  BY <1>1, <1>3, <1>4, <1>5 DEF PostOK
<1>10. Numbered(rs, rf, more, t)
  <2>1. PICK b \in Nat : \A q \in Used(rs, rf, box, t) : q <= b
    BY DEF Chat, Numbered
  <2>2. Used(rs, rf, more, t) \subseteq Used(rs, rf, box, t)
    BY <1>3, <1>4 DEF Used
  <2> QED
    BY <2>1, <2>2 DEF Numbered
<1>11. more \subseteq Mail
  BY <1>1, <1>4
<1> QED
  BY <1>1, <1>3, <1>4, <1>8, <1>9, <1>10, <1>11 DEF Chat

\* A request that the server does not know is submitted again.
Reposted(t) == [t EXCEPT !.op.pc = "posting", !.op.tries = 0]

\* A request that the server does not know is submitted again.
LEMMA RepostKeeps ==
  ASSUME NEW rs, NEW s, NEW rf, NEW box, NEW t, Chat(rs, s, rf, box, t), t.op.pc = "asking",
         ReqIn(rs, t.link.req) = {}, t.link.messages # <<>>
  PROVE  LET v == Reposted(t) IN
         /\ Chat(rs, s, rf, box \cup Post(v, v.link.req), v)
         /\ v.messages = t.messages /\ v.items = t.items
<1>1. /\ t \in Tabs /\ TabOK(t) /\ rs \in Seq(Run) /\ Good(t.op.kept, rs)
      /\ Lessens(box, box) /\ \A x \in box : x.waited => t.op.pc = "posting"
  BY ChatIs
<1>2. ~t.sync /\ t.stop = NoStop /\ ~t.steering /\ ~t.error /\ Tied(t) /\ t.op.kind # "none"
  BY <1>1, Working
<1>3. t.op \in OpType /\ Attempts \in Nat
  BY <1>1, TabTypes, TabConstants
<1>4. PICK pc \in {"none", "saving", "posting", "status", "asking", "opening", "reading",
                   "reconnecting", "closing"}, k \in 0..Attempts : pc = "posting" /\ k = 0
  BY <1>3
<1>5. PICK o \in OpType : o = [t.op EXCEPT !.pc = pc, !.tries = k]
  BY <1>3, <1>4 DEF OpType
<1>6. o.pc = "posting" /\ o.kind = t.op.kind /\ o.draft = t.op.draft /\ o.kept = t.op.kept
  BY <1>3, <1>4, <1>5 DEF OpType
<1>7. PICK n \in Tabs : n = [t EXCEPT !.op = o]
  BY <1>1, OpIs
<1>8. n = Reposted(t)
  BY <1>1, <1>4, <1>5, <1>7, TabsAre DEF TabRecords, Reposted
<1>9. /\ n.messages = t.messages /\ n.status = t.status /\ n.items = t.items
      /\ n.paused = t.paused /\ n.steering = t.steering /\ n.error = t.error /\ n.sync = t.sync
      /\ n.link = t.link /\ n.stop = t.stop /\ n.op = o
  BY <1>1, <1>7, OpIs
<1>10. NoOp.pc = "none" /\ NoOp.kind = "none" /\ NoStop.pc = "none" /\ NoStop.then = "none"
  BY Nothing
<1>11. ~Loose(n) /\ Tied(n) /\ ~Reads(n) /\ n.op # NoOp
  BY <1>2, <1>6, <1>9, <1>10 DEF Loose, Tied, Reads
<1>12. StepsOK(t) /\ LinksOK(t)
  BY <1>1 DEF TabOK
<1>13. t.op.kind # "replay" /\ t.link.req # 0 /\ t.link.run = 0
  BY <1>12 DEF StepsOK, LinksOK, Reads
<1>14. StepsOK(n)
  BY <1>2, <1>6, <1>9, <1>11, <1>13 DEF StepsOK
<1>15. LinksOK(n)
  BY <1>2, <1>6, <1>9, <1>11, <1>12, <1>13 DEF LinksOK
<1>16. StopsOK(n)
  BY <1>2, <1>9, <1>10 DEF StopsOK
<1>17. TabOK(n)
  BY <1>1, <1>9, <1>14, <1>15, <1>16 DEF TabOK
<1>18. \A x \in box : ~x.waited
  BY <1>1
<1>19. Chat(rs, s, rf, box, n)
  BY <1>1, <1>2, <1>6, <1>9, <1>11, <1>13, <1>17, <1>18, TiedKeeps
<1>20. Chat(rs, s, rf, box \cup Post(n, n.link.req), n)
  BY <1>6, <1>9, <1>18, <1>19, PostedKeeps
<1> QED
  BY <1>8, <1>9, <1>20

\* The chat is saved before anything is asked.
LEMMA SessionKeeps ==
  ASSUME NEW rs, NEW s, NEW rf, NEW box, NEW t, Chat(rs, s, rf, box, t), s.run = 0
  PROVE  Chat(rs, [s EXCEPT !.messages = t.messages], rf, box, t)
<1>1. /\ rs \in Seq(Run) /\ s \in Session /\ rf \subseteq Nat /\ box \subseteq Mail /\ t \in Tabs
      /\ TabOK(t) /\ FollowOK(t, rs, s, rf) /\ QuietOK(t, rs) /\ FitOK(t, rs, s)
      /\ BoxOK(rs, box) /\ PostOK(t, rs, rf, box) /\ ServerOK(rs, s) /\ Good(t.messages, rs)
  BY ChatIs
<1>2. t.messages \in Seq(Message)
  BY <1>1, TabTypes
<1>3. PICK s2 \in Session : s2 = [s EXCEPT !.messages = t.messages]
  BY <1>1, <1>2 DEF Session
<1>4. s2.run = 0 /\ s2.messages = t.messages
  BY <1>1, <1>3 DEF Session
<1>5. Len(rs) = 0 /\ rs = <<>>
  BY <1>1 DEF ServerOK
<1>6. SettledIn(t.messages, rs)
  <2>1. SUFFICES ASSUME NEW i \in 1..Len(t.messages), t.messages[i].run # 0 PROVE FALSE
    BY DEF SettledIn
  <2>2. t.messages[i].run \in 1..Len(rs)
    BY <1>1, <1>2, <2>1, GoodIs
  <2> QED
    BY <1>5, <2>2
<1>7. ServerOK(rs, s2)
  <2>1. s2.run <= Len(rs)
    BY <1>4, <1>5
  <2>2. \A r \in 1..Len(rs) : FALSE
    BY <1>5
  <2> QED
    BY <1>1, <1>4, <1>5, <1>6, <2>1, <2>2 DEF ServerOK
<1>8. FollowOK(t, rs, s2, rf)
  <2>1. ShownOK(t, rs, s) => ShownOK(t, rs, s2)
    BY <1>4 DEF ShownOK
  <2> QED
    BY <1>1, <2>1 DEF FollowOK
<1>9. FitOK(t, rs, s2)
  BY <1>4 DEF FitOK
<1>10. Numbered(rs, rf, box, t)
  BY DEF Chat
<1> QED
  BY <1>1, <1>3, <1>7, <1>8, <1>9, <1>10 DEF Chat

\* Requests are numbers.
LEMMA UsedIs ==
  ASSUME NEW rs, NEW s, NEW rf, NEW box, NEW t, Chat(rs, s, rf, box, t)
  PROVE  Used(rs, rf, box, t) \subseteq Nat
<1>1. /\ rs \in Seq(Run) /\ rf \subseteq Nat /\ box \subseteq Mail /\ t \in Tabs
  BY ChatIs
<1>2. {m.req : m \in box} \subseteq Nat
  BY <1>1 DEF Mail
<1>3. {rs[r].req : r \in 1..Len(rs)} \subseteq Nat
  BY <1>1, RunTypes
<1>4. {0, t.link.req} \subseteq Nat
  BY <1>1, TabTypes
<1> QED
  BY <1>1, <1>2, <1>3, <1>4 DEF Used

\* What is sent is what the tab shows.
LEMMA SavedKeeps ==
  ASSUME NEW rs, NEW s, NEW rf, NEW box, NEW t, Chat(rs, s, rf, box, t), t.op.pc = "saving",
         t.op.kind # "replay", NEW q \in Nat \ {0}, q \notin Used(rs, rf, box, t),
         NEW v, v = [t EXCEPT !.op.pc = "posting",
                       !.link = [run |-> 0, req |-> q, after |-> 0, messages |-> t.messages,
                                 regen |-> t.op.kind = "regenerate"]]
  PROVE  Chat(rs, s, rf, box \cup Post(v, q), v) /\ v.messages = t.messages /\ v.items = t.items
<1>1. /\ rs \in Seq(Run) /\ s \in Session /\ rf \subseteq Nat /\ box \subseteq Mail /\ t \in Tabs
      /\ TabOK(t) /\ FollowOK(t, rs, s, rf) /\ QuietOK(t, rs) /\ FitOK(t, rs, s)
      /\ BoxOK(rs, box) /\ PostOK(t, rs, rf, box) /\ ServerOK(rs, s) /\ Good(t.messages, rs)
      /\ Good(t.op.kept, rs) /\ \A x \in box : x.waited => t.op.pc = "posting"
  BY ChatIs
<1>2. t.messages \in Seq(Message) /\ t.op \in OpType /\ s.messages \in Seq(Message)
  BY <1>1, TabTypes DEF Session
<1>3. PICK regen \in BOOLEAN : regen = (t.op.kind = "regenerate")
  OBVIOUS
<1>4. PICK l \in LinkType : l = [run |-> 0, req |-> q, after |-> 0, messages |-> t.messages,
                                 regen |-> regen]
  <2>1. q \in Nat /\ 0 \in Nat
    OBVIOUS
  <2> QED
    BY <1>2, <2>1 DEF LinkType
<1>5. l.run = 0 /\ l.req = q /\ l.after = 0 /\ l.messages = t.messages /\ l.regen = regen
  BY <1>4
<1>6. PICK o \in OpType : o = [t.op EXCEPT !.pc = "posting"]
  <2>1. PICK pc \in {"none", "saving", "posting", "status", "asking", "opening", "reading",
                     "reconnecting", "closing"} : pc = "posting"
    OBVIOUS
  <2> QED
    BY <1>1, <2>1, StepIs
<1>7. o.pc = "posting" /\ o.kind = t.op.kind /\ o.kept = t.op.kept
  BY <1>2, <1>6 DEF OpType
<1>8. PICK u \in Tabs : u = [t EXCEPT !.op = o]
  BY <1>1, OpIs
<1>9. PICK n \in Tabs : n = [u EXCEPT !.link = l]
  BY LinkIs
<1>10. n = v
  BY <1>1, <1>3, <1>4, <1>6, <1>8, <1>9, TabsAre DEF TabRecords
<1>11. /\ n.messages = t.messages /\ n.status = t.status /\ n.items = t.items
       /\ n.paused = t.paused /\ n.steering = t.steering /\ n.error = t.error /\ n.sync = t.sync
       /\ n.link = l /\ n.stop = t.stop /\ n.op = o
  <2>1. /\ u.messages = t.messages /\ u.status = t.status /\ u.items = t.items
        /\ u.paused = t.paused /\ u.steering = t.steering /\ u.error = t.error /\ u.sync = t.sync
        /\ u.link = t.link /\ u.stop = t.stop /\ u.op = o
    BY <1>1, <1>8, OpIs
  <2>2. /\ n.messages = u.messages /\ n.status = u.status /\ n.items = u.items
        /\ n.paused = u.paused /\ n.steering = u.steering /\ n.error = u.error /\ n.sync = u.sync
        /\ n.link = l /\ n.stop = u.stop /\ n.op = u.op
    BY <1>9, LinkIs
  <2> QED
    BY <2>1, <2>2
<1>12. NoOp.pc = "none" /\ NoOp.kind = "none" /\ NoStop.pc = "none" /\ NoStop.then = "none"
  BY Nothing
<1>13. /\ ~t.sync /\ t.stop = NoStop /\ ~t.steering /\ ~t.error /\ t.op.kind # "none"
       /\ StepsOK(t) /\ LinksOK(t)
  BY <1>1, Working DEF TabOK
<1>14. Loose(t) /\ t.op.kind \in {"send", "regenerate"}
  BY <1>13 DEF Loose, StepsOK
<1>15. ~Loose(n) /\ Tied(n) /\ ~Reads(n) /\ n.op # NoOp /\ ~Unlinked(n)
  BY <1>5, <1>7, <1>11, <1>12, <1>13 DEF Loose, Tied, Reads, Unlinked
<1>16. StepsOK(n)
  BY <1>7, <1>11, <1>12, <1>13, <1>14, <1>15 DEF StepsOK
<1>17. LinksOK(n)
  BY <1>5, <1>7, <1>11, <1>14, <1>15 DEF LinksOK
<1>18. StopsOK(n)
  BY <1>11, <1>12, <1>13 DEF StopsOK
<1>19. TabOK(n)
  BY <1>1, <1>11, <1>16, <1>17, <1>18 DEF TabOK
<1>20. ReqIn(rs, q) = {} /\ \A m \in box : m.req # q
  BY DEF Used, ReqIn
<1>21. Calm(rs) => Asking(t.messages)
  BY <1>1 DEF FollowOK, ShownOK
<1>22. Calm(rs) => ShownOK(n, rs, s)
  BY <1>5, <1>7, <1>11, <1>14, <1>15, <1>21 DEF ShownOK
<1>23. FollowOK(n, rs, s, rf)
  <2>1. l.run <= Len(rs)
    BY <1>1, <1>5
  <2>2. ReqIn(rs, n.link.req) = {} /\ Good(n.link.messages, rs)
    BY <1>1, <1>5, <1>11, <1>20
  <2> QED
    BY <1>1, <1>7, <1>11, <1>12, <1>13, <1>15, <1>22, <2>1, <2>2 DEF FollowOK
<1>24. QuietOK(n, rs)
  BY <1>1, <1>14 DEF QuietOK
<1>25. FitOK(n, rs, s)
  <2>1. SUFFICES ASSUME {"withdrawn", "impatient", "settling"} \cap Windows = {}, Mine(rs),
                        s.run # 0
                 PROVE  Follows(t.messages, regen, s)
    BY <1>5, <1>11, <1>15, <1>20 DEF FitOK
  <2>2. CASE t.op.kind = "regenerate"
    <3>1. Same(t.messages, Unanswered(s.messages))
      BY <1>1, <1>14, <2>1, <2>2 DEF FitOK
    <3>2. HistoryOf(s, regen) = Unanswered(s.messages) /\ regen
      BY <1>3, <2>1, <2>2 DEF HistoryOf
    <3>3. Same(Unanswered(s.messages), t.messages)
      BY <3>1, SameIs
    <3> QED
      BY <3>2, <3>3 DEF Follows, Same
  <2>3. CASE t.op.kind = "send"
    <3>1. Extends(t.messages, s.messages) /\ Len(t.messages) > Len(s.messages)
      BY <1>1, <1>14, <2>1, <2>3 DEF FitOK
    <3>2. HistoryOf(s, regen) = s.messages /\ ~regen
      BY <1>3, <2>1, <2>3 DEF HistoryOf
    <3> QED
      BY <3>1, <3>2 DEF Follows, Extends
  <2> QED
    BY <1>14, <2>2, <2>3
<1>26. \A m \in box : ~m.waited
  BY <1>1
<1>27. PostOK(n, rs, rf, box)
  <2>1. Calm(rs) \/ "impatient" \notin Windows => \A m \in box : ~Pends(rs, rf, m)
    BY <1>1, <1>14 DEF PostOK
  <2> QED
    BY <1>5, <1>11, <1>20, <1>26, <2>1 DEF PostOK
<1>28. Numbered(rs, rf, box, n)
  <2>1. PICK b \in Nat : \A x \in Used(rs, rf, box, t) : x <= b
    BY DEF Chat, Numbered
  <2>2. Used(rs, rf, box, n) \subseteq Used(rs, rf, box, t) \cup {q}
    BY <1>5, <1>11 DEF Used
  <2>3. Used(rs, rf, box, t) \subseteq Nat
    BY UsedIs
  <2>4. ASSUME NEW x \in Used(rs, rf, box, n) PROVE x <= b + q
    <3>1. x \in Nat /\ (x <= b \/ x = q)
      BY <2>1, <2>2, <2>3
    <3> QED
      BY <3>1
  <2>5. b + q \in Nat
    OBVIOUS
  <2> QED
    BY <2>4, <2>5 DEF Numbered
<1>29. Chat(rs, s, rf, box, n)
  BY <1>1, <1>19, <1>23, <1>24, <1>25, <1>27, <1>28 DEF Chat
<1>30. Chat(rs, s, rf, box \cup Post(n, q), n)
  BY <1>5, <1>7, <1>11, <1>20, <1>26, <1>29, PostedKeeps
<1> QED
  BY <1>10, <1>11, <1>30

\* A new request is one that nobody used.
LEMMA FreshIs ==
  ASSUME NEW rs, NEW s, NEW rf, NEW box, NEW t, Chat(rs, s, rf, box, t)
  PROVE  1 + Max(Used(rs, rf, box, t)) \in Nat \ {0} /\
         1 + Max(Used(rs, rf, box, t)) \notin Used(rs, rf, box, t)
<1>1. /\ rs \in Seq(Run) /\ rf \subseteq Nat /\ box \subseteq Mail /\ t \in Tabs
  BY ChatIs
<1>2. Used(rs, rf, box, t) \subseteq Nat
  BY UsedIs
<1>3. PICK b \in Nat : \A x \in Used(rs, rf, box, t) : x <= b
  BY DEF Chat, Numbered
<1>4. Used(rs, rf, box, t) # {}
  BY DEF Used
<1>5. PICK U : U = Used(rs, rf, box, t)
  OBVIOUS
<1>6. Max(U) \in U /\ \A n \in U : n <= Max(U)
  BY <1>2, <1>3, <1>4, <1>5, GreatestNat
<1>7. PICK top \in Nat : top = Max(U) /\ \A n \in U : n <= top
  BY <1>2, <1>5, <1>6
<1>8. 1 + top \in Nat \ {0} /\ 1 + top \notin U
  BY <1>7
<1> QED
  BY <1>5, <1>7, <1>8

-----------------------------------------------------------------------------
(* Streams, and chats that are opened                                      *)

\* The next event is shown.
Further(t) == Append(t.op.draft, <<t.link.run, t.link.after + 1>>)
WithEvent(t) ==
  [t EXCEPT !.link.after = t.link.after + 1, !.op.draft = Further(t),
            !.messages = Written(t.messages, t.link.run, Further(t))]

\* One more event of the run is shown under its question.
LEMMA ReadKeeps ==
  ASSUME NEW rs, NEW s, NEW rf, NEW box, NEW t, Chat(rs, s, rf, box, t), t.op.pc = "reading",
         t.link.after < rs[t.link.run].n
  PROVE  LET v == WithEvent(t) IN
         /\ Chat(rs, s, rf, box, v) /\ v.items = t.items
         /\ Asked(v.messages) = Asked(t.messages)
<1> PICK parts : parts = Further(t) /\ parts = Append(t.op.draft, <<t.link.run, t.link.after + 1>>)
  BY DEF Further
<1>1. /\ t \in Tabs /\ TabOK(t) /\ rs \in Seq(Run) /\ s \in Session /\ FollowOK(t, rs, s, rf)
      /\ QuietOK(t, rs) /\ FitOK(t, rs, s) /\ PostOK(t, rs, rf, box)
      /\ Good(t.messages, rs) /\ Good(t.op.kept, rs)
      /\ Lessens(box, box) /\ \A x \in box : x.waited => t.op.pc = "posting"
  BY ChatIs
<1>2. /\ t.link \in LinkType /\ t.op \in OpType /\ t.messages \in Seq(Message)
      /\ t.op.draft \in Seq(Nat \X Nat) /\ t.link.after \in Nat /\ t.link.run \in Nat
  BY <1>1, TabTypes
<1>3. /\ ~t.sync /\ t.stop = NoStop /\ ~t.steering /\ ~t.error /\ Tied(t) /\ t.op.kind # "none"
      /\ StepsOK(t) /\ LinksOK(t) /\ Reads(t)
  BY <1>1, Working DEF TabOK, Reads
<1>4. PICK r \in Nat \ {0} : r = t.link.run
  BY <1>2, <1>3 DEF LinksOK
<1>5. r \in 1..Len(rs)
  <2>1. t.link.run <= Len(rs)
    BY <1>1 DEF FollowOK
  <2> QED
    BY <1>1, <1>4, <2>1
<1>6. PICK k \in Nat : k = t.link.after
  BY <1>2
<1>7. k + 1 \in 1..rs[r].n /\ rs[r].n \in Nat
  <2>1. rs[r].n \in Nat
    BY <1>1, <1>5, RunTypes
  <2>2. k < rs[r].n
    BY <1>4, <1>6
  <2> QED
    BY <2>1, <2>2
<1>8. PICK ps \in Seq(Nat \X Nat) : ps = parts
  <2>1. <<r, k + 1>> \in Nat \X Nat
    OBVIOUS
  <2> QED
    BY <1>2, <1>4, <1>6, <2>1, AppendProperties
<1>9. PICK l \in LinkType : l = [t.link EXCEPT !.after = k + 1]
  <2>1. k + 1 \in Nat
    OBVIOUS
  <2> QED
    BY <1>2, <2>1 DEF LinkType
<1>10. l.run = r /\ l.req = t.link.req /\ l.after = k + 1 /\ l.messages = t.link.messages
       /\ l.regen = t.link.regen
  BY <1>2, <1>4, <1>9 DEF LinkType
<1>11. PICK o \in OpType : o = [t.op EXCEPT !.draft = ps]
  BY <1>2 DEF OpType
<1>12. o.pc = "reading" /\ o.kind = t.op.kind /\ o.kept = t.op.kept /\ o.draft = ps
  BY <1>2, <1>11 DEF OpType
<1>13. PICK ms \in Seq(Message) : ms = Written(t.messages, r, ps)
  BY <1>2, WrittenIs
<1>14. PICK u \in Tabs : u = [t EXCEPT !.op = o]
  BY <1>1, OpIs
<1>15. PICK w \in Tabs : w = [u EXCEPT !.link = l]
  BY LinkIs
<1>16. PICK n \in Tabs : n = [w EXCEPT !.messages = ms]
  BY MessagesIs
<1>17. n = WithEvent(t)
  <2>1. n = [t EXCEPT !.link.after = t.link.after + 1, !.op.draft = parts,
                      !.messages = Written(t.messages, t.link.run, parts)]
    BY <1>1, <1>4, <1>6, <1>8, <1>9, <1>11, <1>13, <1>14, <1>15, <1>16, TabsAre DEF TabRecords
  <2> QED
    BY <2>1 DEF WithEvent
<1>18. /\ n.messages = ms /\ n.status = t.status /\ n.items = t.items
       /\ n.paused = t.paused /\ n.steering = t.steering /\ n.error = t.error /\ n.sync = t.sync
       /\ n.link = l /\ n.stop = t.stop /\ n.op = o
  <2>1. /\ u.messages = t.messages /\ u.status = t.status /\ u.items = t.items
        /\ u.paused = t.paused /\ u.steering = t.steering /\ u.error = t.error /\ u.sync = t.sync
        /\ u.link = t.link /\ u.stop = t.stop /\ u.op = o
    BY <1>1, <1>14, OpIs
  <2>2. /\ w.messages = u.messages /\ w.status = u.status /\ w.items = u.items
        /\ w.paused = u.paused /\ w.steering = u.steering /\ w.error = u.error /\ w.sync = u.sync
        /\ w.link = l /\ w.stop = u.stop /\ w.op = u.op
    BY <1>15, LinkIs
  <2>3. /\ n.messages = ms /\ n.status = w.status /\ n.items = w.items
        /\ n.paused = w.paused /\ n.steering = w.steering /\ n.error = w.error /\ n.sync = w.sync
        /\ n.link = w.link /\ n.stop = w.stop /\ n.op = w.op
    BY <1>16, MessagesIs
  <2> QED
    BY <2>1, <2>2, <2>3
<1>19. NoOp.pc = "none" /\ NoOp.kind = "none" /\ NoStop.pc = "none" /\ NoStop.then = "none"
  BY Nothing
<1>20. ~Loose(n) /\ Tied(n) /\ Reads(n) /\ n.op # NoOp /\ ~Unlinked(n)
  BY <1>3, <1>10, <1>12, <1>18, <1>19 DEF Loose, Tied, Reads, Unlinked
<1>21. StepsOK(n)
  <2>1. n.op.pc = "reading" /\ n.op.kind = t.op.kind /\ n.status = t.status
    BY <1>12, <1>18
  <2>2. t.status = "busy"
    BY <1>3 DEF StepsOK
  <2> QED
    BY <1>3, <1>20, <2>1, <2>2 DEF StepsOK
<1>22. LinksOK(n)
  BY <1>3, <1>10, <1>12, <1>18, <1>20 DEF LinksOK
<1>23. StopsOK(n)
  BY <1>3, <1>18, <1>19 DEF StopsOK
<1>24. TabOK(n)
  BY <1>1, <1>18, <1>21, <1>22, <1>23 DEF TabOK
<1>25. PICK base \in Seq(Message) :
         /\ Answered(t.messages) /\ Last(t.messages).run = r => base = Unanswered(t.messages)
         /\ ~(Answered(t.messages) /\ Last(t.messages).run = r) => base = t.messages
         /\ Written(t.messages, r, ps) = Append(base, Answer(r, ps))
         /\ Unanswered(Written(t.messages, r, ps)) = base
         /\ Asked(Written(t.messages, r, ps)) = Asked(base)
         /\ Answered(Written(t.messages, r, ps))
         /\ Last(Written(t.messages, r, ps)) = Answer(r, ps)
  BY <1>2, WrittenIs
<1>26. /\ ms = Append(base, Answer(r, ps)) /\ Unanswered(ms) = base /\ Asked(ms) = Asked(base)
       /\ Answered(ms) /\ Last(ms) = Answer(r, ps)
  BY <1>13, <1>25
<1>27. Good(base, rs) /\ Asked(base) = Asked(t.messages)
  BY <1>1, <1>2, <1>25, GoodUnanswered
<1>28. Calm(rs) => /\ Same(base, rs[r].messages) /\ Asking(rs[r].messages)
                   /\ ps = Parts(r, k + 1)
  <2>1. HAVE Calm(rs)
  <2>2. ShownOK(t, rs, s)
    BY <1>1, <2>1 DEF FollowOK
  <2>3. Shows(t.messages, rs, r) /\ t.op.draft = Parts(r, k)
    BY <1>3, <1>4, <1>6, <2>2 DEF ShownOK
  <2>4. Asking(rs[r].messages) /\ rs[r].messages \in Seq(Message)
    BY <1>1, <1>5, <2>1, ShownRun, RunTypes
  <2>5. /\ Same(Unanswered(t.messages), rs[r].messages)
        /\ Answered(t.messages) => Last(t.messages).run = r
    BY <1>2, <2>3, <2>4, ShowsIs
  <2>6. base = Unanswered(t.messages)
    BY <1>2, <1>25, <2>5, UnansweredIs
  <2>7. ps = Append(Parts(r, k), <<r, k + 1>>)
    BY <1>4, <1>6, <1>8, <2>3
  <2> QED
    BY <2>4, <2>5, <2>6, <2>7, PartsIs
<1>29. PICK x \in Message : x = Answer(r, ps) /\ x.prompt = 0 /\ x.run = r /\ x.parts = ps
  BY MessageIs
<1>30. Good(ms, rs)
  <2>1. Plain(x, Len(rs))
    BY <1>5, <1>29 DEF Plain
  <2>2. ASSUME Calm(rs)
        PROVE  /\ x.parts = Parts(x.run, Len(x.parts)) /\ Len(x.parts) \in 1..rs[x.run].n
               /\ base # <<>> /\ Last(base) = Question(PromptOf(rs, x.run))
    <3>1. Len(x.parts) = k + 1 /\ x.parts = Parts(x.run, k + 1)
      BY <1>28, <1>29, <2>2, PartsIs
    <3>2. rs[r].messages \in Seq(Message)
      BY <1>1, <1>5, RunTypes
    <3>3. base # <<>> /\ Last(base) = Question(Last(rs[r].messages).prompt)
      BY <1>1, <1>27, <1>28, <2>2, <3>2, GoodEnd
    <3> QED
      BY <1>7, <1>29, <3>1, <3>3 DEF PromptOf
  <2> QED
    BY <1>1, <1>26, <1>27, <1>29, <2>1, <2>2, GoodAppend
<1>31. Calm(rs) => ShownOK(n, rs, s)
  <2>1. HAVE Calm(rs)
  <2>2. ShownOK(t, rs, s)
    BY <1>1, <2>1 DEF FollowOK
  <2>3. n.link.req # 0 => Asking(n.link.messages)
    BY <1>10, <1>18, <2>2 DEF ShownOK
  <2>4. Shows(n.messages, rs, r)
    <3>1. Last(ms).run = r
      BY <1>26, <1>29
    <3> QED
      BY <1>18, <1>26, <1>28, <2>1, <3>1, ShowsIf
  <2>5. /\ n.op.draft = Parts(n.link.run, n.link.after) /\ n.link.after # 0
        /\ n.messages # <<>> /\ Last(n.messages) = Answer(n.link.run, n.op.draft)
    BY <1>10, <1>12, <1>18, <1>26, <1>28, <2>1 DEF Answered
  <2>6. n.op.kind = "replay" =>
          Shows(n.op.kept, rs, n.link.run) /\ Asked(n.op.kept) = Asked(n.messages)
    BY <1>4, <1>10, <1>12, <1>18, <1>26, <1>27, <2>2 DEF ShownOK
  <2> QED
    BY <1>10, <1>12, <1>18, <1>20, <2>3, <2>4, <2>5, <2>6 DEF ShownOK
<1>32. FollowOK(n, rs, s, rf)
  <2>1. Good(n.op.kept, rs) /\ Good(n.link.messages, rs)
    BY <1>1, <1>10, <1>12, <1>18 DEF FollowOK
  <2>2. n.link.run <= Len(rs) /\ n.link.after <= rs[n.link.run].n
    BY <1>5, <1>7, <1>10, <1>18
  <2>3. \A q \in ReqIn(rs, n.link.req) : Same(n.link.messages, rs[q].messages)
    BY <1>1, <1>10, <1>18 DEF FollowOK
  <2> QED
    BY <1>3, <1>12, <1>18, <1>19, <1>20, <1>30, <1>31, <2>1, <2>2, <2>3 DEF FollowOK
<1>33. QuietOK(n, rs) /\ FitOK(n, rs, s)
  <2>1. /\ n.link.run = t.link.run /\ n.link.req = t.link.req
        /\ n.link.messages = t.link.messages /\ n.link.regen = t.link.regen
    BY <1>4, <1>10, <1>18
  <2> QED
    BY <1>1, <1>3, <1>20, <2>1, TiedFits
<1>34. Calm(rs) \/ "impatient" \notin Windows => \A m \in box : ~Pends(rs, rf, m)
  BY <1>1, <1>4 DEF PostOK
<1>35. \A m \in box : ~m.waited
  BY <1>1
<1>36. Chat(rs, s, rf, box, n)
  BY <1>1, <1>10, <1>18, <1>24, <1>32, <1>33, <1>34, <1>35, StepKeeps
<1> QED
  BY <1>17, <1>18, <1>26, <1>27, <1>36

\* A chat is opened.
LEMMA OpenedKeeps ==
  ASSUME NEW rs, NEW s, NEW rf, NEW box, NEW t, Chat(rs, s, rf, box, t), NEW saved \in Session,
         Good(saved.messages, rs), SettledIn(saved.messages, rs), saved.run = 0 => rs = <<>>,
         Calm(rs) /\ s.run # 0 => Shows(saved.messages, rs, s.run), NEW b \in BOOLEAN,
         NEW less, less \subseteq Mail, BoxOK(rs, less),
         {x.req : x \in less} \subseteq {x.req : x \in box},
         \A x \in less : ~x.waited /\ (Calm(rs) \/ "impatient" \notin Windows => ~Pends(rs, rf, x))
  PROVE  Chat(rs, s, rf, less, [Opened(saved) EXCEPT !.paused = b])
<1>1. /\ rs \in Seq(Run) /\ s \in Session /\ rf \subseteq Nat /\ box \subseteq Mail
      /\ ServerOK(rs, s) /\ Good(<<>>, rs)
  BY ChatIs
<1>2. PICK w \in Tabs : w = Opened(saved)
  BY OpenedIs
<1>3. /\ w.messages = saved.messages /\ w.status = "ready" /\ w.items = <<>>
      /\ ~w.paused /\ ~w.steering /\ ~w.error /\ ~w.sync
      /\ w.link = NoLink /\ w.stop = NoStop /\ w.op.kept = <<>>
      /\ (saved.run = 0 => w.op = NoOp)
      /\ (saved.run # 0 => w.op.kind = "resume" /\ w.op.pc = "asking")
  BY <1>2, OpenedIs
<1>4. PICK n \in Tabs : n = [w EXCEPT !.paused = b]
  BY PausedIs
<1>5. /\ n.messages = saved.messages /\ n.status = "ready" /\ n.items = <<>>
      /\ ~n.steering /\ ~n.error /\ ~n.sync
      /\ n.link = NoLink /\ n.stop = NoStop /\ n.op = w.op
  BY <1>3, <1>4, PausedIs
<1>6. /\ NoOp.pc = "none" /\ NoOp.kind = "none" /\ NoStop.pc = "none" /\ NoStop.then = "none"
      /\ NoLink.run = 0 /\ NoLink.req = 0 /\ NoLink.after = 0 /\ NoLink.messages = <<>>
  BY Nothing
<1>7. /\ n.op.pc \in {"none", "asking"} /\ n.op.kind \in {"none", "resume"}
      /\ (n.op.pc = "none" <=> n.op = NoOp) /\ (n.op.pc = "none" <=> n.op.kind = "none")
      /\ (n.op.pc = "none" <=> saved.run = 0) /\ n.op.kept = <<>>
  BY <1>3, <1>5, <1>6
<1>8. ~Reads(n) /\ Unlinked(n)
  BY <1>5, <1>6, <1>7 DEF Reads, Unlinked
<1>9. StepsOK(n)
  BY <1>5, <1>6, <1>7, <1>8 DEF StepsOK
<1>10. LinksOK(n)
  BY <1>5, <1>6, <1>7, <1>8 DEF LinksOK
<1>11. StopsOK(n)
  BY <1>5, <1>6 DEF StopsOK
<1>12. ToSet(n.items) = {}
  BY <1>5 DEF ToSet
<1>13. TabOK(n)
  BY <1>9, <1>10, <1>11, <1>12 DEF TabOK
<1>14. Calm(rs) => ShownOK(n, rs, s)
  BY <1>5, <1>6, <1>7, <1>8 DEF ShownOK, Unlinked
<1>15. FollowOK(n, rs, s, rf)
  <2>1. Good(n.messages, rs) /\ Good(n.link.messages, rs) /\ Good(n.op.kept, rs)
    BY <1>1, <1>5, <1>6, <1>7
  <2>2. n.link.run <= Len(rs)
    BY <1>1, <1>5, <1>6
  <2>3. ReqIn(rs, n.link.req) = {}
    BY <1>5, <1>6 DEF ReqIn
  <2>4. n.stop.pc = "none" /\ n.op.pc # "closing"
    BY <1>5, <1>6, <1>7
  <2> QED
    BY <1>5, <1>8, <1>14, <2>1, <2>2, <2>3, <2>4 DEF FollowOK
<1>16. QuietOK(n, rs)
  <2>1. saved.run = 0 => \A r \in 1..Len(rs) : FALSE
    OBVIOUS
  <2>2. saved.run # 0 => ~Loose(n)
    BY <1>7 DEF Loose
  <2> QED
    BY <1>5, <1>6, <2>1, <2>2 DEF QuietOK
<1>17. FitOK(n, rs, s)
  <2>1. saved.run = 0 => s.run = 0
    <3>1. s.run \in Nat /\ s.run <= Len(rs)
      BY <1>1 DEF ServerOK, Session
    <3>2. rs = <<>> => Len(rs) = 0
      OBVIOUS
    <3> QED
      BY <3>1, <3>2
  <2>2. saved.run # 0 => ~Loose(n)
    BY <1>7 DEF Loose
  <2> QED
    BY <1>5, <1>6, <2>1, <2>2 DEF FitOK
<1>18. PostOK(n, rs, rf, less)
  <2>1. \A x \in less : x.req # 0
    BY DEF BoxOK, MailOK
  <2> QED
    BY <1>5, <1>6, <2>1 DEF PostOK
<1>19. Numbered(rs, rf, less, n)
  <2>1. PICK top \in Nat : \A q \in Used(rs, rf, box, t) : q <= top
    BY DEF Chat, Numbered
  <2>2. Used(rs, rf, less, n) \subseteq Used(rs, rf, box, t)
    BY <1>5, <1>6 DEF Used
  <2> QED
    BY <2>1, <2>2 DEF Numbered
<1>20. Chat(rs, s, rf, less, n)
  BY <1>1, <1>13, <1>15, <1>16, <1>17, <1>18, <1>19 DEF Chat
<1> QED
  BY <1>2, <1>4, <1>20

-----------------------------------------------------------------------------
(* Connections that are lost                                               *)

\* A reply was read.
LEMMA ReadBox ==
  ASSUME NEW rs, NEW box, box \subseteq Mail, BoxOK(rs, box), NEW m \in box, m.waited
  PROVE  Lessens(box, box \ {m}) /\ \A x \in box \ {m} : ~x.waited
<1>1. Lessens(box, box)
  BY AllOfIt
<1> QED
  BY <1>1 DEF Lessens, BoxOK

\* Replies are waited for again.
LEMMA AgainBox ==
  ASSUME NEW rs, NEW box, box \subseteq Mail, BoxOK(rs, box), NEW part, part \subseteq box,
         NEW less, less = {Unanswering(m) : m \in part}
  PROVE  /\ Lessens(box, less)
         /\ (\A m \in part : m.waited) => \A x \in less : x.waited
<1>1. ASSUME NEW m \in part
      PROVE  /\ Unanswering(m) \in Mail /\ Unanswering(m).req = m.req
             /\ Unanswering(m).messages = m.messages /\ Unanswering(m).regen = m.regen
             /\ Unanswering(m).mine = m.mine /\ Unanswering(m).waited = m.waited
             /\ Unanswering(m).reply = "none"
  <2>1. m \in Mail /\ (~m.waited => m.reply = "none")
    BY DEF BoxOK, MailOK
  <2>2. CASE m.waited
    <3>1. Unanswering(m) = [m EXCEPT !.reply = "none"]
      BY <2>2 DEF Unanswering
    <3>2. [m EXCEPT !.reply = "none"] \in Mail
      BY <2>1 DEF Mail
    <3> QED
      BY <2>1, <3>1, <3>2 DEF Mail
  <2>3. CASE ~m.waited
    <3>1. Unanswering(m) = m
      BY <2>3 DEF Unanswering
    <3> QED
      BY <2>1, <2>3, <3>1
  <2> QED
    BY <2>2, <2>3 DEF Mail
<1>2. less \subseteq Mail
  BY <1>1
<1>3. ASSUME NEW x \in less
      PROVE  \E m \in box :
               /\ x.req = m.req /\ x.messages = m.messages /\ x.regen = m.regen
               /\ (x.mine => m.mine) /\ (x.waited => m.waited /\ x.mine = m.mine)
               /\ x.reply # "none" => x.reply = m.reply /\ x.waited
  <2>1. PICK m \in part : x = Unanswering(m)
    OBVIOUS
  <2> QED
    BY <1>1, <2>1
<1>4. ASSUME NEW x \in less, NEW y \in less, x.waited, y.waited PROVE x = y
  <2>1. PICK m \in part : x = Unanswering(m)
    OBVIOUS
  <2>2. PICK l \in part : y = Unanswering(l)
    OBVIOUS
  <2>3. m.waited /\ l.waited
    BY <1>1, <1>4, <2>1, <2>2
  <2>4. m = l
    BY <2>3 DEF BoxOK
  <2> QED
    BY <2>1, <2>2, <2>4
<1>5. (\A m \in part : m.waited) => \A x \in less : x.waited
  BY <1>1
<1> QED
  BY <1>2, <1>3, <1>4, <1>5 DEF Lessens

\* Nobody waits for what another page sent.
LEMMA OthersBox ==
  ASSUME NEW rs, NEW box, box \subseteq Mail, BoxOK(rs, box), NEW some, Lessens(box, some),
         \A x \in some : ~x.waited, NEW less, less = {[m EXCEPT !.mine = FALSE] : m \in some}
  PROVE  Lessens(box, less) /\ (\A x \in less : ~x.waited /\ ~x.mine)
         /\ {x.req : x \in less} \subseteq {x.req : x \in box}
<1>1. ASSUME NEW x \in less
      PROVE  /\ x \in Mail /\ ~x.waited /\ ~x.mine
             /\ \E m \in box :
                  /\ x.req = m.req /\ x.messages = m.messages /\ x.regen = m.regen
                  /\ (x.mine => m.mine) /\ (x.waited => m.waited /\ x.mine = m.mine)
                  /\ x.reply # "none" => x.reply = m.reply /\ x.waited
  <2>1. PICK l \in some : x = [l EXCEPT !.mine = FALSE]
    OBVIOUS
  <2>2. l \in Mail /\ ~l.waited
    BY DEF Lessens
  <2>3. /\ x \in Mail /\ ~x.mine /\ ~x.waited /\ x.req = l.req /\ x.messages = l.messages
        /\ x.regen = l.regen /\ x.reply = l.reply
    BY <2>1, <2>2 DEF Mail
  <2>4. PICK m \in box : /\ l.req = m.req /\ l.messages = m.messages /\ l.regen = m.regen
                         /\ l.reply # "none" => l.reply = m.reply /\ l.waited
    BY DEF Lessens
  <2> QED
    BY <2>2, <2>3, <2>4
<1>2. {x.req : x \in less} \subseteq {x.req : x \in box}
  BY <1>1
<1> QED
  BY <1>1, <1>2 DEF Lessens

\* Only the submissions change.
LEMMA LessKeeps ==
  ASSUME NEW rs, NEW s, NEW rf, NEW box, NEW t, Chat(rs, s, rf, box, t),
         NEW less, Lessens(box, less)
  PROVE  Chat(rs, s, rf, less, t)
<1>1. /\ t \in Tabs /\ TabOK(t) /\ FollowOK(t, rs, s, rf) /\ QuietOK(t, rs) /\ FitOK(t, rs, s)
      /\ PostOK(t, rs, rf, box)
  BY ChatIs
<1>2. \A x \in less : x.waited => t.op.pc = "posting"
  BY <1>1 DEF Lessens, PostOK
<1>3. Calm(rs) \/ "impatient" \notin Windows =>
        \A m \in box : Pends(rs, rf, m) => ~Loose(t) /\ t.link.run = 0 /\ m.req = t.link.req
  BY <1>1 DEF PostOK
<1> QED
  BY <1>1, <1>2, <1>3, StepKeeps

\* Where a connection breaks that is not tried again.
LEMMA BrokenIs ==
  ASSUME NEW t \in Tabs
  PROVE  LET tried == /\ t.op.pc \in {"posting", "reading", "reconnecting"}
                      /\ t.op.tries < Attempts IN
         /\ t.op.pc \in {"none", "saving"} => Broken(t) = t
         /\ t.op.pc = "closing" => Broken(t) = Drained(Over(t, "ready"))
         /\ t.op.pc = "status" => Broken(t) = Thrown(t)
         /\ ~tried /\ t.op.pc \in {"posting", "asking", "opening", "reading", "reconnecting"} =>
              Broken(t) = Drained(Over(t, "error"))
<1>1. "ready" \in {"ready", "busy", "error"} /\ "error" \in {"ready", "busy", "error"}
  OBVIOUS
<1>2. Finished(t, "ready") = Drained(Over(t, "ready")) /\ Finished(t, "error") = Drained(Over(t, "error"))
  BY <1>1, OverIs
<1>3. t.op.pc \in {"none", "saving"} => Broken(t) = t
  BY DEF Broken
<1>4. t.op.pc = "closing" => Broken(t) = Finished(t, "ready")
  BY DEF Broken
<1>5. t.op.pc = "status" => Broken(t) = Thrown(t)
  BY DEF Broken
<1>6. /\ ~(t.op.pc \in {"posting", "reading", "reconnecting"} /\ t.op.tries < Attempts)
      /\ t.op.pc \in {"posting", "asking", "opening", "reading", "reconnecting"}
      => Broken(t) = Finished(t, "error")
  BY DEF Broken
<1> QED
  BY <1>2, <1>3, <1>4, <1>5, <1>6

\* A connection of the tab is lost.
LEMMA BrokenKeeps ==
  ASSUME NEW rs, NEW s, NEW rf, NEW box, NEW t, Chat(rs, s, rf, box, t),
         t.op.pc = "closing" => rs[t.link.run].settled \/ "settling" \in Windows,
         NEW less, Lessens(box, less),
         ~(t.op.pc = "posting" /\ t.op.tries < Attempts) => \A x \in less : ~x.waited
  PROVE  /\ Chat(rs, s, rf, less, Broken(t))
         /\ Broken(t).op.pc = "posting" <=> (t.op.pc = "posting" /\ t.op.tries < Attempts)
<1>1. t \in Tabs /\ TabOK(t) /\ \A x \in box : x.waited => t.op.pc = "posting"
  BY ChatIs
<1>2. t.op \in OpType /\ NoOp.pc = "none"
  BY <1>1, TabTypes, Nothing
<1>3. ASSUME NEW n \in Tabs, n.op = NoOp PROVE Drained(n).op.pc # "posting"
  <2>1. CASE Drained(n) = n
    BY <1>2, <1>3, <2>1
  <2>2. CASE Drained(n) # n
    <3>1. /\ n.items # <<>> /\ Drained(n) = Send([n EXCEPT !.items = Tail(n.items)], Head(n.items))
      BY <2>2, DrainedIs
    <3>2. n.items \in Seq(Nat)
      BY TabTypes
    <3>3. PICK q \in Seq(Nat), p \in Nat : q = Tail(n.items) /\ p = Head(n.items)
      BY <3>1, <3>2, HeadTail
    <3>4. PICK u \in Tabs : u = [n EXCEPT !.items = q]
      BY ItemsIs
    <3>5. Send(u, p).op.pc = "saving"
      BY SendIs
    <3> QED
      BY <3>1, <3>3, <3>4, <3>5
  <2> QED
    BY <2>1, <2>2
<1>4. CASE t.op.pc \in {"none", "saving"}
  <2>1. Broken(t) = t
    BY <1>1, <1>4, BrokenIs
  <2> QED
    BY <1>4, <2>1, LessKeeps
<1>5. CASE t.op.pc = "closing"
  <2>1. Broken(t) = Drained(Over(t, "ready")) /\ Over(t, "ready") \in Tabs /\ Over(t, "ready").op = NoOp
    <3>1. "ready" \in {"ready", "busy", "error"}
      OBVIOUS
    <3> QED
      BY <1>1, <1>5, <3>1, BrokenIs, OverIs
  <2>2. Chat(rs, s, rf, less, Over(t, "ready"))
    BY <1>5, ClosedKeeps
  <2> QED
    BY <1>3, <1>5, <2>1, <2>2, DrainedKeeps
<1>6. CASE t.op.pc = "status"
  <2>1. Broken(t) = Thrown(t) /\ Thrown(t).op = NoOp
    BY <1>1, <1>6, BrokenIs, ThrownIs
  <2> QED
    BY <1>2, <1>6, <2>1, ThrownKeeps
<1>7. CASE /\ ~(t.op.pc \in {"posting", "reading", "reconnecting"} /\ t.op.tries < Attempts)
           /\ t.op.pc \in {"posting", "asking", "opening", "reading", "reconnecting"}
  <2>1. Broken(t) = Drained(Over(t, "error"))
    BY <1>1, <1>7, BrokenIs
  <2>2. Over(t, "error") \in Tabs /\ Over(t, "error").op = NoOp
    <3>1. "error" \in {"ready", "busy", "error"}
      OBVIOUS
    <3> QED
      BY <1>1, <3>1, OverIs
  <2>3. Chat(rs, s, rf, less, Over(t, "error")) /\ Drained(Over(t, "error")) = Over(t, "error")
    BY <1>7, ErrorKeeps
  <2> QED
    BY <1>2, <1>7, <2>1, <2>2, <2>3
<1>8. CASE t.op.pc \in {"posting", "reading", "reconnecting"} /\ t.op.tries < Attempts
  <2>1. PICK o \in OpType :
          /\ Broken(t) = [t EXCEPT !.op = o]
          /\ IF t.op.pc = "posting" THEN o.pc = "posting" ELSE o.pc = "reconnecting"
          /\ o.kind = t.op.kind /\ o.draft = t.op.draft /\ o.kept = t.op.kept
    BY <1>1, <1>8, TriedIs
  <2>2. Broken(t).op = o
    BY <1>1, <2>1, OpIs
  <2>3. \A x \in less : x.waited => o.pc = "posting"
    BY <1>1, <2>1 DEF Lessens
  <2>4. Chat(rs, s, rf, less, [t EXCEPT !.op = o])
    <3>1. \/ t.op.pc = "posting" /\ o.pc = "posting" /\ o.kind = t.op.kind
          \/ Reads(t) /\ o.pc \in {"reading", "reconnecting", "closing"} /\ o.kind = t.op.kind
      BY <1>8, <2>1 DEF Reads
    <3> QED
      BY <2>1, <2>3, <3>1, TurnKeeps
  <2> QED
    BY <1>8, <2>1, <2>2, <2>4
<1>9. t.op.pc \in {"none", "saving", "posting", "status", "asking", "opening", "reading",
                   "reconnecting", "closing"}
  BY <1>2 DEF OpType
<1> QED
  BY <1>4, <1>5, <1>6, <1>7, <1>8, <1>9

\* The server goes on with its runs.
LEMMA MovesKeep ==
  ASSUME NEW rs, NEW s, NEW rf, NEW box, NEW t, Chat(rs, s, rf, box, t),
         NEW more, Moves(rs, more), NEW s2, Left(more, s, s2)
  PROVE  Chat(more, s2, rf, box, t)
<1>1. rs \in Seq(Run) /\ s \in Session /\ rf \subseteq Nat /\ box \subseteq Mail /\ t \in Tabs
  BY ChatIs
<1>2. TabOK(t) /\ ServerOK(rs, s)
  BY ChatIs
<1>3. more \in Seq(Run) /\ s2 \in Session
  BY DEF Moves, Left
<1>4. Numbered(more, rf, box, t)
  <2>1. Numbered(rs, rf, box, t)
    BY DEF Chat
  <2>2. {more[r].req : r \in 1..Len(more)} = {rs[r].req : r \in 1..Len(rs)}
    BY DEF Moves
  <2> QED
    BY <2>1, <2>2 DEF Numbered, Used
<1>5. ServerOK(more, s2)
  BY <1>1, <1>2, ServerMoves
<1>6. FollowOK(t, more, s2, rf)
  <2>1. FollowOK(t, rs, s, rf)
    BY ChatIs
  <2> QED
    BY <2>1, <1>1, <1>2, FollowMoves
<1>7. QuietOK(t, rs) /\ QuietOK(t, more)
  <2>1. QuietOK(t, rs)
    BY ChatIs
  <2> QED
    BY <2>1, QuietMoves
<1>8. FitOK(t, more, s2)
  <2>1. FitOK(t, rs, s)
    BY ChatIs
  <2> QED
    BY <2>1, <1>1, <1>2, <1>7, FitMoves
<1>9. BoxOK(more, box)
  <2>1. BoxOK(rs, box)
    BY ChatIs
  <2> QED
    BY <2>1, <1>1, BoxMoves
<1>10. PostOK(t, more, rf, box)
  <2>1. PostOK(t, rs, rf, box)
    BY ChatIs
  <2> QED
    BY <2>1, PostMoves
<1> QED
  BY <1>1, <1>2, <1>3, <1>4, <1>5, <1>6, <1>7, <1>8, <1>9, <1>10 DEF Chat

\* A run that is changed alone.
LEMMA RunIs ==
  ASSUME NEW rs \in Seq(Run), NEW r \in 1..Len(rs), NEW x \in Run
  PROVE  /\ [rs EXCEPT ![r] = x] \in Seq(Run) /\ Len([rs EXCEPT ![r] = x]) = Len(rs)
         /\ [rs EXCEPT ![r] = x][r] = x
         /\ \A q \in 1..Len(rs) : q # r => [rs EXCEPT ![r] = x][q] = rs[q]
  OBVIOUS

\* A run that made an event, that ended, or that was settled.
LEMMA EmittedIs ==
  ASSUME NEW x \in Run, NEW n \in 0..Events
  PROVE  LET y == [x EXCEPT !.n = n] IN
         /\ y \in Run /\ y.n = n /\ y.messages = x.messages /\ y.req = x.req /\ y.mine = x.mine
         /\ y.status = x.status /\ y.settled = x.settled
  BY DEF Run
\* A run that has ended, in fields.
LEMMA EndedIs ==
  ASSUME NEW x \in Run, NEW st \in {"completed", "failed", "stopped", "interrupted"}
  PROVE  LET y == [x EXCEPT !.status = st] IN
         /\ y \in Run /\ y.n = x.n /\ y.messages = x.messages /\ y.req = x.req /\ y.mine = x.mine
         /\ y.status = st /\ y.settled = x.settled
  BY DEF Run
\* A run that is settled, in fields.
LEMMA SettledIs ==
  ASSUME NEW x \in Run
  PROVE  LET y == [x EXCEPT !.settled = TRUE] IN
         /\ y \in Run /\ y.n = x.n /\ y.messages = x.messages /\ y.req = x.req /\ y.mine = x.mine
         /\ y.status = x.status /\ y.settled
  BY DEF Run

\* A run that a Stop has marked, and one that a restart has interrupted.
LEMMA MarkedIs ==
  ASSUME NEW x \in Run, NEW b \in BOOLEAN
  PROVE  LET y == [x EXCEPT !.stop = b] IN
         /\ y \in Run /\ y.n = x.n /\ y.messages = x.messages /\ y.req = x.req /\ y.mine = x.mine
         /\ y.status = x.status /\ y.settled = x.settled
  BY DEF Run
\* A run that a restart interrupted, in fields.
LEMMA InterruptedIs ==
  ASSUME NEW x \in Run
  PROVE  LET y == [x EXCEPT !.settled = TRUE,
                            !.status = IF x.status = "running" THEN "interrupted" ELSE x.status] IN
         /\ y \in Run /\ y.n = x.n /\ y.messages = x.messages /\ y.req = x.req /\ y.mine = x.mine
         /\ (x.status # "running" => y.status = x.status) /\ y.settled /\ y.status # "running"
  BY DEF Run

\* While no run is settled by it, the chat is as its owner left it.
LEMMA LeftSame ==
  ASSUME NEW rs \in Seq(Run), NEW s \in Session, ServerOK(rs, s), NEW more, Moves(rs, more),
         \A r \in 1..Len(rs) : more[r].settled = rs[r].settled
  PROVE  Left(more, s, s)
<1>1. CASE s.run = 0
  BY <1>1 DEF Left
<1>2. CASE s.run # 0
  <2>1. s.run \in 1..Len(rs)
    BY <1>2 DEF ServerOK, Session
  <2>2. more[s.run].messages = rs[s.run].messages /\ (rs[s.run].settled => more[s.run].n = rs[s.run].n)
    <3>1. rs[s.run].settled => rs[s.run].status # "running"
      BY <2>1 DEF ServerOK, RunOK
    <3> QED
      BY <2>1, <3>1 DEF Moves
  <2>3. s.messages = IF rs[s.run].settled THEN TranscriptOf(rs, s.run) ELSE rs[s.run].messages
    BY <1>2 DEF ServerOK
  <2>4. rs[s.run].settled => TranscriptOf(more, s.run) = TranscriptOf(rs, s.run)
    BY <2>2 DEF TranscriptOf
  <2> QED
    BY <1>2, <2>1, <2>2, <2>3, <2>4 DEF Left
<1> QED
  BY <1>1, <1>2

\* One run moves alone, and does not settle by it.
LEMMA OneMoves ==
  ASSUME NEW rs, NEW s, NEW rf, NEW box, NEW t, Chat(rs, s, rf, box, t), NEW r \in 1..Len(rs),
         NEW y \in Run, y.messages = rs[r].messages, y.req = rs[r].req, y.mine = rs[r].mine,
         rs[r].n <= y.n, rs[r].status = "running" \/ (y.n = rs[r].n /\ y.status = rs[r].status),
         rs[r].settled => y.settled, y.settled => y.status # "running"
  PROVE  /\ Moves(rs, [rs EXCEPT ![r] = y])
         /\ y.settled = rs[r].settled => Left([rs EXCEPT ![r] = y], s, s)
<1>1. rs \in Seq(Run) /\ s \in Session /\ ServerOK(rs, s)
  BY ChatIs
<1>2. PICK more \in Seq(Run) : more = [rs EXCEPT ![r] = y]
  BY <1>1, RunIs
<1>3. /\ Len(more) = Len(rs) /\ more[r] = y
      /\ \A q \in 1..Len(rs) : q # r => more[q] = rs[q]
  BY <1>1, <1>2, RunIs
<1>4. \A q \in 1..Len(rs) : rs[q].settled => rs[q].status # "running"
  BY <1>1 DEF ServerOK, RunOK
<1>5. \A q \in 1..Len(rs) : rs[q].n <= rs[q].n
  <2> TAKE q \in 1..Len(rs)
  <2>1. rs[q].n \in Nat
    BY <1>1, RunTypes
  <2> QED
    BY <2>1
<1>6. Moves(rs, more)
  BY <1>1, <1>3, <1>4, <1>5 DEF Moves
<1>7. ASSUME y.settled = rs[r].settled PROVE Left(more, s, s)
  <2>1. \A q \in 1..Len(rs) : more[q].settled = rs[q].settled
    BY <1>3, <1>7
  <2> QED
    BY <1>1, <1>6, <2>1, LeftSame
<1> QED
  BY <1>2, <1>6, <1>7

\* A run that has ended is settled, and what it said is saved, for it owns the chat.
LEMMA SettleLeft ==
  ASSUME NEW rs, NEW s, NEW rf, NEW box, NEW t, Chat(rs, s, rf, box, t), NEW r \in 1..Len(rs),
         ~rs[r].settled,
         NEW y \in Run, y.messages = rs[r].messages, y.n = rs[r].n, y.settled
  PROVE  s.run = r /\ Left([rs EXCEPT ![r] = y], s, [s EXCEPT !.messages = TranscriptOf(rs, r)])
<1>1. rs \in Seq(Run) /\ s \in Session /\ ServerOK(rs, s)
  BY ChatIs
<1>2. PICK more \in Seq(Run) : more = [rs EXCEPT ![r] = y]
  BY <1>1, RunIs
<1>3. more[r] = y
  BY <1>1, <1>2, RunIs
<1>4. r = s.run
  BY <1>1 DEF ServerOK, RunOK
<1>5. Good(rs[r].messages, rs)
  BY <1>1 DEF ServerOK, RunOK
<1>6. PICK ms \in Seq(Message) : ms = TranscriptOf(rs, r)
  BY <1>1, <1>5, TranscriptIs
<1>7. PICK s2 \in Session : s2 = [s EXCEPT !.messages = ms]
  BY <1>1 DEF Session
<1>8. s2.run = s.run /\ s2.messages = ms
  BY <1>1, <1>7 DEF Session
<1>9. TranscriptOf(more, r) = ms
  BY <1>3, <1>6 DEF TranscriptOf
<1>10. s.run # 0 /\ more[s.run].settled
  BY <1>3, <1>4
<1>11. Left(more, s, s2)
  BY <1>4, <1>8, <1>9, <1>10 DEF Left
<1> QED
  BY <1>2, <1>4, <1>6, <1>7, <1>11

\* Every run moves.
LEMMA AllMove ==
  ASSUME NEW rs, NEW s, NEW rf, NEW box, NEW t, Chat(rs, s, rf, box, t), NEW more,
         DOMAIN more = 1..Len(rs),
         \A r \in 1..Len(rs) :
           /\ more[r] \in Run /\ more[r].n = rs[r].n /\ more[r].messages = rs[r].messages
           /\ more[r].req = rs[r].req /\ more[r].mine = rs[r].mine
           /\ rs[r].status # "running" => more[r].status = rs[r].status
           /\ (rs[r].settled => more[r].settled) /\ (more[r].settled => more[r].status # "running"),
         more = [r \in 1..Len(rs) |-> more[r]]
  PROVE  Moves(rs, more)
<1>1. rs \in Seq(Run)
  BY ChatIs
<1>2. Len(rs) \in Nat
  BY <1>1
<1>3. more \in Seq(Run) /\ Len(more) = Len(rs)
  <2>1. more \in [1..Len(rs) -> Run]
    BY Zenon
  <2> QED
    BY <2>1, <1>2
<1>4. \A q \in 1..Len(rs) : rs[q].n <= rs[q].n
  <2> TAKE q \in 1..Len(rs)
  <2>1. rs[q].n \in Nat
    BY <1>1, RunTypes
  <2> QED
    BY <2>1
<1> QED
  BY <1>1, <1>3, <1>4 DEF Moves

\* The server restarts: every run is settled, and the chat is what its owner left.
LEMMA AllLeft ==
  ASSUME NEW rs, NEW s, NEW rf, NEW box, NEW t, Chat(rs, s, rf, box, t), NEW more, Moves(rs, more),
         \A r \in 1..Len(rs) : more[r].settled /\ more[r].n = rs[r].n
  PROVE  Left(more, s, IF s.run \in {r \in 1..Len(rs) : ~rs[r].settled}
                       THEN [s EXCEPT !.messages = TranscriptOf(rs, s.run)] ELSE s)
<1>1. rs \in Seq(Run) /\ s \in Session /\ ServerOK(rs, s)
  BY ChatIs
<1>2. s.run = 0 => s.run \notin {r \in 1..Len(rs) : ~rs[r].settled}
  OBVIOUS
<1>3. CASE s.run = 0
  BY <1>1, <1>2, <1>3 DEF Left
<1>4. CASE s.run # 0
  <2>1. s.run \in 1..Len(rs)
    BY <1>1, <1>4 DEF ServerOK, Session
  <2>2. Good(rs[s.run].messages, rs)
    BY <1>1, <2>1 DEF ServerOK, RunOK
  <2>3. PICK ms \in Seq(Message) : ms = TranscriptOf(rs, s.run)
    BY <1>1, <2>1, <2>2, TranscriptIs
  <2>4. more[s.run].messages = rs[s.run].messages /\ more[s.run].n = rs[s.run].n
        /\ more[s.run].settled
    BY <2>1 DEF Moves
  <2>5. TranscriptOf(more, s.run) = ms
    BY <2>3, <2>4 DEF TranscriptOf
  <2>6. rs[s.run].settled => s.messages = ms
    BY <1>1, <1>4, <2>3 DEF ServerOK
  <2>7. PICK s2 \in Session : s2 = [s EXCEPT !.messages = ms]
    BY <1>1 DEF Session
  <2>8. s2.run = s.run /\ s2.messages = ms
    BY <1>1, <2>7 DEF Session
  <2>9. Left(more, s, s2)
    BY <1>4, <2>4, <2>5, <2>8 DEF Left
  <2>10. rs[s.run].settled => Left(more, s, s)
    BY <1>1, <1>4, <2>4, <2>5, <2>6 DEF Left
  <2> QED
    BY <2>1, <2>3, <2>7, <2>9, <2>10
<1> QED
  BY <1>3, <1>4

\* A submission goes on from what is saved, h, and is still what it was.
LEMMA ContinuedIs ==
  ASSUME NEW rs \in Seq(Run), NEW ms \in Seq(Message), NEW h \in Seq(Message), Good(ms, rs),
         Good(h, rs), \A r \in 1..Len(rs) : rs[r].settled, Len(h) <= Len(ms),
         \A i \in 1..Len(h) : h[i].prompt = ms[i].prompt /\ h[i].run = ms[i].run
  PROVE  LET c == h \o SubSeq(ms, Len(h) + 1, Len(ms)) IN
         /\ c \in Seq(Message) /\ Same(ms, c) /\ Good(c, rs) /\ SettledIn(c, rs)
         /\ Asked(h) \subseteq Asked(c)
<1> DEFINE d == SubSeq(ms, Len(h) + 1, Len(ms))
           c == h \o d
<1>1. Len(h) \in Nat /\ Len(ms) \in Nat
  OBVIOUS
<1>2. \A i \in Len(h) + 1..Len(ms) : ms[i] \in Message
  BY <1>1, ElementOfSeq
<1>3. d \in Seq(Message) /\ Len(d) = Len(ms) - Len(h)
      /\ \A i \in 1..Len(d) : d[i] = ms[Len(h) + i]
  <2>1. d \in Seq(Message)
    BY <1>1, <1>2, SubSeqProperties
  <2>2. Len(d) = IF Len(h) + 1 <= Len(ms) THEN Len(ms) - (Len(h) + 1) + 1 ELSE 0
    BY <1>1, <1>2, SubSeqProperties
  <2>3. \A i \in 1..Len(ms) - (Len(h) + 1) + 1 : d[i] = ms[Len(h) + 1 + i - 1]
    BY <1>1, <1>2, SubSeqProperties
  <2>4. Len(d) = Len(ms) - Len(h)
    BY <1>1, <2>2
  <2>5. \A i \in 1..Len(d) : Len(h) + 1 + i - 1 = Len(h) + i /\ i \in 1..Len(ms) - (Len(h) + 1) + 1
    BY <1>1, <2>4
  <2> QED
    BY <2>1, <2>3, <2>4, <2>5
<1> HIDE DEF d
<1>4. /\ c \in Seq(Message) /\ Len(c) = Len(ms)
      /\ \A i \in 1..Len(h) : c[i] = h[i]
      /\ \A i \in 1..Len(ms) : i > Len(h) => c[i] = ms[i]
  <2>1. c \in Seq(Message) /\ Len(c) = Len(h) + Len(d)
        /\ \A i \in 1..Len(h) + Len(d) : c[i] = IF i <= Len(h) THEN h[i] ELSE d[i - Len(h)]
    BY <1>3, ConcatProperties
  <2>2. Len(c) = Len(ms)
    BY <1>1, <1>3, <2>1
  <2>3. ASSUME NEW i \in 1..Len(ms), i > Len(h) PROVE c[i] = ms[i]
    <3>1. i - Len(h) \in 1..Len(d) /\ ~(i <= Len(h)) /\ i \in 1..Len(h) + Len(d)
      BY <1>1, <1>3, <2>3
    <3>2. c[i] = d[i - Len(h)]
      BY <2>1, <3>1
    <3>3. Len(h) + (i - Len(h)) = i
      BY <1>1
    <3> QED
      BY <1>3, <3>1, <3>2, <3>3
  <2>4. ASSUME NEW i \in 1..Len(h) PROVE c[i] = h[i]
    <3>1. i <= Len(h) /\ i \in 1..Len(h) + Len(d)
      BY <1>1, <1>3
    <3> QED
      BY <2>1, <3>1
  <2> QED
    BY <2>1, <2>2, <2>3, <2>4
<1> HIDE DEF c
<1>5. \A i \in 1..Len(ms) : i \notin 1..Len(h) => i > Len(h)
  BY <1>1
<1>6. Same(ms, c)
  BY <1>4, <1>5 DEF Same
<1>7. Good(c, rs)
  <2>1. \A i \in 1..Len(c) : Plain(c[i], Len(rs))
    BY <1>4, <1>5 DEF Good
  <2>2. ASSUME Calm(rs), NEW i \in 1..Len(c), c[i].run # 0 PROVE Right(c, i, rs)
    <3>1. CASE i \in 1..Len(h)
      <4>1. Right(h, i, rs)
        BY <2>2, <3>1, <1>4 DEF Good
      <4>2. i > 1 /\ i - 1 \in 1..Len(h)
        BY <4>1, <3>1, <1>1 DEF Right
      <4> QED
        BY <4>1, <4>2, <3>1, <1>4 DEF Right
    <3>2. CASE i > Len(h)
      <4>1. i \in 1..Len(ms) /\ c[i] = ms[i]
        BY <3>2, <1>4
      <4>2. Right(ms, i, rs)
        BY <2>2, <4>1 DEF Good
      <4>3. i > 1 /\ i - 1 \in 1..Len(ms)
        BY <4>1, <4>2, <1>1 DEF Right
      <4>4. CASE i - 1 \in 1..Len(h)
        <5>1. c[i - 1] = h[i - 1] /\ h[i - 1].prompt = ms[i - 1].prompt /\ h[i - 1].run = ms[i - 1].run
          BY <4>4, <1>4
        <5>2. ms[i - 1] = Question(PromptOf(rs, ms[i].run))
          BY <4>2 DEF Right
        <5>3. ms[i - 1].run = 0 /\ ms[i - 1].prompt = PromptOf(rs, ms[i].run)
          BY <5>2 DEF Question
        <5>4. h[i - 1] = Question(h[i - 1].prompt)
          BY <5>1, <5>3, <4>4, GoodIs
        <5> QED
          BY <4>1, <4>2, <5>1, <5>3, <5>4 DEF Right
      <4>5. CASE i - 1 \notin 1..Len(h)
        <5>1. c[i - 1] = ms[i - 1]
          BY <4>3, <4>5, <1>4, <1>5
        <5> QED
          BY <4>1, <4>2, <5>1 DEF Right
      <4> QED
        BY <4>4, <4>5
    <3> QED
      BY <3>1, <3>2, <1>4, <1>5
  <2> QED
    BY <2>1, <2>2 DEF Good
<1>8. SettledIn(c, rs)
  <2>1. \A i \in 1..Len(c) : c[i].run # 0 => c[i].run \in 1..Len(rs)
    BY <1>4, <1>7, GoodIs
  <2> QED
    BY <2>1 DEF SettledIn
<1>9. Asked(h) \subseteq Asked(c)
  <2>1. \A i \in 1..Len(h) : i \in 1..Len(c)
    BY <1>1, <1>4
  <2> QED
    BY <2>1, <1>4 DEF Asked
<1> QED
  BY <1>4, <1>6, <1>7, <1>8, <1>9 DEF c, d

\* A run x that the server may begin, of the chat s that is at rest: a submission of the
\* box, or a turn of others.
Admits(rs, s, rf, box, t, x) ==
  /\ x \in Run /\ ~x.settled /\ \A r \in 1..Len(rs) : rs[r].settled
  /\ Good(x.messages, rs) /\ SettledIn(x.messages, rs) /\ ReqIn(rs, x.req) = {}
  /\ ("overtaken" \notin Windows \/ (Mine(rs) /\ x.mine) => Asking(x.messages))
  /\ s.run # 0 => Asked(s.messages) \subseteq Asked(x.messages)
  /\ x.mine => x.req # 0
  /\ x.req # 0 => \E m \in box : /\ m.req = x.req /\ m.req \notin rf /\ Same(m.messages, x.messages)
                                 /\ x.mine = m.mine
  /\ ~x.mine => "overtaken" \in Windows \/ ~(Tied(t) /\ Unlinked(t))

\* The runs and the chat once it has begun.
Begins(rs, x, more) == more = Append(rs, x)
Owns(rs, x, s2) == s2 = [run |-> Len(rs) + 1, messages |-> x.messages]

\* A run more, and the others as they were.
LEMMA AdmitGrows ==
  ASSUME NEW rs \in Seq(Run), NEW x \in Run, NEW more, Begins(rs, x, more)
  PROVE  /\ Grows(rs, more) /\ Len(more) = Len(rs) + 1 /\ more[Len(rs) + 1] = x
         /\ \A r \in 1..Len(rs) : more[r] = rs[r] /\ r \in 1..Len(more)
         /\ \A r \in 1..Len(more) : r \in 1..Len(rs) \/ r = Len(rs) + 1
         /\ Len(rs) \in Nat /\ Len(more) \in Nat /\ Len(rs) + 1 \in 1..Len(more)
         /\ Mine(more) <=> Mine(rs) /\ x.mine
         /\ \A q : ReqIn(more, q) = IF q # 0 /\ x.req = q THEN ReqIn(rs, q) \cup {Len(rs) + 1}
                                    ELSE ReqIn(rs, q)
<1>1. /\ more \in Seq(Run) /\ Len(more) = Len(rs) + 1 /\ more[Len(rs) + 1] = x
      /\ \A r \in 1..Len(rs) : more[r] = rs[r]
  BY AppendProperties DEF Begins
<1>2. /\ Len(rs) \in Nat /\ Len(more) \in Nat /\ Len(rs) + 1 \in 1..Len(more)
      /\ \A r \in 1..Len(rs) : r \in 1..Len(more)
      /\ \A r \in 1..Len(more) : r \in 1..Len(rs) \/ r = Len(rs) + 1
  BY <1>1
<1> HIDE DEF Grows
<1>3. Mine(more) <=> Mine(rs) /\ x.mine
  BY <1>1, <1>2 DEF Mine
<1>4. \A r \in 1..Len(rs) : rs[r].n <= more[r].n
  <2> TAKE r \in 1..Len(rs)
  <2>1. rs[r].n \in Nat
    BY RunTypes
  <2> QED
    BY <2>1, <1>1
<1>5. Len(rs) <= Len(more)
  BY <1>1, <1>2
<1>6. Grows(rs, more)
  BY <1>1, <1>3, <1>4, <1>5 DEF Grows, Calm
<1>7. ASSUME NEW q
      PROVE  ReqIn(more, q) = IF q # 0 /\ x.req = q THEN ReqIn(rs, q) \cup {Len(rs) + 1}
                              ELSE ReqIn(rs, q)
  BY <1>1, <1>2 DEF ReqIn
<1> QED
  BY <1>1, <1>2, <1>3, <1>6, <1>7

\* A run of the tab is its last submission.
LEMMA AdmitMine ==
  ASSUME NEW rs, NEW s, NEW rf, NEW box, NEW t, Chat(rs, s, rf, box, t), NEW x,
         Admits(rs, s, rf, box, t, x), x.mine, Calm(rs) \/ "impatient" \notin Windows
  PROVE  ~Loose(t) /\ t.link.run = 0 /\ x.req = t.link.req /\ t.link.req # 0
<1>1. PICK m \in box : m.req = x.req /\ m.req \notin rf /\ m.mine
  BY DEF Admits
<1>2. ReqIn(rs, m.req) = {}
  BY <1>1 DEF Admits
<1>3. Pends(rs, rf, m)
  BY <1>1, <1>2 DEF Pends
<1>4. PostOK(t, rs, rf, box)
  BY ChatIs
<1>5. ~Loose(t) /\ t.link.run = 0 /\ m.req = t.link.req
  BY <1>3, <1>4 DEF PostOK
<1> QED
  BY <1>1, <1>5 DEF Admits

\* The new run owns the chat, and the server keeps its order.
LEMMA AdmitServer ==
  ASSUME NEW rs, NEW s, NEW rf, NEW box, NEW t, Chat(rs, s, rf, box, t), NEW x,
         Admits(rs, s, rf, box, t, x), NEW more, Begins(rs, x, more),
         NEW s2, Owns(rs, x, s2)
  PROVE  ServerOK(more, s2) /\ s2 \in Session /\ s2.run = Len(rs) + 1
<1>1. rs \in Seq(Run) /\ ServerOK(rs, s) /\ s \in Session
  BY ChatIs
<1>2. x \in Run /\ x.messages \in Seq(Message)
  BY DEF Admits, Run
<1>3. /\ Grows(rs, more) /\ Len(more) = Len(rs) + 1 /\ more[Len(rs) + 1] = x
      /\ \A r \in 1..Len(rs) : more[r] = rs[r] /\ r \in 1..Len(more)
      /\ \A r \in 1..Len(more) : r \in 1..Len(rs) \/ r = Len(rs) + 1
      /\ Len(rs) \in Nat /\ Len(more) \in Nat /\ Len(rs) + 1 \in 1..Len(more)
  BY <1>1, <1>2, AdmitGrows
<1>4. s2 \in Session /\ s2.run = Len(rs) + 1 /\ s2.messages = x.messages
  BY <1>2, <1>3 DEF Session, Owns
<1>5. Good(x.messages, more) /\ SettledIn(x.messages, more)
  BY <1>2, <1>3, GoodGrows, SettledGrows DEF Admits
<1>6. ASSUME NEW r \in 1..Len(rs) PROVE RunOK(more, s2, r)
  <2>1. RunOK(rs, s, r) /\ rs[r].messages \in Seq(Message)
    BY <1>1, RunTypes DEF ServerOK
  <2>2. Good(rs[r].messages, more) /\ SettledIn(rs[r].messages, more)
    BY <2>1, <1>3, GoodGrows, SettledGrows DEF RunOK
  <2>3. rs[r].settled
    BY DEF Admits
  <2>4. ASSUME Calm(more)
        PROVE  Asking(rs[r].messages) /\ PromptOf(rs, r) \in Asked(s2.messages)
    <3>1. Calm(rs)
      BY <1>3, <2>4 DEF Grows
    <3>2. Asking(rs[r].messages) /\ PromptOf(rs, r) \in Asked(s.messages)
      BY <2>1, <3>1 DEF RunOK
    <3>3. s.run # 0
      BY <1>1 DEF ServerOK
    <3> QED
      BY <3>2, <3>3, <1>4 DEF Admits
  <2>5. PromptOf(more, r) = PromptOf(rs, r)
    BY <1>3 DEF PromptOf
  <2> QED
    BY <1>3, <2>1, <2>2, <2>3, <2>4, <2>5 DEF RunOK
<1>7. RunOK(more, s2, Len(rs) + 1)
  <2>1. ASSUME Calm(more)
        PROVE  Asking(x.messages) /\ Last(x.messages).prompt \in Asked(x.messages)
    <3>0. Mine(more) <=> Mine(rs) /\ x.mine
      BY <1>1, <1>2, AdmitGrows
    <3>1. Asking(x.messages)
      BY <2>1, <3>0 DEF Admits, Calm
    <3>2. /\ Len(x.messages) \in 1..Len(x.messages)
          /\ Last(x.messages) = x.messages[Len(x.messages)]
      <4>1. x.messages # <<>>
        BY <3>1 DEF Asking
      <4>2. Len(x.messages) \in Nat \ {0} /\ Last(x.messages) = x.messages[Len(x.messages)]
        BY <4>1, <1>2, FrontIs
      <4> QED
        BY <4>2
    <3>3. Last(x.messages).prompt # 0
      <4>1. Good(x.messages, rs)
        BY DEF Admits
      <4>2. x.messages[Len(x.messages)].run = 0
        BY <3>1, <3>2 DEF Asking
      <4> QED
        BY <4>1, <4>2, <3>2, <1>2, <1>1, GoodIs
    <3> QED
      BY <3>1, <3>2, <3>3 DEF Asked
  <2>2. PromptOf(more, Len(rs) + 1) = Last(x.messages).prompt
    BY <1>3 DEF PromptOf
  <2> QED
    BY <1>3, <1>4, <1>5, <2>1, <2>2 DEF RunOK, Admits
<1>8. ASSUME NEW r \in 1..Len(more), NEW q \in 1..Len(more), more[r].req = more[q].req,
             more[r].req # 0
      PROVE  r = q
  <2>1. \A p \in 1..Len(rs) : rs[p].req = x.req => x.req = 0
    BY DEF Admits, ReqIn
  <2>2. \A p, o \in 1..Len(rs) : rs[p].req = rs[o].req /\ rs[p].req # 0 => p = o
    BY <1>1 DEF ServerOK
  <2> QED
    BY <1>3, <1>8, <2>1, <2>2
<1>9. ~more[s2.run].settled /\ more[s2.run].messages = x.messages
  BY <1>3, <1>4 DEF Admits
<1>10. \A r \in 1..Len(more) : RunOK(more, s2, r)
  BY <1>3, <1>6, <1>7
<1>11. s2.run <= Len(more) /\ s2.run # 0
  BY <1>3, <1>4
<1> QED
  BY <1>4, <1>5, <1>8, <1>9, <1>10, <1>11 DEF ServerOK

\* The tab still follows what it followed when another run begins.
LEMMA AdmitFollow ==
  ASSUME NEW rs, NEW s, NEW rf, NEW box, NEW t, Chat(rs, s, rf, box, t), NEW x,
         Admits(rs, s, rf, box, t, x), NEW more, Begins(rs, x, more), NEW s2
  PROVE  FollowOK(t, more, s2, rf)
<1>1. /\ rs \in Seq(Run) /\ s \in Session /\ t \in Tabs /\ TabOK(t)
      /\ FollowOK(t, rs, s, rf) /\ ServerOK(rs, s)
  BY ChatIs
<1>2. x \in Run /\ x.messages \in Seq(Message)
  BY DEF Admits, Run
<1>3. /\ Grows(rs, more) /\ Len(more) = Len(rs) + 1 /\ more[Len(rs) + 1] = x
      /\ \A r \in 1..Len(rs) : more[r] = rs[r] /\ r \in 1..Len(more)
      /\ Len(rs) \in Nat /\ Len(more) \in Nat
      /\ \A q : ReqIn(more, q) = IF q # 0 /\ x.req = q THEN ReqIn(rs, q) \cup {Len(rs) + 1}
                                 ELSE ReqIn(rs, q)
  BY <1>1, <1>2, AdmitGrows
<1>4. t.messages \in Seq(Message) /\ t.link.messages \in Seq(Message) /\ t.op.kept \in Seq(Message)
      /\ t.link.run \in Nat /\ t.stop.run \in Nat
  BY <1>1, TabTypes
<1>5. /\ Good(t.messages, rs) /\ Good(t.link.messages, rs) /\ Good(t.op.kept, rs)
      /\ t.link.run <= Len(rs)
  BY <1>1 DEF FollowOK
<1>6. /\ Good(t.messages, more) /\ Good(t.link.messages, more) /\ Good(t.op.kept, more)
      /\ t.link.run <= Len(more)
  BY <1>3, <1>4, <1>5, GoodGrows
<1>7. t.link.run # 0 => t.link.run \in 1..Len(rs) /\ more[t.link.run] = rs[t.link.run]
  BY <1>3, <1>4, <1>5
<1>8. /\ Reads(t) => t.link.after <= more[t.link.run].n
      /\ t.op.pc = "closing" =>
           more[t.link.run].status # "running" /\ t.link.after = more[t.link.run].n
  <2>1. Reads(t) => t.link.run # 0
    BY <1>1 DEF TabOK, LinksOK
  <2>2. t.op.pc = "closing" => Reads(t)
    BY DEF Reads
  <2> QED
    BY <1>1, <1>7, <2>1, <2>2 DEF FollowOK
<1>9. t.stop.pc = "reading" => \A r \in StopOf(t, more) : more[r].settled
  <2> SUFFICES ASSUME t.stop.pc = "reading" PROVE \A r \in StopOf(t, more) : more[r].settled
    OBVIOUS
  <2>1. \A r \in StopOf(t, rs) : rs[r].settled
    BY <1>1 DEF FollowOK
  <2>2. StopsOK(t)
    BY <1>1 DEF TabOK
  <2>3. t.stop.run = t.link.run
    BY <2>2, Nothing DEF StopsOK
  <2>4. CASE t.stop.run # 0
    BY <2>1, <2>3, <2>4, <1>7 DEF StopOf
  <2>5. CASE t.stop.run = 0
    <3>1. t.stop.req # 0 => t.stop.req \in rf
      BY <1>1 DEF FollowOK
    <3>2. x.req # 0 => x.req \notin rf
      BY DEF Admits
    <3>3. StopOf(t, more) = StopOf(t, rs)
      BY <2>5, <3>1, <3>2, <1>3 DEF StopOf
    <3>4. \A r \in StopOf(t, rs) : r \in 1..Len(rs)
      BY <2>5 DEF StopOf, ReqIn
    <3> QED
      BY <2>1, <3>3, <3>4, <1>3
  <2> QED
    BY <2>4, <2>5
<1>10. t.stop.pc \in {"waiting", "reading"} /\ t.stop.req # 0 => t.stop.req \in rf
  BY <1>1 DEF FollowOK
<1>11. \A r \in ReqIn(more, t.link.req) : Same(t.link.messages, more[r].messages)
  <2>1. \A r \in ReqIn(rs, t.link.req) : Same(t.link.messages, more[r].messages)
    <3>1. \A r \in ReqIn(rs, t.link.req) : Same(t.link.messages, rs[r].messages) /\ r \in 1..Len(rs)
      BY <1>1 DEF FollowOK, ReqIn
    <3> QED
      BY <3>1, <1>3
  <2>2. t.link.req # 0 /\ x.req = t.link.req => Same(t.link.messages, x.messages)
    <3> SUFFICES ASSUME t.link.req # 0, x.req = t.link.req PROVE Same(t.link.messages, x.messages)
      OBVIOUS
    <3>1. PICK m \in box : m.req = x.req /\ Same(m.messages, x.messages)
      BY DEF Admits
    <3>2. PostOK(t, rs, rf, box)
      BY ChatIs
    <3>3. m.messages = t.link.messages
      BY <3>1, <3>2 DEF PostOK
    <3> QED
      BY <3>1, <3>3
  <2> QED
    BY <2>1, <2>2, <1>3
<1>12. Tied(t) /\ Unlinked(t) => SettledIn(t.messages, more)
  <2>1. Tied(t) /\ Unlinked(t) => SettledIn(t.messages, rs)
    BY <1>1 DEF FollowOK
  <2> QED
    BY <2>1, <1>3, <1>4, <1>5, SettledGrows
<1>13. Calm(more) => ShownOK(t, more, s2)
  <2> SUFFICES ASSUME Calm(more) PROVE ShownOK(t, more, s2)
    OBVIOUS
  <2>1. Calm(rs)
    BY <1>3 DEF Grows
  <2>2. ShownOK(t, rs, s)
    BY <1>1, <2>1 DEF FollowOK
  <2>3. ~(Tied(t) /\ Unlinked(t))
    <3>1. CASE x.mine
      <4>1. t.link.req # 0
        BY <3>1, <2>1, AdmitMine
      <4> QED
        BY <4>1 DEF Unlinked
    <3>2. CASE ~x.mine
      <4>1. "overtaken" \in Windows => x.mine
        <5>1. Mine(more) <=> Mine(rs) /\ x.mine
          BY <1>1, <1>2, AdmitGrows
        <5> QED
          BY <5>1 DEF Calm
      <4> QED
        BY <3>2, <4>1 DEF Admits
    <3> QED
      BY <3>1, <3>2
  <2>4. s.run <= Len(rs)
    BY <1>1 DEF ServerOK
  <2> QED
    BY <1>1, <1>3, <1>5, <2>2, <2>3, <2>4, ShownGrows
<1> QED
  BY <1>6, <1>8, <1>9, <1>10, <1>11, <1>12, <1>13 DEF FollowOK

\* The server begins a run.
LEMMA AdmitKeeps ==
  ASSUME NEW rs, NEW s, NEW rf, NEW box, NEW t, Chat(rs, s, rf, box, t), NEW x,
         Admits(rs, s, rf, box, t, x), NEW more, Begins(rs, x, more), NEW s2, Owns(rs, x, s2)
  PROVE  Chat(more, s2, rf, box, t)
<1>1. rs \in Seq(Run) /\ s \in Session /\ rf \subseteq Nat /\ box \subseteq Mail /\ t \in Tabs
      /\ TabOK(t)
  BY ChatIs
<1>2. x \in Run /\ x.messages \in Seq(Message)
  BY DEF Admits, Run
<1>3. /\ Grows(rs, more) /\ Len(more) = Len(rs) + 1 /\ more[Len(rs) + 1] = x
      /\ \A r \in 1..Len(rs) : more[r] = rs[r] /\ r \in 1..Len(more)
      /\ \A r \in 1..Len(more) : r \in 1..Len(rs) \/ r = Len(rs) + 1
      /\ Len(rs) \in Nat /\ Len(more) \in Nat
      /\ Mine(more) <=> Mine(rs) /\ x.mine
      /\ \A q : ReqIn(more, q) = IF q # 0 /\ x.req = q THEN ReqIn(rs, q) \cup {Len(rs) + 1}
                                 ELSE ReqIn(rs, q)
  BY <1>1, <1>2, AdmitGrows
<1>4. ServerOK(more, s2) /\ s2 \in Session /\ s2.run = Len(rs) + 1
  BY AdmitServer
<1>5. FollowOK(t, more, s2, rf)
  BY AdmitFollow
<1>6. \A r \in 1..Len(rs) : more[r].settled
  BY <1>3 DEF Admits
<1>7. x.req \in {0} \cup {m.req : m \in box}
  BY DEF Admits
<1>8. Numbered(more, rf, box, t)
  <2>1. {more[r].req : r \in 1..Len(more)} \subseteq {rs[r].req : r \in 1..Len(rs)} \cup {x.req}
    BY <1>3
  <2>2. Used(more, rf, box, t) \subseteq Used(rs, rf, box, t)
    BY <2>1, <1>7 DEF Used
  <2>3. Numbered(rs, rf, box, t)
    BY DEF Chat
  <2> QED
    BY <2>2, <2>3 DEF Numbered
<1>9. QuietOK(t, more)
  <2> SUFFICES ASSUME {"impatient", "settling"} \cap Windows = {}, NEW r \in 1..Len(more),
                      ~more[r].settled, more[r].mine
               PROVE  /\ ~Loose(t)
                      /\ t.link.run # 0 => r = t.link.run
                      /\ t.link.run = 0 /\ t.link.req # 0 => more[r].req = t.link.req
    BY DEF QuietOK
  <2>1. more[r] = x
    BY <1>3, <1>6
  <2>2. "impatient" \notin Windows
    OBVIOUS
  <2>3. ~Loose(t) /\ t.link.run = 0 /\ x.req = t.link.req
    BY <2>1, <2>2, AdmitMine
  <2> QED
    BY <2>1, <2>3
<1>10. FitOK(t, more, s2)
  <2> SUFFICES ASSUME {"withdrawn", "impatient", "settling"} \cap Windows = {}, Mine(more)
               PROVE  FitOK(t, more, s2)
    BY DEF FitOK
  <2>1. x.mine /\ "impatient" \notin Windows
    BY <1>3
  <2>2. ~Loose(t) /\ t.link.run = 0 /\ x.req = t.link.req
    BY <2>1, AdmitMine
  <2>3. more[s2.run].req = t.link.req
    BY <1>3, <1>4, <2>2
  <2> QED
    BY <2>2, <2>3 DEF FitOK
<1>11. BoxOK(rs, box)
  BY ChatIs
<1>12. BoxOK(more, box)
  <2>1. ASSUME NEW m \in box PROVE MailOK(more, m)
    <3>1. MailOK(rs, m) /\ m.messages \in Seq(Message)
      BY <1>1, <1>11 DEF BoxOK, Mail
    <3>2. Good(m.messages, more)
      BY <1>3, <3>1, GoodGrows DEF MailOK
    <3>3. m.reply = "run" => ReqIn(more, m.req) # {}
      BY <1>3, <3>1 DEF MailOK
    <3>4. \A r \in ReqIn(rs, m.req) : Same(m.messages, more[r].messages)
      <4>1. \A r \in ReqIn(rs, m.req) : r \in 1..Len(rs)
        BY DEF ReqIn
      <4> QED
        BY <3>1, <4>1, <1>3 DEF MailOK
    <3>5. m.req # 0 /\ x.req = m.req => Same(m.messages, x.messages)
      BY <1>11 DEF Admits, BoxOK
    <3>6. \A r \in ReqIn(more, m.req) : Same(m.messages, more[r].messages)
      BY <1>3, <3>4, <3>5
    <3>7. Calm(more) => Asking(m.messages)
      BY <1>3, <3>1 DEF Grows, MailOK
    <3> QED
      BY <3>1, <3>2, <3>3, <3>6, <3>7 DEF MailOK
  <2> QED
    BY <2>1, <1>11 DEF BoxOK
<1>13. PostOK(t, more, rf, box)
  <2>1. PostOK(t, rs, rf, box)
    BY ChatIs
  <2>2. \A m : Pends(more, rf, m) => Pends(rs, rf, m)
    <3>1. \A q : ReqIn(rs, q) \subseteq ReqIn(more, q)
      BY <1>3
    <3> QED
      BY <3>1 DEF Pends
  <2>3. Calm(more) => Calm(rs)
    BY <1>3 DEF Grows
  <2> QED
    BY <2>1, <2>2, <2>3 DEF PostOK
<1>14. more \in Seq(Run)
  BY <1>3 DEF Grows
<1> QED
  BY <1>1, <1>4, <1>5, <1>8, <1>9, <1>10, <1>12, <1>13, <1>14 DEF Chat

\* A look stays what it was, unless it reads a chat that is extended.
LEMMA AdmitPoll ==
  ASSUME NEW rs, NEW s, NEW rf, NEW box, NEW t, Chat(rs, s, rf, box, t), NEW x,
         Admits(rs, s, rf, box, t, x), NEW more, Begins(rs, x, more), NEW s2,
         NEW p, Look(t, p, rs, s), ~x.mine => ~p.on \/ "overtaken" \in Windows
  PROVE  Look(t, p, more, s2)
<1>1. rs \in Seq(Run) /\ x \in Run
  BY ChatIs DEF Admits
<1>2. /\ Grows(rs, more) /\ Len(more) = Len(rs) + 1 /\ Len(rs) \in Nat
      /\ Mine(more) <=> Mine(rs) /\ x.mine
  BY <1>1, AdmitGrows
<1>3. p \in PollType /\ PollOK(t, p, rs, s)
  BY DEF Look
<1>4. p.session.messages \in Seq(Message) /\ p.session.run \in Nat
  BY <1>3 DEF PollType, Session
<1>5. Good(p.session.messages, rs)
  BY <1>3 DEF PollOK
<1>6. Good(p.session.messages, more)
  BY <1>2, <1>4, <1>5, GoodGrows
<1>7. CASE ~p.on
  BY <1>3, <1>6, <1>7 DEF Look, PollOK
<1>8. CASE p.on
  <2>1. /\ t.op.pc = "none" /\ t.status = "ready" /\ ~t.sync
        /\ ~Mine(rs) /\ SettledIn(p.session.messages, rs)
        /\ p.session.run # 0 /\ p.session.run <= Len(rs)
    BY <1>3, <1>8 DEF PollOK
  <2>2. SettledIn(p.session.messages, more)
    BY <2>1, <1>2, <1>4, <1>5, SettledGrows
  <2>3. p.session.run <= Len(more)
    BY <2>1, <1>2, <1>4
  <2>4. "overtaken" \in Windows
    <3>1. CASE ~x.mine
      BY <3>1, <1>8
    <3>2. CASE x.mine
      <4>1. Loose(t)
        BY <2>1 DEF Loose
      <4>2. ~Calm(rs)
        BY <4>1, <3>2, AdmitMine
      <4> QED
        BY <4>2 DEF Calm
    <3> QED
      BY <3>1, <3>2
  <2> QED
    BY <1>2, <1>3, <1>6, <2>1, <2>2, <2>3, <2>4 DEF Look, PollOK
<1> QED
  BY <1>7, <1>8

\* A submission that nobody waits for is gone when it was read.
LEMMA GoneKeeps ==
  ASSUME NEW rs, NEW s, NEW rf, NEW box, NEW t, Chat(rs, s, rf, box, t), NEW m
  PROVE  Chat(rs, s, rf, box \ {m}, t)
<1>1. box \subseteq Mail /\ BoxOK(rs, box)
  BY ChatIs
<1>2. \A x \in box : x.mine \in BOOLEAN /\ x.waited \in BOOLEAN
  BY <1>1 DEF Mail
<1>3. \A x \in box \ {m} : x.reply # "none" => x.waited
  BY <1>1, <1>2 DEF BoxOK, MailOK
<1>4. \A x, y \in box \ {m} : x.waited /\ y.waited => x = y
  BY <1>1 DEF BoxOK
<1>5. Lessens(box, box \ {m})
  BY <1>1, <1>2, <1>3, <1>4 DEF Lessens
<1> QED
  BY <1>5, LessKeeps

\* The server replies to a submission.
LEMMA ReplyKeeps ==
  ASSUME NEW rs, NEW s, NEW rf, NEW box, NEW t, Chat(rs, s, rf, box, t), NEW m \in box, m.waited,
         NEW reply \in {"run", "busy", "conflict", "stopped"},
         reply = "run" => ReqIn(rs, m.req) # {}
  PROVE  Chat(rs, s, rf, (box \ {m}) \cup {[m EXCEPT !.reply = reply]}, t)
<1>1. box \subseteq Mail /\ BoxOK(rs, box) /\ PostOK(t, rs, rf, box)
  BY ChatIs
<1>2. PICK l \in Mail : l = [m EXCEPT !.reply = reply]
  BY <1>1 DEF Mail
<1>3. /\ l.req = m.req /\ l.messages = m.messages /\ l.regen = m.regen /\ l.mine = m.mine
      /\ l.waited /\ l.reply = reply
  BY <1>1, <1>2 DEF Mail
<1> DEFINE new == (box \ {m}) \cup {l}
<1>4. \A x \in new : x = l \/ (x \in box /\ x # m)
  OBVIOUS
<1>5. new \subseteq Mail
  BY <1>1
<1>6. MailOK(rs, l)
  <2>1. MailOK(rs, m)
    BY <1>1 DEF BoxOK
  <2> QED
    BY <2>1, <1>3 DEF MailOK
<1>7. BoxOK(rs, new)
  <2>1. \A x \in box : MailOK(rs, x)
    BY <1>1 DEF BoxOK
  <2>2. \A x, y \in box : x.req = y.req => x.messages = y.messages
    BY <1>1 DEF BoxOK
  <2>3. \A x \in box : x.waited => x = m
    BY <1>1 DEF BoxOK
  <2>4. \A x \in new : MailOK(rs, x)
    BY <1>4, <1>6, <2>1
  <2>5. \A x, y \in new : x.req = y.req => x.messages = y.messages
    BY <1>3, <1>4, <2>2
  <2>6. \A x, y \in new : x.waited /\ y.waited => x = y
    BY <1>4, <2>3
  <2> QED
    BY <2>4, <2>5, <2>6 DEF BoxOK
<1>8. PostOK(t, rs, rf, new)
  <2>1. /\ m.mine /\ t.op.pc = "posting" /\ m.req = t.link.req /\ m.regen = t.link.regen
        /\ m.messages = t.link.messages
    BY <1>1 DEF PostOK
  <2>2. \A x \in new :
          /\ x.waited => /\ x.mine /\ t.op.pc = "posting" /\ x.req = t.link.req
                         /\ x.regen = t.link.regen
          /\ x.req = t.link.req => x.messages = t.link.messages
    BY <2>1, <1>1, <1>3, <1>4 DEF PostOK
  <2>3. Pends(rs, rf, l) <=> Pends(rs, rf, m)
    BY <1>3 DEF Pends
  <2>4. ASSUME Calm(rs) \/ "impatient" \notin Windows
        PROVE  \A x \in new : Pends(rs, rf, x) => ~Loose(t) /\ t.link.run = 0 /\ x.req = t.link.req
    <3>1. \A x \in box : Pends(rs, rf, x) => ~Loose(t) /\ t.link.run = 0 /\ x.req = t.link.req
      BY <2>4, <1>1 DEF PostOK
    <3> QED
      BY <3>1, <2>3, <1>3, <1>4
  <2> QED
    BY <2>2, <2>4 DEF PostOK
<1>9. Numbered(rs, rf, new, t)
  <2>1. {x.req : x \in new} \subseteq {x.req : x \in box}
    BY <1>3, <1>4
  <2>2. Used(rs, rf, new, t) \subseteq Used(rs, rf, box, t)
    BY <2>1 DEF Used
  <2>3. Numbered(rs, rf, box, t)
    BY DEF Chat
  <2> QED
    BY <2>2, <2>3 DEF Numbered
<1>10. Chat(rs, s, rf, new, t)
  <2> HIDE DEF new
  <2>1. /\ rs \in Seq(Run) /\ s \in Session /\ rf \subseteq Nat /\ t \in Tabs
        /\ ServerOK(rs, s) /\ TabOK(t) /\ FollowOK(t, rs, s, rf) /\ QuietOK(t, rs)
        /\ FitOK(t, rs, s)
    BY DEF Chat
  <2> QED
    BY <2>1, <1>5, <1>7, <1>8, <1>9 DEF Chat
<1> QED
  BY <1>2, <1>10

\* What the model says of the server, of its runs.
LEMMA Named ==
  /\ \A q : Requested(q) = ReqIn(runs, q)
  /\ \A r : Transcript(r) = TranscriptOf(runs, r) /\ Prompt(r) = PromptOf(runs, r)
  /\ Looked = LookedAt(tab, runs, session)
  /\ OfStop = StopOf(tab, runs)
  /\ NewRequest = 1 + Max(Used(runs, refused, mail, tab))
  BY DEF Requested, ReqIn, Transcript, TranscriptOf, Parts, Prompt, PromptOf, Looked, LookedAt,
         OfStop, StopOf, NewRequest, Used

\* A look as it is after a step of the tab.
LEMMA TabLook ==
  ASSUME IInv, NEW n \in Tabs, Tab(n),
         n.messages = tab.messages /\ poll.on => n.op.pc = "none" /\ n.status = "ready" /\ ~n.sync
  PROVE  Look(tab', poll', runs, session)
<1>1. poll \in PollType /\ PollOK(tab, poll, runs, session) /\ tab' = n
      /\ poll' = IF n.messages = tab.messages THEN poll ELSE NoPoll
  BY DEF IInv, Look, Tab
<1>2. Good(<<>>, runs)
  BY ChatIs DEF IInv
<1>3. NoPoll \in PollType /\ ~NoPoll.on /\ NoPoll.session.messages = <<>>
  BY DEF NoPoll, PollType, Session
<1>4. CASE n.messages = tab.messages
  BY <1>1, <1>4 DEF Look, PollOK
<1>5. CASE n.messages # tab.messages
  <2>1. poll' = NoPoll
    BY <1>1, <1>5
  <2> QED
    BY <1>2, <1>3, <2>1 DEF Look, PollOK
<1> QED
  BY <1>4, <1>5

\* A look that is dropped.
LEMMA DroppedLook ==
  ASSUME IInv, NEW t, NEW s
  PROVE  Look(t, NoPoll, runs, s)
<1>1. Good(<<>>, runs)
  BY ChatIs DEF IInv
<1>2. NoPoll \in PollType /\ ~NoPoll.on /\ NoPoll.session.messages = <<>>
  BY DEF NoPoll, PollType, Session
<1> QED
  BY <1>1, <1>2 DEF Look, PollOK

\* A bound that is spent is not below zero.
LEMMA SpendIs ==
  ASSUME limit \in Bounds, NEW bound \in {"asked", "others", "stops", "again", "lost", "reloads", "restarts"},
         Spend(bound)
  PROVE  limit' \in Bounds /\ limit[bound] \in Nat \ {0}
<1>1. limit[bound] \in Nat /\ limit[bound] > 0
  BY DEF Spend, Bounds
<1>2. limit[bound] - 1 \in Nat
  BY <1>1
<1> QED
  BY <1>1, <1>2 DEF Spend, Bounds

\* The server goes on with its runs, whatever the tab does.
LEMMA ServerStep ==
  ASSUME IInv, Moves(runs, runs'), Left(runs', session, session'),
         UNCHANGED <<refused, mail, tab, poll, limit>>
  PROVE  IInv'
<1>1. Chat(runs, session, refused, mail, tab) /\ Look(tab, poll, runs, session) /\ limit \in Bounds
  BY DEF IInv
<1>2. PICK more : more = runs'
  OBVIOUS
<1>3. PICK s2 : s2 = session'
  OBVIOUS
<1>4. Chat(more, s2, refused, mail, tab)
  BY <1>1, <1>2, <1>3, MovesKeep
<1>5. Look(tab, poll, more, s2)
  <2>1. ServerOK(runs, session) /\ session \in Session
    BY <1>1, ChatIs
  <2>2. poll \in PollType /\ PollOK(tab, poll, runs, session)
    BY <1>1 DEF Look
  <2>3. PollOK(tab, poll, more, s2)
    BY <1>2, <1>3, <2>1, <2>2, PollMoves
  <2> QED
    BY <2>2, <2>3 DEF Look
<1> QED
  BY <1>1, <1>2, <1>3, <1>4, <1>5 DEF IInv

\* RunEmit preserves the invariant.
LEMMA EmitStep ==
  ASSUME IInv, NEW r \in 1..Len(runs), RunEmit(r)
  PROVE  IInv'
<1>1. Chat(runs, session, refused, mail, tab)
  BY DEF IInv
<1>2. runs \in Seq(Run)
  BY <1>1, ChatIs
<1>3. /\ runs[r].status = "running" /\ runs[r].n < Events
      /\ runs' = [runs EXCEPT ![r] = [runs[r] EXCEPT !.n = runs[r].n + 1]]
      /\ UNCHANGED <<session, refused, mail, tab, poll, limit>>
  BY DEF RunEmit, Ended
<1>4. runs[r] \in Run /\ runs[r].n \in Nat
  BY <1>2, RunTypes
<1>5. runs[r].n + 1 \in 0..Events /\ runs[r].n <= runs[r].n + 1
  BY <1>3, <1>4, TabConstants
<1>6. PICK y \in Run : y = [runs[r] EXCEPT !.n = runs[r].n + 1]
  BY <1>4, <1>5, EmittedIs
<1>7. /\ y.n = runs[r].n + 1 /\ y.messages = runs[r].messages /\ y.req = runs[r].req
      /\ y.mine = runs[r].mine /\ y.status = runs[r].status /\ y.settled = runs[r].settled
  BY <1>4, <1>5, <1>6, EmittedIs
<1>8. runs[r].settled => runs[r].status # "running"
  BY <1>1, ShownRun
<1>9. runs' = [runs EXCEPT ![r] = y]
  BY <1>3, <1>6
<1>10. Moves(runs, [runs EXCEPT ![r] = y]) /\ Left([runs EXCEPT ![r] = y], session, session)
  BY <1>1, <1>3, <1>5, <1>7, <1>8, OneMoves
<1>11. Moves(runs, runs') /\ Left(runs', session, session')
  BY <1>3, <1>9, <1>10
<1> QED
  BY <1>3, <1>11, ServerStep

\* RunEnd preserves the invariant.
LEMMA EndStep ==
  ASSUME IInv, NEW r \in 1..Len(runs), NEW status \in {"completed", "failed", "stopped"},
         RunEnd(r, status)
  PROVE  IInv'
<1>1. Chat(runs, session, refused, mail, tab)
  BY DEF IInv
<1>2. runs \in Seq(Run)
  BY <1>1, ChatIs
<1>3. /\ runs[r].status = "running"
      /\ runs' = [runs EXCEPT ![r] = [runs[r] EXCEPT !.status = status]]
      /\ UNCHANGED <<session, refused, mail, tab, poll, limit>>
  BY DEF RunEnd, Ended
<1>4. runs[r] \in Run /\ runs[r].n \in Nat
  BY <1>2, RunTypes
<1>6. PICK y \in Run : y = [runs[r] EXCEPT !.status = status]
  BY <1>4, EndedIs
<1>7. /\ y.n = runs[r].n /\ y.messages = runs[r].messages /\ y.req = runs[r].req
      /\ y.mine = runs[r].mine /\ y.status = status /\ y.settled = runs[r].settled
  BY <1>4, <1>6, EndedIs
<1>8. runs[r].settled => runs[r].status # "running"
  BY <1>1, ShownRun
<1>9. runs' = [runs EXCEPT ![r] = y]
  BY <1>3, <1>6
<1>12. runs[r].n <= y.n /\ y.status # "running"
  BY <1>4, <1>7
<1>10. Moves(runs, [runs EXCEPT ![r] = y]) /\ Left([runs EXCEPT ![r] = y], session, session)
  <2>1. /\ y.messages = runs[r].messages /\ y.req = runs[r].req /\ y.mine = runs[r].mine
        /\ y.settled = runs[r].settled
    BY <1>7
  <2>2. runs[r].status = "running" \/ (y.n = runs[r].n /\ y.status = runs[r].status)
    BY <1>3
  <2>3. y.settled => y.status # "running"
    BY <1>12
  <2>4. runs[r].n <= y.n
    BY <1>12
  <2>5. runs[r].settled => y.settled
    BY <2>1
  <2>6. Moves(runs, [runs EXCEPT ![r] = y])
    BY <1>1, <2>1, <2>2, <2>3, <2>4, <2>5, OneMoves
  <2>7. Left([runs EXCEPT ![r] = y], session, session)
    BY <1>1, <2>1, <2>2, <2>3, <2>4, <2>5, OneMoves
  <2> QED
    BY <2>6, <2>7
<1>11. Moves(runs, runs') /\ Left(runs', session, session')
  BY <1>3, <1>9, <1>10
<1> QED
  BY <1>3, <1>11, ServerStep

\* Settle preserves the invariant: the chat is what its owner left.
LEMMA SettleStep ==
  ASSUME IInv, NEW r \in 1..Len(runs), Settle(r)
  PROVE  IInv'
<1>1. Chat(runs, session, refused, mail, tab)
  BY DEF IInv
<1>2. runs \in Seq(Run)
  BY <1>1, ChatIs
<1>3. /\ runs[r].status # "running" /\ ~runs[r].settled
      /\ runs' = [runs EXCEPT ![r] = [runs[r] EXCEPT !.settled = TRUE]]
      /\ session' = IF session.run = r THEN [session EXCEPT !.messages = TranscriptOf(runs, r)]
                    ELSE session
      /\ UNCHANGED <<refused, mail, tab, poll, limit>>
  BY Named DEF Settle, Ended
<1>4. runs[r] \in Run /\ runs[r].n \in Nat
  BY <1>2, RunTypes
<1>6. PICK y \in Run : y = [runs[r] EXCEPT !.settled = TRUE]
  BY <1>4, SettledIs
<1>7. /\ y.n = runs[r].n /\ y.messages = runs[r].messages /\ y.req = runs[r].req
      /\ y.mine = runs[r].mine /\ y.status = runs[r].status /\ y.settled
  BY <1>4, <1>6, SettledIs
<1>9. runs' = [runs EXCEPT ![r] = y]
  BY <1>3, <1>6
<1>12. runs[r].n <= y.n
  BY <1>4, <1>7
<1>10. Moves(runs, [runs EXCEPT ![r] = y])
  BY <1>1, <1>3, <1>7, <1>12, OneMoves
<1>13. session.run = r
       /\ Left([runs EXCEPT ![r] = y], session, [session EXCEPT !.messages = TranscriptOf(runs, r)])
  BY <1>1, <1>3, <1>7, SettleLeft
<1>11. Moves(runs, runs') /\ Left(runs', session, session')
  BY <1>3, <1>9, <1>10, <1>13
<1> QED
  BY <1>3, <1>11, ServerStep

\* A turn of others, as it is submitted.
Foreign == [req : Nat, mine : BOOLEAN, regen : BOOLEAN, messages : Seq(Message)]

\* The run of a submission.
LEMMA NewRunIs ==
  ASSUME NEW m \in Mail \cup Foreign, NEW c \in Seq(Message)
  PROVE  LET x == NewRun([m EXCEPT !.messages = c]) IN
         /\ x \in Run /\ x.req = m.req /\ x.regen = m.regen /\ x.mine = m.mine /\ x.messages = c
         /\ ~x.settled
<1>1. 0 \in 0..Events
  BY TabConstants
<1>2. PICK d : d = [m EXCEPT !.messages = c]
  OBVIOUS
<1>3. d.req = m.req /\ d.regen = m.regen /\ d.mine = m.mine /\ d.messages = c
  BY <1>2 DEF Mail, Foreign
<1>4. m.req \in Nat /\ m.regen \in BOOLEAN /\ m.mine \in BOOLEAN
  BY DEF Mail, Foreign
<1>5. LET x == NewRun(d) IN
      /\ x \in Run /\ x.req = m.req /\ x.regen = m.regen /\ x.mine = m.mine /\ x.messages = c
      /\ ~x.settled
  BY <1>1, <1>3, <1>4 DEF NewRun, Run
<1> QED
  BY <1>2, <1>5

\* The saved history that a submission goes on from.
LEMMA HistoryIs ==
  ASSUME IInv, NEW m
  PROVE  /\ History(m) \in Seq(Message) /\ Good(History(m), runs) /\ SettledIn(History(m), runs)
         /\ session.run # 0 => Asked(session.messages) = Asked(History(m))
<1>1. Chat(runs, session, refused, mail, tab)
  BY DEF IInv
<1>2. runs \in Seq(Run) /\ ServerOK(runs, session) /\ session \in Session /\ Good(<<>>, runs)
  BY <1>1, ChatIs
<1>3. session.messages \in Seq(Message)
  BY <1>2 DEF Session
<1>4. Good(session.messages, runs) /\ SettledIn(session.messages, runs)
  BY <1>2 DEF ServerOK
<1>5. /\ Unanswered(session.messages) \in Seq(Message)
      /\ Good(Unanswered(session.messages), runs) /\ SettledIn(Unanswered(session.messages), runs)
      /\ Asked(Unanswered(session.messages)) = Asked(session.messages)
  BY <1>2, <1>3, <1>4, GoodUnanswered, UnansweredIs
<1>6. <<>> \in Seq(Message) /\ SettledIn(<<>>, runs)
  BY DEF SettledIn
<1> QED
  BY <1>2, <1>3, <1>4, <1>5, <1>6 DEF History

\* A run that begins is one that may.
LEMMA AdmitsIf ==
  ASSUME IInv, Active = {}, NEW ms \in Seq(Message), NEW m, Good(ms, runs),
         Len(History(m)) <= Len(ms),
         \A i \in 1..Len(History(m)) :
           History(m)[i].prompt = ms[i].prompt /\ History(m)[i].run = ms[i].run,
         NEW x \in Run, ~x.settled, ReqIn(runs, x.req) = {},
         x.messages = History(m) \o SubSeq(ms, Len(History(m)) + 1, Len(ms)),
         "overtaken" \notin Windows \/ (Mine(runs) /\ x.mine) => Asking(ms),
         x.mine => x.req # 0,
         x.req # 0 => \E l \in mail : l.req = x.req /\ l.messages = ms /\ l.req \notin refused
                                      /\ x.mine = l.mine,
         ~x.mine /\ Overtakable => "overtaken" \in Windows
  PROVE  /\ Admits(runs, session, refused, mail, tab, x)
         /\ ~x.mine => ~poll.on \/ "overtaken" \in Windows
<1>1. Chat(runs, session, refused, mail, tab)
  BY DEF IInv
<1>2. runs \in Seq(Run) /\ TabOK(tab) /\ tab \in Tabs
  BY <1>1, ChatIs
<1>3. PICK h \in Seq(Message) :
        h = History(m) /\ Good(h, runs) /\ SettledIn(h, runs)
        /\ (session.run # 0 => Asked(session.messages) = Asked(h))
  BY HistoryIs
<1>4. \A r \in 1..Len(runs) : runs[r].settled
  BY DEF Active
<1>5. PICK c \in Seq(Message) :
        c = h \o SubSeq(ms, Len(h) + 1, Len(ms)) /\ Same(ms, c) /\ Good(c, runs)
        /\ SettledIn(c, runs) /\ Asked(h) \subseteq Asked(c)
  BY <1>2, <1>3, <1>4, ContinuedIs
<1>6. x.messages = c
  BY <1>3, <1>5
<1>7. Asking(ms) => Asking(c)
  <2>1. Same(c, ms)
    BY <1>5, SameIs
  <2> QED
    BY <2>1, SameEnds
<1>8. x.req # 0 => \E l \in mail : l.req = x.req /\ l.req \notin refused /\ Same(l.messages, c)
                                   /\ x.mine = l.mine
  BY <1>5
<1>9. ~x.mine => "overtaken" \in Windows \/ ~(Tied(tab) /\ Unlinked(tab))
  <2> SUFFICES ASSUME ~Overtakable, Tied(tab), Unlinked(tab) PROVE FALSE
    OBVIOUS
  <2>1. tab.op.kind = "none" /\ tab.status # "error"
    BY DEF Overtakable, Unlinked
  <2>2. tab.op.pc = "none" /\ tab.status # "busy"
    BY <2>1, <1>2 DEF TabOK, StepsOK
  <2>3. tab.status = "ready"
    BY <2>1, <2>2, <1>2, TabTypes
  <2> QED
    BY <2>2, <2>3 DEF Tied, Loose
<1>10. session.run # 0 => Asked(session.messages) \subseteq Asked(c)
  BY <1>3, <1>5
<1>11. Admits(runs, session, refused, mail, tab, x)
  BY <1>4, <1>5, <1>6, <1>7, <1>8, <1>9, <1>10 DEF Admits
<1>12. ~x.mine => ~poll.on \/ "overtaken" \in Windows
  BY DEF Overtakable
<1> QED
  BY <1>11, <1>12

\* A submission is admitted.
LEMMA AdmitStep ==
  ASSUME IInv, NEW m \in mail, m.reply = "none", ReqIn(runs, m.req) = {}, Active = {},
         SameHistory(m), m.req \notin refused, ~m.mine /\ Overtakable => "overtaken" \in Windows,
         Admitted(m)
  PROVE  /\ Chat(runs', session', refused, mail, tab) /\ Look(tab, poll, runs', session')
         /\ ReqIn(runs', m.req) # {}
<1>1. Chat(runs, session, refused, mail, tab) /\ Look(tab, poll, runs, session)
  BY DEF IInv
<1>2. /\ runs \in Seq(Run) /\ mail \subseteq Mail /\ BoxOK(runs, mail) /\ session \in Session
      /\ ServerOK(runs, session)
  BY <1>1, ChatIs
<1>3. m \in Mail /\ m.messages \in Seq(Message) /\ m.req \in Nat
  BY <1>2 DEF Mail
<1>4. MailOK(runs, m)
  BY <1>2 DEF BoxOK
<1>5. History(m) \in Seq(Message) /\ Len(History(m)) \in Nat /\ Len(m.messages) \in Nat
  BY <1>3, HistoryIs
<1>6. Len(History(m)) <= Len(m.messages)
  <2>1. CASE session.run = 0
    <3>1. Len(History(m)) = 0
      BY <2>1 DEF History
    <3> QED
      BY <3>1, <1>5
  <2>2. CASE session.run # 0
    <3>1. IF m.regen THEN Len(m.messages) = Len(History(m)) ELSE Len(m.messages) > Len(History(m))
      BY <2>2 DEF SameHistory
    <3> QED
      BY <3>1, <1>5
  <2> QED
    BY <2>1, <2>2
<1>7. ASSUME NEW i \in 1..Len(History(m))
      PROVE  History(m)[i].prompt = m.messages[i].prompt /\ History(m)[i].run = m.messages[i].run
  <2>1. CASE session.run = 0
    BY <2>1 DEF History
  <2>2. CASE session.run # 0
    <3>1. <<History(m)[i].prompt, History(m)[i].run>> = <<m.messages[i].prompt, m.messages[i].run>>
      BY <2>2 DEF SameHistory
    <3> QED
      BY <3>1
  <2> QED
    BY <2>1, <2>2
<1>8. PICK c \in Seq(Message) :
        c = History(m) \o SubSeq(m.messages, Len(History(m)) + 1, Len(m.messages))
  <2>1. \A r \in 1..Len(runs) : runs[r].settled
    BY DEF Active
  <2> QED
    BY <2>1, <1>2, <1>3, <1>4, <1>6, <1>7, HistoryIs, ContinuedIs DEF MailOK
<1>9. PICK x \in Run : x = NewRun([m EXCEPT !.messages = c])
  BY <1>3, NewRunIs
<1>10. x.req = m.req /\ x.mine = m.mine /\ x.messages = c /\ ~x.settled
  BY <1>3, <1>9, NewRunIs
<1>11. Continued(m) = [m EXCEPT !.messages = c] /\ Continued(m).messages = c
  <2>1. Continued(m) = [m EXCEPT !.messages = c]
    BY <1>8 DEF Continued
  <2>2. [m EXCEPT !.messages = c].messages = c
    BY <1>3 DEF Mail
  <2> QED
    BY <2>1, <2>2
<1>12. runs' = Append(runs, x) /\ session' = [run |-> Len(runs) + 1, messages |-> x.messages]
  BY <1>9, <1>10, <1>11 DEF Admitted
<1>13. "overtaken" \notin Windows \/ (Mine(runs) /\ x.mine) => Asking(m.messages)
  BY <1>4 DEF MailOK, Calm
<1>14. m.req # 0 /\ Good(m.messages, runs)
  BY <1>4 DEF MailOK
<1>15. /\ Admits(runs, session, refused, mail, tab, x)
       /\ ~x.mine => ~poll.on \/ "overtaken" \in Windows
  <2>1. x.mine => x.req # 0
    BY <1>10, <1>14
  <2>2. x.req # 0 => \E l \in mail : l.req = x.req /\ l.messages = m.messages /\ l.req \notin refused
                                      /\ x.mine = l.mine
    BY <1>10
  <2>3. ReqIn(runs, x.req) = {}
    BY <1>10
  <2>4. x.messages = History(m) \o SubSeq(m.messages, Len(History(m)) + 1, Len(m.messages))
    BY <1>8, <1>10
  <2>5. ~x.mine /\ Overtakable => "overtaken" \in Windows
    BY <1>10
  <2> QED
    BY <1>3, <1>6, <1>7, <1>10, <1>13, <1>14, <2>1, <2>2, <2>3, <2>4, <2>5, AdmitsIf
<1>16. PICK more : more = runs'
  OBVIOUS
<1>17. PICK s2 : s2 = session'
  OBVIOUS
<1>18. Begins(runs, x, more) /\ Owns(runs, x, s2)
  BY <1>12, <1>16, <1>17 DEF Begins, Owns
<1>19. Chat(more, s2, refused, mail, tab)
  BY <1>1, <1>15, <1>18, AdmitKeeps
<1>20. Look(tab, poll, more, s2)
  BY <1>1, <1>15, <1>18, AdmitPoll
<1>21. ReqIn(more, m.req) # {}
  <2>1. \A q : ReqIn(more, q) = IF q # 0 /\ x.req = q THEN ReqIn(runs, q) \cup {Len(runs) + 1}
                               ELSE ReqIn(runs, q)
    BY <1>2, <1>18, AdmitGrows
  <2>2. m.req # 0 /\ x.req = m.req
    BY <1>10, <1>14
  <2>3. ReqIn(more, m.req) = ReqIn(runs, m.req) \cup {Len(runs) + 1}
    BY <2>1, <2>2
  <2> QED
    BY <2>3
<1> QED
  BY <1>16, <1>17, <1>19, <1>20, <1>21

\* ServerRead preserves the invariant.
LEMMA ReadStep ==
  ASSUME IInv, NEW m \in mail, ServerRead(m)
  PROVE  IInv'
<1>1. Chat(runs, session, refused, mail, tab) /\ Look(tab, poll, runs, session)
      /\ limit \in Bounds
  BY DEF IInv
<1>2. mail \subseteq Mail
  BY <1>1, ChatIs
<1>3. /\ m.reply = "none" /\ UNCHANGED <<refused, tab, poll, limit>>
      /\ ~m.mine /\ Overtakable => "overtaken" \in Windows
  BY DEF ServerRead
<1>4. PICK reply \in {"run", "busy", "conflict", "stopped"} :
        /\ mail' = (mail \ {m}) \cup
                     (IF m.waited THEN {[m EXCEPT !.reply = reply]} ELSE {})
        /\ Chat(runs', session', refused, mail, tab) /\ Look(tab, poll, runs', session')
        /\ reply = "run" => ReqIn(runs', m.req) # {}
  <2>1. CASE Reply(m) = "admitted"
    <3>1. /\ Requested(m.req) = {} /\ Active = {} /\ SameHistory(m) /\ m.req \notin refused
      BY <2>1 DEF Reply
    <3>2. Admitted(m)
      BY <2>1 DEF ServerRead
    <3>3. ReqIn(runs, m.req) = {}
      BY <3>1, Named
    <3>4. /\ Chat(runs', session', refused, mail, tab) /\ Look(tab, poll, runs', session')
          /\ ReqIn(runs', m.req) # {}
      BY <1>3, <3>1, <3>2, <3>3, AdmitStep
    <3>5. mail' = (mail \ {m}) \cup (IF m.waited THEN {[m EXCEPT !.reply = "run"]} ELSE {})
      BY <2>1 DEF ServerRead
    <3> WITNESS "run" \in {"run", "busy", "conflict", "stopped"}
    <3> QED
      BY <3>4, <3>5
  <2>2. CASE Reply(m) # "admitted"
    <3>1. Reply(m) \in {"run", "busy", "conflict", "stopped"}
          /\ (Reply(m) = "run" => Requested(m.req) # {})
      BY <2>2 DEF Reply
    <3>2. runs' = runs /\ session' = session
      BY <2>2 DEF ServerRead
    <3>3. PICK reply \in {"run", "busy", "conflict", "stopped"} : reply = Reply(m)
      BY <3>1
    <3>4. mail' = (mail \ {m}) \cup (IF m.waited THEN {[m EXCEPT !.reply = reply]} ELSE {})
      BY <2>2, <3>3 DEF ServerRead
    <3>5. reply = "run" => ReqIn(runs', m.req) # {}
      BY <3>1, <3>2, <3>3, Named
    <3> QED
      BY <1>1, <3>2, <3>4, <3>5
  <2> QED
    BY <2>1, <2>2
<1>5. PICK more : more = runs'
  OBVIOUS
<1>6. PICK s2 : s2 = session'
  OBVIOUS
<1>7. PICK box : box = mail'
  OBVIOUS
<1>8. Chat(more, s2, refused, box, tab)
  <2>1. Chat(more, s2, refused, mail, tab)
    BY <1>4, <1>5, <1>6
  <2>2. CASE m.waited
    <3>1. box = (mail \ {m}) \cup {[m EXCEPT !.reply = reply]}
      BY <2>2, <1>4, <1>7
    <3>2. reply = "run" => ReqIn(more, m.req) # {}
      BY <1>4, <1>5
    <3>3. Chat(more, s2, refused, (mail \ {m}) \cup {[m EXCEPT !.reply = reply]}, tab)
      BY <2>1, <2>2, <3>2, ReplyKeeps
    <3> QED
      BY <3>1, <3>3
  <2>3. CASE ~m.waited
    <3>1. box = mail \ {m}
      BY <2>3, <1>4, <1>7
    <3> QED
      BY <2>1, <3>1, GoneKeeps
  <2> QED
    BY <2>2, <2>3
<1> QED
  BY <1>1, <1>3, <1>4, <1>5, <1>6, <1>7, <1>8 DEF IInv

\* OtherTurn preserves the invariant: nobody goes on with a chat that the tab has half read.
LEMMA OtherStep ==
  ASSUME IInv, NEW regen \in BOOLEAN, OtherTurn(regen)
  PROVE  IInv'
<1>1. Chat(runs, session, refused, mail, tab) /\ Look(tab, poll, runs, session)
      /\ limit \in Bounds
  BY DEF IInv
<1>2. /\ runs \in Seq(Run) /\ session \in Session /\ ServerOK(runs, session)
  BY <1>1, ChatIs
<1>3. session.messages \in Seq(Message) /\ Good(session.messages, runs)
  BY <1>2 DEF Session, ServerOK
<1>4. /\ Active = {} /\ (Overtakable => "overtaken" \in Windows) /\ Spend("others")
      /\ regen => session.messages # <<>>
      /\ UNCHANGED <<refused, mail, tab, poll>>
  BY DEF OtherTurn
<1>5. limit' \in Bounds /\ limit["others"] \in Nat
  BY <1>1, <1>4, SpendIs
<1>6. PICK p \in Nat \ {0} : p = 100 + limit.others
  BY <1>5
<1>7. PICK ms \in Seq(Message) :
        /\ ms = IF regen THEN Unanswered(session.messages) ELSE Append(session.messages, Question(p))
        /\ Good(ms, runs)
  <2>1. Unanswered(session.messages) \in Seq(Message) /\ Good(Unanswered(session.messages), runs)
    BY <1>2, <1>3, GoodUnanswered, UnansweredIs
  <2>2. Question(p) \in Message
    BY MessageIs
  <2>3. /\ Append(session.messages, Question(p)) \in Seq(Message)
        /\ Good(Append(session.messages, Question(p)), runs)
    BY <1>2, <1>3, <2>2, GoodQuestion, AskedIs
  <2> QED
    BY <2>1, <2>3
<1>8. PICK m \in Foreign : m = [req |-> 0, mine |-> FALSE, regen |-> regen, messages |-> ms]
  BY <1>7 DEF Foreign
<1>9. m.req = 0 /\ ~m.mine /\ m.regen = regen /\ m.messages = ms
  BY <1>8
<1>10. Admitted(m)
  BY <1>6, <1>7, <1>8 DEF OtherTurn
<1>11. /\ History(m) \in Seq(Message) /\ Good(History(m), runs) /\ Len(History(m)) \in Nat
       /\ Len(ms) \in Nat /\ Len(session.messages) \in Nat
  BY <1>3, <1>7, HistoryIs
<1>12. /\ Len(History(m)) <= Len(ms)
       /\ \A i \in 1..Len(History(m)) : History(m)[i] = ms[i]
  <2>1. CASE session.run = 0
    <3>1. Len(History(m)) = 0
      BY <2>1 DEF History
    <3> QED
      BY <3>1, <1>11
  <2>2. CASE session.run # 0 /\ regen
    <3>1. History(m) = ms
      BY <2>2, <1>7, <1>9 DEF History
    <3> QED
      BY <3>1, <1>11
  <2>3. CASE session.run # 0 /\ ~regen
    <3>1. History(m) = session.messages /\ ms = Append(session.messages, Question(p))
      BY <2>3, <1>7, <1>9 DEF History
    <3>2. Question(p) \in Message
      BY MessageIs
    <3>3. Len(ms) = Len(session.messages) + 1 /\ \A i \in 1..Len(session.messages) : ms[i] = session.messages[i]
      BY <3>1, <3>2, <1>3, AskedIs
    <3> QED
      BY <3>1, <3>3, <1>11
  <2> QED
    BY <2>1, <2>2, <2>3
<1>13. \A r \in 1..Len(runs) : runs[r].settled
  BY <1>4 DEF Active
<1>14. PICK c \in Seq(Message) : c = History(m) \o SubSeq(ms, Len(History(m)) + 1, Len(ms))
  BY <1>2, <1>7, <1>11, <1>12, <1>13, ContinuedIs
<1>15. PICK x \in Run : x = NewRun([m EXCEPT !.messages = c])
  BY NewRunIs
<1>16. x.req = 0 /\ ~x.mine /\ x.messages = c /\ ~x.settled
  BY <1>9, <1>15, NewRunIs
<1>17. Continued(m) = [m EXCEPT !.messages = c] /\ Continued(m).messages = c
  <2>1. Continued(m) = [m EXCEPT !.messages = c]
    BY <1>9, <1>14 DEF Continued
  <2>2. [m EXCEPT !.messages = c].messages = c
    BY DEF Foreign
  <2> QED
    BY <2>1, <2>2
<1>18. runs' = Append(runs, x) /\ session' = [run |-> Len(runs) + 1, messages |-> x.messages]
  BY <1>10, <1>15, <1>16, <1>17 DEF Admitted
<1>19. "overtaken" \notin Windows => Asking(ms)
  <2> SUFFICES ASSUME "overtaken" \notin Windows PROVE Asking(ms)
    OBVIOUS
  <2>1. CASE regen
    <3>1. ms = Unanswered(session.messages) /\ session.messages # <<>> /\ Calm(runs)
      BY <2>1, <1>4, <1>7 DEF Calm
    <3> QED
      BY <3>1, <1>2, <1>3, AskingUnanswered
  <2>2. CASE ~regen
    <3>1. Question(p) \in Message /\ Question(p).run = 0
      BY MessageIs
    <3>2. ms # <<>> /\ Last(ms) = Question(p)
      BY <3>1, <2>2, <1>3, <1>7, AskedIs
    <3> QED
      BY <3>1, <3>2 DEF Asking
  <2> QED
    BY <2>1, <2>2
<1>20. /\ Admits(runs, session, refused, mail, tab, x)
       /\ ~x.mine => ~poll.on \/ "overtaken" \in Windows
  <2>1. ReqIn(runs, x.req) = {}
    BY <1>16 DEF ReqIn
  <2>2. x.messages = History(m) \o SubSeq(ms, Len(History(m)) + 1, Len(ms))
    BY <1>14, <1>16
  <2>3. "overtaken" \notin Windows \/ (Mine(runs) /\ x.mine) => Asking(ms)
    BY <1>16, <1>19
  <2> QED
    BY <1>4, <1>7, <1>12, <1>16, <2>1, <2>2, <2>3, AdmitsIf
<1>21. PICK more : more = runs'
  OBVIOUS
<1>22. PICK s2 : s2 = session'
  OBVIOUS
<1>23. Begins(runs, x, more) /\ Owns(runs, x, s2)
  BY <1>18, <1>21, <1>22 DEF Begins, Owns
<1>24. Chat(more, s2, refused, mail, tab)
  BY <1>1, <1>20, <1>23, AdmitKeeps
<1>25. Look(tab, poll, more, s2)
  BY <1>1, <1>20, <1>23, AdmitPoll
<1> QED
  BY <1>4, <1>5, <1>21, <1>22, <1>24, <1>25 DEF IInv

\* While a look is on, nothing of the tab is under way.
LEMMA LookOn ==
  ASSUME IInv, poll.on
  PROVE  tab.op.pc = "none" /\ tab.op = NoOp /\ tab.status = "ready" /\ ~tab.sync /\ ~tab.steering
         /\ tab.stop = NoStop
<1>1. tab.op.pc = "none" /\ tab.status = "ready" /\ ~tab.sync
  BY DEF IInv, Look, PollOK
<1>2. StepsOK(tab) /\ StopsOK(tab)
  BY ChatIs DEF IInv, TabOK
<1>3. tab.stop = NoStop
  BY <1>1, <1>2 DEF StopsOK
<1>4. ~tab.steering
  BY <1>2, <1>3, Nothing DEF StopsOK
<1> QED
  BY <1>1, <1>2, <1>3, <1>4 DEF StepsOK

\* A step of the tab.
LEMMA TabStep ==
  ASSUME IInv, NEW n, Tab(n), NEW box, mail' = box, Chat(runs, session, refused, box, n),
         n.messages = tab.messages /\ poll.on => n.op.pc = "none" /\ n.status = "ready" /\ ~n.sync,
         UNCHANGED <<runs, session, refused>>, limit' \in Bounds
  PROVE  IInv'
<1>1. n \in Tabs
  BY ChatIs
<1>2. tab' = n
  BY DEF Tab
<1>3. Look(tab', poll', runs, session)
  BY <1>1, TabLook
<1> QED
  BY <1>2, <1>3 DEF IInv

\* Submit preserves the invariant.
LEMMA SubmitStep ==
  ASSUME IInv, Submit
  PROVE  IInv'
<1>1. Chat(runs, session, refused, mail, tab) /\ limit \in Bounds
  BY DEF IInv
<1>2. tab \in Tabs /\ TabOK(tab)
  BY <1>1, ChatIs
<1>3. limit' \in Bounds /\ limit["asked"] \in Nat \ {0}
  BY <1>1, SpendIs DEF Submit
<1>4. PICK p \in Nat \ {0} : p = limit.asked
  BY <1>3
<1>5. tab.items \in Seq(Nat) /\ 0 \notin ToSet(tab.items)
  BY <1>2, TabTypes DEF TabOK
<1>6. PICK q \in Seq(Nat) : q = Append(tab.items, p) /\ 0 \notin ToSet(q)
  <2>1. Append(tab.items, p) \in Seq(Nat) /\ ToSet(Append(tab.items, p)) = ToSet(tab.items) \cup {p}
    BY <1>5, AddedTo
  <2> QED
    BY <1>5, <2>1
<1>7. PICK v \in Tabs : v = [tab EXCEPT !.items = q]
  BY <1>2, ItemsIs
<1>8. v.messages = tab.messages /\ v.op = tab.op /\ v.status = tab.status /\ v.sync = tab.sync
  BY <1>2, <1>7, ItemsIs
<1>9. Chat(runs, session, refused, mail, v)
  BY <1>1, <1>6, <1>7, ItemsKeep
<1>10. PICK n : n = Drained(v)
  OBVIOUS
<1>11. Chat(runs, session, refused, mail, n) /\ (n = v \/ n.messages # v.messages)
  BY <1>9, <1>10, DrainedKeeps
<1>12. Tab(n) /\ UNCHANGED <<runs, session, refused, mail>>
  BY <1>4, <1>6, <1>7, <1>10 DEF Submit, Local
<1>13. n.messages = tab.messages /\ poll.on => n.op.pc = "none" /\ n.status = "ready" /\ ~n.sync
  BY <1>8, <1>11, LookOn
<1> QED
  BY <1>3, <1>11, <1>12, <1>13, TabStep

\* Dequeue preserves the invariant.
LEMMA DequeueStep ==
  ASSUME IInv, NEW p, Dequeue(p)
  PROVE  IInv'
<1>1. Chat(runs, session, refused, mail, tab) /\ limit \in Bounds
  BY DEF IInv
<1>2. tab \in Tabs /\ TabOK(tab)
  BY <1>1, ChatIs
<1>3. limit' \in Bounds
  BY <1>1, SpendIs DEF Dequeue
<1>4. tab.items \in Seq(Nat) /\ 0 \notin ToSet(tab.items)
  BY <1>2, TabTypes DEF TabOK
<1>5. p \in Nat
  BY <1>4, ToSetIs DEF Dequeue
<1>6. PICK q \in Seq(Nat) : q = RemoveFirst(tab.items, p) /\ 0 \notin ToSet(q)
  BY <1>4, <1>5, RemoveFirstIs
<1>7. PICK v \in Tabs : v = [tab EXCEPT !.items = q]
  BY <1>2, ItemsIs
<1>8. v.messages = tab.messages /\ v.op = tab.op /\ v.status = tab.status /\ v.sync = tab.sync
  BY <1>2, <1>7, ItemsIs
<1>9. Chat(runs, session, refused, mail, v)
  BY <1>1, <1>6, <1>7, ItemsKeep
<1>10. Tab(v) /\ UNCHANGED <<runs, session, refused, mail>>
  BY <1>6, <1>7 DEF Dequeue, Local
<1>11. poll.on => v.op.pc = "none" /\ v.status = "ready" /\ ~v.sync
  BY <1>8, LookOn
<1> QED
  BY <1>3, <1>9, <1>10, <1>11, TabStep

\* ResumeQueue preserves the invariant.
LEMMA ResumeStep ==
  ASSUME IInv, ResumeQueue
  PROVE  IInv'
<1>1. Chat(runs, session, refused, mail, tab) /\ limit \in Bounds
  BY DEF IInv
<1>2. tab \in Tabs
  BY <1>1, ChatIs
<1>3. tab.status # "busy" /\ ~tab.steering /\ Resumed(tab) # tab /\ Tab(Resumed(tab))
      /\ UNCHANGED <<runs, session, refused, mail, limit>>
  BY DEF ResumeQueue, Busy, Local
<1>4. PICK n : n = Resumed(tab)
  OBVIOUS
<1>5. Chat(runs, session, refused, mail, n)
      /\ (n = tab \/ n.messages # tab.messages \/ n = [tab EXCEPT !.paused = FALSE, !.error = FALSE])
  BY <1>1, <1>3, <1>4, ResumedKeeps
<1>6. PICK v \in Tabs : v = [tab EXCEPT !.paused = FALSE, !.error = FALSE]
  BY <1>2, ClearedIs
<1>7. v.op = tab.op /\ v.status = tab.status /\ v.sync = tab.sync
  BY <1>2, <1>6, ClearedIs
<1>8. n.messages = tab.messages /\ poll.on => n.op.pc = "none" /\ n.status = "ready" /\ ~n.sync
  BY <1>3, <1>4, <1>5, <1>6, <1>7, LookOn
<1>9. Tab(n)
  BY <1>3, <1>4
<1> QED
  BY <1>1, <1>3, <1>5, <1>8, <1>9, TabStep

\* Regenerate preserves the invariant.
LEMMA RegenerateStep ==
  ASSUME IInv, Regenerate
  PROVE  IInv'
<1>1. Chat(runs, session, refused, mail, tab) /\ limit \in Bounds
  BY DEF IInv
<1>2. tab \in Tabs /\ tab.messages \in Seq(Message) /\ tab.status \in {"ready", "busy", "error"}
  BY <1>1, ChatIs, TabTypes
<1>3. limit' \in Bounds
  BY <1>1, SpendIs DEF Regenerate
<1>4. /\ tab.op = NoOp /\ tab.stop = NoStop /\ ~tab.sync /\ tab.status # "busy" /\ ~tab.steering
      /\ Answered(tab.messages) /\ (tab.status = "error" => "impatient" \in Windows)
      /\ Tab(Again(tab, "regenerate")) /\ UNCHANGED <<runs, session, refused, mail>>
  BY DEF Regenerate, Idle, Busy, Local
<1>5. PICK n \in Tabs : n = Again(tab, "regenerate")
  BY <1>2, AgainIs
<1>6. Chat(runs, session, refused, mail, n)
  BY <1>1, <1>2, <1>4, <1>5, RegenerateKeeps
<1>7. n.messages # tab.messages
  <2>1. n.messages = Unanswered(tab.messages)
    BY <1>2, <1>5, AgainIs
  <2>2. Len(Unanswered(tab.messages)) = Len(tab.messages) - 1 /\ Len(tab.messages) \in Nat \ {0}
    BY <1>2, <1>4, UnansweredIs
  <2> QED
    BY <2>1, <2>2
<1>8. Tab(n)
  BY <1>4, <1>5
<1> QED
  BY <1>3, <1>4, <1>6, <1>7, <1>8, TabStep

\* The tab when a Stop begins, or another joins it.
Begun(t, b, q) == [t EXCEPT !.paused = TRUE, !.steering = b, !.items = q]
Joined(t, then, item) == [t EXCEPT !.stop.then = then, !.stop.item = item]
\* The queue is paused when a Stop or a steering begins.
LEMMA StopBegins ==
  ASSUME NEW t \in Tabs, NEW q \in Seq(Nat), NEW b \in BOOLEAN
  PROVE  LET n == Begun(t, b, q) IN
         /\ n \in Tabs
         /\ n.messages = t.messages /\ n.status = t.status /\ n.items = q /\ n.paused
         /\ n.steering = b /\ n.error = t.error /\ n.sync = t.sync /\ n.link = t.link
         /\ n.stop = t.stop /\ n.op = t.op
<1>1. t \in TabRecords
  BY TabsAre
<1>2. PICK n \in Tabs : n = Begun(t, b, q)
  BY <1>1, TabsAre DEF TabRecords, Begun
<1>3. /\ n.messages = t.messages /\ n.status = t.status /\ n.items = q /\ n.paused
      /\ n.steering = b /\ n.error = t.error /\ n.sync = t.sync /\ n.link = t.link
      /\ n.stop = t.stop /\ n.op = t.op
  BY <1>1, <1>2 DEF TabRecords, Begun
<1> QED
  BY <1>2, <1>3
\* A second Stop joins the one under way.
LEMMA StopJoined ==
  ASSUME NEW t \in Tabs, NEW then \in Thens, NEW item \in Nat
  PROVE  LET n == Joined(t, then, item) IN
         /\ n \in Tabs
         /\ n.messages = t.messages /\ n.status = t.status /\ n.items = t.items
         /\ n.paused = t.paused /\ n.steering = t.steering /\ n.error = t.error /\ n.sync = t.sync
         /\ n.link = t.link /\ n.op = t.op
         /\ n.stop.then = then /\ n.stop.item = item /\ n.stop.pc = t.stop.pc
         /\ n.stop.run = t.stop.run /\ n.stop.req = t.stop.req
<1>1. t.stop \in StopType
  BY TabTypes
<1>2. PICK o \in StopType : o = [t.stop EXCEPT !.then = then, !.item = item]
  BY <1>1 DEF StopType, Thens
<1>3. o.then = then /\ o.item = item /\ o.pc = t.stop.pc /\ o.run = t.stop.run /\ o.req = t.stop.req
  BY <1>1, <1>2 DEF StopType
<1>4. [t EXCEPT !.stop.then = then, !.stop.item = item] = [t EXCEPT !.stop = o]
  <2>1. t \in TabRecords
    BY TabsAre
  <2>2. [t EXCEPT !.stop.then = then] = [t EXCEPT !.stop = [t.stop EXCEPT !.then = then]]
    BY <2>1 DEF TabRecords
  <2> QED
    BY <1>1, <1>2, <2>1, <2>2 DEF TabRecords, StopType
<1>5. PICK n \in Tabs : n = [t EXCEPT !.stop = o]
  BY StopIs
<1>6. /\ n.messages = t.messages /\ n.status = t.status /\ n.items = t.items
      /\ n.paused = t.paused /\ n.steering = t.steering /\ n.error = t.error /\ n.sync = t.sync
      /\ n.link = t.link /\ n.stop = o /\ n.op = t.op
  BY <1>5, StopIs
<1>7. n = Joined(t, then, item)
  BY <1>4, <1>5 DEF Joined
<1> QED
  BY <1>3, <1>6, <1>7

\* StopWith preserves the invariant: it breaks the turn off, or joins the Stop under way.
LEMMA StopStep ==
  ASSUME IInv, NEW then \in {"stop", "steer"}, NEW item \in Nat, then = "steer" => item # 0,
         NEW items \in Seq(Nat), 0 \notin ToSet(items), StopWith(then, item, items),
         limit' \in Bounds
  PROVE  IInv'
<1>1. Chat(runs, session, refused, mail, tab)
  BY DEF IInv
<1>2. tab \in Tabs /\ TabOK(tab) /\ StepsOK(tab) /\ StopsOK(tab) /\ mail \subseteq Mail
      /\ BoxOK(runs, mail)
  BY <1>1, ChatIs DEF TabOK
<1>3. PICK b \in BOOLEAN : b = (then = "steer")
  OBVIOUS
<1>4. PICK u \in Tabs :
        /\ u = Begun(tab, b, items)
        /\ u.messages = tab.messages /\ u.status = tab.status /\ u.items = items /\ u.paused
        /\ u.steering = b /\ u.error = tab.error /\ u.sync = tab.sync /\ u.link = tab.link
        /\ u.stop = tab.stop /\ u.op = tab.op
  BY <1>2, StopBegins
<1>5. /\ u.messages = tab.messages /\ u.status = tab.status /\ u.items = items /\ u.paused
      /\ u.steering = b /\ u.error = tab.error /\ u.sync = tab.sync /\ u.link = tab.link
      /\ u.stop = tab.stop /\ u.op = tab.op
  BY <1>4
<1>6. PICK less : less = Abandoned
  OBVIOUS
<1>7. Lessens(mail, less) /\ \A x \in less : ~x.waited
  <2>1. less = {[m EXCEPT !.waited = FALSE] : m \in {x \in mail : x.reply = "none"}}
    BY <1>6, Zenon DEF Abandoned
  <2> QED
    BY <1>2, <2>1, GivenUp, Zenon
<1>81. Tab(IF u.stop = NoStop THEN Aborted(u, then, item)
          ELSE Joined(u, then, item))
  BY <1>3, <1>4 DEF StopWith, Begun, Joined
<1>8. /\ tab.status = "busy" \/ tab.steering
      /\ tab.op.kind = "regenerate" /\ tab.op.pc = "saving" => "withdrawn" \in Windows
      /\ mail' = less /\ UNCHANGED <<runs, session, refused>>
  BY <1>6 DEF StopWith, Busy
<1>9. ~poll.on
  BY <1>8, LookOn
<1>10. then \in Thens
  BY DEF Thens
<1>11. CASE tab.stop = NoStop
  <2>1. tab.status = "busy"
    BY <1>2, <1>8, <1>11, Nothing DEF StopsOK
  <2>2. PICK n : n = Aborted(u, then, item)
    OBVIOUS
  <2>3. Chat(runs, session, refused, less, n)
    BY <1>1, <1>3, <1>5, <1>7, <1>8, <1>10, <1>11, <2>1, <2>2, AbortedKeeps
  <2>4. Tab(n)
    BY <1>5, <1>81, <1>11, <2>2
  <2> QED
    BY <1>8, <1>9, <2>3, <2>4, TabStep
<1>12. CASE tab.stop # NoStop
  <2>1. PICK n \in Tabs :
        /\ n = Joined(u, then, item)
        /\ n.messages = u.messages /\ n.status = u.status /\ n.items = u.items
        /\ n.paused = u.paused /\ n.steering = u.steering /\ n.error = u.error /\ n.sync = u.sync
        /\ n.link = u.link /\ n.op = u.op
        /\ n.stop.then = then /\ n.stop.item = item /\ n.stop.pc = u.stop.pc
        /\ n.stop.run = u.stop.run /\ n.stop.req = u.stop.req
    BY <1>10, StopJoined
  <2>2. /\ n.messages = u.messages /\ n.status = u.status /\ n.items = u.items
        /\ n.paused = u.paused /\ n.steering = u.steering /\ n.error = u.error /\ n.sync = u.sync
        /\ n.link = u.link /\ n.op = u.op
        /\ n.stop.then = then /\ n.stop.item = item /\ n.stop.pc = u.stop.pc
        /\ n.stop.run = u.stop.run /\ n.stop.req = u.stop.req
    BY <2>1
  <2>3. tab.sync /\ tab.status = "ready" /\ tab.steering /\ tab.stop.then = "steer" /\ ~tab.error
    BY <1>2, <1>8, <1>12 DEF StopsOK
  <2>4. n.stop.pc # "none" /\ n.stop # NoStop
    <3>1. tab.stop.pc # "none"
      BY <1>2, <1>12 DEF StopsOK
    <3> QED
      BY <3>1, <1>5, <2>2, Nothing
  <2>5. TabOK(n)
    <3>1. StepsOK(n)
      BY <1>2, <1>5, <2>2 DEF StepsOK, Reads
    <3>2. LinksOK(n)
      <4>1. LinksOK(tab)
        BY <1>2 DEF TabOK
      <4> QED
        BY <4>1, <1>5, <2>2 DEF LinksOK, Tied, Loose, Reads
    <3>3. StopsOK(n)
      <4>1. /\ n.sync /\ n.status = "ready" /\ ~n.error /\ n.paused /\ n.op.pc = "none"
            /\ n.steering => n.stop.then = "steer"
            /\ n.stop.then = "steer" => n.stop.item # 0
            /\ n.stop.then # "none"
        <5>1. n.sync /\ n.status = "ready" /\ ~n.error /\ n.paused
          BY <1>5, <2>2, <2>3
        <5>2. tab.op.pc = "none"
          BY <1>2, <2>3 DEF StopsOK
        <5>3. n.op.pc = "none"
          BY <1>5, <2>2, <5>2
        <5>4. n.steering => n.stop.then = "steer"
          BY <1>3, <1>5, <2>2
        <5>5. n.stop.then = "steer" => n.stop.item # 0
          BY <2>2
        <5>6. n.stop.then # "none"
          BY <2>2
        <5> QED
          BY <5>1, <5>3, <5>4, <5>5, <5>6
      <4>2. /\ n.stop.run = n.link.run /\ n.stop.req = (IF n.link.run = 0 THEN n.link.req ELSE 0)
            /\ ~Unlinked(n)
        BY <1>2, <1>5, <1>12, <2>2, <2>3 DEF StopsOK, Unlinked
      <4> QED
        BY <4>1, <4>2, <2>4 DEF StopsOK
    <3> QED
      BY <1>5, <2>2, <3>1, <3>2, <3>3 DEF TabOK
  <2>6. Chat(runs, session, refused, mail, n)
    BY <1>1, <1>5, <2>2, <2>5, CoreKeeps
  <2>7. Chat(runs, session, refused, less, n)
    BY <1>7, <2>6, LessKeeps
  <2>8. Tab(n)
    BY <1>5, <1>81, <1>12, <2>1
  <2> QED
    BY <1>8, <1>9, <2>7, <2>8, TabStep
<1> QED
  BY <1>11, <1>12

\* Stop, Steer and SteerQueued preserve the invariant.
LEMMA StopsStep ==
  ASSUME IInv, Stop \/ Steer \/ \E p \in ToSet(tab.items) : SteerQueued(p)
  PROVE  IInv'
<1>1. Chat(runs, session, refused, mail, tab) /\ limit \in Bounds
  BY DEF IInv
<1>2. tab \in Tabs /\ TabOK(tab)
  BY <1>1, ChatIs
<1>3. tab.items \in Seq(Nat) /\ 0 \notin ToSet(tab.items)
  BY <1>2, TabTypes DEF TabOK
<1>4. CASE Stop
  <2>1. limit' \in Bounds
    BY <1>1, <1>4, SpendIs DEF Stop
  <2>2. StopWith("stop", 0, tab.items)
    BY <1>4 DEF Stop
  <2> QED
    BY <1>3, <2>1, <2>2, StopStep
<1>5. CASE Steer
  <2>1. limit' \in Bounds /\ limit["asked"] \in Nat \ {0}
    BY <1>1, <1>5, SpendIs DEF Steer
  <2>2. PICK p \in Nat \ {0} : p = limit.asked
    BY <2>1
  <2>3. StopWith("steer", p, <<p>> \o tab.items)
    BY <1>5, <2>2 DEF Steer
  <2>4. <<p>> \o tab.items \in Seq(Nat) /\ 0 \notin ToSet(<<p>> \o tab.items)
    BY <1>3, AddedTo
  <2> QED
    BY <2>1, <2>3, <2>4, StopStep
<1>6. ASSUME NEW p \in ToSet(tab.items), SteerQueued(p) PROVE IInv'
  <2>1. limit' \in Bounds
    BY <1>1, <1>6, SpendIs DEF SteerQueued
  <2>2. p \in Nat \ {0}
    BY <1>3, ToSetIs
  <2>3. PICK q \in Seq(Nat) : q = RemoveFirst(tab.items, p) /\ ToSet(q) \subseteq ToSet(tab.items)
    BY <1>3, <2>2, RemoveFirstIs
  <2>4. StopWith("steer", p, <<p>> \o q)
    BY <1>6, <2>3 DEF SteerQueued
  <2>5. <<p>> \o q \in Seq(Nat) /\ 0 \notin ToSet(<<p>> \o q)
    BY <1>3, <2>2, <2>3, AddedTo
  <2> QED
    BY <2>1, <2>2, <2>4, <2>5, StopStep
<1> QED
  BY <1>4, <1>5, <1>6

\* Retry preserves the invariant.
LEMMA RetryStep ==
  ASSUME IInv, Retry
  PROVE  IInv'
<1>1. Chat(runs, session, refused, mail, tab) /\ limit \in Bounds
  BY DEF IInv
<1>2. /\ tab \in Tabs /\ TabOK(tab) /\ StepsOK(tab) /\ StopsOK(tab) /\ mail \subseteq Mail
      /\ \A x \in mail : x.waited => tab.op.pc = "posting"
  BY <1>1, ChatIs DEF TabOK
<1>3. limit' \in Bounds
  BY <1>1, SpendIs DEF Retry
<1>4. /\ tab.op = NoOp /\ tab.stop = NoStop /\ (tab.status = "error" \/ tab.error)
      /\ UNCHANGED <<runs, session, refused, mail>>
  BY DEF Retry, Idle, Local
<1>5. tab.op.pc = "none"
  BY <1>4, Nothing
<1>6. ~poll.on
  <2>1. tab.error => tab.sync \/ tab.status = "error"
    BY <1>2 DEF StopsOK
  <2> QED
    BY <1>4, <2>1, LookOn
<1>7. CASE tab.sync
  <2>1. Tab(Aborted(tab, "resume", 0))
    BY <1>7 DEF Retry, Local
  <2>2. PICK n : n = Aborted(tab, "resume", 0)
    OBVIOUS
  <2>3. tab.paused /\ ~tab.steering
    BY <1>2, <1>4, <1>7, Nothing DEF StopsOK
  <2>4. 0 \notin ToSet(tab.items)
    BY <1>2 DEF TabOK
  <2>5. Lessens(mail, mail) /\ \A x \in mail : ~x.waited
    BY <1>1, <1>2, <1>5, ChatIs
  <2>6. "resume" \in Thens /\ "resume" # "steer" /\ tab.op.pc # "saving"
    BY <1>5 DEF Thens
  <2>7. Chat(runs, session, refused, mail, Aborted(tab, "resume", 0))
    BY <1>1, <1>2, <1>4, <1>7, <2>3, <2>4, <2>5, <2>6, AbortedKeeps
  <2> QED
    BY <1>3, <1>4, <1>6, <2>1, <2>2, <2>7, TabStep
<1>8. CASE ~tab.sync
  <2>1. tab.status = "error"
    BY <1>2, <1>4, <1>8 DEF StopsOK
  <2>2. CASE tab.error /\ tab.items # <<>>
    <3>1. PICK v \in Tabs : v = [tab EXCEPT !.paused = FALSE, !.error = FALSE]
      BY <1>2, ClearedIs
    <3>2. /\ v.messages = tab.messages /\ v.status = tab.status /\ v.items = tab.items /\ ~v.paused
          /\ v.steering = tab.steering /\ ~v.error /\ v.sync = tab.sync /\ v.link = tab.link
          /\ v.stop = tab.stop /\ v.op = tab.op
      BY <1>2, <3>1, ClearedIs
    <3>3. TabOK(v)
      <4>1. StepsOK(v)
        BY <1>2, <3>2 DEF StepsOK, Reads
      <4>2. LinksOK(tab)
        BY <1>2 DEF TabOK
      <4>3. LinksOK(v)
        BY <4>2, <3>2 DEF LinksOK, Tied, Loose, Reads
      <4>4. StopsOK(v)
        BY <1>2, <1>4, <1>8, <3>2, Nothing DEF StopsOK
      <4> QED
        BY <1>2, <3>2, <4>1, <4>3, <4>4 DEF TabOK
    <3>4. v.stop.pc = "none"
      BY <1>4, <3>2, Nothing
    <3>5. Chat(runs, session, refused, mail, v)
      BY <1>1, <3>2, <3>3, <3>4, CoreKeeps
    <3>6. Chat(runs, session, refused, mail, Drained(v))
      BY <3>5, DrainedKeeps
    <3>7. Tab(Drained(v))
      BY <1>8, <2>2, <3>1 DEF Retry, Local
    <3> QED
      BY <1>3, <1>4, <1>6, <3>6, <3>7, TabStep
  <2>3. CASE ~(tab.error /\ tab.items # <<>>)
    <3>1. PICK v : v = [tab EXCEPT !.paused = FALSE, !.error = FALSE,
                                   !.op = [NoOp EXCEPT !.kind = "retry", !.pc = "status"]]
      OBVIOUS
    <3>2. Chat(runs, session, refused, mail, v)
      BY <1>1, <1>4, <1>8, <2>1, <3>1, RetryKeeps
    <3>3. Tab(v)
      BY <1>8, <2>3, <3>1 DEF Retry, Local
    <3> QED
      BY <1>3, <1>4, <1>6, <3>2, <3>3, TabStep
  <2> QED
    BY <2>2, <2>3
<1> QED
  BY <1>7, <1>8

\* What is saved shows the run that owns it.
LEMMA SavedShows ==
  ASSUME IInv
  PROVE  /\ session \in Session /\ session.messages \in Seq(Message)
         /\ Good(session.messages, runs) /\ SettledIn(session.messages, runs)
         /\ session.run = 0 => runs = <<>>
         /\ Calm(runs) /\ session.run # 0 => Shows(session.messages, runs, session.run)
<1>1. Chat(runs, session, refused, mail, tab)
  BY DEF IInv
<1>2. runs \in Seq(Run) /\ ServerOK(runs, session) /\ session \in Session
  BY <1>1, ChatIs
<1>3. session.messages \in Seq(Message) /\ session.run \in Nat
  BY <1>2 DEF Session
<1>4. /\ Good(session.messages, runs) /\ SettledIn(session.messages, runs)
      /\ session.run = 0 => runs = <<>>
  BY <1>2 DEF ServerOK
<1>5. ASSUME Calm(runs), session.run # 0 PROVE Shows(session.messages, runs, session.run)
  <2>1. session.run \in 1..Len(runs)
    BY <1>2, <1>3, <1>5 DEF ServerOK
  <2>2. Good(runs[session.run].messages, runs) /\ Asking(runs[session.run].messages)
    BY <1>1, <1>5, <2>1, ShownRun
  <2>3. Shows(TranscriptOf(runs, session.run), runs, session.run)
    BY <1>2, <2>1, <2>2, TranscriptIs
  <2>4. Shows(runs[session.run].messages, runs, session.run)
    BY SameIs DEF Shows
  <2> QED
    BY <1>2, <1>5, <2>3, <2>4 DEF ServerOK
<1> QED
  BY <1>2, <1>3, <1>4, <1>5

\* PageReload preserves the invariant: what nobody waits for is no longer the tab's.
LEMMA ReloadStep ==
  ASSUME IInv, PageReload
  PROVE  IInv'
<1>1. Chat(runs, session, refused, mail, tab) /\ limit \in Bounds
  BY DEF IInv
<1>2. mail \subseteq Mail /\ BoxOK(runs, mail)
  BY <1>1, ChatIs
<1>3. limit' \in Bounds
  BY <1>1, SpendIs DEF PageReload
<1>4. PICK some : some = Abandoned
  OBVIOUS
<1>5. Lessens(mail, some) /\ \A x \in some : ~x.waited
  <2>1. some = {[m EXCEPT !.waited = FALSE] : m \in {x \in mail : x.reply = "none"}}
    BY <1>4, Zenon DEF Abandoned
  <2> QED
    BY <1>2, <2>1, GivenUp, Zenon
<1>6. PICK less : less = {[m EXCEPT !.mine = FALSE] : m \in some}
  OBVIOUS
<1>7. /\ Lessens(mail, less) /\ \A x \in less : ~x.waited /\ ~x.mine
      /\ {x.req : x \in less} \subseteq {x.req : x \in mail}
  BY <1>2, <1>5, <1>6, OthersBox, Zenon
<1>8. /\ tab' = Opened(session) /\ poll' = NoPoll /\ UNCHANGED <<runs, session, refused>>
  BY DEF PageReload
<1>9. mail' = less
  <2>1. mail' = {[m EXCEPT !.mine = FALSE] : m \in Abandoned}
    BY Zenon DEF PageReload
  <2>2. mail' = {[m EXCEPT !.mine = FALSE] : m \in some}
    BY <2>1, <1>4
  <2> QED
    BY <2>2, <1>6, Zenon
<1>10. BoxOK(runs, less) /\ less \subseteq Mail
  BY <1>2, <1>7, LessBox DEF Lessens
<1>11. \A x \in less : ~x.waited /\ (Calm(runs) \/ "impatient" \notin Windows => ~Pends(runs, refused, x))
  BY <1>7 DEF Pends
<1>12. Chat(runs, session, refused, less, [Opened(session) EXCEPT !.paused = FALSE])
  BY <1>1, <1>7, <1>10, <1>11, SavedShows, OpenedKeeps
<1>13. [Opened(session) EXCEPT !.paused = FALSE] = Opened(session)
  <2>1. PICK t \in Tabs : t = Opened(session) /\ ~t.paused
    BY SavedShows, OpenedIs
  <2>2. t \in TabRecords /\ t.paused = FALSE
    BY <2>1, TabsAre, TabTypes
  <2>3. [t EXCEPT !.paused = FALSE] = t
    BY <2>2 DEF TabRecords
  <2> QED
    BY <2>1, <2>3
<1>14. Chat(runs, session, refused, less, tab')
  BY <1>8, <1>12, <1>13
<1>15. Look(tab', poll', runs, session)
  BY <1>8, DroppedLook
<1> QED
  BY <1>3, <1>8, <1>9, <1>14, <1>15 DEF IInv

\* PollRead preserves the invariant.
LEMMA PollReadStep ==
  ASSUME IInv, PollRead
  PROVE  IInv'
<1>1. Chat(runs, session, refused, mail, tab) /\ limit \in Bounds
  BY DEF IInv
<1>2. limit' \in Bounds
  BY <1>1, SpendIs DEF PollRead
<1>3. /\ Settled(tab) /\ (\E r \in 1..Len(runs) : ~runs[r].mine)
      /\ poll' = [on |-> TRUE, session |-> session]
      /\ UNCHANGED <<runs, session, refused, mail, tab>>
  BY DEF PollRead
<1>4. tab.op = NoOp /\ tab.status = "ready" /\ ~tab.error /\ tab.stop = NoStop
  BY <1>3 DEF Settled, Idle
<1>5. StopsOK(tab)
  BY <1>1, ChatIs DEF TabOK
<1>6. tab.op.pc = "none" /\ ~tab.sync
  BY <1>4, <1>5, Nothing DEF StopsOK
<1>7. ~Mine(runs) /\ runs # <<>>
  BY <1>3 DEF Mine
<1>8. /\ session \in Session /\ Good(session.messages, runs) /\ SettledIn(session.messages, runs)
      /\ session.run # 0
  BY <1>7, SavedShows
<1>9. session.run <= Len(runs)
  BY <1>1, ChatIs DEF ServerOK
<1>10. PICK p \in PollType : p = [on |-> TRUE, session |-> session]
  BY <1>8 DEF PollType
<1>11. p.on /\ p.session = session
  BY <1>10
<1>12. PollOK(tab, p, runs, session)
  BY <1>4, <1>6, <1>7, <1>8, <1>9, <1>11 DEF PollOK
<1>13. Look(tab, poll', runs, session)
  BY <1>3, <1>10, <1>12 DEF Look
<1> QED
  BY <1>1, <1>2, <1>3, <1>13 DEF IInv

\* A link whose run stays.
LEMMA SameLink ==
  ASSUME NEW t \in Tabs
  PROVE  [t EXCEPT !.op.pc = "opening", !.link.after = 0, !.link.run = t.link.run]
         = [t EXCEPT !.op.pc = "opening", !.link.after = 0]
<1>1. t \in TabRecords /\ t.link \in LinkType /\ t.link.run \in Nat
  BY TabsAre, TabTypes
<1>2. PICK u : u = [t EXCEPT !.op.pc = "opening", !.link.after = 0]
  OBVIOUS
<1>3. PICK l : l = [t.link EXCEPT !.after = 0]
  OBVIOUS
<1>4. PICK v : v = [t EXCEPT !.op.pc = "opening"]
  OBVIOUS
<1>5. v.link = t.link
  BY <1>1, <1>4 DEF TabRecords
<1>6. u = [v EXCEPT !.link = l]
  BY <1>2, <1>3, <1>4, <1>5
<1>7. DOMAIN v = DOMAIN t /\ "link" \in DOMAIN t
  BY <1>1, <1>4 DEF TabRecords
<1>8. u.link = l
  BY <1>6, <1>7
<1>9. l.run = t.link.run /\ [l EXCEPT !.run = t.link.run] = l
  BY <1>1, <1>3 DEF LinkType
<1>10. [u EXCEPT !.link.run = t.link.run] = [u EXCEPT !.link = [l EXCEPT !.run = t.link.run]]
  BY <1>8
<1>11. [u EXCEPT !.link = l] = u
  BY <1>6, <1>7
<1> QED
  BY <1>2, <1>9, <1>10, <1>11

\* SaveDone preserves the invariant: the request has a new number, or none for a replay.
LEMMA SaveStep ==
  ASSUME IInv, NEW ok \in BOOLEAN, SaveDone(ok)
  PROVE  IInv'
<1>1. Chat(runs, session, refused, mail, tab) /\ limit \in Bounds
  BY DEF IInv
<1>2. /\ tab \in Tabs /\ TabOK(tab) /\ StepsOK(tab) /\ LinksOK(tab) /\ FollowOK(tab, runs, session, refused)
      /\ session \in Session /\ ServerOK(runs, session)
  BY <1>1, ChatIs DEF TabOK
<1>3. tab.op.pc = "saving" /\ UNCHANGED <<runs, refused, limit>>
  BY DEF SaveDone
<1>4. ~poll.on
  BY <1>3, LookOn
<1>5. PICK s2 : s2 = session'
  OBVIOUS
<1>6. s2 = session \/ (session.run = 0 /\ s2 = [session EXCEPT !.messages = tab.messages])
  BY <1>5 DEF SaveDone
<1>7. Chat(runs, s2, refused, mail, tab)
  BY <1>1, <1>6, SessionKeeps
<1>8. ASSUME NEW n, NEW box, Chat(runs, s2, refused, box, n), Tab(n), mail' = box
      PROVE  IInv'
  <2>1. tab' = n /\ (poll' = poll \/ poll' = NoPoll)
    BY <1>8 DEF Tab
  <2>2. Look(n, poll, runs, s2)
    <3>1. poll \in PollType /\ Good(poll.session.messages, runs)
      BY DEF IInv, Look, PollOK
    <3> QED
      BY <3>1, <1>4 DEF Look, PollOK
  <2>3. Look(n, NoPoll, runs, s2)
    BY DroppedLook
  <2> QED
    BY <1>1, <1>3, <1>5, <1>8, <2>1, <2>2, <2>3 DEF IInv
<1>9. CASE tab.op.kind = "replay"
  <2>1. tab.link.run # 0
    BY <1>2, <1>9 DEF LinksOK
  <2>2. tab.link.run \in LookedAt(tab, runs, s2)
    BY <2>1 DEF LookedAt
  <2>3. Calm(runs) => ~Answered(tab.messages)
    BY <1>2, <1>3, <1>9 DEF FollowOK, ShownOK
  <2>4. PICK r : r = tab.link.run
    OBVIOUS
  <2>5. Chat(runs, s2, refused, mail, [tab EXCEPT !.op.pc = "opening", !.link.after = 0, !.link.run = r])
    BY <1>3, <1>7, <1>9, <2>2, <2>3, <2>4, OpeningKeeps
  <2>6. PICK n : n = [tab EXCEPT !.op.pc = "opening", !.link.after = 0]
    OBVIOUS
  <2>7. Chat(runs, s2, refused, mail, n)
    BY <1>2, <2>4, <2>5, <2>6, SameLink
  <2>8. Tab(n) /\ mail' = mail
    BY <1>9, <2>6 DEF SaveDone
  <2> QED
    BY <1>8, <2>7, <2>8
<1>10. CASE tab.op.kind # "replay"
  <2>1. PICK q \in Nat \ {0} : q = NewRequest /\ q \notin Used(runs, refused, mail, tab)
    BY <1>1, FreshIs, Named
  <2>2. PICK n : n = [tab EXCEPT !.op.pc = "posting",
                        !.link = [run |-> 0, req |-> q, after |-> 0, messages |-> tab.messages,
                                  regen |-> tab.op.kind = "regenerate"]]
    OBVIOUS
  <2>3. Chat(runs, s2, refused, mail \cup Post(n, q), n)
    BY <1>3, <1>7, <1>10, <2>1, <2>2, SavedKeeps
  <2>4. Tab(n) /\ mail' = mail \cup Post(n, q)
    BY <1>10, <2>1, <2>2 DEF SaveDone
  <2> QED
    BY <1>8, <2>3, <2>4
<1> QED
  BY <1>9, <1>10

\* PostAnswered preserves the invariant.
LEMMA AnsweredStep ==
  ASSUME IInv, NEW m \in mail, PostAnswered(m)
  PROVE  IInv'
<1>1. Chat(runs, session, refused, mail, tab) /\ limit \in Bounds
  BY DEF IInv
<1>2. /\ tab \in Tabs /\ LinksOK(tab) /\ mail \subseteq Mail /\ BoxOK(runs, mail)
      /\ PostOK(tab, runs, refused, mail)
  BY <1>1, ChatIs DEF TabOK
<1>3. m.waited /\ UNCHANGED <<runs, session, refused, limit>>
  BY DEF PostAnswered
<1>4. tab.op.pc = "posting" /\ m.req = tab.link.req
  BY <1>2, <1>3 DEF PostOK
<1>5. ~poll.on
  BY <1>4, LookOn
<1>6. PICK less : less = mail'
  OBVIOUS
<1>7. Lessens(mail, less) /\ \A x \in less : ~x.waited
  <2>1. less = mail \ {m}
    BY <1>6 DEF PostAnswered
  <2> QED
    BY <1>2, <1>3, <2>1, ReadBox
<1>8. CASE m.reply = "run"
  <2>1. PICK r \in ReqIn(runs, m.req) : Tab(Follow(tab, r))
    BY <1>8, Named DEF PostAnswered
  <2>2. r \in LookedAt(tab, runs, session)
    BY <1>2, <1>4, <2>1 DEF LinksOK, LookedAt
  <2>3. Chat(runs, session, refused, less, Follow(tab, r))
    BY <1>1, <1>4, <1>7, <2>2, FollowKeeps
  <2> QED
    BY <1>1, <1>3, <1>5, <1>6, <2>1, <2>3, TabStep
<1>9. CASE m.reply # "run"
  <2>1. Tab(Finished(tab, "error"))
    BY <1>9 DEF PostAnswered
  <2>2. Chat(runs, session, refused, less, Over(tab, "error"))
        /\ Drained(Over(tab, "error")) = Over(tab, "error")
    BY <1>1, <1>4, <1>7, ErrorKeeps
  <2>3. Finished(tab, "error") = Over(tab, "error")
    BY <1>2, <2>2, OverIs
  <2>4. Tab(Over(tab, "error"))
    BY <2>1, <2>3
  <2> QED
    BY <1>1, <1>3, <1>5, <1>6, <2>2, <2>4, TabStep
<1> QED
  BY <1>8, <1>9

\* A tab that is at work, and waits for no submission.
LEMMA AtWork ==
  ASSUME IInv, tab.op.pc \notin {"none", "saving"}
  PROVE  /\ Chat(runs, session, refused, mail, tab) /\ limit \in Bounds /\ ~poll.on
         /\ tab \in Tabs /\ TabOK(tab) /\ StepsOK(tab) /\ LinksOK(tab) /\ Tied(tab) /\ ~Loose(tab)
         /\ Lessens(mail, mail)
         /\ tab.op.pc # "posting" => \A x \in mail : ~x.waited
<1>1. Chat(runs, session, refused, mail, tab) /\ limit \in Bounds
  BY DEF IInv
<1>2. tab \in Tabs /\ TabOK(tab)
  BY <1>1, ChatIs
<1>3. StepsOK(tab) /\ LinksOK(tab)
  BY <1>2 DEF TabOK
<1>4. Tied(tab) /\ ~Loose(tab)
  BY <1>2, Working
<1>5. ~poll.on
  BY LookOn
<1>6. Lessens(mail, mail) /\ (tab.op.pc # "posting" => \A x \in mail : ~x.waited)
  BY <1>1, ChatIs
<1> QED
  BY <1>1, <1>2, <1>3, <1>4, <1>5, <1>6

\* The tab looks at one run.
LEMMA LookedOnce ==
  ASSUME IInv, NEW r \in LookedAt(tab, runs, session), NEW q \in LookedAt(tab, runs, session)
  PROVE  r = q
<1>1. ServerOK(runs, session)
  BY ChatIs DEF IInv
<1> QED
  BY <1>1 DEF LookedAt, ReqIn, ServerOK

\* RetryAnswer preserves the invariant: replayed, asked again, or submitted again.
LEMMA RetryAnswerStep ==
  ASSUME IInv, RetryAnswer
  PROVE  IInv'
<1>1. tab.op.pc = "status" /\ UNCHANGED <<runs, session, refused, mail, limit>>
  BY DEF RetryAnswer, Local
<1>2. /\ Chat(runs, session, refused, mail, tab) /\ limit \in Bounds /\ ~poll.on
      /\ tab \in Tabs /\ TabOK(tab) /\ StepsOK(tab) /\ LinksOK(tab) /\ Tied(tab) /\ ~Loose(tab)
      /\ Lessens(mail, mail) /\ \A x \in mail : ~x.waited
  BY <1>1, AtWork
<1>3. Looked = LookedAt(tab, runs, session)
  BY Named
<1>4. CASE Unread
  <2>1. PICK o \in OpType : o = [tab.op EXCEPT !.kind = "resume", !.pc = "asking"]
    BY <1>2, TabTypes DEF OpType
  <2>2. o.kind = "resume" /\ o.pc = "asking" /\ o.draft = tab.op.draft /\ o.kept = tab.op.kept
    BY <1>2, <2>1, TabTypes DEF OpType
  <2>3. PICK n : n = [tab EXCEPT !.op = o]
    OBVIOUS
  <2>4. tab.link.run = 0
    BY <1>4 DEF Unread
  <2>5. Chat(runs, session, refused, mail, n)
    BY <1>1, <1>2, <2>2, <2>3, <2>4, TurnKeeps
  <2>6. [tab EXCEPT !.op.kind = "resume", !.op.pc = "asking"] = [tab EXCEPT !.op = o]
    <3>1. tab \in TabRecords
      BY <1>2, TabsAre
    <3>2. [tab EXCEPT !.op.kind = "resume"] = [tab EXCEPT !.op = [tab.op EXCEPT !.kind = "resume"]]
      BY <3>1 DEF TabRecords
    <3> QED
      BY <2>1, <3>1, <3>2 DEF TabRecords, OpType
  <2>7. Tab(n)
    BY <1>4, <2>3, <2>6 DEF RetryAnswer, Local
  <2> QED
    BY <1>1, <1>2, <2>5, <2>7, TabStep
<1>5. CASE ~Unread /\ (Looked = {} \/ tab.messages = <<>>)
  <2>1. Tab(Thrown(tab))
    BY <1>5 DEF RetryAnswer, Local
  <2>2. Chat(runs, session, refused, mail, Thrown(tab))
    BY <1>1, <1>2, ThrownKeeps
  <2> QED
    BY <1>1, <1>2, <2>1, <2>2, TabStep
<1>6. CASE ~Unread /\ ~(Looked = {} \/ tab.messages = <<>>)
  <2>1. PICK r \in LookedAt(tab, runs, session) : r = CHOOSE x \in Looked : TRUE
    BY <1>3, <1>6
  <2>2. CASE runs[r].status \in {"running", "completed"}
    <3>1. PICK n : n = [Again(tab, "replay") EXCEPT !.link.run = r]
      OBVIOUS
    <3>2. Tab(n)
      BY <1>6, <2>1, <2>2, <3>1 DEF RetryAnswer, Local
    <3>3. Chat(runs, session, refused, mail, n)
      BY <1>1, <1>2, <2>1, <3>1, ReplayKeeps
    <3> QED
      BY <1>1, <1>2, <3>2, <3>3, TabStep
  <2>3. CASE runs[r].status \notin {"running", "completed"}
    <3>1. PICK n : n = [Again(tab, "regenerate") EXCEPT !.link.after = 0]
      OBVIOUS
    <3>2. Tab(n)
      BY <1>6, <2>1, <2>3, <3>1 DEF RetryAnswer, Local
    <3>3. \A q \in LookedAt(tab, runs, session) : runs[q].settled \/ "settling" \in Windows
      <4>1. r \in 1..Len(runs)
        BY <1>2, <2>1, LookedIs
      <4>2. Ended(r)
        BY <2>3 DEF Ended
      <4>3. runs[r].settled \/ "settling" \in Windows
        BY <1>3, <2>1, <4>1, <4>2 DEF RetryAnswer, Active
      <4> QED
        BY <2>1, <4>3, LookedOnce
    <3>4. Chat(runs, session, refused, mail, n)
      BY <1>1, <1>2, <1>6, <2>1, <3>1, <3>3, AskedAgainKeeps
    <3> QED
      BY <1>1, <1>2, <3>2, <3>4, TabStep
  <2> QED
    BY <2>2, <2>3
<1> QED
  BY <1>4, <1>5, <1>6

\* ResumeAnswer preserves the invariant.
LEMMA ResumeAnswerStep ==
  ASSUME IInv, ResumeAnswer
  PROVE  IInv'
<1>1. tab.op.pc = "asking" /\ UNCHANGED <<runs, session, refused, limit>>
  BY DEF ResumeAnswer
<1>2. /\ Chat(runs, session, refused, mail, tab) /\ limit \in Bounds /\ ~poll.on
      /\ tab \in Tabs /\ TabOK(tab) /\ StepsOK(tab) /\ LinksOK(tab) /\ Tied(tab) /\ ~Loose(tab)
      /\ Lessens(mail, mail) /\ \A x \in mail : ~x.waited
  BY <1>1, AtWork
<1>3. Looked = LookedAt(tab, runs, session)
  BY Named
<1>4. tab.link.run = 0
  BY <1>1, <1>2 DEF LinksOK
<1>5. CASE Unread
  <2>1. Looked = {} /\ tab.link.messages # <<>>
    BY <1>5 DEF Unread
  <2>2. tab.link.req # 0
    BY <1>2, <2>1 DEF LinksOK
  <2>3. ReqIn(runs, tab.link.req) = {}
    BY <1>3, <1>4, <2>1, <2>2 DEF LookedAt
  <2>4. PICK v : v = Reposted(tab)
    OBVIOUS
  <2>5. Chat(runs, session, refused, mail \cup Post(v, v.link.req), v)
    BY <1>1, <1>2, <2>1, <2>3, <2>4, RepostKeeps
  <2>6. Tab(v) /\ mail' = mail \cup Post(v, tab.link.req)
    BY <1>5, <2>4 DEF ResumeAnswer, Reposted
  <2>7. v.link.req = tab.link.req
    BY <1>2, <2>4, TabsAre DEF TabRecords, OpType, Reposted
  <2> QED
    BY <1>1, <1>2, <2>5, <2>6, <2>7, TabStep
<1>6. CASE ~Unread /\ \A r \in Looked : Current(r)
  <2>1. Tab(Finished(tab, tab.status)) /\ mail' = mail
    BY <1>6 DEF ResumeAnswer
  <2>2. tab.status \in {"ready", "error"} /\ (tab.link.req # 0 => tab.status = "error")
    BY <1>1, <1>2, TabTypes DEF StepsOK
  <2>3. PICK n : n = Drained(Over(tab, tab.status)) /\ Tab(n)
    BY <1>2, <2>1, <2>2, OverIs
  <2>4. CASE tab.status = "error"
    <3>1. Chat(runs, session, refused, mail, Over(tab, "error"))
          /\ Drained(Over(tab, "error")) = Over(tab, "error")
      BY <1>1, <1>2, ErrorKeeps
    <3>2. Chat(runs, session, refused, mail, n)
      BY <2>3, <2>4, <3>1
    <3> QED
      BY <1>1, <1>2, <2>1, <2>3, <3>2, TabStep
  <2>5. CASE tab.status = "ready"
    <3>1. Looked = {session.run} \ {0}
      BY <1>3, <1>4, <2>2, <2>5 DEF LookedAt
    <3>2. session.run # 0 => runs[session.run].n > 0 /\ Answered(tab.messages)
                             /\ Last(tab.messages).run = session.run
      BY <1>6, <3>1 DEF Current
    <3>3. Chat(runs, session, refused, mail, Over(tab, "ready"))
      BY <1>1, <1>2, <2>5, <3>2, CurrentKeeps
    <3>4. Chat(runs, session, refused, mail, n)
      BY <2>3, <2>5, <3>3, DrainedKeeps
    <3> QED
      BY <1>1, <1>2, <2>1, <2>3, <3>4, TabStep
  <2> QED
    BY <2>2, <2>4, <2>5
<1>7. CASE ~Unread /\ ~(\A r \in Looked : Current(r))
  <2>1. PICK r \in LookedAt(tab, runs, session) : r = CHOOSE x \in Looked : TRUE
    BY <1>3, <1>7
  <2>2. ~Current(r)
    BY <1>3, <1>7, LookedOnce
  <2>3. PICK n : n = [tab EXCEPT !.op.pc = "opening", !.link.after = 0, !.link.run = r]
    OBVIOUS
  <2>4. Tab(n) /\ mail' = mail
    BY <1>7, <2>1, <2>3 DEF ResumeAnswer
  <2>5. ASSUME Calm(runs), Answered(tab.messages) PROVE FALSE
    <3>1. FollowOK(tab, runs, session, refused) /\ runs \in Seq(Run)
      BY <1>2, ChatIs
    <3>2. tab.messages \in Seq(Message)
      BY <1>2, TabTypes
    <3>3. tab.link.req = 0
      <4>1. tab.link.req # 0 => tab.messages = tab.link.messages /\ Asking(tab.link.messages)
        BY <1>2, <1>4, <2>5, <3>1 DEF LinksOK, FollowOK, ShownOK
      <4> QED
        BY <4>1, <2>5 DEF Asking, Answered
    <3>4. Last(tab.messages).run = r /\ r \in 1..Len(runs)
      BY <1>2, <2>1, <2>5, ShownAlone, LookedIs
    <3>5. PICK i \in 1..Len(tab.messages) : i = Len(tab.messages) /\ tab.messages[i].run = r
      <4>1. Len(tab.messages) \in Nat \ {0} /\ Last(tab.messages) = tab.messages[Len(tab.messages)]
        BY <2>5, <3>2, UnansweredIs
      <4> QED
        BY <3>4, <4>1
    <3>6. runs[r].settled
      BY <1>2, <1>4, <3>1, <3>3, <3>4, <3>5 DEF FollowOK, Unlinked, SettledIn
    <3>7. Ended(r)
      BY <1>2, <3>4, <3>6, ShownRun DEF Ended
    <3>8. Right(tab.messages, i, runs)
      BY <2>5, <3>1, <3>4, <3>5 DEF FollowOK, Good
    <3>9. 1 <= runs[r].n /\ runs[r].n \in Nat
      <4>1. runs[r].n \in Nat
        BY <3>1, <3>4, RunTypes
      <4>2. Len(tab.messages[i].parts) \in 1..runs[r].n
        BY <3>5, <3>8 DEF Right
      <4> QED
        BY <4>1, <4>2
    <3> QED
      BY <2>2, <2>5, <3>4, <3>7, <3>9 DEF Current
  <2>6. Chat(runs, session, refused, mail, n)
    BY <1>1, <1>2, <2>1, <2>3, <2>5, OpeningKeeps
  <2> QED
    BY <1>1, <1>2, <2>4, <2>6, TabStep
<1> QED
  BY <1>5, <1>6, <1>7

\* Another step of reading a run.
LEMMA TurnStep ==
  ASSUME NEW rs, NEW s, NEW rf, NEW box, NEW t, Chat(rs, s, rf, box, t), Reads(t),
         NEW pc \in {"reading", "reconnecting", "closing"},
         pc = "closing" => rs[t.link.run].status # "running" /\ t.link.after = rs[t.link.run].n,
         NEW less, Lessens(box, less), \A x \in less : ~x.waited
  PROVE  Chat(rs, s, rf, less, [t EXCEPT !.op.pc = pc])
<1>1. t \in Tabs
  BY ChatIs
<1>2. PICK o \in OpType : o = [t.op EXCEPT !.pc = pc]
  BY <1>1, StepIs
<1>3. t.op \in OpType
  BY <1>1, TabTypes
<1>4. o.pc = pc /\ o.kind = t.op.kind /\ o.draft = t.op.draft /\ o.kept = t.op.kept
  BY <1>2, <1>3 DEF OpType
<1>5. [t EXCEPT !.op.pc = pc] = [t EXCEPT !.op = o]
  BY <1>1, <1>2, StepIs
<1>6. Chat(rs, s, rf, less, [t EXCEPT !.op = o])
  BY <1>4, TurnKeeps
<1> QED
  BY <1>5, <1>6

\* A stream is open, at the start of its run or where it was.
LEMMA ConnectedStep ==
  ASSUME IInv, Connected
  PROVE  IInv'
<1>1. UNCHANGED <<runs, session, refused, mail, limit>> /\ tab.op.pc \in {"opening", "reconnecting"}
  BY DEF Connected, Local
<1>2. /\ Chat(runs, session, refused, mail, tab) /\ limit \in Bounds /\ ~poll.on
      /\ tab \in Tabs /\ LinksOK(tab) /\ Lessens(mail, mail) /\ \A x \in mail : ~x.waited
  BY <1>1, AtWork
<1>3. CASE tab.op.pc = "opening"
  <2>1. Tab(Follow(tab, tab.link.run))
    BY <1>3 DEF Connected, Local
  <2>2. PICK r \in LookedAt(tab, runs, session) : r = tab.link.run
    BY <1>2, <1>3 DEF LinksOK, LookedAt
  <2>3. Chat(runs, session, refused, mail, Follow(tab, r))
    BY <1>2, <1>3, FollowKeeps
  <2> QED
    BY <1>1, <1>2, <2>1, <2>2, <2>3, TabStep
<1>4. CASE tab.op.pc = "reconnecting"
  <2>1. PICK n : n = [tab EXCEPT !.op.pc = "reading"]
    OBVIOUS
  <2>2. Tab(n)
    BY <1>4, <2>1 DEF Connected, Local
  <2>3. Chat(runs, session, refused, mail, n)
    BY <1>2, <1>4, <2>1, TurnStep DEF Reads
  <2> QED
    BY <1>1, <1>2, <2>2, <2>3, TabStep
<1> QED
  BY <1>1, <1>3, <1>4

\* An event is shown, or the run's end is.
LEMMA ReadEventStep ==
  ASSUME IInv, ReadEvent
  PROVE  IInv'
<1>1. UNCHANGED <<runs, session, refused, mail, limit>> /\ tab.op.pc = "reading"
  BY DEF ReadEvent, Local
<1>2. /\ Chat(runs, session, refused, mail, tab) /\ limit \in Bounds /\ ~poll.on
      /\ tab \in Tabs /\ Lessens(mail, mail) /\ \A x \in mail : ~x.waited
  BY <1>1, AtWork
<1>3. CASE tab.link.after < runs[tab.link.run].n
  <2>2. PICK n : n = WithEvent(tab)
    OBVIOUS
  <2>3. tab.link.after # runs[tab.link.run].n
    <3>1. tab.link.after \in Nat
      BY <1>2, TabTypes
    <3>2. runs \in Seq(Run) /\ FollowOK(tab, runs, session, refused) /\ LinksOK(tab)
      BY <1>2, ChatIs DEF TabOK
    <3>3. tab.link.run \in 1..Len(runs)
      BY <1>1, <1>2, <3>2, TabTypes DEF FollowOK, LinksOK, Reads
    <3>4. runs[tab.link.run].n \in Nat
      BY <3>2, <3>3, RunTypes
    <3> QED
      BY <1>3, <3>1, <3>4
  <2>4. Tab(n)
    BY <1>3, <2>2, <2>3 DEF ReadEvent, Local, WithEvent, Further
  <2>5. Chat(runs, session, refused, mail, n)
    BY <1>1, <1>2, <1>3, <2>2, ReadKeeps
  <2> QED
    BY <1>1, <1>2, <2>4, <2>5, TabStep
<1>4. CASE ~(tab.link.after < runs[tab.link.run].n)
  <2>1. tab.link.after = runs[tab.link.run].n /\ Ended(tab.link.run)
    BY <1>4 DEF ReadEvent
  <2>2. CASE runs[tab.link.run].status \in {"completed", "stopped"}
    <3>1. PICK n : n = [tab EXCEPT !.op.pc = "closing"]
      OBVIOUS
    <3>2. Tab(n)
      BY <1>4, <2>2, <3>1 DEF ReadEvent, Local
    <3>3. Chat(runs, session, refused, mail, n)
      BY <1>1, <1>2, <2>1, <3>1, TurnStep DEF Reads, Ended
    <3> QED
      BY <1>1, <1>2, <3>2, <3>3, TabStep
  <2>3. CASE runs[tab.link.run].status \notin {"completed", "stopped"}
    <3>1. Tab(Finished(tab, "error"))
      BY <1>4, <2>3 DEF ReadEvent, Local
    <3>2. Chat(runs, session, refused, mail, Over(tab, "error"))
          /\ Drained(Over(tab, "error")) = Over(tab, "error")
      BY <1>1, <1>2, ErrorKeeps
    <3>3. Tab(Over(tab, "error"))
      BY <1>2, <3>1, <3>2, OverIs
    <3> QED
      BY <1>1, <1>2, <3>2, <3>3, TabStep
  <2> QED
    BY <2>2, <2>3
<1> QED
  BY <1>3, <1>4

\* A stream is closed: its run is settled.
LEMMA ClosedStep ==
  ASSUME IInv, StreamClosed
  PROVE  IInv'
<1>1. UNCHANGED <<runs, session, refused, mail, limit>> /\ tab.op.pc = "closing"
      /\ runs[tab.link.run].settled /\ Tab(Finished(tab, "ready"))
  BY DEF StreamClosed, Local
<1>2. /\ Chat(runs, session, refused, mail, tab) /\ limit \in Bounds /\ ~poll.on
      /\ tab \in Tabs /\ Lessens(mail, mail) /\ \A x \in mail : ~x.waited
  BY <1>1, AtWork
<1>3. PICK n : n = Drained(Over(tab, "ready")) /\ Tab(n)
  BY <1>1, <1>2, OverIs
<1>4. Chat(runs, session, refused, mail, Over(tab, "ready"))
  BY <1>1, <1>2, ClosedKeeps
<1>5. Chat(runs, session, refused, mail, n)
  BY <1>3, <1>4, DrainedKeeps
<1> QED
  BY <1>1, <1>2, <1>3, <1>5, TabStep

\* A tab that is being stopped looks for nothing.
LEMMA Halting ==
  ASSUME IInv, tab.stop.pc # "none"
  PROVE  /\ Chat(runs, session, refused, mail, tab) /\ limit \in Bounds /\ ~poll.on
         /\ tab \in Tabs /\ tab.stop # NoStop /\ Look(tab, poll, runs, session)
         /\ tab.stop.req \in Nat /\ refused \subseteq Nat
<1>1. Chat(runs, session, refused, mail, tab) /\ limit \in Bounds /\ Look(tab, poll, runs, session)
  BY DEF IInv
<1>2. tab \in Tabs /\ refused \subseteq Nat
  BY <1>1, ChatIs
<1>3. tab.stop # NoStop
  BY Nothing
<1>4. ~poll.on
  BY <1>3, LookOn
<1> QED
  BY <1>1, <1>2, <1>3, <1>4, TabTypes

\* The runs that the server has been asked to stop.
LEMMA MarkedMove ==
  ASSUME NEW rs, NEW s, NEW rf, NEW box, NEW t, Chat(rs, s, rf, box, t), NEW which, NEW more,
         more = [r \in 1..Len(rs) |->
                   [rs[r] EXCEPT !.stop = rs[r].stop \/ (r \in which /\ rs[r].status = "running")]]
  PROVE  Moves(rs, more) /\ Left(more, s, s)
<1>1. rs \in Seq(Run) /\ s \in Session /\ ServerOK(rs, s)
  BY ChatIs
<1>2. ASSUME NEW r \in 1..Len(rs)
      PROVE  /\ more[r] \in Run /\ more[r].n = rs[r].n /\ more[r].messages = rs[r].messages
             /\ more[r].req = rs[r].req /\ more[r].mine = rs[r].mine
             /\ more[r].status = rs[r].status /\ more[r].settled = rs[r].settled
  <2>1. rs[r] \in Run
    BY <1>1, RunTypes
  <2>2. PICK b \in BOOLEAN : b = (rs[r].stop \/ (r \in which /\ rs[r].status = "running"))
    OBVIOUS
  <2>3. more[r] = [rs[r] EXCEPT !.stop = b]
    BY <2>2
  <2> QED
    BY <2>1, <2>2, <2>3, MarkedIs
<1>3. DOMAIN more = 1..Len(rs) /\ more = [r \in 1..Len(rs) |-> more[r]]
  OBVIOUS
<1>4. ASSUME NEW r \in 1..Len(rs) PROVE rs[r].settled => rs[r].status # "running"
  BY <1>1 DEF ServerOK, RunOK
<1>5. Moves(rs, more)
  BY <1>2, <1>3, <1>4, AllMove
<1>6. Left(more, s, s)
  BY <1>1, <1>2, <1>5, LeftSame
<1> QED
  BY <1>5, <1>6

\* The server is asked to stop a run, or a request.
LEMMA ServedStep ==
  ASSUME IInv, StopServed
  PROVE  IInv'
<1>1. UNCHANGED <<session, mail, limit>> /\ tab.stop.pc = "asking"
      /\ refused' = refused \cup ({tab.stop.req} \ {0})
  BY DEF StopServed
<1>2. /\ Chat(runs, session, refused, mail, tab) /\ limit \in Bounds /\ ~poll.on
      /\ tab \in Tabs /\ tab.stop # NoStop /\ Look(tab, poll, runs, session)
      /\ tab.stop.req \in Nat /\ refused \subseteq Nat
  BY <1>1, Halting
<1>3. PICK more : more = runs'
  OBVIOUS
<1>4. PICK which : which = OfStop
  OBVIOUS
<1>5. more = [r \in 1..Len(runs) |->
                [runs[r] EXCEPT !.stop = runs[r].stop
                                           \/ (r \in which /\ runs[r].status = "running")]]
  BY <1>3, <1>4 DEF StopServed, Ended
<1>6. Moves(runs, more) /\ Left(more, session, session)
  BY <1>2, <1>5, MarkedMove
<1>7. Chat(more, session, refused, mail, tab)
  BY <1>2, <1>6, MovesKeep
<1>8. PICK rf : rf = refused'
  OBVIOUS
<1>9. rf \subseteq refused \cup {tab.stop.req} /\ refused \subseteq rf /\ (tab.stop.req # 0 => tab.stop.req \in rf)
  BY <1>1, <1>8
<1>10. PICK n : n = Halted(tab, "waiting")
  OBVIOUS
<1>11. Tab(n)
  BY <1>10 DEF StopServed, Halted
<1>12. Chat(more, session, rf, mail, n) /\ n.messages = tab.messages
  <2>1. PICK pc \in {"waiting", "reading"} : pc = "waiting"
    OBVIOUS
  <2>2. pc = "reading" => \A r \in StopOf(tab, more) : more[r].settled
    BY <2>1
  <2>3. n = Halted(tab, pc)
    BY <1>10, <2>1
  <2>4. tab.stop # NoStop /\ Chat(more, session, refused, mail, tab)
    BY <1>2, <1>7
  <2> QED
    BY <1>8, <1>9, <2>2, <2>3, <2>4, StoppingKeeps
<1>13. Look(tab, poll, more, session)
  BY <1>2, <1>6, ChatIs, PollMoves DEF Look
<1>14. Look(n, poll, more, session)
  BY <1>2, <1>13 DEF Look, PollOK
<1>15. tab' = n /\ poll' = poll
  BY <1>11, <1>12 DEF Tab
<1> QED
  BY <1>1, <1>2, <1>3, <1>8, <1>12, <1>14, <1>15 DEF IInv

\* What was to be stopped is saved.
LEMMA ConfirmedStep ==
  ASSUME IInv, StopConfirmed
  PROVE  IInv'
<1>1. UNCHANGED <<runs, session, refused, mail, limit>> /\ tab.stop.pc = "waiting"
      /\ \A r \in OfStop : runs[r].settled
  BY DEF StopConfirmed, Local
<1>2. /\ Chat(runs, session, refused, mail, tab) /\ limit \in Bounds /\ ~poll.on
      /\ tab \in Tabs /\ tab.stop # NoStop /\ tab.stop.req \in Nat
  BY <1>1, Halting
<1>3. PICK n : n = Halted(tab, "reading")
  OBVIOUS
<1>4. Tab(n)
  BY <1>3 DEF StopConfirmed, Local, Halted
<1>5. \A r \in StopOf(tab, runs) : runs[r].settled
  BY <1>1, Named
<1>6. tab.stop.req # 0 => tab.stop.req \in refused
  <2>1. FollowOK(tab, runs, session, refused)
    BY <1>2, ChatIs
  <2> QED
    BY <1>1, <2>1 DEF FollowOK
<1>7. Chat(runs, session, refused, mail, n)
  BY <1>2, <1>3, <1>5, <1>6, StoppingKeeps
<1> QED
  BY <1>1, <1>2, <1>4, <1>7, TabStep

\* What is saved is shown.
LEMMA SynchronizedStep ==
  ASSUME IInv, Synchronized
  PROVE  IInv'
<1>1. UNCHANGED <<runs, session, refused, mail, limit>> /\ tab.stop.pc = "reading"
      /\ poll' = NoPoll
  BY DEF Synchronized
<1>2. Chat(runs, session, refused, mail, tab) /\ limit \in Bounds
  BY DEF IInv
<1>3. PICK n : n = Stopped([tab EXCEPT !.messages = session.messages])
  OBVIOUS
<1>4. tab' = n
  BY <1>3 DEF Synchronized
<1>5. Chat(runs, session, refused, mail, n)
  BY <1>1, <1>2, <1>3, SynchronizedKeeps
<1>6. Look(n, NoPoll, runs, session)
  BY DroppedLook
<1> QED
  BY <1>1, <1>2, <1>4, <1>5, <1>6 DEF IInv

\* A look for scheduled turns ends.
LEMMA PollApplyStep ==
  ASSUME IInv, PollApply
  PROVE  IInv'
<1>1. UNCHANGED <<runs, session, refused, mail, limit>> /\ poll.on /\ poll' = NoPoll
      /\ tab' = IF Settled(tab) THEN [Opened(poll.session) EXCEPT !.paused = tab.paused] ELSE tab
  BY DEF PollApply
<1>2. Chat(runs, session, refused, mail, tab) /\ limit \in Bounds /\ Look(tab, poll, runs, session)
  BY DEF IInv
<1>3. /\ tab \in Tabs /\ mail \subseteq Mail /\ BoxOK(runs, mail)
      /\ PostOK(tab, runs, refused, mail) /\ \A x \in mail : x.waited => tab.op.pc = "posting"
  BY <1>2, ChatIs
<1>4. tab.op.pc = "none" /\ tab.status = "ready" /\ ~tab.sync
  BY <1>1, LookOn
<1>5. PICK saved \in Session : saved = poll.session
  BY <1>2 DEF Look, PollType
<1>6. /\ Good(saved.messages, runs) /\ SettledIn(saved.messages, runs) /\ saved.run # 0
      /\ ~Mine(runs)
      /\ "overtaken" \notin Windows =>
            saved.messages \in {session.messages, runs[session.run].messages}
  BY <1>1, <1>2, <1>5 DEF Look, PollOK
<1>7. ASSUME Calm(runs), session.run # 0
      PROVE  Shows(saved.messages, runs, session.run)
  <2>1. saved.messages = session.messages \/ saved.messages = runs[session.run].messages
    BY <1>6, <1>7 DEF Calm
  <2>2. CASE saved.messages = session.messages
    BY <1>7, <2>2, SavedShows
  <2>3. CASE saved.messages = runs[session.run].messages
    BY <2>3, SameIs DEF Shows
  <2> QED
    BY <2>1, <2>2, <2>3
<1>8. Loose(tab)
  BY <1>4 DEF Loose
<1>9. \A x \in mail : ~x.waited /\ (Calm(runs) \/ "impatient" \notin Windows => ~Pends(runs, refused, x))
  BY <1>3, <1>4, <1>8 DEF PostOK
<1>10. PICK b \in BOOLEAN : b = tab.paused
  BY <1>3, TabTypes
<1>11. Chat(runs, session, refused, mail, [Opened(saved) EXCEPT !.paused = b])
  BY <1>2, <1>3, <1>6, <1>7, <1>9, OpenedKeeps
<1>12. Chat(runs, session, refused, mail, tab')
  BY <1>1, <1>2, <1>5, <1>10, <1>11
<1>13. Look(tab', NoPoll, runs, session)
  BY DroppedLook
<1> QED
  BY <1>1, <1>2, <1>12, <1>13 DEF IInv

\* A connection of the tab is lost.
LEMMA LostStep ==
  ASSUME IInv, ConnectionLost
  PROVE  IInv'
<1>1. Chat(runs, session, refused, mail, tab) /\ limit \in Bounds
  BY DEF IInv
<1>2. tab \in Tabs /\ mail \subseteq Mail /\ BoxOK(runs, mail)
  BY <1>1, ChatIs
<1>3. limit' \in Bounds
  BY <1>1, SpendIs DEF ConnectionLost
<1>4. CASE tab.stop # NoStop /\ Local(StopFailed(tab))
  <2>1. ~poll.on
    BY <1>4, LookOn
  <2>2. PICK n : n = StopFailed(tab)
    OBVIOUS
  <2>3. Chat(runs, session, refused, mail, n)
    BY <1>1, <1>4, <2>2, StopFailedKeeps
  <2>4. Tab(n) /\ UNCHANGED <<runs, session, refused, mail>>
    BY <1>4, <2>2 DEF Local
  <2> QED
    BY <1>3, <2>1, <2>3, <2>4, TabStep
<1>5. CASE ~(tab.stop # NoStop /\ Local(StopFailed(tab)))
  <2>1. /\ Broken(tab) # tab /\ (tab.op.pc = "closing" => "settling" \in Windows)
        /\ Tab(Broken(tab)) /\ UNCHANGED <<runs, session, refused>>
        /\ mail' = IF Broken(tab).op.pc = "posting" THEN {Unanswering(m) : m \in mail}
                   ELSE Abandoned
    BY <1>5 DEF ConnectionLost
  <2>2. tab.op.pc # "none"
    BY <1>2, <2>1, BrokenIs
  <2>3. ~poll.on
    BY <2>2, LookOn
  <2>4. PICK n : n = Broken(tab)
    OBVIOUS
  <2>5. PICK gone : gone = Abandoned
    OBVIOUS
  <2>6. Lessens(mail, gone) /\ \A x \in gone : ~x.waited
    <3>1. gone = {[m EXCEPT !.waited = FALSE] : m \in {x \in mail : x.reply = "none"}}
      BY <2>5, Zenon DEF Abandoned
    <3> QED
      BY <1>2, <3>1, GivenUp, Zenon
  <2>7. /\ Chat(runs, session, refused, gone, n)
        /\ n.op.pc = "posting" <=> (tab.op.pc = "posting" /\ tab.op.tries < Attempts)
    BY <1>1, <2>1, <2>4, <2>6, BrokenKeeps
  <2>8. PICK again : again = {Unanswering(m) : m \in mail}
    OBVIOUS
  <2>9. Lessens(mail, again)
    BY <1>2, <2>8, AgainBox
  <2>10. CASE n.op.pc = "posting"
    <3>1. Chat(runs, session, refused, again, n)
      BY <1>1, <2>1, <2>4, <2>7, <2>9, <2>10, BrokenKeeps
    <3>2. mail' = again
      BY <2>1, <2>4, <2>8, <2>10, Zenon
    <3> QED
      BY <1>3, <2>1, <2>3, <2>4, <3>1, <3>2, TabStep
  <2>11. CASE n.op.pc # "posting"
    <3>1. mail' = gone
      BY <2>1, <2>4, <2>5, <2>11, Zenon
    <3> QED
      BY <1>3, <2>1, <2>3, <2>4, <2>7, <3>1, TabStep
  <2> QED
    BY <2>10, <2>11
<1> QED
  BY <1>4, <1>5

\* What was to be refused is forgotten.
LEMMA ForgetKeeps ==
  ASSUME NEW rs, NEW s, NEW rf, NEW box, NEW t, Chat(rs, s, rf, box, t), t.stop = NoStop,
         \A x \in box : x.waited
  PROVE  Chat(rs, s, {}, box, t)
<1>1. /\ rs \in Seq(Run) /\ s \in Session /\ box \subseteq Mail /\ t \in Tabs
      /\ TabOK(t) /\ FollowOK(t, rs, s, rf) /\ QuietOK(t, rs) /\ FitOK(t, rs, s)
      /\ BoxOK(rs, box) /\ PostOK(t, rs, rf, box) /\ ServerOK(rs, s)
  BY ChatIs
<1>2. t.stop.pc = "none"
  BY Nothing
<1>3. FollowOK(t, rs, s, {})
  BY <1>1, <1>2 DEF FollowOK
<1>4. Numbered(rs, {}, box, t)
  <2>1. Numbered(rs, rf, box, t)
    BY DEF Chat
  <2>2. Used(rs, {}, box, t) \subseteq Used(rs, rf, box, t)
    BY DEF Used
  <2> QED
    BY <2>1, <2>2 DEF Numbered
<1>5. \A m \in box : t.op.pc = "posting" /\ m.req = t.link.req
  BY <1>1 DEF PostOK
<1>6. \A m \in box : ~Loose(t) /\ t.link.run = 0 /\ m.req = t.link.req
  BY <1>1, <1>5 DEF Loose, TabOK, LinksOK
<1>7. PostOK(t, rs, {}, box)
  BY <1>1, <1>6 DEF PostOK
<1> QED
  BY <1>1, <1>3, <1>4, <1>7 DEF Chat

\* The server starts again: what went on is interrupted, and settled.
Interrupted(rs) ==
  [r \in 1..Len(rs) |->
     [rs[r] EXCEPT !.settled = TRUE,
                   !.status = IF rs[r].status = "running" THEN "interrupted" ELSE rs[r].status]]

\* A restart settles every run, and takes back nothing of any.
LEMMA InterruptedMove ==
  ASSUME NEW rs, NEW s, NEW rf, NEW box, NEW t, Chat(rs, s, rf, box, t), NEW more,
         more = Interrupted(rs)
  PROVE  Moves(rs, more) /\ \A r \in 1..Len(rs) : more[r].settled /\ more[r].n = rs[r].n
<1>1. rs \in Seq(Run)
  BY ChatIs
<1>2. ASSUME NEW r \in 1..Len(rs)
      PROVE  /\ more[r] \in Run /\ more[r].n = rs[r].n /\ more[r].messages = rs[r].messages
             /\ more[r].req = rs[r].req /\ more[r].mine = rs[r].mine
             /\ rs[r].status # "running" => more[r].status = rs[r].status
             /\ more[r].settled /\ more[r].status # "running"
  <2>1. rs[r] \in Run
    BY <1>1, RunTypes
  <2>2. more[r] = [rs[r] EXCEPT !.settled = TRUE,
                                !.status = IF rs[r].status = "running" THEN "interrupted"
                                           ELSE rs[r].status]
    BY DEF Interrupted
  <2> QED
    BY <2>1, <2>2, InterruptedIs
<1>3. DOMAIN more = 1..Len(rs) /\ more = [r \in 1..Len(rs) |-> more[r]]
  BY DEF Interrupted
<1>4. \A r \in 1..Len(rs) :
        /\ more[r] \in Run /\ more[r].n = rs[r].n /\ more[r].messages = rs[r].messages
        /\ more[r].req = rs[r].req /\ more[r].mine = rs[r].mine
        /\ rs[r].status # "running" => more[r].status = rs[r].status
        /\ (rs[r].settled => more[r].settled) /\ (more[r].settled => more[r].status # "running")
  BY <1>2
<1>5. PICK these : these = more
  OBVIOUS
<1>6. Moves(rs, these)
  BY <1>3, <1>4, <1>5, AllMove
<1> QED
  BY <1>2, <1>5, <1>6

\* Restart preserves the invariant: requests that were to be refused are forgotten, and
\* nothing is on its way that could still be admitted in their place.
LEMMA RestartStep ==
  ASSUME IInv, Restart
  PROVE  IInv'
<1>1. Chat(runs, session, refused, mail, tab) /\ limit \in Bounds /\ Look(tab, poll, runs, session)
  BY DEF IInv
<1>2. tab \in Tabs /\ mail \subseteq Mail /\ BoxOK(runs, mail) /\ session \in Session
      /\ ServerOK(runs, session)
  BY <1>1, ChatIs
<1>3. limit' \in Bounds
  BY <1>1, SpendIs DEF Restart
<1>4. PICK more : more = runs'
  OBVIOUS
<1>5. PICK s2 : s2 = session'
  OBVIOUS
<1>6. Moves(runs, more) /\ \A r \in 1..Len(runs) : more[r].settled /\ more[r].n = runs[r].n
  <2>1. more = Interrupted(runs)
    BY <1>4 DEF Restart, Interrupted
  <2> QED
    BY <1>1, <2>1, InterruptedMove
<1>7. Left(more, session, s2)
  <2>1. s2 = IF session.run \in {r \in 1..Len(runs) : ~runs[r].settled}
             THEN [session EXCEPT !.messages = TranscriptOf(runs, session.run)] ELSE session
    BY <1>5, Named DEF Restart, Active
  <2> QED
    BY <1>1, <1>6, <2>1, AllLeft
<1>8. Chat(more, s2, refused, mail, tab)
  BY <1>1, <1>6, <1>7, MovesKeep
<1>9. PICK less : less = mail'
  OBVIOUS
<1>10. PICK t : t = Broken(tab)
  OBVIOUS
<1>11. mail' = IF t.op.pc = "posting" THEN {Unanswering(m) : m \in {x \in mail : x.waited}} ELSE {}
  BY <1>10, Zenon DEF Restart
<1>12. Lessens(mail, {})
  BY DEF Lessens
<1>13. tab.op.pc = "closing" => more[tab.link.run].settled \/ "settling" \in Windows
  <2>1. SUFFICES ASSUME tab.op.pc = "closing" PROVE more[tab.link.run].settled
    OBVIOUS
  <2>2. FollowOK(tab, runs, session, refused) /\ LinksOK(tab) /\ runs \in Seq(Run)
    BY <1>1, ChatIs DEF TabOK
  <2>3. tab.link.run \in 1..Len(runs)
    BY <1>2, <2>1, <2>2, TabTypes DEF FollowOK, LinksOK, Reads
  <2> QED
    BY <1>6, <2>3
<1>14. /\ Chat(more, s2, refused, {}, t)
       /\ t.op.pc = "posting" <=> (tab.op.pc = "posting" /\ tab.op.tries < Attempts)
  BY <1>8, <1>10, <1>12, <1>13, BrokenKeeps
<1>15. Chat(more, s2, refused, less, t) /\ \A x \in less : x.waited
  <2>1. CASE t.op.pc = "posting"
    <3>1. PICK part : part = {x \in mail : x.waited}
      OBVIOUS
    <3>2. part \subseteq mail /\ \A m \in part : m.waited
      BY <3>1
    <3>3. less = {Unanswering(m) : m \in part}
      BY <1>9, <1>11, <2>1, <3>1, Zenon
    <3>4. Lessens(mail, less) /\ \A x \in less : x.waited
      BY <1>2, <3>2, <3>3, AgainBox
    <3>5. Chat(more, s2, refused, less, t)
      BY <1>8, <1>10, <1>13, <1>14, <2>1, <3>4, BrokenKeeps
    <3> QED
      BY <3>4, <3>5
  <2>2. CASE t.op.pc # "posting"
    <3>1. less = {}
      BY <1>9, <1>11, <2>2
    <3> QED
      BY <1>14, <3>1
  <2> QED
    BY <2>1, <2>2
<1>16. PICK n : n = IF t.stop = NoStop THEN t ELSE StopFailed(t)
  OBVIOUS
<1>17. Chat(more, s2, refused, less, n) /\ n.stop = NoStop
  <2>1. t \in Tabs
    BY <1>14, ChatIs
  <2>2. CASE t.stop = NoStop
    BY <1>15, <1>16, <2>2
  <2>3. CASE t.stop # NoStop
    <3>1. n = StopFailed(t)
      BY <1>16, <2>3
    <3>2. Chat(more, s2, refused, less, StopFailed(t))
      BY <1>15, <2>3, StopFailedKeeps
    <3> QED
      BY <2>1, <3>1, <3>2, StopFailedIs
  <2> QED
    BY <2>2, <2>3
<1>18. Chat(more, s2, {}, less, n)
  BY <1>15, <1>17, ForgetKeeps
<1>19. Tab(n) /\ refused' = {}
  BY <1>10, <1>16 DEF Restart
<1>20. Look(tab, poll, more, s2)
  BY <1>1, <1>2, <1>6, <1>7, PollMoves DEF Look
<1>21. Look(n, poll', more, s2)
  <2>1. Good(<<>>, more)
    BY <1>18, ChatIs
  <2>2. NoPoll \in PollType /\ ~NoPoll.on /\ NoPoll.session.messages = <<>>
    BY DEF NoPoll, PollType, Session
  <2>3. CASE poll' = NoPoll
    BY <2>1, <2>2, <2>3 DEF Look, PollOK
  <2>4. CASE poll' = poll /\ ~poll.on
    BY <1>20, <2>4 DEF Look, PollOK
  <2>5. CASE poll' = poll /\ poll.on
    <3>1. tab.op.pc = "none" /\ tab.stop = NoStop
      BY <2>5, LookOn
    <3>2. n = tab
      BY <1>2, <1>10, <1>16, <3>1, BrokenIs
    <3> QED
      BY <1>20, <2>5, <3>2
  <2> QED
    BY <1>19, <2>3, <2>4, <2>5 DEF Tab
<1> QED
  BY <1>3, <1>4, <1>5, <1>9, <1>18, <1>19, <1>21 DEF IInv, Tab

\* The bounds of the limits.
LEMMA Starts ==
  ASSUME Init
  PROVE  IInv
<1>1. /\ limit \in Bounds /\ runs = <<>> /\ session = [run |-> 0, messages |-> <<>>]
      /\ refused = {} /\ mail = {} /\ tab = Opened(session) /\ poll = NoPoll
  BY TabLimits DEF Init
<1>2. session \in Session /\ session.run = 0 /\ session.messages = <<>>
  BY <1>1 DEF Session
<1>3. /\ tab \in Tabs
      /\ tab.messages = <<>> /\ tab.status = "ready" /\ tab.items = <<>>
      /\ ~tab.paused /\ ~tab.steering /\ ~tab.error /\ ~tab.sync
      /\ tab.link = NoLink /\ tab.stop = NoStop /\ tab.op = NoOp
  BY <1>1, <1>2, OpenedIs
<1>4. runs \in Seq(Run) /\ Len(runs) = 0 /\ 1..Len(runs) = {}
  BY <1>1
<1>5. Good(<<>>, runs) /\ SettledIn(<<>>, runs)
  BY DEF Good, SettledIn
<1>6. ServerOK(runs, session)
  BY <1>1, <1>2, <1>4, <1>5 DEF ServerOK
<1>7. /\ ~Tied(tab) /\ Loose(tab) /\ ~Reads(tab)
  BY <1>3, Nothing DEF Tied, Loose, Reads
<1>8. TabOK(tab)
  <2>1. StepsOK(tab)
    BY <1>3, <1>7, Nothing DEF StepsOK
  <2>2. LinksOK(tab)
    BY <1>3, <1>7, Nothing DEF LinksOK
  <2>3. StopsOK(tab)
    BY <1>3, Nothing DEF StopsOK
  <2>4. 0 \notin ToSet(tab.items)
    <3>1. tab.items \in Seq(Nat) /\ Len(tab.items) = 0
      BY <1>3, TabTypes
    <3>2. ToSet(tab.items) = {tab.items[i] : i \in 1..Len(tab.items)}
      BY <3>1, ToSetIs
    <3>3. 1..Len(tab.items) = {}
      BY <3>1
    <3> QED
      BY <3>2, <3>3
  <2> QED
    BY <2>1, <2>2, <2>3, <2>4 DEF TabOK
<1>9. FollowOK(tab, runs, session, refused)
  <2>1. \A r \in ReqIn(runs, tab.link.req) : FALSE
    BY <1>4 DEF ReqIn
  <2>2. ShownOK(tab, runs, session)
    BY <1>2, <1>3, <1>7, Nothing DEF ShownOK
  <2> QED
    BY <1>2, <1>3, <1>4, <1>5, <1>7, <2>1, <2>2, Nothing DEF FollowOK, Reads
<1>10. QuietOK(tab, runs) /\ FitOK(tab, runs, session)
  BY <1>2, <1>4 DEF QuietOK, FitOK
<1>11. BoxOK(runs, mail) /\ PostOK(tab, runs, refused, mail)
  BY <1>1 DEF BoxOK, PostOK
<1>12. Numbered(runs, refused, mail, tab)
  BY <1>1, <1>3, <1>4, Nothing DEF Numbered, Used
<1>13. Chat(runs, session, refused, mail, tab)
  BY <1>1, <1>2, <1>3, <1>4, <1>6, <1>8, <1>9, <1>10, <1>11, <1>12 DEF Chat
<1>14. Look(tab, poll, runs, session)
  <2>1. NoPoll \in PollType /\ ~NoPoll.on /\ NoPoll.session.messages = <<>>
    BY DEF NoPoll, PollType, Session
  <2> QED
    BY <1>1, <1>5, <2>1 DEF Look, PollOK
<1> QED
  BY <1>1, <1>13, <1>14 DEF IInv

\* Every step preserves the invariant.
LEMMA Goes ==
  ASSUME IInv, [Next]_vars
  PROVE  IInv'
<1>1. CASE UNCHANGED vars
  BY <1>1 DEF vars, IInv
<1>2. CASE User
  <2>1. CASE Submit
    BY <2>1, SubmitStep
  <2>2. CASE ResumeQueue
    BY <2>2, ResumeStep
  <2>3. CASE Stop \/ Steer \/ \E p \in ToSet(tab.items) : SteerQueued(p)
    BY <2>3, StopsStep
  <2>4. CASE Retry
    BY <2>4, RetryStep
  <2>5. CASE Regenerate
    BY <2>5, RegenerateStep
  <2>6. CASE PageReload
    BY <2>6, ReloadStep
  <2>7. CASE \E p \in ToSet(tab.items) : Dequeue(p)
    BY <2>7, DequeueStep
  <2> QED
    BY <1>2, <2>1, <2>2, <2>3, <2>4, <2>5, <2>6, <2>7 DEF User
<1>3. CASE Turn
  <2>1. CASE \E ok \in BOOLEAN : SaveDone(ok)
    BY <2>1, SaveStep
  <2>2. CASE \E m \in mail : PostAnswered(m)
    BY <2>2, AnsweredStep
  <2>3. CASE RetryAnswer
    BY <2>3, RetryAnswerStep
  <2>4. CASE ResumeAnswer
    BY <2>4, ResumeAnswerStep
  <2>5. CASE Connected
    BY <2>5, ConnectedStep
  <2>6. CASE ReadEvent
    BY <2>6, ReadEventStep
  <2>7. CASE StreamClosed
    BY <2>7, ClosedStep
  <2> QED
    BY <1>3, <2>1, <2>2, <2>3, <2>4, <2>5, <2>6, <2>7 DEF Turn
<1>4. CASE Stopping
  BY <1>4, ServedStep, ConfirmedStep, SynchronizedStep DEF Stopping
<1>5. CASE Server
  <2>1. CASE \E m \in mail : ServerRead(m)
    BY <2>1, ReadStep
  <2>2. CASE \E r \in 1..Len(runs) : RunEmit(r)
    BY <2>2, EmitStep
  <2>3. CASE \E r \in 1..Len(runs) : Settle(r)
    BY <2>3, SettleStep
  <2>4. CASE \E r \in 1..Len(runs) : \E status \in {"completed", "failed", "stopped"} : RunEnd(r, status)
    BY <2>4, EndStep
  <2> QED
    BY <1>5, <2>1, <2>2, <2>3, <2>4 DEF Server
<1>6. CASE Others
  <2>1. CASE PollRead
    BY <2>1, PollReadStep
  <2>2. CASE PollApply
    BY <2>2, PollApplyStep
  <2>3. CASE \E regen \in BOOLEAN : OtherTurn(regen)
    BY <2>3, OtherStep
  <2> QED
    BY <1>6, <2>1, <2>2, <2>3 DEF Others
<1>7. CASE ConnectionLost
  BY <1>7, LostStep
<1>8. CASE Restart
  BY <1>8, RestartStep
<1> QED
  BY <1>1, <1>2, <1>3, <1>4, <1>5, <1>6, <1>7, <1>8 DEF Next

\* The tab, its submissions and the server's runs keep the inductive invariant.
THEOREM Invariance == Spec => []IInv
<1>1. Init => IInv
  BY Starts
<1>2. IInv /\ [Next]_vars => IInv'
  BY Goes
<1> QED
  BY <1>1, <1>2, PTL DEF Spec

\* Every variable keeps its type.
THEOREM TypeCorrect == Spec => []TypeOK
<1>1. IInv => TypeOK
  BY DEF IInv, Chat, Look, PollType, TypeOK
<1> QED
  BY <1>1, Invariance, PTL

\* An answer is the events of one run from its first, in order, under the question that run
\* was asked, when no other tab extends the chat between the reads of one turn.
THEOREM AnswersStayTheirs ==
  ASSUME "overtaken" \notin Windows
  PROVE  Spec => []AnswersAreTheirs
<1>1. ASSUME IInv PROVE AnswersAreTheirs
  <2>1. runs \in Seq(Run) /\ Good(tab.messages, runs)
    BY <1>1, ChatIs DEF IInv
  <2>2. \A i \in 1..Len(tab.messages) : tab.messages[i].run # 0 => Right(tab.messages, i, runs)
    BY <2>1 DEF Good, Calm
  <2>3. SUFFICES ASSUME NEW i \in 1..Len(tab.messages), tab.messages[i].run # 0
                 PROVE  /\ tab.messages[i].parts =
                             [k \in 1..Len(tab.messages[i].parts) |-> <<tab.messages[i].run, k>>]
                        /\ i > 1 /\ tab.messages[i - 1] = Question(Prompt(tab.messages[i].run))
    BY Zenon DEF AnswersAreTheirs
  <2>4. Right(tab.messages, i, runs)
    BY <2>2, <2>3
  <2> QED
    BY <2>4, Named, Zenon DEF Right, Parts
<1> QED
  BY <1>1, Invariance, PTL

\* A tab that says it is ready has no search of its own going on, when nobody regenerates an
\* answer whose connection failed and nothing goes on from a run that is not settled.
THEOREM ReadyTabsAreQuiet ==
  ASSUME {"impatient", "settling"} \cap Windows = {}
  PROVE  Spec => []ReadyIsQuiet
<1>1. ASSUME IInv PROVE ReadyIsQuiet
  <2>1. QuietOK(tab, runs)
    BY <1>1, ChatIs DEF IInv
  <2>2. SUFFICES ASSUME tab.status = "ready", Idle(tab), ~tab.sync, NEW r \in Active
                 PROVE  ~runs[r].mine
    BY DEF ReadyIsQuiet
  <2>3. Loose(tab)
    BY <2>2, Nothing DEF Idle, Loose
  <2> QED
    BY <2>1, <2>2, <2>3 DEF QuietOK, Active
<1> QED
  BY <1>1, Invariance, PTL

\* What the tab sends fits what the server has, when nobody regenerates an answer whose
\* connection failed, nothing goes on from a run that is not settled, and no regeneration is
\* stopped while the chat is saved.
THEOREM FollowUpsStayFit ==
  ASSUME {"withdrawn", "impatient", "settling"} \cap Windows = {}
  PROVE  Spec => []FollowUpsFit
<1>1. ASSUME IInv PROVE FollowUpsFit
  <2>1. /\ tab \in Tabs /\ StepsOK(tab) /\ LinksOK(tab) /\ TabOK(tab)
        /\ QuietOK(tab, runs) /\ FitOK(tab, runs, session)
        /\ PostOK(tab, runs, refused, mail) /\ ServerOK(runs, session) /\ BoxOK(runs, mail)
        /\ session \in Session
    BY <1>1, ChatIs DEF IInv, TabOK
  <2>2. SUFFICES ASSUME NEW m \in mail, m.waited, m.reply = "none"
                 PROVE  /\ Reply(m) = "busy" => \A r \in Active : ~runs[r].mine
                        /\ Reply(m) = "conflict" => \E r \in 1..Len(runs) : ~runs[r].mine
    BY DEF FollowUpsFit
  <2>3. tab.op.pc = "posting" /\ m.req = tab.link.req /\ m.regen = tab.link.regen
        /\ m.messages = tab.link.messages
    BY <2>1, <2>2 DEF PostOK
  <2>4. tab.link.run = 0 /\ tab.link.req # 0
    BY <2>1, <2>3 DEF LinksOK
  <2>5. Tied(tab)
    BY <2>1, <2>3, Working, AtWork, <1>1
  <2>6. ASSUME Reply(m) = "busy", NEW r \in Active, runs[r].mine
        PROVE  FALSE
    <3>1. Requested(m.req) = {}
      BY <2>6 DEF Reply
    <3>2. r \in 1..Len(runs) /\ runs[r].req = tab.link.req
      BY <2>1, <2>4, <2>6 DEF QuietOK, Active
    <3> QED
      BY <2>3, <2>4, <3>1, <3>2 DEF Requested
  <2>7. ASSUME Reply(m) = "conflict", Mine(runs)
        PROVE  FALSE
    <3>1. Requested(m.req) = {} /\ ~SameHistory(m)
      BY <2>7 DEF Reply
    <3>2. session.run # 0
      BY <3>1 DEF SameHistory
    <3>3. session.run \in 1..Len(runs)
      BY <2>1, <3>2 DEF ServerOK, Session
    <3>4. runs[session.run].req # tab.link.req
      BY <2>3, <2>4, <3>1, <3>3 DEF Requested
    <3>5. Follows(tab.link.messages, tab.link.regen, session)
      BY <2>1, <2>4, <2>5, <2>7, <3>2, <3>4 DEF FitOK
    <3>6. PICK h : h = History(m)
      OBVIOUS
    <3>7. h = HistoryOf(session, m.regen)
      BY <3>6 DEF History, HistoryOf
    <3>8. /\ IF m.regen THEN Len(m.messages) = Len(h) ELSE Len(m.messages) > Len(h)
          /\ \A i \in 1..Len(h) : h[i].prompt = m.messages[i].prompt /\ h[i].run = m.messages[i].run
      BY <2>3, <3>2, <3>5, <3>7 DEF Follows
    <3>9. SameHistory(m)
      BY <3>6, <3>8 DEF SameHistory
    <3> QED
      BY <3>1, <3>9
  <2> QED
    BY <2>6, <2>7 DEF Mine
<1> QED
  BY <1>1, Invariance, PTL

\* What is in the queue of t, or was asked in it, is there in n.
Retains(t, n) ==
  /\ \A p \in ToSet(t.items) : p \in ToSet(n.items) \cup Asked(n.messages)
  /\ Asked(t.messages) \subseteq Asked(n.messages)
\* The same of what runs were asked.
Kept(rs, t, n) ==
  /\ \A p \in ToSet(t.items) : p \in ToSet(n.items) \cup Asked(n.messages)
  /\ \A r \in 1..Len(rs) :
       PromptOf(rs, r) \in Asked(t.messages) => PromptOf(rs, r) \in Asked(n.messages)

\* Step upon step.
LEMMA RetainsIs ==
  /\ \A t, n : n.items = t.items /\ Asked(n.messages) = Asked(t.messages) => Retains(t, n)
  /\ \A t, u, n : Retains(t, u) /\ Retains(u, n) => Retains(t, n)
  /\ \A rs, t, n : Retains(t, n) => Kept(rs, t, n)
  /\ \A rs, t, u, n : Kept(rs, t, u) /\ Retains(u, n) => Kept(rs, t, n)
<1>1. \A t, n : n.items = t.items /\ Asked(n.messages) = Asked(t.messages) => Retains(t, n)
  BY DEF Retains
<1>2. \A t, u, n : Retains(t, u) /\ Retains(u, n) => Retains(t, n)
  BY DEF Retains
<1>3. \A rs, t, n : Retains(t, n) => Kept(rs, t, n)
  BY DEF Retains, Kept
<1>4. \A rs, t, u, n : Kept(rs, t, u) /\ Retains(u, n) => Kept(rs, t, n)
  BY DEF Retains, Kept
<1> QED
  BY <1>1, <1>2, <1>3, <1>4

\* A question that leaves the queue is asked.
LEMMA DrainedRetains ==
  ASSUME NEW t \in Tabs, 0 \notin ToSet(t.items)
  PROVE  Retains(t, Drained(t))
<1>1. CASE Drained(t) = t
  BY <1>1, RetainsIs
<1>2. CASE Drained(t) # t
  <2>1. t.items # <<>> /\ Drained(t) = Send([t EXCEPT !.items = Tail(t.items)], Head(t.items))
    BY <1>2, DrainedIs
  <2>2. t.items \in Seq(Nat) /\ t.messages \in Seq(Message)
    BY TabTypes
  <2>3. /\ Head(t.items) \in Nat /\ Tail(t.items) \in Seq(Nat) /\ Head(t.items) \in ToSet(t.items)
        /\ ToSet(t.items) = ToSet(Tail(t.items)) \cup {Head(t.items)}
    BY <2>1, <2>2, HeadTail
  <2>4. PICK p \in Nat : p = Head(t.items) /\ p # 0
    BY <2>3
  <2>5. PICK v \in Tabs : /\ v = [t EXCEPT !.items = Tail(t.items)]
                          /\ v.items = Tail(t.items) /\ v.messages = t.messages
    BY <2>3, ItemsIs
  <2>6. PICK n : n = Send(v, p)
    OBVIOUS
  <2>7. n.messages = Append(t.messages, Question(p)) /\ n.items = Tail(t.items)
    <3>1. n.messages = Append(v.messages, Question(p)) /\ n.items = v.items
      BY <2>6, SendIs
    <3> QED
      BY <2>5, <3>1
  <2>8. Question(p) \in Message /\ Question(p).prompt = p
    BY MessageIs
  <2>9. Asked(n.messages) = Asked(t.messages) \cup {p}
    BY <2>2, <2>4, <2>7, <2>8, AskedIs
  <2>10. Retains(t, n)
    BY <2>3, <2>4, <2>7, <2>9 DEF Retains
  <2>11. Drained(t) = n
    BY <2>1, <2>4, <2>5, <2>6, Zenon
  <2> QED
    BY <2>10, <2>11
<1> QED
  BY <1>1, <1>2

\* The queue goes on.
LEMMA ResumedRetains ==
  ASSUME NEW t \in Tabs, 0 \notin ToSet(t.items)
  PROVE  Retains(t, Resumed(t))
<1>1. PICK v \in Tabs : /\ v = [t EXCEPT !.paused = FALSE, !.error = FALSE]
                        /\ v.items = t.items /\ v.messages = t.messages
  BY ClearedIs
<1>2. Retains(t, v) /\ Retains(v, Drained(v))
  BY <1>1, RetainsIs, DrainedRetains
<1>3. Retains(t, Drained(v))
  BY <1>2, RetainsIs
<1>4. Retains(t, t)
  BY RetainsIs
<1>5. Resumed(t) = t \/ Resumed(t) = Drained(v)
  BY <1>1, ResumedIs
<1> QED
  BY <1>3, <1>4, <1>5

\* What follows a Stop.
LEMMA StoppedRetains ==
  ASSUME NEW u \in Tabs, 0 \notin ToSet(u.items), u.stop.then = "steer" => u.stop.item # 0
  PROVE  Retains(u, Stopped(u))
<1>1. PICK v \in Tabs :
        /\ v.messages = u.messages
        /\ IF u.stop.then = "steer"
           THEN v.items = RemoveFirst(u.items, u.stop.item) /\ Stopped(u) = Send(v, u.stop.item)
           ELSE v.items = u.items /\ Stopped(u) = IF u.stop.then = "resume" THEN Resumed(v) ELSE v
  BY StoppedIs
<1>2. CASE u.stop.then = "steer"
  <2>1. PICK p \in Nat \ {0} : p = u.stop.item
    BY <1>2, TabTypes
  <2>2. ToSet(u.items) \ {p} \subseteq ToSet(RemoveFirst(u.items, p))
    BY TabTypes, RemoveFirstIs
  <2>3. PICK n : n = Send(v, p)
    OBVIOUS
  <2>4. n.messages = Append(u.messages, Question(p)) /\ n.items = RemoveFirst(u.items, p)
    <3>1. n.messages = Append(v.messages, Question(p)) /\ n.items = v.items
      BY <2>3, SendIs
    <3> QED
      BY <1>1, <1>2, <2>1, <3>1
  <2>5. Question(p) \in Message /\ Question(p).prompt = p
    BY MessageIs
  <2>6. Asked(n.messages) = Asked(u.messages) \cup {p}
    BY <2>1, <2>4, <2>5, TabTypes, AskedIs
  <2>7. Retains(u, n)
    BY <2>2, <2>4, <2>6 DEF Retains
  <2>8. Stopped(u) = Send(v, u.stop.item)
    BY <1>1, <1>2
  <2>9. Stopped(u) = n
    BY <2>1, <2>3, <2>8, Zenon
  <2> QED
    BY <2>7, <2>9
<1>3. CASE u.stop.then # "steer"
  <2>1. v.items = u.items /\ (Stopped(u) = Resumed(v) \/ Stopped(u) = v)
    BY <1>1, <1>3
  <2>2. Retains(u, v) /\ Retains(v, Resumed(v))
    BY <1>1, <2>1, RetainsIs, ResumedRetains
  <2>3. Retains(u, Resumed(v))
    BY <2>2, RetainsIs
  <2> QED
    BY <2>1, <2>2, <2>3
<1> QED
  BY <1>2, <1>3

\* What a replay puts back.
LEMMA KeptIsAsked ==
  ASSUME NEW rs, NEW s, NEW rf, NEW box, NEW t, Chat(rs, s, rf, box, t), Calm(rs),
         t.op.kind = "replay"
  PROVE  Asked(t.op.kept) = Asked(t.messages)
<1>1. FollowOK(t, rs, s, rf)
  BY ChatIs
<1> QED
  BY <1>1 DEF FollowOK, ShownOK

\* A turn ends.
LEMMA OverRetains ==
  ASSUME NEW rs, NEW s, NEW rf, NEW box, NEW t, Chat(rs, s, rf, box, t), Calm(rs),
         NEW status \in {"ready", "busy", "error"}
  PROVE  Retains(t, Over(t, status)) /\ Retains(t, Finished(t, status))
<1>1. t \in Tabs /\ 0 \notin ToSet(t.items)
  BY ChatIs DEF TabOK
<1>2. PICK n \in Tabs :
        /\ n = Over(t, status) /\ n.items = t.items /\ Finished(t, status) = Drained(n)
        /\ n.messages = t.messages \/ (t.op.kind = "replay" /\ n.messages = t.op.kept)
  BY <1>1, OverIs
<1>3. Asked(n.messages) = Asked(t.messages)
  BY <1>2, KeptIsAsked
<1>4. Retains(t, n) /\ Retains(n, Drained(n))
  BY <1>1, <1>2, <1>3, RetainsIs, DrainedRetains
<1>5. Retains(t, Drained(n))
  BY <1>4, RetainsIs
<1> QED
  BY <1>2, <1>4, <1>5

\* A turn is broken off.
LEMMA AbortedRetains ==
  ASSUME NEW rs, NEW s, NEW rf, NEW box, NEW t, Chat(rs, s, rf, box, t), Calm(rs), NEW u \in Tabs,
         u.messages = t.messages, u.op = t.op, 0 \notin ToSet(u.items),
         NEW then \in Thens, NEW item \in Nat, then = "steer" => item # 0
  PROVE  Retains(u, Aborted(u, then, item))
<1>1. PICK n \in Tabs :
        /\ Aborted(u, then, item) = Stopped(n) \/ Aborted(u, then, item) = n
        /\ n.messages = u.messages \/ (u.op.kind = "replay" /\ n.messages = u.op.kept)
        /\ n.items = u.items /\ n.stop.then = then /\ n.stop.item = item
  <2>1. PICK n : n = Cut(u, then, item)
    OBVIOUS
  <2>2. /\ n \in Tabs /\ n.items = u.items /\ n.stop.then = then /\ n.stop.item = item
        /\ n.messages = u.messages \/ (u.op.kind = "replay" /\ n.messages = u.op.kept)
        /\ Aborted(u, then, item) = Stopped(n) \/ Aborted(u, then, item) = n
    BY <2>1, AbortedIs
  <2> QED
    BY <2>2
<1>2. Asked(n.messages) = Asked(u.messages)
  BY <1>1, KeptIsAsked
<1>3. Retains(u, n) /\ Retains(n, Stopped(n))
  BY <1>1, <1>2, RetainsIs, StoppedRetains
<1>4. Retains(u, Stopped(n))
  BY <1>3, RetainsIs
<1> QED
  BY <1>1, <1>3, <1>4

\* A connection breaks.
LEMMA BrokenRetains ==
  ASSUME NEW rs, NEW s, NEW rf, NEW box, NEW t, Chat(rs, s, rf, box, t), Calm(rs)
  PROVE  Retains(t, Broken(t))
<1>1. t \in Tabs
  BY ChatIs
<1>2. CASE t.op.pc \in {"posting", "reading", "reconnecting"} /\ t.op.tries < Attempts
  <2>1. PICK o \in OpType : Broken(t) = [t EXCEPT !.op = o]
    BY <1>1, <1>2, TriedIs
  <2>2. PICK n : n = [t EXCEPT !.op = o] /\ n.items = t.items /\ n.messages = t.messages
    BY <1>1, OpIs
  <2> QED
    BY <2>1, <2>2, RetainsIs
<1>3. CASE t.op.pc \in {"none", "saving"}
  BY <1>1, <1>3, BrokenIs, RetainsIs
<1>4. CASE t.op.pc = "status"
  BY <1>1, <1>4, BrokenIs, ThrownIs, RetainsIs
<1>5. CASE t.op.pc = "closing"
  <2>1. Broken(t) = Finished(t, "ready")
    BY <1>1, <1>5, BrokenIs, OverIs
  <2> QED
    BY <2>1, OverRetains
<1>6. CASE /\ ~(t.op.pc \in {"posting", "reading", "reconnecting"} /\ t.op.tries < Attempts)
           /\ t.op.pc \in {"posting", "asking", "opening", "reading", "reconnecting"}
  <2>1. Broken(t) = Finished(t, "error")
    BY <1>1, <1>6, BrokenIs, OverIs
  <2> QED
    BY <2>1, OverRetains
<1>7. t.op.pc \in {"none", "saving", "posting", "status", "asking", "opening", "reading",
                   "reconnecting", "closing"}
  BY <1>1, TabTypes DEF OpType
<1> QED
  BY <1>2, <1>3, <1>4, <1>5, <1>6, <1>7

\* An answer is taken away.
LEMMA AgainRetains ==
  ASSUME NEW rs, NEW s, NEW rf, NEW box, NEW t, Chat(rs, s, rf, box, t)
  PROVE  /\ Retains(t, Again(t, "regenerate"))
         /\ Asked(Unanswered(t.messages)) = Asked(t.messages)
<1>1. t \in Tabs /\ rs \in Seq(Run) /\ Good(t.messages, rs)
  BY ChatIs
<1>2. Asked(Unanswered(t.messages)) = Asked(t.messages)
  BY <1>1, TabTypes, GoodUnanswered
<1>3. PICK n : n = Again(t, "regenerate") /\ n.items = t.items /\ n.messages = Unanswered(t.messages)
  BY <1>1, AgainIs
<1> QED
  BY <1>2, <1>3, RetainsIs

\* The queue and the chat stay.
LEMMA StaysKept ==
  ASSUME NEW n, Tab(n), n.items = tab.items, n.messages = tab.messages
  PROVE  Kept(runs, tab, tab')
<1>1. tab' = n
  BY DEF Tab
<1>2. Retains(tab, n)
  BY RetainsIs
<1> QED
  BY <1>1, <1>2, RetainsIs

\* A step of the tab that retains everything keeps the prompts.
LEMMA TabKept ==
  ASSUME NEW n, Tab(n), Retains(tab, n)
  PROVE  Kept(runs, tab, tab')
<1>1. tab' = n
  BY DEF Tab
<1> QED
  BY <1>1, RetainsIs

\* A step of others leaves the tab's prompts as they are.
LEMMA ServerKept ==
  ASSUME tab' = tab
  PROVE  Kept(runs, tab, tab')
BY RetainsIs

\* A question that is submitted is queued, or asked.
LEMMA SubmitKept ==
  ASSUME IInv, Submit
  PROVE  Kept(runs, tab, tab')
<1>1. tab \in Tabs /\ limit \in Bounds /\ 0 \notin ToSet(tab.items)
  BY ChatIs DEF IInv, TabOK
<1>2. limit["asked"] \in Nat \ {0}
  BY <1>1, SpendIs DEF Submit
<1>3. PICK p \in Nat \ {0} : p = limit.asked
  BY <1>2
<1>4. tab.items \in Seq(Nat)
  BY <1>1, TabTypes
<1>5. PICK q \in Seq(Nat) : q = Append(tab.items, p) /\ ToSet(q) = ToSet(tab.items) \cup {p}
  BY <1>4, AddedTo
<1>6. PICK v \in Tabs : v = [tab EXCEPT !.items = q] /\ v.items = q /\ v.messages = tab.messages
  BY <1>1, ItemsIs
<1>7. Retains(tab, v)
  BY <1>5, <1>6 DEF Retains
<1>8. Retains(v, Drained(v))
  BY <1>1, <1>5, <1>6, DrainedRetains
<1>9. Tab(Drained(v))
  BY <1>3, <1>5, <1>6 DEF Submit, Local
<1>10. Retains(tab, Drained(v))
  BY <1>7, <1>8, RetainsIs
<1> QED
  BY <1>9, <1>10, TabKept

\* A queue that goes on loses nothing.
LEMMA ResumeKept ==
  ASSUME IInv, ResumeQueue
  PROVE  Kept(runs, tab, tab')
<1>1. tab \in Tabs /\ 0 \notin ToSet(tab.items)
  BY ChatIs DEF IInv, TabOK
<1>2. Tab(Resumed(tab))
  BY DEF ResumeQueue, Local
<1>3. Retains(tab, Resumed(tab))
  BY <1>1, ResumedRetains
<1> QED
  BY <1>2, <1>3, TabKept

\* A question that is taken out of the queue is the only one.
LEMMA DequeueKept ==
  ASSUME IInv, NEW p, Dequeue(p)
  PROVE  /\ \A q \in ToSet(tab.items) : q # p => q \in ToSet(tab'.items)
         /\ tab'.messages = tab.messages
<1>1. tab \in Tabs
  BY ChatIs DEF IInv
<1>2. tab.items \in Seq(Nat)
  BY <1>1, TabTypes
<1>3. p \in Nat
  BY <1>2, ToSetIs DEF Dequeue
<1>4. PICK q \in Seq(Nat) : q = RemoveFirst(tab.items, p) /\ ToSet(tab.items) \ {p} \subseteq ToSet(q)
  BY <1>2, <1>3, RemoveFirstIs
<1>5. PICK v \in Tabs : v = [tab EXCEPT !.items = q] /\ v.items = q /\ v.messages = tab.messages
  BY <1>1, ItemsIs
<1>6. tab' = v
  BY <1>4, <1>5 DEF Dequeue, Local, Tab
<1> QED
  BY <1>4, <1>5, <1>6

\* A Stop or a steering takes nothing out of the queue that it does not ask.
LEMMA StopKept ==
  ASSUME IInv, Calm(runs), NEW then \in {"stop", "steer"}, NEW item \in Nat, then = "steer" => item # 0,
         NEW items \in Seq(Nat), 0 \notin ToSet(items), ToSet(tab.items) \subseteq ToSet(items),
         StopWith(then, item, items)
  PROVE  Kept(runs, tab, tab')
<1>1. tab \in Tabs /\ Chat(runs, session, refused, mail, tab)
  BY ChatIs DEF IInv
<1>2. PICK b \in BOOLEAN : b = (then = "steer")
  OBVIOUS
<1>3. PICK u \in Tabs : /\ u = Begun(tab, b, items) /\ u.items = items
                        /\ u.messages = tab.messages /\ u.op = tab.op
  BY <1>1, StopBegins
<1>4. then \in Thens
  BY DEF Thens
<1>5. Retains(tab, u)
  BY <1>3 DEF Retains
<1>6. tab' = IF u.stop = NoStop THEN Aborted(u, then, item) ELSE Joined(u, then, item)
  BY <1>2, <1>3 DEF StopWith, Tab, Begun, Joined
<1>7. Retains(u, Aborted(u, then, item))
  BY <1>1, <1>3, <1>4, AbortedRetains
<1>8. Retains(u, Joined(u, then, item))
  <2>1. PICK v : v = Joined(u, then, item) /\ v.items = u.items /\ v.messages = u.messages
    BY <1>4, StopJoined
  <2> QED
    BY <2>1, RetainsIs
<1>9. Retains(u, tab')
  BY <1>6, <1>7, <1>8
<1>10. Retains(tab, tab')
  BY <1>5, <1>9, RetainsIs
<1> QED
  BY <1>10, RetainsIs

\* Neither do Stop, Steer and SteerQueued.
LEMMA StopsKept ==
  ASSUME IInv, Calm(runs), Stop \/ Steer \/ \E p \in ToSet(tab.items) : SteerQueued(p)
  PROVE  Kept(runs, tab, tab')
<1>1. tab \in Tabs /\ limit \in Bounds /\ TabOK(tab)
  BY ChatIs DEF IInv
<1>2. tab.items \in Seq(Nat) /\ 0 \notin ToSet(tab.items)
  BY <1>1, TabTypes DEF TabOK
<1>3. CASE Stop
  <2>1. StopWith("stop", 0, tab.items)
    BY <1>3 DEF Stop
  <2> QED
    BY <1>2, <2>1, StopKept
<1>4. CASE Steer
  <2>1. limit["asked"] \in Nat \ {0}
    BY <1>1, <1>4, SpendIs DEF Steer
  <2>2. PICK p \in Nat \ {0} : p = limit.asked
    BY <2>1
  <2>3. StopWith("steer", p, <<p>> \o tab.items)
    BY <1>4, <2>2 DEF Steer
  <2>4. <<p>> \o tab.items \in Seq(Nat) /\ ToSet(<<p>> \o tab.items) = ToSet(tab.items) \cup {p}
    BY <1>2, AddedTo
  <2>5. ToSet(tab.items) \subseteq ToSet(<<p>> \o tab.items) /\ 0 \notin ToSet(<<p>> \o tab.items)
    BY <1>2, <2>4
  <2> QED
    BY <2>3, <2>4, <2>5, StopKept
<1>5. ASSUME NEW p \in ToSet(tab.items), SteerQueued(p) PROVE Kept(runs, tab, tab')
  <2>1. p \in Nat \ {0}
    BY <1>2, ToSetIs
  <2>2. PICK q \in Seq(Nat) : /\ q = RemoveFirst(tab.items, p) /\ ToSet(q) \subseteq ToSet(tab.items)
                              /\ ToSet(tab.items) \ {p} \subseteq ToSet(q)
    BY <1>2, <2>1, RemoveFirstIs
  <2>3. StopWith("steer", p, <<p>> \o q)
    BY <1>5, <2>2 DEF SteerQueued
  <2>4. <<p>> \o q \in Seq(Nat) /\ ToSet(<<p>> \o q) = ToSet(q) \cup {p}
    BY <2>1, <2>2, AddedTo
  <2>5. ToSet(tab.items) \subseteq ToSet(<<p>> \o q) /\ 0 \notin ToSet(<<p>> \o q)
    BY <1>2, <2>1, <2>2, <2>4
  <2> QED
    BY <2>1, <2>3, <2>4, <2>5, StopKept
<1> QED
  BY <1>3, <1>4, <1>5

\* Retry takes nothing out of the queue that it does not ask.
LEMMA RetryKept ==
  ASSUME IInv, Calm(runs), Retry
  PROVE  Kept(runs, tab, tab')
<1>1. tab \in Tabs /\ Chat(runs, session, refused, mail, tab) /\ 0 \notin ToSet(tab.items)
  BY ChatIs DEF IInv, TabOK
<1>2. tab' = IF tab.sync THEN Aborted(tab, "resume", 0)
             ELSE IF tab.error /\ tab.items # <<>>
             THEN Drained([tab EXCEPT !.paused = FALSE, !.error = FALSE])
             ELSE [tab EXCEPT !.paused = FALSE, !.error = FALSE,
                              !.op = [NoOp EXCEPT !.kind = "retry", !.pc = "status"]]
  BY DEF Retry, Local, Tab
<1>3. Retains(tab, Aborted(tab, "resume", 0))
  <2>1. PICK then \in Thens, item \in Nat : then = "resume" /\ item = 0
    BY DEF Thens
  <2>2. Retains(tab, Aborted(tab, then, item))
    BY <1>1, <2>1, AbortedRetains
  <2> QED
    BY <2>1, <2>2
<1>4. PICK v \in Tabs : /\ v = [tab EXCEPT !.paused = FALSE, !.error = FALSE]
                        /\ v.items = tab.items /\ v.messages = tab.messages
  BY <1>1, ClearedIs
<1>5. Retains(tab, Drained(v))
  <2>1. Retains(tab, v) /\ Retains(v, Drained(v))
    BY <1>1, <1>4, RetainsIs, DrainedRetains
  <2> QED
    BY <2>1, RetainsIs
<1>6. PICK n : n = [tab EXCEPT !.paused = FALSE, !.error = FALSE,
                               !.op = [NoOp EXCEPT !.kind = "retry", !.pc = "status"]]
  OBVIOUS
<1>7. n.items = tab.items /\ n.messages = tab.messages
  BY <1>1, <1>6, TabsAre DEF TabRecords
<1>8. Retains(tab, n)
  BY <1>7, RetainsIs
<1>9. Retains(tab, tab')
  BY <1>2, <1>3, <1>4, <1>5, <1>6, <1>8
<1> QED
  BY <1>9, RetainsIs

\* Regenerate takes an answer away, and no question.
LEMMA RegenerateKept ==
  ASSUME IInv, Regenerate
  PROVE  Kept(runs, tab, tab')
<1>1. Tab(Again(tab, "regenerate"))
  BY DEF Regenerate, Local
<1>2. Retains(tab, Again(tab, "regenerate"))
  BY AgainRetains DEF IInv
<1> QED
  BY <1>1, <1>2, TabKept

\* A turn: what it sends, follows and shows.
LEMMA TurnKept ==
  ASSUME IInv, Calm(runs), Turn
  PROVE  Kept(runs, tab, tab')
<1>1. tab \in Tabs /\ Chat(runs, session, refused, mail, tab) /\ 0 \notin ToSet(tab.items)
  BY ChatIs DEF IInv, TabOK
<1>2. ASSUME NEW ok \in BOOLEAN, SaveDone(ok) PROVE Kept(runs, tab, tab')
  <2>1. PICK n : n = [tab EXCEPT !.op.pc = "opening", !.link.after = 0]
    OBVIOUS
  <2>2. PICK v : v = [tab EXCEPT !.op.pc = "posting",
                        !.link = [run |-> 0, req |-> NewRequest, after |-> 0,
                                  messages |-> tab.messages,
                                  regen |-> tab.op.kind = "regenerate"]]
    OBVIOUS
  <2>3. n.items = tab.items /\ n.messages = tab.messages
    BY <1>1, <2>1, TabsAre DEF TabRecords
  <2>4. v.items = tab.items /\ v.messages = tab.messages
    BY <1>1, <2>2, TabsAre DEF TabRecords
  <2>5. Tab(n) \/ Tab(v)
    BY <1>2, <2>1, <2>2 DEF SaveDone
  <2> QED
    BY <2>3, <2>4, <2>5, StaysKept
<1>3. ASSUME NEW m \in mail, PostAnswered(m) PROVE Kept(runs, tab, tab')
  <2>1. CASE \E r \in Requested(m.req) : Tab(Follow(tab, r))
    <3>1. PICK r \in 1..Len(runs) : Tab(Follow(tab, r))
      BY <2>1 DEF Requested
    <3>2. r \in Nat \ {0}
      BY <3>1
    <3>3. PICK n : n = Follow(tab, r) /\ n.items = tab.items /\ n.messages = tab.messages
      BY <1>1, <3>2, FollowIs
    <3> QED
      BY <3>1, <3>3, StaysKept
  <2>2. CASE Tab(Finished(tab, "error"))
    <3>1. Retains(tab, Finished(tab, "error"))
      BY <1>1, <1>3, OverRetains
    <3> QED
      BY <2>2, <3>1, TabKept
  <2> QED
    BY <1>3, <2>1, <2>2 DEF PostAnswered
<1>4. ASSUME RetryAnswer PROVE Kept(runs, tab, tab')
  <2>1. PICK r : r = CHOOSE x \in Looked : TRUE
    OBVIOUS
  <2>2. PICK n : n = [tab EXCEPT !.op.kind = "resume", !.op.pc = "asking"]
    OBVIOUS
  <2>3. n.items = tab.items /\ n.messages = tab.messages
    BY <1>1, <2>2, TabsAre DEF TabRecords
  <2>4. PICK a \in Tabs : /\ a = Again(tab, "replay") /\ a.items = tab.items
                          /\ a.messages = Unanswered(tab.messages)
    BY <1>1, AgainIs
  <2>5. PICK b \in Tabs : /\ b = Again(tab, "regenerate") /\ b.items = tab.items
                          /\ b.messages = Unanswered(tab.messages)
    BY <1>1, AgainIs
  <2>6. Asked(Unanswered(tab.messages)) = Asked(tab.messages)
    BY <1>1, AgainRetains
  <2>7. PICK u : u = [a EXCEPT !.link.run = r]
    OBVIOUS
  <2>8. PICK v : v = [b EXCEPT !.link.after = 0]
    OBVIOUS
  <2>9. u.items = tab.items /\ u.messages = Unanswered(tab.messages)
    BY <2>4, <2>7, TabsAre DEF TabRecords
  <2>10. v.items = tab.items /\ v.messages = Unanswered(tab.messages)
    BY <2>5, <2>8, TabsAre DEF TabRecords
  <2>11. Retains(tab, n) /\ Retains(tab, u) /\ Retains(tab, v)
    BY <2>3, <2>6, <2>9, <2>10, RetainsIs
  <2>12. Retains(tab, Thrown(tab))
    BY <1>1, ThrownIs, RetainsIs
  <2>13. Tab(n) \/ Tab(Thrown(tab)) \/ Tab(u) \/ Tab(v)
    BY <1>4, <2>1, <2>2, <2>4, <2>5, <2>7, <2>8 DEF RetryAnswer, Local
  <2> QED
    BY <2>11, <2>12, <2>13, TabKept
<1>5. ASSUME ResumeAnswer PROVE Kept(runs, tab, tab')
  <2>1. PICK n : n = [tab EXCEPT !.op.pc = "posting", !.op.tries = 0]
    OBVIOUS
  <2>2. PICK v : v = [tab EXCEPT !.op.pc = "opening", !.link.after = 0,
                                 !.link.run = CHOOSE r \in Looked : TRUE]
    OBVIOUS
  <2>3. n.items = tab.items /\ n.messages = tab.messages
    BY <1>1, <2>1, TabsAre DEF TabRecords
  <2>4. v.items = tab.items /\ v.messages = tab.messages
    BY <1>1, <2>2, TabsAre DEF TabRecords
  <2>5. Retains(tab, n) /\ Retains(tab, v)
    BY <2>3, <2>4, RetainsIs
  <2>6. Retains(tab, Finished(tab, tab.status))
    BY <1>1, <1>5, TabTypes, OverRetains
  <2>7. Tab(n) \/ Tab(v) \/ Tab(Finished(tab, tab.status))
    BY <1>5, <2>1, <2>2 DEF ResumeAnswer
  <2> QED
    BY <2>5, <2>6, <2>7, TabKept
<1>6. ASSUME Connected PROVE Kept(runs, tab, tab')
  <2>1. CASE tab.op.pc = "opening"
    <3>1. tab.link.run \in Nat \ {0}
      BY <1>1, <2>1, ChatIs, TabTypes DEF TabOK, LinksOK
    <3>2. PICK n : n = Follow(tab, tab.link.run) /\ n.items = tab.items /\ n.messages = tab.messages
      BY <1>1, <3>1, FollowIs
    <3>3. Tab(n)
      BY <1>6, <2>1, <3>2 DEF Connected, Local
    <3> QED
      BY <3>2, <3>3, StaysKept
  <2>2. CASE tab.op.pc # "opening"
    <3>1. PICK n : n = [tab EXCEPT !.op.pc = "reading"]
      OBVIOUS
    <3>2. n.items = tab.items /\ n.messages = tab.messages
      BY <1>1, <3>1, TabsAre DEF TabRecords
    <3>3. Tab(n)
      BY <1>6, <2>2, <3>1 DEF Connected, Local
    <3> QED
      BY <3>2, <3>3, StaysKept
  <2> QED
    BY <2>1, <2>2
<1>7. ASSUME ReadEvent PROVE Kept(runs, tab, tab')
  <2>1. tab.op.pc = "reading"
    BY <1>7 DEF ReadEvent
  <2>2. CASE tab.link.after < runs[tab.link.run].n
            /\ Tab([tab EXCEPT !.link.after = tab.link.after + 1,
                               !.op.draft = Append(tab.op.draft,
                                                   <<tab.link.run, tab.link.after + 1>>),
                               !.messages = Written(tab.messages, tab.link.run,
                                                    Append(tab.op.draft,
                                                           <<tab.link.run, tab.link.after + 1>>))])
    <3>2. PICK n : n = WithEvent(tab)
      OBVIOUS
    <3>3. Asked(n.messages) = Asked(tab.messages) /\ n.items = tab.items
      BY <1>1, <2>1, <2>2, <3>2, ReadKeeps
    <3>4. Tab(n)
      BY <2>2, <3>2 DEF WithEvent, Further
    <3>5. Retains(tab, n)
      BY <3>3, RetainsIs
    <3> QED
      BY <3>4, <3>5, TabKept
  <2>3. CASE Tab([tab EXCEPT !.op.pc = "closing"])
    <3>1. PICK n : n = [tab EXCEPT !.op.pc = "closing"]
      OBVIOUS
    <3>2. n.items = tab.items /\ n.messages = tab.messages
      BY <1>1, <3>1, TabsAre DEF TabRecords
    <3> QED
      BY <2>3, <3>1, <3>2, StaysKept
  <2>4. CASE Tab(Finished(tab, "error"))
    <3>1. Retains(tab, Finished(tab, "error"))
      BY <1>1, <1>7, OverRetains
    <3> QED
      BY <2>4, <3>1, TabKept
  <2> QED
    BY <1>7, <2>2, <2>3, <2>4 DEF ReadEvent, Local
<1>8. ASSUME StreamClosed PROVE Kept(runs, tab, tab')
  <2>1. Tab(Finished(tab, "ready"))
    BY <1>8 DEF StreamClosed, Local
  <2>2. Retains(tab, Finished(tab, "ready"))
    BY <1>1, <1>8, OverRetains
  <2> QED
    BY <2>1, <2>2, TabKept
<1> QED
  BY <1>2, <1>3, <1>4, <1>5, <1>6, <1>7, <1>8 DEF Turn

\* A tab whose connection breaks is a tab.
LEMMA BrokenTyped ==
  ASSUME NEW t \in Tabs
  PROVE  Broken(t) \in Tabs
<1>1. ASSUME NEW v \in Tabs PROVE Drained(v) \in Tabs
  <2>1. CASE Drained(v) = v
    BY <2>1
  <2>2. CASE Drained(v) # v
    <3>1. v.items # <<>> /\ Drained(v) = Send([v EXCEPT !.items = Tail(v.items)], Head(v.items))
      BY <2>2, DrainedIs
    <3>2. Head(v.items) \in Nat /\ Tail(v.items) \in Seq(Nat)
      BY <3>1, TabTypes, HeadTail
    <3>3. [v EXCEPT !.items = Tail(v.items)] \in Tabs
      BY <3>2, ItemsIs
    <3> QED
      BY <3>1, <3>2, <3>3, SendIs
  <2> QED
    BY <2>1, <2>2
<1>2. CASE t.op.pc \in {"posting", "reading", "reconnecting"} /\ t.op.tries < Attempts
  <2>1. PICK o \in OpType : Broken(t) = [t EXCEPT !.op = o]
    BY <1>2, TriedIs
  <2> QED
    BY <2>1, OpIs
<1>3. CASE ~(t.op.pc \in {"posting", "reading", "reconnecting"} /\ t.op.tries < Attempts)
  <2>1. t.op.pc \in {"none", "saving", "posting", "status", "asking", "opening", "reading",
                     "reconnecting", "closing"}
    BY TabTypes DEF OpType
  <2>2. \/ Broken(t) = t \/ Broken(t) = Thrown(t)
        \/ Broken(t) = Drained(Over(t, "ready")) \/ Broken(t) = Drained(Over(t, "error"))
    BY <1>3, <2>1, BrokenIs
  <2>3. Over(t, "ready") \in Tabs /\ Over(t, "error") \in Tabs
    BY OverIs
  <2>4. Drained(Over(t, "ready")) \in Tabs /\ Drained(Over(t, "error")) \in Tabs
    BY <1>1, <2>3
  <2>5. Thrown(t) \in Tabs
    BY ThrownIs
  <2> QED
    BY <2>2, <2>4, <2>5
<1> QED
  BY <1>2, <1>3

\* A connection breaks, or all of them do.
LEMMA BreaksKept ==
  ASSUME IInv, Calm(runs), ConnectionLost \/ Restart
  PROVE  Kept(runs, tab, tab')
<1>1. tab \in Tabs /\ Chat(runs, session, refused, mail, tab)
  BY ChatIs DEF IInv
<1>2. PICK t \in Tabs : t = Broken(tab)
  BY <1>1, BrokenTyped
<1>3. Retains(tab, t)
  BY <1>1, <1>2, BrokenRetains
<1>4. Retains(tab, StopFailed(tab)) /\ Retains(t, StopFailed(t))
  BY <1>1, StopFailedIs, RetainsIs
<1>5. Retains(tab, StopFailed(t))
  BY <1>3, <1>4, RetainsIs
<1>6. tab' = t \/ tab' = StopFailed(tab) \/ tab' = StopFailed(t)
  BY <1>2 DEF ConnectionLost, Restart, Local, Tab
<1>7. Retains(tab, tab')
  BY <1>3, <1>4, <1>5, <1>6
<1> QED
  BY <1>7, RetainsIs

\* What is saved has what every run was asked.
LEMMA SavedPrompts ==
  ASSUME IInv, Calm(runs), NEW n, n.items = tab.items \/ tab.items = <<>>,
         Asked(session.messages) \subseteq Asked(n.messages)
  PROVE  Kept(runs, tab, n)
<1>1. tab \in Tabs /\ Chat(runs, session, refused, mail, tab)
  BY ChatIs DEF IInv
<1>2. \A r \in 1..Len(runs) : PromptOf(runs, r) \in Asked(session.messages)
  BY <1>1, ShownRun
<1>3. tab.items = <<>> => ToSet(tab.items) = {}
  <2>1. HAVE tab.items = <<>>
  <2>2. tab.items \in Seq(Nat) /\ Len(tab.items) = 0
    BY <1>1, <2>1, TabTypes
  <2>3. ToSet(tab.items) = {tab.items[i] : i \in 1..Len(tab.items)} /\ 1..Len(tab.items) = {}
    BY <2>2, ToSetIs
  <2> QED
    BY <2>3
<1> QED
  BY <1>2, <1>3 DEF Kept

\* A Stop: what is saved is shown, and what was asked goes on.
LEMMA StoppingKept ==
  ASSUME IInv, Calm(runs), Stopping
  PROVE  Kept(runs, tab, tab')
<1>1. /\ tab \in Tabs /\ 0 \notin ToSet(tab.items) /\ session.messages \in Seq(Message)
      /\ StopsOK(tab)
  BY ChatIs, SavedShows DEF IInv, TabOK
<1>2. ASSUME NEW pc \in {"waiting", "reading"}, Tab([tab EXCEPT !.stop.pc = pc])
      PROVE  Kept(runs, tab, tab')
  <2>1. PICK n : n = [tab EXCEPT !.stop.pc = pc]
    OBVIOUS
  <2>2. n.items = tab.items /\ n.messages = tab.messages
    BY <1>1, <2>1, TabsAre DEF TabRecords
  <2> QED
    BY <1>2, <2>1, <2>2, StaysKept
<1>3. ASSUME Synchronized PROVE Kept(runs, tab, tab')
  <2>1. PICK u \in Tabs : /\ u = [tab EXCEPT !.messages = session.messages]
                          /\ u.messages = session.messages /\ u.items = tab.items
                          /\ u.stop = tab.stop
    BY <1>1, MessagesIs
  <2>2. tab' = Stopped(u)
    BY <1>3, <2>1 DEF Synchronized
  <2>3. Kept(runs, tab, u)
    BY <2>1, SavedPrompts
  <2>4. u.stop.then = "steer" => u.stop.item # 0
    BY <1>1, <2>1 DEF StopsOK
  <2>5. Retains(u, Stopped(u))
    BY <1>1, <2>1, <2>4, StoppedRetains
  <2> QED
    BY <2>2, <2>3, <2>5, RetainsIs
<1> QED
  BY <1>2, <1>3 DEF Stopping, StopServed, StopConfirmed, Local

\* The page, loaded again, shows what is saved.
LEMMA ReloadKept ==
  ASSUME IInv, Calm(runs), PageReload
  PROVE  \A r \in 1..Len(runs) : PromptOf(runs, r) \in Asked(tab'.messages)
<1>1. Chat(runs, session, refused, mail, tab) /\ session \in Session
  BY ChatIs DEF IInv
<1>2. tab'.messages = session.messages
  BY <1>1, OpenedIs DEF PageReload
<1> QED
  BY <1>1, <1>2, ShownRun

\* A look for scheduled turns opens what it read, when nothing is queued.
LEMMA LookKept ==
  ASSUME IInv, "overtaken" \notin Windows, PollApply
  PROVE  Kept(runs, tab, tab')
<1>1. tab \in Tabs /\ Look(tab, poll, runs, session) /\ ServerOK(runs, session) /\ runs \in Seq(Run)
      /\ session \in Session
  BY ChatIs DEF IInv
<1>2. poll.on /\ tab' = IF Settled(tab) THEN [Opened(poll.session) EXCEPT !.paused = tab.paused]
                        ELSE tab
  BY DEF PollApply
<1>3. CASE ~Settled(tab)
  BY <1>2, <1>3, ServerKept
<1>4. CASE Settled(tab)
  <2>1. PICK saved \in Session : saved = poll.session
    BY <1>1 DEF Look, PollType
  <2>2. PICK b \in BOOLEAN : b = tab.paused
    BY <1>1, TabTypes
  <2>3. PICK v \in Tabs : v = Opened(saved) /\ v.messages = saved.messages
    BY OpenedIs
  <2>4. PICK n \in Tabs : n = [v EXCEPT !.paused = b] /\ n.messages = v.messages
    BY PausedIs
  <2>5. tab' = n
    BY <1>2, <1>4, <2>1, <2>2, <2>3, <2>4
  <2>6. saved.messages = session.messages \/ saved.messages = runs[session.run].messages
    BY <1>1, <1>2, <2>1 DEF Look, PollOK
  <2>7. ~Mine(runs)
    BY <1>1, <1>2 DEF Look, PollOK
  <2>8. session.run \in 1..Len(runs)
    BY <1>1, <2>7 DEF Mine, ServerOK, Session
  <2>9. Asked(session.messages) = Asked(runs[session.run].messages)
    <3>1. Good(runs[session.run].messages, runs)
      BY <1>1, <2>8 DEF ServerOK, RunOK
    <3>2. Asked(TranscriptOf(runs, session.run)) = Asked(runs[session.run].messages)
      BY <1>1, <2>8, <3>1, TranscriptIs
    <3> QED
      BY <1>1, <2>8, <3>2 DEF ServerOK
  <2>10. Asked(session.messages) \subseteq Asked(n.messages)
    BY <2>3, <2>4, <2>6, <2>9
  <2>11. tab.items = <<>>
    BY <1>4 DEF Settled
  <2>12. Kept(runs, tab, n)
    BY <2>10, <2>11, SavedPrompts DEF Calm
  <2> QED
    BY <2>5, <2>12
<1> QED
  BY <1>3, <1>4

\* A queued question leaves the queue when the user takes it out, loads the page again, or
\* when it is asked; one that has a run stays in the chat, when no other tab extends the chat
\* between the reads of one turn.
THEOREM PromptsStay ==
  ASSUME "overtaken" \notin Windows
  PROVE  Spec => PromptsAreKept
<1> DEFINE Stay ==
      /\ \A p \in ToSet(tab.items) :
           \/ p \in ToSet(tab.items') \cup Asked(tab.messages')
           \/ Dequeue(p) \/ PageReload
      /\ \A r \in 1..Len(runs) :
           Prompt(r) \in Asked(tab.messages) => Prompt(r) \in Asked(tab.messages')
<1>1. ASSUME IInv, [Next]_vars PROVE [Stay]_vars
  <2>1. Calm(runs)
    BY DEF Calm
  <2>2. \A r : Prompt(r) = PromptOf(runs, r)
    BY Named
  <2>3. Kept(runs, tab, tab') => Stay
    BY <2>2 DEF Kept
  <2>4. CASE UNCHANGED vars
    BY <2>4
  <2>5. CASE User
    <3>1. CASE Submit
      BY <1>1, <2>3, <3>1, SubmitKept
    <3>2. CASE ResumeQueue
      BY <1>1, <2>3, <3>2, ResumeKept
    <3>3. CASE Stop \/ Steer \/ \E p \in ToSet(tab.items) : SteerQueued(p)
      BY <1>1, <2>1, <2>3, <3>3, StopsKept
    <3>4. CASE Retry
      BY <1>1, <2>1, <2>3, <3>4, RetryKept
    <3>5. CASE Regenerate
      BY <1>1, <2>3, <3>5, RegenerateKept
    <3>6. CASE PageReload
      BY <1>1, <2>1, <2>2, <3>6, ReloadKept
    <3>7. ASSUME NEW p \in ToSet(tab.items), Dequeue(p) PROVE Stay
      BY <1>1, <3>7, DequeueKept
    <3> QED
      BY <2>5, <3>1, <3>2, <3>3, <3>4, <3>5, <3>6, <3>7 DEF User
  <2>6. CASE Turn
    BY <1>1, <2>1, <2>3, <2>6, TurnKept
  <2>7. CASE Stopping
    BY <1>1, <2>1, <2>3, <2>7, StoppingKept
  <2>8. CASE Server
    <3>1. tab' = tab
      BY <2>8 DEF Server, ServerRead, RunEmit, Settle, RunEnd
    <3> QED
      BY <2>3, <3>1, ServerKept
  <2>9. CASE Others
    <3>1. CASE PollApply
      BY <1>1, <2>3, <3>1, LookKept
    <3>2. CASE tab' = tab
      BY <2>3, <3>2, ServerKept
    <3> QED
      BY <2>9, <3>1, <3>2 DEF Others, PollRead, OtherTurn
  <2>10. CASE ConnectionLost \/ Restart
    BY <1>1, <2>1, <2>3, <2>10, BreaksKept
  <2> QED
    BY <1>1, <2>4, <2>5, <2>6, <2>7, <2>8, <2>9, <2>10 DEF Next
<1>2. [][Stay]_vars => PromptsAreKept
  BY PTL DEF PromptsAreKept
<1> QED
  BY <1>1, <1>2, Invariance, PTL DEF Spec
=============================================================================
