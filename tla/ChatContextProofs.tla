------------------------- MODULE ChatContextProofs -------------------------
(***************************************************************************)
(* Theorems about ChatContext, for any chats, budgets, sizes and bounds.   *)
(***************************************************************************)
EXTENDS ChatContext, WellFoundedInduction, TLAPS

-----------------------------------------------------------------------------
(* The inductive invariant.  calls: the messages that call a tool.         *)

\* A message of a chat, of the first n; its result may have been moved to a file.
Raw(x, n) ==
  /\ x \in Items /\ x.id \in 1..n /\ x.size > 0
  /\ x.stands = {} /\ x.text \in {{}, {x.id}}

\* A marker; what it replaces can be read from its files, unless writing one may fail.
Mark(x) ==
  /\ x \in Items /\ x.role = "user" /\ x.id = 0
  /\ "archive" \notin Windows => x.stands \subseteq x.text

\* A call is followed by its result, and a result by no other than its call.
Whole(s, calls) ==
  \A i \in DOMAIN s :
    /\ s[i].id \in calls => /\ s[i].role = "assistant"
                            /\ i + 1 \in DOMAIN s /\ s[i + 1].role = "tool"
    /\ s[i].role = "tool" => i > 1 /\ s[i - 1].id \in calls

\* The messages of a chat.
Log(s, n, calls) ==
  /\ s \in Seq(Items) /\ \A i \in DOMAIN s : Raw(s[i], n)
  /\ \A i, j \in DOMAIN s : i < j => s[i].id < s[j].id
  /\ Whole(s, calls)

\* The latest step of a turn.
IsStep(base, u, i) ==
  /\ i \in DOMAIN base /\ i > u /\ base[i].role = "assistant"
  /\ \A l \in DOMAIN base : l > i => base[l].role # "assistant"

\* What s shows of base, whose turn began with its message u: all of it; or a marker, at
\* j = 2 a question that was kept, and base from k on.  The question and the latest step
\* of the turn are there.
Shown(s, base, u, j, k) ==
  /\ s \in Seq(Items)
  /\ j \in 0..2 /\ k \in 1..Len(base) + 1 /\ Len(s) = j + Len(base) + 1 - k
  /\ \A i \in DOMAIN s : i > j => s[i] = base[i - j + k - 1]
  /\ k \in DOMAIN base => base[k].role # "tool"
  /\ IF j = 0 THEN k = 1 ELSE Mark(s[1])
  /\ j = 2 => \E i \in 1..k - 1 : s[2] = base[i] /\ base[i].role = "user"
  /\ u < k => j = 2 /\ s[2] = base[u]
  /\ \A i \in DOMAIN base : IsStep(base, u, i) => i >= k

\* It also stands for base.
Showing(s, base, u) ==
  /\ \E j \in 0..2, k \in 1..Len(base) + 1 : Shown(s, base, u, j, k)
  /\ Stands(s) = Ids(base)

FoldOK(r, n, calls) ==
  /\ r.prefix # <<>> /\ Whole(r.prefix, calls) /\ \A i \in DOMAIN r.prefix : r.prefix[i].id <= n
  /\ Mark(r.marker) /\ r.marker.stands = Ids(r.prefix)

CutOK(r, n, calls) ==
  /\ r.prefix # <<>> /\ Whole(r.prefix, calls) /\ \A i \in DOMAIN r.prefix : r.prefix[i].id <= n
  /\ Mark(r.marker) /\ r.keep \in 0..Len(r.prefix)
  /\ Stands(r.prefix) =
       r.marker.stands \cup (IF r.keep = 0 THEN {} ELSE {r.prefix[r.keep].id})
  /\ r.keep # 0 => /\ r.prefix[r.keep].role = "user" /\ r.prefix[r.keep].id # 0
                   /\ \A i \in DOMAIN r.prefix : i > r.keep => r.prefix[i].role # "user"

\* Message u of base is its latest question.
Asks(base, u, n, calls) ==
  /\ Log(base, n, calls)
  /\ u \in DOMAIN base /\ base[u].role = "user"
  /\ \A i \in DOMAIN base : i > u => base[i].role # "user"

\* The turn t answers its message u, of n messages so far.
TurnOK(t, u, n, calls) ==
  /\ Asks(t.base, u, n, calls)
  /\ t.pc \in {"history", "fit"} => Len(t.base) = u
  /\ t.pc = "history" => t.count = 0
  /\ t.pc = "fit" =>
       /\ Shown(t.input, t.base, u, IF t.count = 0 THEN 0 ELSE 1, t.count + 1)
       /\ t.count # 0 => t.input[1].stands = Ids(UpTo(t.base, t.count))
       /\ Stands(t.input) = Ids(t.base)
  /\ t.pc \in {"restore", "budget", "call"} =>
       Showing(t.input, t.base, u) /\ Showing(t.request, t.base, u)
  /\ t.pc \in {"budget", "call"} =>
       /\ t.target <= Ceiling
       /\ IF t.attempt = 0 THEN t.rejected = 0 ELSE t.target < t.rejected
  /\ t.pc = "call" => Size(t.request) <= t.target

\* A cut holds neither the latest step of a turn nor, unless it keeps it, the question.
Spares(r, base, u) ==
  /\ r.keep = 0 => base[u].id \notin Ids(r.prefix)
  /\ \A i \in DOMAIN base : IsStep(base, u, i) => base[i].id \notin Ids(r.prefix)

\* The messages of a turn itself.
Own(base, u) == {base[i].id : i \in {l \in DOMAIN base : l >= u}}

\* The place of the question that the turn of c answers.
Start(c) == Len(chat[c]) + 1

\* Nothing else holds the messages of the turn of c, but cuts of its requests.
OwnOK(c) ==
  LET own == Own(turn[c].base, Start(c))
  IN /\ \A d \in Chats : own \cap Ids(chat[d]) = {}
     /\ \A d \in Chats \ {c} : own \cap Ids(turn[d].base) = {}
     /\ \A r \in folded : own \cap Ids(r.prefix) = {}
     /\ \A r \in cut : Spares(r, turn[c].base, Start(c))

Kept(calls) ==
  /\ calls \subseteq 1..fresh
  /\ \A c \in Chats : Log(chat[c], fresh, calls)
  /\ \A r \in folded : FoldOK(r, fresh, calls)
  /\ \A r \in cut : CutOK(r, fresh, calls)
  /\ \A c \in Chats :
       IF turn[c].pc = "idle" THEN turn[c] = Idle
       ELSE TurnOK(turn[c], Start(c), fresh, calls) /\ OwnOK(c)

IInv == TypeOK /\ \E calls \in SUBSET Nat : Kept(calls)

-----------------------------------------------------------------------------
(* Numbers: the least and the greatest of a set, for CHOOSE and induction  *)

\* A set of numbers has a least one.
LEMMA LeastNat ==
  ASSUME NEW S, S \subseteq Nat, S # {}
  PROVE  \E m \in S : \A n \in S : m <= n
<1>1. \E m \in S : \A n \in S : ~ (<<n, m>> \in OpToRel(<, Nat))
  BY WFMin, NatLessThanWellFounded, Zenon
<1>2. PICK m \in S : \A n \in S : ~ (<<n, m>> \in OpToRel(<, Nat))
  BY <1>1
<1>3. ASSUME NEW n \in S PROVE m <= n
  <2>1. <<n, m>> \notin OpToRel(<, Nat)
    BY <1>2
  <2>2. n \in Nat /\ m \in Nat
    OBVIOUS
  <2>3. ~(n < m)
    <3>1. SUFFICES ASSUME n < m PROVE FALSE
      OBVIOUS
    <3>2. <<n, m>>[1] = n /\ <<n, m>>[2] = m /\ <<n, m>> \in Nat \X Nat
      BY <2>2
    <3>3. <<n, m>>[1] < <<n, m>>[2]
      BY <3>1, <3>2
    <3>4. <<n, m>> \in OpToRel(<, Nat)
      BY <3>2, <3>3, Zenon DEF OpToRel
    <3>5. QED
      BY <2>1, <3>4
  <2>4. QED
    BY <2>2, <2>3
<1>4. QED
  BY <1>3

\* A bounded one has a greatest.
LEMMA GreatestNat ==
  ASSUME NEW S, S \subseteq Nat, S # {}, NEW n \in Nat, \A m \in S : m <= n
  PROVE  \E m \in S : \A l \in S : l <= m
<1> DEFINE B == {b \in Nat : \A m \in S : m <= b}
<1>1. \E b \in B : \A a \in B : b <= a
  <2>1. B \subseteq Nat /\ n \in B
    OBVIOUS
  <2> QED
    BY <2>1, LeastNat
<1>2. PICK b \in B : \A a \in B : b <= a
  BY <1>1
<1>3. b \in S
  <2>1. SUFFICES ASSUME b \notin S PROVE FALSE
    OBVIOUS
  <2>2. \A m \in S : m < b
    BY <2>1
  <2>3. PICK m \in S : m < b
    BY <2>2
  <2>4. b \in Nat /\ b - 1 \in Nat
    BY <2>3
  <2>5. \A x \in S : x <= b - 1
    BY <2>2, <2>4
  <2>6. b - 1 \in B
    BY <2>4, <2>5
  <2> QED
    BY <1>2, <2>4, <2>6
<1> QED
  BY <1>2, <1>3

\* What Last0 chooses.
LEMMA Last0Of ==
  ASSUME NEW S, S \subseteq Nat, NEW i \in S, \A j \in S : j <= i
  PROVE  Last0(S) = i
<1>1. \A l \in S : (\A j \in S : j <= l) => l = i
  OBVIOUS
<1> QED
  BY <1>1, Zenon DEF Last0

-----------------------------------------------------------------------------
(* Total: the recursive definition has a value, by induction on the length *)

Short(n) == {s \in Seq(Items) : Len(s) <= n}
Adds(f, s) == IF s = <<>> THEN 0 ELSE Head(s).size + f[Tail(s)]
Sums(f, n) == f \in [Short(n) -> Nat] /\ \A s \in Short(n) : f[s] = Adds(f, s)

\* What is left of a sequence without its first message.
LEMMA TailShort ==
  ASSUME NEW s \in Seq(Items), s # <<>>
  PROVE  /\ Tail(s) \in Seq(Items) /\ Len(Tail(s)) = Len(s) - 1 /\ Len(s) \in Nat \ {0}
         /\ Head(s) \in Items /\ Head(s).size \in Nat
<1>1. /\ Tail(s) \in Seq(Items) /\ Len(Tail(s)) = Len(s) - 1 /\ Len(s) \in Nat \ {0}
  OBVIOUS
<1>2. Head(s) = s[1] /\ s[1] \in Items
  BY <1>1
<1>3. \A x \in Items : x.size \in Nat
  BY DEF Items
<1> QED
  BY <1>1, <1>2, <1>3

\* The sum of the sequences of at most n messages.
LEMMA SumsExist == \A n \in Nat : \E f : Sums(f, n)
<1> DEFINE Bad == {n \in Nat : ~ \E f : Sums(f, n)}
<1>1. SUFFICES ASSUME Bad # {} PROVE FALSE
  OBVIOUS
<1>2. PICK m \in Bad : \A n \in Bad : m <= n
  <2>1. Bad \subseteq Nat
    OBVIOUS
  <2> QED
    BY <1>1, <2>1, LeastNat
<1>3. CASE m = 0
  <2> DEFINE f == [s \in Short(0) |-> 0]
  <2>1. \A s \in Short(0) : s = <<>>
    BY DEF Short
  <2>2. Sums(f, 0)
    BY <2>1 DEF Sums, Adds
  <2> QED
    BY <1>2, <1>3, <2>2
<1>4. CASE m # 0
  <2>1. m - 1 \in Nat /\ m - 1 \notin Bad
    BY <1>2, <1>4
  <2>2. PICK g : Sums(g, m - 1)
    BY <2>1
  <2> DEFINE f == [s \in Short(m) |-> Adds(g, s)]
  <2>3. ASSUME NEW s \in Short(m), s # <<>>
        PROVE  Tail(s) \in Short(m - 1) /\ Tail(s) \in Short(m)
    BY TailShort, <1>2, <2>1, <2>3 DEF Short
  <2>4. \A s \in Short(m) : Adds(g, s) \in Nat
    <3>1. ASSUME NEW s \in Short(m), s # <<>> PROVE Head(s).size + g[Tail(s)] \in Nat
      <4>1. s \in Seq(Items)
        BY DEF Short
      <4>2. g[Tail(s)] \in Nat
        BY <2>2, <2>3, <3>1 DEF Sums
      <4> QED
        BY <3>1, <4>1, <4>2, TailShort
    <3> QED
      BY <3>1 DEF Adds
  <2>5. f \in [Short(m) -> Nat]
    BY <2>4
  <2>6. ASSUME NEW s \in Short(m) PROVE f[s] = Adds(f, s)
    <3>1. CASE s = <<>>
      BY <3>1 DEF Adds
    <3>2. CASE s # <<>>
      <4>1. f[Tail(s)] = Adds(g, Tail(s))
        BY <2>3, <3>2
      <4>2. g[Tail(s)] = Adds(g, Tail(s))
        BY <2>2, <2>3, <3>2 DEF Sums
      <4> QED
        BY <3>2, <4>1, <4>2 DEF Adds
    <3> QED
      BY <3>1, <3>2
  <2>7. Sums(f, m)
    BY <2>5, <2>6 DEF Sums
  <2> QED
    BY <1>2, <2>7
<1> QED
  BY <1>3, <1>4

\* Two of them agree.
LEMMA SumsAgree ==
  ASSUME NEW n \in Nat, NEW m \in Nat, NEW f, NEW g, Sums(f, n), Sums(g, m)
  PROVE  \A s \in Short(n) \cap Short(m) : f[s] = g[s]
<1> DEFINE Bad == {l \in Nat : \E s \in Short(n) \cap Short(m) : Len(s) = l /\ f[s] # g[s]}
<1>1. ASSUME Bad # {} PROVE FALSE
  <2>1. Bad \subseteq Nat
    OBVIOUS
  <2>2. PICK l \in Bad : \A k \in Bad : l <= k
    BY <1>1, <2>1, LeastNat
  <2>3. PICK s \in Short(n) \cap Short(m) : Len(s) = l /\ f[s] # g[s]
    BY <2>2
  <2>4. s # <<>>
    BY <2>3 DEF Sums, Adds
  <2>5. /\ Tail(s) \in Short(n) \cap Short(m) /\ Len(Tail(s)) = l - 1
        /\ l - 1 \in Nat /\ s \in Seq(Items)
    BY <2>3, <2>4, TailShort DEF Short
  <2>6. l - 1 \notin Bad
    BY <2>2, <2>5
  <2>7. f[Tail(s)] = g[Tail(s)]
    BY <2>5, <2>6
  <2> QED
    BY <2>3, <2>4, <2>7 DEF Sums, Adds
<1> QED
  <2>1. ASSUME NEW s \in Short(n) \cap Short(m) PROVE f[s] = g[s]
    <3>1. Len(s) \in Nat
      BY DEF Short
    <3> QED
      BY <1>1, <3>1
  <2> QED
    BY <2>1

\* Total is what its definition says.
LEMMA TotalIs == \A s \in Seq(Items) : Total[s] = Adds(Total, s)
<1> DEFINE F(n) == CHOOSE f : Sums(f, n)
           T == [s \in Seq(Items) |-> F(Len(s))[s]]
<1>1. \A n \in Nat : Sums(F(n), n)
  BY SumsExist
<1> HIDE DEF F
<1>2. ASSUME NEW s \in Seq(Items) PROVE T[s] = Adds(T, s)
  <2>1. Len(s) \in Nat /\ s \in Short(Len(s))
    BY DEF Short
  <2>2. T[s] = Adds(F(Len(s)), s)
    BY <1>1, <2>1 DEF Sums
  <2>3. CASE s = <<>>
    BY <2>2, <2>3 DEF Adds
  <2>4. CASE s # <<>>
    <3> DEFINE l == Len(Tail(s))
    <3>1. /\ Tail(s) \in Seq(Items) /\ l \in Nat
          /\ Tail(s) \in Short(l) /\ Tail(s) \in Short(Len(s))
      BY <2>4, TailShort DEF Short
    <3>2. F(Len(s))[Tail(s)] = F(l)[Tail(s)]
      BY <1>1, <2>1, <3>1, SumsAgree
    <3>3. T[Tail(s)] = F(l)[Tail(s)]
      BY <3>1
    <3> QED
      BY <2>2, <2>4, <3>2, <3>3 DEF Adds
  <2> QED
    BY <2>3, <2>4
<1>3. T = [s \in Seq(Items) |-> Adds(T, s)]
  BY <1>2
<1> HIDE DEF T
<1>4. \E t : t = [s \in Seq(Items) |-> Adds(t, s)]
  BY <1>3
<1>5. Total = CHOOSE t : t = [s \in Seq(Items) |-> Adds(t, s)]
  BY DEF Total, Adds
<1>6. Total = [s \in Seq(Items) |-> Adds(Total, s)]
  BY <1>4, <1>5, Zenon
<1> QED
  BY <1>6

\* Total is a number, for any sequence of messages.
LEMMA TotalType == \A s \in Seq(Items) : Total[s] \in Nat
<1> DEFINE Bad == {l \in Nat : \E s \in Seq(Items) : Len(s) = l /\ Total[s] \notin Nat}
<1>1. ASSUME Bad # {} PROVE FALSE
  <2>1. Bad \subseteq Nat
    OBVIOUS
  <2>2. PICK l \in Bad : \A k \in Bad : l <= k
    BY <1>1, <2>1, LeastNat
  <2>3. PICK s \in Seq(Items) : Len(s) = l /\ Total[s] \notin Nat
    BY <2>2
  <2>4. s # <<>>
    BY <2>3, TotalIs DEF Adds
  <2>5. Tail(s) \in Seq(Items) /\ Len(Tail(s)) = l - 1 /\ l - 1 \in Nat /\ Head(s).size \in Nat
    BY <2>3, <2>4, TailShort
  <2>6. l - 1 \notin Bad
    BY <2>2, <2>5
  <2>7. Total[Tail(s)] \in Nat
    BY <2>5, <2>6
  <2> QED
    BY <2>3, <2>4, <2>5, <2>7, TotalIs DEF Adds
<1> QED
  <2>1. ASSUME NEW s \in Seq(Items) PROVE Total[s] \in Nat
    <3>1. Len(s) \in Nat
      OBVIOUS
    <3> QED
      BY <1>1, <3>1
  <2> QED
    BY <2>1

\* A message before others adds its size.
LEMMA TotalOfMore ==
  ASSUME NEW x \in Items, NEW s \in Seq(Items)
  PROVE  Total[<<x>> \o s] = x.size + Total[s]
<1>1. /\ <<x>> \o s \in Seq(Items) /\ <<x>> \o s # <<>>
      /\ Head(<<x>> \o s) = x /\ Tail(<<x>> \o s) = s
  OBVIOUS
<1> QED
  BY <1>1, TotalIs DEF Adds

-----------------------------------------------------------------------------
(* Sequences of messages                                                   *)

\* The first n messages.
LEMMA UpToIs ==
  ASSUME NEW s \in Seq(Items), NEW n \in 0..Len(s)
  PROVE  /\ UpTo(s, n) \in Seq(Items) /\ Len(UpTo(s, n)) = n /\ DOMAIN UpTo(s, n) = 1..n
         /\ \A i \in 1..n : UpTo(s, n)[i] = s[i]
BY DEF UpTo

\* The messages from n on.
LEMMA FromIs ==
  ASSUME NEW s \in Seq(Items), NEW n \in 1..Len(s) + 1
  PROVE  /\ From(s, n) \in Seq(Items) /\ Len(From(s, n)) = Len(s) + 1 - n
         /\ DOMAIN From(s, n) = 1..Len(s) + 1 - n
         /\ \A i \in 1..Len(s) + 1 - n : From(s, n)[i] = s[n + i - 1]
BY DEF From

\* Two sequences, one behind the other.
LEMMA ConcatIs ==
  ASSUME NEW s \in Seq(Items), NEW t \in Seq(Items)
  PROVE  /\ s \o t \in Seq(Items) /\ Len(s \o t) = Len(s) + Len(t)
         /\ DOMAIN (s \o t) = 1..Len(s) + Len(t)
         /\ \A i \in 1..Len(s) : (s \o t)[i] = s[i]
         /\ \A i \in 1..Len(t) : (s \o t)[Len(s) + i] = t[i]
OBVIOUS

\* What is among the messages of a sequence.
LEMMA MemberOfIds ==
  ASSUME NEW s, NEW x
  PROVE  x \in Ids(s) <=> x # 0 /\ \E i \in DOMAIN s : s[i].id = x
BY DEF Ids, IdsAt

\* What a sequence stands for.
LEMMA MemberOfStands ==
  ASSUME NEW s, NEW x
  PROVE  x \in Stands(s) <=>
           \E i \in DOMAIN s : (x # 0 /\ s[i].id = x) \/ x \in s[i].stands
BY MemberOfIds DEF Stands

\* What can be read from a sequence and its files.
LEMMA MemberOfReadable ==
  ASSUME NEW s, NEW x
  PROVE  x \in Readable(s) <=>
           \E i \in DOMAIN s : (x # 0 /\ s[i].id = x /\ s[i].text = {}) \/ x \in s[i].text
BY DEF Readable, IdsAt

\* What a sequence stands for, by its parts.
LEMMA StandsOfConcat ==
  ASSUME NEW s \in Seq(Items), NEW t \in Seq(Items)
  PROVE  Stands(s \o t) = Stands(s) \cup Stands(t)
<1> DEFINE At(x, y) == (y # 0 /\ x.id = y) \/ y \in x.stands
<1>1. ASSUME NEW y PROVE y \in Stands(s \o t) <=> y \in Stands(s) \/ y \in Stands(t)
  <2>1. \A r : y \in Stands(r) <=> \E i \in DOMAIN r : At(r[i], y)
    BY MemberOfStands
  <2> HIDE DEF At
  <2>2. ASSUME NEW i \in DOMAIN (s \o t), At((s \o t)[i], y)
        PROVE  y \in Stands(s) \/ y \in Stands(t)
    <3>1. CASE i \in DOMAIN s
      BY <2>1, <2>2, <3>1, ConcatIs
    <3>2. CASE i \notin DOMAIN s
      <4>1. i - Len(s) \in 1..Len(t) /\ (s \o t)[i] = t[i - Len(s)]
        BY <3>2, ConcatIs
      <4> QED
        BY <2>1, <2>2, <4>1
    <3> QED
      BY <3>1, <3>2
  <2>3. ASSUME NEW i \in DOMAIN s, At(s[i], y) PROVE y \in Stands(s \o t)
    <3>1. i \in DOMAIN (s \o t) /\ (s \o t)[i] = s[i]
      BY ConcatIs
    <3> QED
      BY <2>1, <2>3, <3>1
  <2>4. ASSUME NEW i \in DOMAIN t, At(t[i], y) PROVE y \in Stands(s \o t)
    <3>1. Len(s) + i \in DOMAIN (s \o t) /\ (s \o t)[Len(s) + i] = t[i]
      BY ConcatIs
    <3> QED
      BY <2>1, <2>4, <3>1
  <2> QED
    BY <2>1, <2>2, <2>3, <2>4
<1> QED
  BY <1>1

\* What one message stands for.
LEMMA StandsOfOne ==
  ASSUME NEW x
  PROVE  Stands(<<x>>) = ({x.id} \ {0}) \cup x.stands
BY MemberOfStands

\* A sequence is its first messages and the others.
LEMMA SplitAt ==
  ASSUME NEW s \in Seq(Items), NEW n \in 0..Len(s)
  PROVE  s = UpTo(s, n) \o From(s, n + 1)
<1>1. /\ UpTo(s, n) \in Seq(Items) /\ From(s, n + 1) \in Seq(Items)
      /\ Len(UpTo(s, n)) = n /\ Len(From(s, n + 1)) = Len(s) - n
      /\ \A i \in 1..n : UpTo(s, n)[i] = s[i]
      /\ \A i \in 1..Len(s) - n : From(s, n + 1)[i] = s[n + i]
  BY UpToIs, FromIs
<1> HIDE DEF UpTo, From
<1> DEFINE r == UpTo(s, n) \o From(s, n + 1)
<1>2. /\ r \in Seq(Items) /\ Len(r) = Len(s)
      /\ \A i \in 1..n : r[i] = UpTo(s, n)[i]
      /\ \A i \in 1..Len(s) - n : r[n + i] = From(s, n + 1)[i]
  BY <1>1, ConcatIs
<1> HIDE DEF r
<1>3. ASSUME NEW i \in 1..Len(s) PROVE r[i] = s[i]
  <2>1. CASE i <= n
    BY <1>1, <1>2, <2>1
  <2>2. CASE i > n
    <3>1. i - n \in 1..Len(s) - n /\ n + (i - n) = i
      BY <2>2
    <3> QED
      BY <1>1, <1>2, <3>1
  <2> QED
    BY <2>1, <2>2
<1>4. r = s
  BY <1>2, <1>3
<1> QED
  BY <1>4 DEF r

\* What a sequence stands for, by its first messages and the others.
LEMMA StandsOfSplit ==
  ASSUME NEW s \in Seq(Items), NEW n \in 0..Len(s)
  PROVE  Stands(s) = Stands(UpTo(s, n)) \cup Stands(From(s, n + 1))
<1>1. UpTo(s, n) \in Seq(Items) /\ From(s, n + 1) \in Seq(Items)
  BY UpToIs, FromIs
<1>2. Stands(UpTo(s, n) \o From(s, n + 1)) = Stands(UpTo(s, n)) \cup Stands(From(s, n + 1))
  BY <1>1, StandsOfConcat
<1> QED
  BY <1>2, SplitAt

\* The messages of a chat stand for themselves, and can be read.
LEMMA RawStands ==
  ASSUME NEW s, \A i \in DOMAIN s : s[i].stands = {}
  PROVE  Stands(s) = Ids(s)
BY DEF Stands

\* What is shown can be read, unless a history file was not written.
LEMMA StandsAreReadable ==
  ASSUME NEW s, NEW n \in Nat, "archive" \notin Windows,
         \A i \in DOMAIN s : Raw(s[i], n) \/ Mark(s[i])
  PROVE  Stands(s) \subseteq Readable(s)
<1>1. ASSUME NEW x, NEW i \in DOMAIN s, (x # 0 /\ s[i].id = x) \/ x \in s[i].stands
      PROVE  x \in Readable(s)
  <2>1. CASE Raw(s[i], n)
    <3>1. s[i].id = x /\ x # 0 /\ s[i].text \in {{}, {x}}
      BY <1>1, <2>1 DEF Raw
    <3> QED
      BY <3>1, MemberOfReadable
  <2>2. CASE Mark(s[i])
    <3>1. x \in s[i].text
      BY <1>1, <2>2 DEF Mark
    <3> QED
      BY <3>1, MemberOfReadable
  <2> QED
    BY <1>1, <2>1, <2>2
<1> QED
  BY <1>1, MemberOfStands

-----------------------------------------------------------------------------
(* The messages of a chat                                                  *)

\* A message stays one when more are written.
LEMMA RawGrows ==
  ASSUME NEW x, NEW n \in Nat, NEW m \in Nat, n <= m, Raw(x, n)
  PROVE  Raw(x, m)
BY DEF Raw

\* Whole sequences that may go on, cut before what is not a result.
LEMMA WholeUpTo ==
  ASSUME NEW s \in Seq(Items), NEW calls, Whole(s, calls), NEW n \in 0..Len(s),
         n + 1 \in DOMAIN s => s[n + 1].role # "tool"
  PROVE  Whole(UpTo(s, n), calls)
<1>1. /\ DOMAIN UpTo(s, n) = 1..n /\ \A i \in 1..n : UpTo(s, n)[i] = s[i]
      /\ DOMAIN s = 1..Len(s) /\ Len(s) \in Nat
  <2>1. DOMAIN UpTo(s, n) = 1..n /\ \A i \in 1..n : UpTo(s, n)[i] = s[i]
    BY UpToIs, Zenon
  <2> QED
    BY <2>1
<1>2. ASSUME NEW i \in 1..n
      PROVE  /\ s[i].id \in calls => /\ s[i].role = "assistant"
                                     /\ i + 1 \in 1..n /\ s[i + 1].role = "tool"
             /\ s[i].role = "tool" => i > 1 /\ s[i - 1].id \in calls
  <2>1. i \in DOMAIN s
    BY <1>1
  <2>2. /\ s[i].id \in calls => /\ s[i].role = "assistant"
                               /\ i + 1 \in DOMAIN s /\ s[i + 1].role = "tool"
        /\ s[i].role = "tool" => i > 1 /\ s[i - 1].id \in calls
    BY <2>1 DEF Whole
  <2>3. i + 1 \in DOMAIN s /\ s[i + 1].role = "tool" => i + 1 \in 1..n
    <3>1. CASE i = n
      BY <3>1
    <3>2. CASE i # n
      BY <3>2
    <3> QED
      BY <3>1, <3>2
  <2> QED
    BY <2>2, <2>3
<1>3. ASSUME NEW i \in 1..n PROVE i > 1 => i - 1 \in 1..n
  OBVIOUS
<1> QED
  BY <1>1, <1>2, <1>3 DEF Whole

\* A call that nobody knows yet changes nothing.
LEMMA WholeKeeps ==
  ASSUME NEW s, NEW calls, NEW more, Whole(s, calls), calls \subseteq more,
         \A i \in DOMAIN s : s[i].id \in more => s[i].id \in calls
  PROVE  Whole(s, more)
BY DEF Whole

\* A chat stays one when more messages, and calls of them, are made elsewhere.
LEMMA LogKeeps ==
  ASSUME NEW s, NEW n \in Nat, NEW m \in Nat, n <= m, NEW calls, NEW more,
         Log(s, n, calls), calls \subseteq more, more \cap 1..n \subseteq calls
  PROVE  Log(s, m, more)
<1>1. \A i \in DOMAIN s : Raw(s[i], m) /\ s[i].id \in 1..n
  BY RawGrows DEF Log, Raw
<1>2. Whole(s, more)
  BY <1>1, WholeKeeps DEF Log
<1> QED
  BY <1>1, <1>2 DEF Log

\* The first messages of a chat, cut before what is not a result.
LEMMA LogUpTo ==
  ASSUME NEW s, NEW n \in Nat, NEW calls, Log(s, n, calls), NEW m \in 0..Len(s),
         m + 1 \in DOMAIN s => s[m + 1].role # "tool"
  PROVE  Log(UpTo(s, m), n, calls)
<1>1. /\ UpTo(s, m) \in Seq(Items) /\ Len(s) \in Nat /\ DOMAIN s = 1..Len(s)
      /\ DOMAIN UpTo(s, m) = 1..m /\ \A i \in 1..m : UpTo(s, m)[i] = s[i]
  <2>1. s \in Seq(Items)
    BY DEF Log
  <2>2. /\ UpTo(s, m) \in Seq(Items) /\ DOMAIN UpTo(s, m) = 1..m
        /\ \A i \in 1..m : UpTo(s, m)[i] = s[i]
    BY <2>1, UpToIs, Zenon
  <2> QED
    BY <2>1, <2>2
<1>2. Whole(UpTo(s, m), calls)
  BY WholeUpTo DEF Log
<1> QED
  BY <1>1, <1>2 DEF Log

\* A new message that neither calls nor answers a call.
LEMMA LogAppend ==
  ASSUME NEW s, NEW n \in Nat, NEW calls, Log(s, n, calls), calls \subseteq 1..n,
         NEW x, Raw(x, n + 1), x.id = n + 1, x.role # "tool"
  PROVE  Log(Append(s, x), n + 1, calls)
<1> DEFINE t == Append(s, x)
<1>1. /\ s \in Seq(Items) /\ x \in Items /\ Len(s) \in Nat /\ DOMAIN s = 1..Len(s)
  BY DEF Log, Raw
<1>2. /\ t \in Seq(Items) /\ DOMAIN t = 1..Len(s) + 1 /\ t[Len(s) + 1] = x
      /\ \A i \in 1..Len(s) : t[i] = s[i]
  BY <1>1
<1> HIDE DEF t
<1>3. \A i \in 1..Len(s) : Raw(t[i], n) /\ Raw(t[i], n + 1) /\ t[i].id \in 1..n
  BY <1>1, <1>2, RawGrows DEF Log, Raw
<1>4. \A i \in DOMAIN t : Raw(t[i], n + 1)
  BY <1>2, <1>3
<1>5. ASSUME NEW i \in DOMAIN t, NEW j \in DOMAIN t, i < j PROVE t[i].id < t[j].id
  <2>1. i \in 1..Len(s)
    BY <1>1, <1>2, <1>5
  <2>2. CASE j = Len(s) + 1
    BY <1>2, <1>3, <2>1, <2>2
  <2>3. CASE j # Len(s) + 1
    BY <1>1, <1>2, <1>5, <2>1, <2>3 DEF Log
  <2> QED
    BY <2>2, <2>3
<1>6. Whole(t, calls)
  <2>1. ASSUME NEW i \in 1..Len(s)
        PROVE  /\ t[i].id \in calls => /\ t[i].role = "assistant"
                                       /\ i + 1 \in DOMAIN t /\ t[i + 1].role = "tool"
               /\ t[i].role = "tool" => i > 1 /\ t[i - 1].id \in calls
    <3>1. /\ s[i].id \in calls => /\ s[i].role = "assistant"
                                  /\ i + 1 \in DOMAIN s /\ s[i + 1].role = "tool"
          /\ s[i].role = "tool" => i > 1 /\ s[i - 1].id \in calls
      BY <1>1 DEF Log, Whole
    <3>2. i > 1 => i - 1 \in 1..Len(s)
      BY <1>1
    <3> QED
      BY <1>1, <1>2, <3>1, <3>2
  <2>2. x.id \notin calls
    BY DEF Log
  <2> QED
    BY <1>1, <1>2, <2>1, <2>2 DEF Whole
<1> QED
  BY <1>2, <1>4, <1>5, <1>6 DEF Log, t

\* A call with its result.
LEMMA LogStep ==
  ASSUME NEW s, NEW n \in Nat, NEW calls, Log(s, n, calls), calls \subseteq 1..n,
         NEW x, Raw(x, n + 2), x.id = n + 1, x.role = "assistant",
         NEW y, Raw(y, n + 2), y.id = n + 2, y.role = "tool"
  PROVE  Log(s \o <<x, y>>, n + 2, calls \cup {n + 1})
<1> DEFINE t == s \o <<x, y>>
           l == Len(s)
           more == calls \cup {n + 1}
<1>1. /\ s \in Seq(Items) /\ x \in Items /\ y \in Items /\ l \in Nat /\ DOMAIN s = 1..l
  BY DEF Log, Raw
<1>2. /\ t \in Seq(Items) /\ DOMAIN t = 1..l + 2 /\ t[l + 1] = x /\ t[l + 2] = y
      /\ \A i \in 1..l : t[i] = s[i]
  BY <1>1
<1> HIDE DEF t
<1>3. \A i \in 1..l : Raw(t[i], n + 2) /\ t[i].id \in 1..n
  <2>1. \A i \in 1..l : Raw(s[i], n)
    BY <1>1 DEF Log
  <2>2. \A i \in 1..l : Raw(s[i], n + 2)
    BY <2>1, RawGrows
  <2> QED
    BY <1>2, <2>1, <2>2 DEF Raw
<1>4. \A i \in DOMAIN t : i \in 1..l \/ i = l + 1 \/ i = l + 2
  BY <1>1, <1>2
<1>5. \A i \in DOMAIN t : Raw(t[i], n + 2)
  BY <1>2, <1>3, <1>4
<1>6. ASSUME NEW i \in DOMAIN t, NEW j \in DOMAIN t, i < j PROVE t[i].id < t[j].id
  <2>1. CASE j \in 1..l
    BY <1>1, <1>2, <1>6, <2>1 DEF Log
  <2>2. CASE j = l + 1
    <3>1. i \in 1..l
      BY <1>2, <1>6, <2>2
    <3> QED
      BY <1>2, <1>3, <2>2, <3>1
  <2>3. CASE j = l + 2
    <3>1. i \in 1..l \/ i = l + 1
      BY <1>2, <1>6, <2>3
    <3> QED
      BY <1>2, <1>3, <2>3, <3>1
  <2> QED
    BY <1>4, <2>1, <2>2, <2>3
<1>7. Whole(t, more)
  <2>1. ASSUME NEW i \in 1..l
        PROVE  /\ t[i].id \in more => /\ t[i].role = "assistant"
                                      /\ i + 1 \in DOMAIN t /\ t[i + 1].role = "tool"
               /\ t[i].role = "tool" => i > 1 /\ t[i - 1].id \in more
    <3>1. /\ s[i].id \in calls => /\ s[i].role = "assistant"
                                  /\ i + 1 \in DOMAIN s /\ s[i + 1].role = "tool"
          /\ s[i].role = "tool" => i > 1 /\ s[i - 1].id \in calls
      BY <1>1 DEF Log, Whole
    <3>2. i > 1 => i - 1 \in 1..l
      BY <1>1
    <3>3. t[i].id \in more => s[i].id \in calls
      BY <1>2, <1>3
    <3> QED
      BY <1>1, <1>2, <3>1, <3>2, <3>3, SMTT(30)
  <2>2. y.id \notin more /\ x.id \in more
    OBVIOUS
  <2>3. /\ l + 2 > 1 /\ (l + 2) - 1 = l + 1 /\ (l + 1) + 1 = l + 2
    BY <1>1
  <2> QED
    BY <1>2, <1>4, <2>1, <2>2, <2>3, SMTT(30) DEF Whole
<1> QED
  BY <1>2, <1>5, <1>6, <1>7 DEF Log, t

\* Large results go to files: that is all.
LEMMA PresentedIs ==
  ASSUME NEW x, NEW n \in Nat, Raw(x, n)
  PROVE  Raw(Presented(x), n) /\ Presented(x).id = x.id /\ Presented(x).role = x.role
<1>1. x \in Items /\ x.id \in Nat
  BY DEF Raw
<1>2. CASE x.role = "tool" /\ x.size >= Large /\ x.text = {}
  <2> DEFINE y == [x EXCEPT !.size = 1, !.text = {x.id}]
  <2>1. Presented(x) = y
    BY <1>2 DEF Presented
  <2>2. /\ y \in Items /\ y.id = x.id /\ y.role = x.role /\ y.size = 1
        /\ y.stands = x.stands /\ y.text = {x.id}
    BY <1>1 DEF Items
  <2> HIDE DEF y
  <2> QED
    BY <2>1, <2>2 DEF Raw
<1>3. CASE ~(x.role = "tool" /\ x.size >= Large /\ x.text = {})
  BY <1>3 DEF Presented
<1> QED
  BY <1>2, <1>3

\* Moving results to files changes no identity and no role.
LEMMA ExternalizedIs ==
  ASSUME NEW s, NEW n \in Nat, NEW calls, Log(s, n, calls)
  PROVE  /\ Log(Externalized(s), n, calls)
         /\ DOMAIN Externalized(s) = DOMAIN s /\ Len(Externalized(s)) = Len(s)
         /\ \A i \in DOMAIN s : /\ Externalized(s)[i].id = s[i].id
                                /\ Externalized(s)[i].role = s[i].role
<1> DEFINE t == Externalized(s)
<1>1. s \in Seq(Items) /\ Len(s) \in Nat /\ DOMAIN s = 1..Len(s) /\ \A i \in DOMAIN s : Raw(s[i], n)
  BY DEF Log
<1>2. DOMAIN t = DOMAIN s /\ \A i \in DOMAIN s : t[i] = Presented(s[i])
  BY DEF Externalized
<1>3. \A i \in DOMAIN s : Raw(t[i], n) /\ t[i].id = s[i].id /\ t[i].role = s[i].role
  BY <1>1, <1>2, PresentedIs
<1>4. t \in Seq(Items) /\ Len(t) = Len(s)
  <2>1. t = [i \in 1..Len(s) |-> Presented(s[i])]
    BY <1>1 DEF Externalized
  <2>2. \A i \in 1..Len(s) : Presented(s[i]) \in Items
    BY <1>1, <1>2, <1>3 DEF Raw
  <2> QED
    BY <1>1, <2>1, <2>2
<1> HIDE DEF t
<1>5. Log(t, n, calls)
  BY <1>2, <1>3, <1>4 DEF Log, Whole
<1> QED
  BY <1>2, <1>3, <1>4, <1>5 DEF t

\* Sequences with the same messages at their places.
LEMMA SameIds ==
  ASSUME NEW s, NEW t, DOMAIN s = DOMAIN t, \A i \in DOMAIN s : s[i].id = t[i].id
  PROVE  Ids(s) = Ids(t)
BY DEF Ids, IdsAt

\* The messages of a chat are different, and stand for themselves.
LEMMA LogIds ==
  ASSUME NEW s, NEW n \in Nat, NEW calls, Log(s, n, calls)
  PROVE  /\ Ids(s) \subseteq 1..n /\ Stands(s) = Ids(s)
         /\ \A i \in DOMAIN s : s[i].id \in Ids(s)
         /\ \A i, j \in DOMAIN s : s[i].id = s[j].id => i = j
<1>1. \A i \in DOMAIN s : s[i].id \in 1..n /\ s[i].stands = {}
  BY DEF Log, Raw
<1>2. ASSUME NEW i \in DOMAIN s, NEW j \in DOMAIN s, s[i].id = s[j].id PROVE i = j
  <2>1. i \in Nat /\ j \in Nat
    BY DEF Log
  <2>2. ~(i < j) /\ ~(j < i)
    BY <1>1, <1>2 DEF Log
  <2> QED
    BY <2>1, <2>2
<1>3. Ids(s) \subseteq 1..n /\ \A i \in DOMAIN s : s[i].id \in Ids(s)
  BY <1>1, MemberOfIds
<1> QED
  BY <1>1, <1>2, <1>3, RawStands

\* The first messages of a chat.
LEMMA UpToIds ==
  ASSUME NEW s \in Seq(Items), NEW m \in 0..Len(s)
  PROVE  Ids(UpTo(s, m)) \subseteq Ids(s)
<1>1. DOMAIN UpTo(s, m) = 1..m /\ \A i \in 1..m : UpTo(s, m)[i] = s[i]
  BY UpToIs
<1>2. \A i \in 1..m : i \in DOMAIN s
  OBVIOUS
<1> QED
  BY <1>1, <1>2, MemberOfIds

-----------------------------------------------------------------------------
(* What a request shows                                                    *)

\* The request s shows base.
Presents(base, u, n, calls, s, j, k) ==
  n \in Nat /\ Asks(base, u, n, calls) /\ Shown(s, base, u, j, k)

\* The places of a chat and of a request that shows it.
LEMMA PresentsTypes ==
  ASSUME NEW base, NEW u, NEW n, NEW calls, NEW s, NEW j, NEW k,
         Presents(base, u, n, calls, s, j, k)
  PROVE  /\ n \in Nat /\ u \in Nat /\ u > 0 /\ u <= Len(base) /\ u \in DOMAIN base
         /\ base \in Seq(Items) /\ DOMAIN base = 1..Len(base) /\ Len(base) \in Nat
         /\ s \in Seq(Items) /\ DOMAIN s = 1..Len(s) /\ Len(s) \in Nat
         /\ j \in Nat /\ j <= 2 /\ k \in Nat /\ k > 0 /\ k <= Len(base) + 1
         /\ Len(s) = j + Len(base) + 1 - k
<1>1. /\ base \in Seq(Items) /\ u \in DOMAIN base /\ n \in Nat
      /\ s \in Seq(Items) /\ j \in 0..2 /\ k \in 1..Len(base) + 1
      /\ Len(s) = j + Len(base) + 1 - k
  BY DEF Presents, Asks, Log, Shown
<1>2. /\ DOMAIN base = 1..Len(base) /\ Len(base) \in Nat
      /\ DOMAIN s = 1..Len(s) /\ Len(s) \in Nat
  BY <1>1
<1> QED
  BY <1>1, <1>2

\* Each message that is shown is a marker, or has its place in the chat.
LEMMA LaterAt ==
  ASSUME NEW base, NEW u, NEW n, NEW calls, NEW s, NEW j, NEW k,
         Presents(base, u, n, calls, s, j, k), NEW i \in DOMAIN s, i > j
  PROVE  \E l \in DOMAIN base : l = i - j + k - 1 /\ l >= k /\ s[i] = base[l] /\ Raw(s[i], n)
<1> DEFINE l == i - j + k - 1
<1>1. /\ j \in Nat /\ k \in Nat /\ k > 0 /\ Len(base) \in Nat /\ k <= Len(base) + 1
      /\ Len(s) = j + Len(base) + 1 - k /\ i \in 1..Len(s)
  BY PresentsTypes
<1>2. l \in 1..Len(base) /\ l >= k
  BY <1>1
<1>3. s[i] = base[l]
  BY DEF Presents, Shown
<1>4. l = i - j + k - 1
  OBVIOUS
<1> HIDE DEF l
<1>5. l \in DOMAIN base
  BY <1>2, PresentsTypes
<1>6. Raw(base[l], n)
  BY <1>5 DEF Presents, Asks, Log
<1> QED
  BY <1>2, <1>3, <1>4, <1>5, <1>6

\* Before them is a marker, or a question that was kept.
LEMMA EarlierAt ==
  ASSUME NEW base, NEW u, NEW n, NEW calls, NEW s, NEW j, NEW k,
         Presents(base, u, n, calls, s, j, k), NEW i \in DOMAIN s, i <= j
  PROVE  \/ i = 1 /\ Mark(s[i])
         \/ i = 2 /\ j = 2 /\ \E l \in DOMAIN base :
              l < k /\ s[i] = base[l] /\ Raw(s[i], n) /\ base[l].role = "user"
<1>1. /\ base \in Seq(Items) /\ Len(base) \in Nat /\ DOMAIN base = 1..Len(base)
      /\ \A l \in DOMAIN base : Raw(base[l], n)
  BY DEF Presents, Asks, Log
<1>2. /\ s \in Seq(Items) /\ DOMAIN s = 1..Len(s) /\ j \in 0..2 /\ k \in 1..Len(base) + 1
      /\ i \in Nat /\ i >= 1 /\ j > 0
  BY DEF Presents, Shown
<1>3. CASE i = 1
  BY <1>2, <1>3 DEF Presents, Shown
<1>4. CASE i # 1
  <2>1. i = 2 /\ j = 2
    BY <1>2, <1>4
  <2>2. PICK l \in 1..k - 1 : s[2] = base[l] /\ base[l].role = "user"
    BY <2>1 DEF Presents, Shown
  <2>3. l \in DOMAIN base /\ l < k
    BY <1>1, <1>2
  <2> QED
    BY <1>1, <2>1, <2>2, <2>3
<1> QED
  BY <1>3, <1>4

\* Each message from k on has its place in the request.
LEMMA PlaceOf ==
  ASSUME NEW base, NEW u, NEW n, NEW calls, NEW s, NEW j, NEW k,
         Presents(base, u, n, calls, s, j, k), NEW l \in DOMAIN base, l >= k
  PROVE  \E i \in DOMAIN s : i = l - k + 1 + j /\ i > j /\ s[i] = base[l]
<1> DEFINE i == l - k + 1 + j
<1>1. /\ j \in Nat /\ k \in Nat /\ k > 0 /\ Len(base) \in Nat /\ k <= Len(base) + 1
      /\ Len(s) = j + Len(base) + 1 - k /\ l \in 1..Len(base)
  BY PresentsTypes
<1>5. l \in Nat /\ k <= l /\ l <= Len(base)
  BY <1>1
<1>8. j \in Nat /\ k \in Nat
  BY <1>1
<1>6. i \in Nat /\ i > 0 /\ i > j /\ i - j + k - 1 = l /\ i = l - k + 1 + j
  <2>1. \A x, y, z \in Nat : y <= x =>
          /\ x - y + 1 + z \in Nat /\ x - y + 1 + z > 0 /\ x - y + 1 + z > z
          /\ (x - y + 1 + z) - z + y - 1 = x
    OBVIOUS
  <2> QED
    BY <1>5, <1>8, <2>1
<1>7. i <= j + Len(base) + 1 - k
  <2>1. \A x, y \in Nat : x <= y => x - k + 1 + j <= j + y + 1 - k
    BY <1>1
  <2> QED
    BY <1>1, <1>5, <2>1
<1>2. i \in 1..Len(s) /\ i > j /\ i - j + k - 1 = l /\ i = l - k + 1 + j
  BY <1>1, <1>6, <1>7
<1> HIDE DEF i
<1>3. i \in DOMAIN s
  BY <1>2, PresentsTypes
<1>4. s[i] = base[i - j + k - 1]
  BY <1>2, <1>3 DEF Presents, Shown
<1> QED
  BY <1>2, <1>3, <1>4

\* What is shown is a marker or a message, none of them later than the chat's.
LEMMA ShownMessages ==
  ASSUME NEW base, NEW u, NEW n, NEW calls, NEW s, NEW j, NEW k,
         Presents(base, u, n, calls, s, j, k)
  PROVE  /\ \A i \in DOMAIN s : Raw(s[i], n) \/ Mark(s[i])
         /\ \A i \in DOMAIN s : s[i].id <= n
         /\ Ids(s) \subseteq Ids(base)
<1>1. ASSUME NEW i \in DOMAIN s
      PROVE  \/ Mark(s[i])
             \/ Raw(s[i], n) /\ s[i].id \in Ids(base)
  <2>1. \A l \in DOMAIN base : base[l].id \in Ids(base)
    BY LogIds DEF Presents, Asks
  <2>2. i \in Nat /\ j \in Nat
    BY PresentsTypes
  <2>3. i > j \/ i <= j
    BY <2>2
  <2> QED
    BY <2>1, <2>3, LaterAt, EarlierAt
<1>2. \A i \in DOMAIN s : s[i].id \in Nat /\ (s[i].id = 0 \/ s[i].id \in Ids(base)) /\ s[i].id <= n
  <2>1. ASSUME NEW i \in DOMAIN s, Mark(s[i]) PROVE s[i].id = 0
    BY <2>1 DEF Mark
  <2>2. ASSUME NEW i \in DOMAIN s, Raw(s[i], n) PROVE s[i].id \in Nat /\ s[i].id <= n
    BY <2>2, PresentsTypes DEF Raw
  <2>3. n \in Nat
    BY PresentsTypes
  <2> QED
    BY <1>1, <2>1, <2>2, <2>3
<1>3. ASSUME NEW x \in Ids(s) PROVE x \in Ids(base)
  <2>1. PICK i \in DOMAIN s : s[i].id = x /\ x # 0
    BY MemberOfIds
  <2> QED
    BY <1>2, <2>1
<1> QED
  BY <1>1, <1>2, <1>3

\* A call is shown with its result.
LEMMA ShownWhole ==
  ASSUME NEW base, NEW u, NEW n, NEW calls, NEW s, NEW j, NEW k,
         Presents(base, u, n, calls, s, j, k), calls \subseteq 1..n
  PROVE  Whole(s, calls)
<1>2. ASSUME NEW i \in DOMAIN s
      PROVE  /\ s[i].id \in calls => /\ s[i].role = "assistant"
                                     /\ i + 1 \in DOMAIN s /\ s[i + 1].role = "tool"
             /\ s[i].role = "tool" => i > 1 /\ s[i - 1].id \in calls
  <2>5. j \in Nat /\ k \in Nat /\ k > 0 /\ i \in Nat /\ Len(base) \in Nat /\ DOMAIN base = 1..Len(base)
    BY PresentsTypes
  <2>1. CASE Mark(s[i])
    <3>1. s[i].role = "user" /\ s[i].id = 0
      BY <2>1 DEF Mark
    <3>2. 0 \notin calls
      BY DEF Presents
    <3> QED
      BY <3>1, <3>2
  <2>2. CASE i > j
    <3>1. PICK l \in DOMAIN base : l = i - j + k - 1 /\ l >= k /\ s[i] = base[l]
      BY <2>2, LaterAt
    <3>2. i \in Nat /\ l \in Nat /\ j \in Nat /\ k \in Nat /\ k > 0
      BY <2>5
    <3>3. l = i - j + k - 1 /\ l >= k /\ i > j
      BY <2>2, <3>1
    <3>4. /\ base[l].id \in calls => /\ base[l].role = "assistant"
                                     /\ l + 1 \in DOMAIN base /\ base[l + 1].role = "tool"
          /\ base[l].role = "tool" => l > 1 /\ base[l - 1].id \in calls
      BY DEF Presents, Asks, Log, Whole
    <3>5. ASSUME NEW m \in DOMAIN base, m = l + 1
          PROVE  i + 1 \in DOMAIN s /\ s[i + 1] = base[m]
      <4>0. m \in Nat /\ m = l + 1
        BY <2>5, <3>5
      <4>1. m >= k
        BY <3>2, <3>3, <4>0
      <4>2. PICK p \in DOMAIN s : p = m - k + 1 + j /\ s[p] = base[m]
        BY <4>1, PlaceOf
      <4>3. p = i + 1
        BY <3>2, <3>3, <4>0, <4>2
      <4> QED
        BY <4>2, <4>3
    <3>6. ASSUME base[l].role = "tool", NEW m \in DOMAIN base, m = l - 1
          PROVE  i > 1 /\ s[i - 1] = base[m]
      <4>0. m \in Nat /\ m = l - 1
        BY <2>5, <3>6
      <4>1. l # k
        BY <3>6 DEF Presents, Shown
      <4>2. m >= k
        BY <3>2, <3>3, <4>0, <4>1
      <4>3. PICK p \in DOMAIN s : p = m - k + 1 + j /\ s[p] = base[m]
        BY <4>2, PlaceOf
      <4>4. p = i - 1 /\ i > 1
        BY <3>2, <3>3, <4>0, <4>2, <4>3
      <4> QED
        BY <4>3, <4>4
    <3>7. ASSUME l > 1 PROVE l - 1 \in DOMAIN base
      <4>1. l \in 1..Len(base) /\ l > 1
        BY <2>5, <3>7
      <4>2. l - 1 \in 1..Len(base)
        BY <2>5, <4>1
      <4> QED
        BY <2>5, <4>2
    <3>8. s[i].id \in calls => /\ s[i].role = "assistant"
                               /\ i + 1 \in DOMAIN s /\ s[i + 1].role = "tool"
      BY <3>1, <3>4, <3>5
    <3>9. s[i].role = "tool" => i > 1 /\ s[i - 1].id \in calls
      BY <3>1, <3>4, <3>6, <3>7
    <3> QED
      BY <3>8, <3>9
  <2>3. CASE ~Mark(s[i]) /\ i <= j
    <3>1. PICK l \in DOMAIN base : s[i] = base[l] /\ base[l].role = "user"
      BY <2>3, EarlierAt
    <3>2. base[l].id \notin calls
      BY <3>1 DEF Presents, Asks, Log, Whole
    <3> QED
      BY <3>1, <3>2
  <2>4. i > j \/ i <= j
    BY <2>5
  <2> QED
    BY <2>1, <2>2, <2>3, <2>4
<1> QED
  BY <1>2 DEF Whole

\* Where a request has the question of its turn.
Place(u, j, k) == IF u < k THEN 2 ELSE u - k + 1 + j

\* The question is in every request that shows its chat, as its latest user message.
LEMMA QuestionPlace ==
  ASSUME NEW base, NEW u, NEW n, NEW calls, NEW s, NEW j, NEW k,
         Presents(base, u, n, calls, s, j, k)
  PROVE  /\ Place(u, j, k) \in DOMAIN s /\ s[Place(u, j, k)] = base[u]
         /\ Last0(Roles(s, "user")) = Place(u, j, k)
         /\ Place(u, j, k) > 0 /\ (j > 0 => Place(u, j, k) > 1) /\ (u < k => j = 2)
         /\ \A i \in DOMAIN s : i > Place(u, j, k) => s[i].role # "user"
<1> DEFINE p == Place(u, j, k)
<1>1. /\ u \in Nat /\ u > 0 /\ j \in Nat /\ j <= 2 /\ k \in Nat /\ k > 0 /\ Len(s) \in Nat
      /\ Len(base) \in Nat /\ Len(s) = j + Len(base) + 1 - k /\ u <= Len(base)
  BY PresentsTypes
<1>2. u < k => j = 2 /\ s[2] = base[u]
  BY DEF Presents, Shown
<1>3. p \in DOMAIN s /\ s[p] = base[u] /\ p > 0 /\ p \in Nat /\ (j > 0 => p > 1)
  <2>1. CASE u < k
    <3>1. j = 2 /\ k <= Len(base) + 1 /\ DOMAIN s = 1..Len(s)
      BY <1>2, <2>1, PresentsTypes
    <3>2. p = 2 /\ 2 \in 1..Len(s)
      BY <1>1, <2>1, <3>1 DEF Place
    <3> QED
      BY <1>2, <2>1, <3>1, <3>2
  <2>2. CASE ~(u < k)
    <3>1. p = u - k + 1 + j /\ u >= k
      BY <1>1, <2>2 DEF Place
    <3>2. \E i \in DOMAIN s : i = u - k + 1 + j /\ i > j /\ s[i] = base[u]
      BY <3>1, PlaceOf, PresentsTypes
    <3>3. p \in DOMAIN s /\ s[p] = base[u]
      BY <3>1, <3>2
    <3>4. p > 0 /\ p \in Nat /\ (j > 0 => p > 1)
      BY <1>1, <3>1
    <3> QED
      BY <3>3, <3>4
  <2> QED
    BY <2>1, <2>2
<1>4. ASSUME NEW i \in DOMAIN s, i > p PROVE s[i].role # "user"
  <2>1. i \in Nat
    BY PresentsTypes
  <2>2. i > j /\ i - j + k - 1 > u
    BY <1>1, <1>2, <1>3, <1>4, <2>1 DEF Place
  <2>3. PICK l \in DOMAIN base : l = i - j + k - 1 /\ s[i] = base[l]
    BY <2>2, LaterAt
  <2> QED
    BY <2>2, <2>3 DEF Presents, Asks
<1>5. Last0(Roles(s, "user")) = p
  <2>1. p \in Roles(s, "user")
    BY <1>3 DEF Roles, Presents, Asks
  <2>2. Roles(s, "user") \subseteq Nat
    BY PresentsTypes DEF Roles
  <2>3. \A i \in Roles(s, "user") : i <= p
    BY <1>3, <1>4, <2>2 DEF Roles
  <2> QED
    BY <2>1, <2>2, <2>3, Last0Of
<1> QED
  BY <1>2, <1>3, <1>4, <1>5

\* After the question, the latest step of a request is that of the turn.
LEMMA StepPlace ==
  ASSUME NEW base, NEW u, NEW n, NEW calls, NEW s, NEW j, NEW k,
         Presents(base, u, n, calls, s, j, k), LatestStep(s) > Place(u, j, k)
  PROVE  \E l \in DOMAIN base :
           /\ IsStep(base, u, l) /\ l >= k /\ LatestStep(s) = l - k + 1 + j
           /\ LatestStep(s) \in DOMAIN s /\ s[LatestStep(s)] = base[l]
<1> DEFINE p == Place(u, j, k)
           S == Roles(s, "assistant")
           a == LatestStep(s)
<1>1. /\ u \in Nat /\ u > 0 /\ j \in Nat /\ j <= 2 /\ k \in Nat /\ k > 0 /\ Len(s) \in Nat
      /\ Len(base) \in Nat /\ Len(s) = j + Len(base) + 1 - k /\ u <= Len(base)
  BY PresentsTypes
<1>2. p \in DOMAIN s /\ p > 0 /\ (j > 0 => p > 1) /\ (u < k => j = 2)
  BY QuestionPlace
<1>0. p \in Nat
  BY <1>2, PresentsTypes
<1>3. S # {}
  BY <1>0, <1>2 DEF LatestStep, Last0
<1>4. a \in S /\ \A i \in S : i <= a
  <2>1. S \subseteq Nat /\ \A i \in S : i <= Len(s)
    BY PresentsTypes DEF Roles
  <2> HIDE DEF S
  <2>2. PICK i \in S : \A l \in S : l <= i
    BY <1>1, <1>3, <2>1, GreatestNat
  <2>3. a = i
    BY <2>1, <2>2, Last0Of DEF LatestStep, S
  <2> QED
    BY <2>2, <2>3
<1>5. a \in DOMAIN s /\ s[a].role = "assistant"
  BY <1>4 DEF Roles
<1>6. a > p /\ LatestStep(s) = a
  OBVIOUS
<1> HIDE DEF a
<1>12. a \in Nat /\ a > p /\ p \in Nat /\ p > 0 /\ (j > 0 => p > 1) /\ (u < k => j = 2)
  BY <1>0, <1>2, <1>5, <1>6, PresentsTypes, SMTT(30)
<1>7. a > j
  BY <1>1, <1>12 DEF Place
<1>13. a - j + k - 1 > u
  BY <1>1, <1>12 DEF Place
<1>8. PICK l \in DOMAIN base : l = a - j + k - 1 /\ l >= k /\ s[a] = base[l]
  BY <1>5, <1>7, LaterAt
<1>14. l \in Nat /\ l > u /\ a = l - k + 1 + j
  BY <1>1, <1>8, <1>12, <1>13
<1>9. ASSUME NEW m \in DOMAIN base, m > l PROVE base[m].role # "assistant"
  <2>0. m \in Nat /\ m > l
    BY <1>9, PresentsTypes
  <2>1. m >= k /\ m - k + 1 + j > a
    BY <1>1, <1>8, <1>12, <1>14, <2>0
  <2>2. PICK i \in DOMAIN s : i = m - k + 1 + j /\ s[i] = base[m]
    BY <2>1, PlaceOf
  <2>4. i \in Nat /\ i > a
    BY <2>1, <2>2, PresentsTypes, SMTT(30)
  <2>3. i \notin S
    BY <1>4, <1>12, <2>4
  <2> QED
    BY <2>2, <2>3 DEF Roles
<1>10. IsStep(base, u, l)
  BY <1>5, <1>8, <1>9, <1>14 DEF IsStep
<1> QED
  BY <1>5, <1>6, <1>8, <1>10, <1>14
-----------------------------------------------------------------------------
(* Where a history and a request are cut                                   *)

\* The recent exchanges begin with a question, or are all of the history.
LEMMA RecentStartIs ==
  ASSUME NEW s \in Seq(Items)
  PROVE  RecentStart(s) \in {1} \cup Roles(s, "user")
<1> DEFINE starts == {1} \cup Roles(s, "user")
           Fit(i) == Total[From(s, i)] <= Recent
           P(i) == /\ Fit(i) \/ \A j \in starts : j <= i
                   /\ \A j \in starts : j < i => Total[From(s, j)] > Recent
           G == {i \in starts : Fit(i)}
<1>1. Len(s) \in Nat /\ DOMAIN s = 1..Len(s) /\ Recent \in Nat
  BY ContextSizes
<1>2. starts \subseteq 1..Len(s) + 1 /\ 1 \in starts
  BY <1>1 DEF Roles
<1>3. \A i \in starts : Total[From(s, i)] \in Nat
  BY <1>2, FromIs, TotalType
<1>4. RecentStart(s) = CHOOSE i \in starts : P(i)
  BY DEF RecentStart
<1>5. \E i \in starts : P(i)
  <2> HIDE DEF starts
  <2>1. CASE G # {}
    <3>1. G \subseteq Nat
      <4>1. starts \subseteq Nat
        BY <1>1, <1>2
      <4> QED
        BY <4>1
    <3>2. PICK i \in G : \A j \in G : i <= j
      BY <2>1, <3>1, LeastNat
    <3>3. ASSUME NEW j \in starts, j < i PROVE Total[From(s, j)] > Recent
      <4>1. j \notin G
        BY <3>1, <3>2, <3>3, <1>1, <1>2
      <4> QED
        BY <4>1, <1>1, <1>3
    <3> QED
      BY <3>2, <3>3
  <2>2. CASE G = {}
    <3>1. starts \subseteq Nat /\ (\A i \in starts : i <= Len(s) + 1) /\ Len(s) + 1 \in Nat
      BY <1>1, <1>2
    <3>2. PICK i \in starts : \A j \in starts : j <= i
      BY <1>2, <3>1, GreatestNat
    <3>3. \A j \in starts : Total[From(s, j)] > Recent
      BY <2>2, <1>1, <1>3
    <3> QED
      BY <3>2, <3>3
  <2> QED
    BY <2>1, <2>2
<1> HIDE DEF P, starts
<1>6. RecentStart(s) \in starts
  BY <1>4, <1>5, Zenon
<1> QED
  BY <1>6 DEF starts

\* t is c messages, and s from its message a on.
Tails(t, s, c, a) ==
  /\ t \in Seq(Items) /\ Len(t) = c + Len(s) + 1 - a
  /\ \A i \in DOMAIN t : i > c => s[i - c + a - 1] = t[i]

\* The c messages are a marker and a question, the latest one if base is cut behind it;
\* no later step is cut off.
Heads(t, base, u, c, h) ==
  /\ c \in {1, 2} /\ Mark(t[1])
  /\ c = 2 => \E i \in 1..h - 1 : t[2] = base[i] /\ base[i].role = "user"
  /\ u < h => c = 2 /\ t[2] = base[u]
  /\ \A i \in DOMAIN base : IsStep(base, u, i) => i >= h

\* The place in base of message a of a request, which is not in its head.
Behind(s, j, k, a, h) ==
  /\ a \in Nat /\ a > j /\ a <= Len(s) + 1 /\ h = k + a - 1 - j
  /\ a \in DOMAIN s => s[a].role # "tool"

\* A request that is cut before its message a, behind the c first messages of its base.
LEMMA Cutting ==
  ASSUME NEW base, NEW u, NEW n, NEW calls, NEW s, NEW j, NEW k,
         Presents(base, u, n, calls, s, j, k), NEW t, NEW c, NEW a, NEW h,
         Tails(t, s, c, a), Heads(t, base, u, c, h), Behind(s, j, k, a, h)
  PROVE  Shown(t, base, u, c, h) /\ h \in 1..Len(base) + 1
<1>5. /\ a \in Nat /\ a > j /\ a <= Len(s) + 1 /\ h = k + a - 1 - j
      /\ a \in DOMAIN s => s[a].role # "tool"
  BY DEF Behind
<1>6. t \in Seq(Items) /\ Len(t) = c + Len(s) + 1 - a /\ c \in {1, 2}
  BY DEF Tails, Heads
<1>1. /\ j \in Nat /\ k \in Nat /\ k > 0 /\ k <= Len(base) + 1 /\ Len(base) \in Nat /\ Len(s) \in Nat
      /\ Len(s) = j + Len(base) + 1 - k /\ DOMAIN s = 1..Len(s) /\ DOMAIN base = 1..Len(base)
  BY PresentsTypes
<1>2. h \in 1..Len(base) + 1 /\ Len(t) = c + Len(base) + 1 - h /\ h \in Nat /\ c \in Nat
  <2>1. c \in Nat
    BY <1>6
  <2>2. /\ h = k + a - 1 - j /\ a \in Nat /\ k \in Nat /\ j \in Nat /\ a > j /\ k > 0
        /\ a <= Len(s) + 1 /\ Len(s) = j + Len(base) + 1 - k /\ Len(base) \in Nat
    BY <1>1, <1>5
  <2>3. h \in Nat /\ h >= 1 /\ h <= Len(base) + 1
    BY <2>2
  <2>4. Len(t) = c + Len(s) + 1 - a
    BY <1>6
  <2>5. Len(t) = c + Len(base) + 1 - h
    BY <2>1, <2>2, <2>4
  <2> QED
    BY <2>1, <2>2, <2>3, <2>5
<1>3. ASSUME NEW i \in DOMAIN t, i > c PROVE t[i] = base[i - c + h - 1]
  <2> DEFINE m == i - c + a - 1
  <2>1. i \in Nat /\ i <= Len(t) /\ c \in Nat
    BY <1>6
  <2>5. i <= c + Len(s) + 1 - a /\ h = k + a - 1 - j /\ i > c /\ a \in Nat /\ a > j
    BY <1>3, <1>5, <1>6, <2>1
  <2>2. m \in Nat /\ m > j /\ m >= 1 /\ m <= Len(s) /\ m - j + k - 1 = i - c + h - 1
    <3>1. i - c >= 1 /\ i - c \in Nat /\ m = (i - c) + a - 1
      <4>1. \A x, y \in Nat : x > y => x - y >= 1 /\ x - y \in Nat
        OBVIOUS
      <4> QED
        BY <2>1, <2>5, <4>1
    <3>2. i - c <= Len(s) + 1 - a
      BY <1>1, <2>1, <2>5
    <3>3. \A y \in Nat : y >= 1 /\ y <= Len(s) + 1 - a =>
            LET z == y + a - 1
            IN z \in Nat /\ z > j /\ z >= 1 /\ z <= Len(s) /\ z - j + k - 1 = y + (k + a - 1 - j) - 1
      BY <1>1, <1>5
    <3> QED
      BY <2>5, <3>1, <3>2, <3>3
  <2>3. m \in DOMAIN s /\ s[m] = t[i]
    BY <1>1, <1>3, <2>2 DEF Tails
  <2> HIDE DEF m
  <2>4. \E l \in DOMAIN base : l = m - j + k - 1 /\ s[m] = base[l]
    BY <2>2, <2>3, LaterAt
  <2> QED
    BY <2>2, <2>3, <2>4
<1>4. ASSUME h \in DOMAIN base PROVE base[h].role # "tool"
  <2>1. h >= k /\ h - k + 1 + j = a
    BY <1>1, <1>5
  <2>2. a \in DOMAIN s /\ s[a] = base[h]
    BY <1>4, <2>1, PlaceOf
  <2> QED
    BY <1>5, <2>2
<1> QED
  BY <1>2, <1>3, <1>4, <1>6 DEF Shown, Heads
\* A request is a front, and another one from its message a on.
LEMMA Fronted ==
  ASSUME NEW f \in Seq(Items), NEW s \in Seq(Items), NEW a, a \in 1..Len(s) + 1
  PROVE  /\ Tails(f \o From(s, a), s, Len(f), a)
         /\ \A i \in 1..Len(f) : (f \o From(s, a))[i] = f[i]
<1> DEFINE c == Len(f)
           t == f \o From(s, a)
<1> DEFINE r == From(s, a)
<1>1. /\ r \in Seq(Items) /\ Len(r) = Len(s) + 1 - a /\ Len(s) \in Nat /\ c \in Nat
      /\ \A i \in 1..Len(s) + 1 - a : r[i] = s[a + i - 1]
  BY FromIs
<1>5. t = f \o r /\ c = Len(f)
  OBVIOUS
<1> HIDE DEF r, t, c
<1>2. /\ t \in Seq(Items) /\ Len(t) = Len(f) + Len(r) /\ DOMAIN t = 1..Len(f) + Len(r)
      /\ \A i \in 1..Len(f) : t[i] = f[i]
      /\ \A i \in 1..Len(r) : t[Len(f) + i] = r[i]
  <2>1. /\ f \o r \in Seq(Items) /\ Len(f \o r) = Len(f) + Len(r)
        /\ DOMAIN (f \o r) = 1..Len(f) + Len(r)
        /\ \A i \in 1..Len(f) : (f \o r)[i] = f[i]
        /\ \A i \in 1..Len(r) : (f \o r)[Len(f) + i] = r[i]
    BY <1>1, ConcatIs
  <2> QED
    BY <1>5, <2>1, Zenon
<1>3. ASSUME NEW i \in DOMAIN t, i > c PROVE s[i - c + a - 1] = t[i]
  <2>0. i \in Nat /\ c \in Nat /\ a \in Nat /\ Len(r) \in Nat
    BY <1>1, <1>2, <1>3
  <2>1. i > c /\ i <= c + Len(r)
    BY <1>2, <1>3, <1>5
  <2>2. PICK d \in Nat : i = c + d
    <3>1. \A x, y \in Nat : x > y => \E z \in Nat : x = y + z
      <4>1. \A x, y \in Nat : x > y => x - y \in Nat /\ x = y + (x - y)
        OBVIOUS
      <4> QED
        BY <4>1
    <3> QED
      BY <2>0, <2>1, <3>1
  <2>3. d \in 1..Len(r) /\ a + d - 1 = i - c + a - 1
    BY <2>0, <2>1, <2>2
  <2>4. t[c + d] = r[d]
    BY <1>2, <1>5, <2>3
  <2>5. r[d] = s[a + d - 1]
    BY <1>1, <2>3
  <2> QED
    BY <2>2, <2>3, <2>4, <2>5
<1>4. Len(t) = c + Len(s) + 1 - a
  BY <1>1, <1>2, <1>5
<1> QED
  BY <1>2, <1>3, <1>4 DEF Tails, t, c

\* Another marker before the question that is kept.
LEMMA Swapped ==
  ASSUME NEW base, NEW u, NEW n, NEW calls, NEW s, NEW k,
         Presents(base, u, n, calls, s, 2, k), NEW t, Tails(t, s, 1, 2), Mark(t[1])
  PROVE  Shown(t, base, u, 2, k) /\ k \in 1..Len(base) + 1
<1>5. /\ k \in Nat /\ k > 0 /\ k <= Len(base) + 1 /\ Len(base) \in Nat
      /\ Len(s) \in Nat /\ Len(s) = 2 + Len(base) + 1 - k /\ DOMAIN s = 1..Len(s)
  BY PresentsTypes
<1>6. t \in Seq(Items) /\ Len(t) = 1 + Len(s) + 1 - 2
  BY DEF Tails
<1>1. Len(t) = Len(s) /\ DOMAIN t = 1..Len(s)
  BY <1>5, <1>6
<1>7. ASSUME NEW i \in DOMAIN t, i > 1 PROVE t[i] = s[i]
  <2>1. i - 1 + 2 - 1 = i
    BY <1>1
  <2>2. s[i - 1 + 2 - 1] = t[i]
    BY <1>7 DEF Tails
  <2> QED
    BY <2>1, <2>2
<1>2. 2 \in DOMAIN t
  BY <1>1, <1>5
<1>3. t[2] = s[2]
  BY <1>2, <1>7
<1>4. \A i \in DOMAIN t : i > 2 => t[i] = s[i]
  BY <1>1, <1>7
<1> QED
  BY <1>1, <1>3, <1>4, <1>5, <1>6 DEF Presents, Shown

\* What of a chat a request has among its first m messages.
LEMMA AmongFirst ==
  ASSUME NEW base, NEW u, NEW n, NEW calls, NEW s, NEW j, NEW k,
         Presents(base, u, n, calls, s, j, k), NEW m \in Nat, m >= j, m <= Len(s),
         NEW l \in DOMAIN base, l >= k, l < k + m - j
  PROVE  \E i \in 1..m : i = l - k + 1 + j /\ s[i] = base[l]
<1>1. PICK i \in DOMAIN s : i = l - k + 1 + j /\ i > j /\ s[i] = base[l]
  BY PlaceOf
<1>2. i \in Nat /\ i > 0 /\ l \in Nat /\ k \in Nat /\ j \in Nat
  BY PresentsTypes, SMTT(30)
<1>3. i <= m
  BY <1>1, <1>2
<1> QED
  BY <1>1, <1>2, <1>3

\* RequestCheckpoints.restore(): a request that begins with the prefix of a cut.
LEMMA RestoreShows ==
  ASSUME NEW base, NEW u, NEW n, NEW calls, NEW s, NEW j, NEW k,
         Presents(base, u, n, calls, s, j, k), calls \subseteq 1..n, Stands(s) = Ids(base),
         NEW r \in [prefix : Seq(Items), marker : Items, keep : Nat],
         CutOK(r, n, calls), Spares(r, base, u), Matches(s, r.prefix),
         NEW t, t = <<r.marker>> \o (IF r.keep = 0 THEN <<>> ELSE <<s[r.keep]>>)
                      \o From(s, Len(r.prefix) + 1)
  PROVE  Showing(t, base, u)
<1>1. /\ j \in Nat /\ j <= 2 /\ k \in Nat /\ k > 0 /\ k <= Len(base) + 1 /\ Len(base) \in Nat
      /\ Len(s) \in Nat /\ s \in Seq(Items) /\ DOMAIN s = 1..Len(s)
      /\ Len(s) = j + Len(base) + 1 - k /\ u \in DOMAIN base /\ u \in Nat
  BY PresentsTypes
<1> DEFINE f == <<r.marker>> \o (IF r.keep = 0 THEN <<>> ELSE <<s[r.keep]>>)
<1>13. f = <<r.marker>> \o (IF r.keep = 0 THEN <<>> ELSE <<s[r.keep]>>)
  OBVIOUS
<1> HIDE DEF f
<1>14. Len(r.prefix) \in Nat /\ Len(r.prefix) > 0
  BY DEF CutOK
<1>15. PICK m \in Nat, a \in Nat, h \in Nat :
         /\ m = Len(r.prefix) /\ a = m + 1 /\ h = k + a - 1 - j /\ m > 0
  BY <1>1, <1>14
<1>0. /\ m = Len(r.prefix) /\ a = m + 1 /\ h = k + a - 1 - j /\ t = f \o From(s, a)
      /\ f = <<r.marker>> \o (IF r.keep = 0 THEN <<>> ELSE <<s[r.keep]>>)
  BY <1>13, <1>15
<1>2. /\ r.prefix \in Seq(Items) /\ r.marker \in Items /\ r.keep \in Nat
      /\ r.prefix # <<>> /\ Mark(r.marker) /\ r.keep \in 0..m
  BY <1>0 DEF CutOK
<1>3. m \in Nat /\ m > 0 /\ m <= Len(s) /\ DOMAIN r.prefix = 1..m /\ UpTo(s, m) = r.prefix
  BY <1>0, <1>2 DEF Matches
<1>12. m \in 0..Len(s) /\ a \in 1..Len(s) + 1 /\ a <= Len(s) + 1
  BY <1>0, <1>1, <1>3, SMTT(30)
<1>4. \A i \in 1..m : r.prefix[i] = s[i] /\ i \in DOMAIN s
  <2>1. \A i \in 1..m : UpTo(s, m)[i] = s[i]
    BY <1>1, <1>12, UpToIs
  <2>2. \A i \in 1..m : i \in 1..Len(s)
    BY <1>1, <1>3
  <2> QED
    BY <1>1, <1>3, <2>1, <2>2
<1>5. /\ r.keep # 0 => s[r.keep].role = "user" /\ s[r.keep].id # 0 /\ r.keep \in 1..m
      /\ \A i \in 1..m : r.keep # 0 /\ i > r.keep => s[i].role # "user"
  <2>1. r.keep # 0 => r.keep \in 1..m
    BY <1>2, <1>3
  <2> QED
    BY <1>3, <1>4, <2>1 DEF CutOK
<1>6. a \in DOMAIN s => s[a].role # "tool"
  <2>1. SUFFICES ASSUME a \in DOMAIN s, s[a].role = "tool" PROVE FALSE
    OBVIOUS
  <2>5. Whole(s, calls)
    BY ShownWhole
  <2>2. s[a - 1].id \in calls
    BY <2>1, <2>5 DEF Whole
  <2>3. a - 1 = m /\ m \in 1..m
    BY <1>0, <1>3
  <2>4. r.prefix[m].id \in calls /\ m \in DOMAIN r.prefix
    BY <1>3, <1>4, <2>2, <2>3
  <2>6. m + 1 \in 1..m
    BY <1>3, <2>4 DEF CutOK, Whole
  <2> QED
    BY <1>3, <2>6
<1>7. /\ f \in Seq(Items) /\ Len(f) = (IF r.keep = 0 THEN 1 ELSE 2)
      /\ f[1] = r.marker /\ (r.keep # 0 => f[2] = s[r.keep])
  <2>1. r.keep # 0 => s[r.keep] \in Items
    BY <1>1, <1>4, <1>5
  <2>2. CASE r.keep = 0
    BY <1>0, <1>2, <2>2
  <2>3. CASE r.keep # 0
    BY <1>0, <1>2, <2>1, <2>3
  <2> QED
    BY <2>2, <2>3
<1>16. PICK c \in Nat : c = Len(f)
  BY <1>7
<1>17. t = f \o From(s, a)
  BY <1>0
<1>8. Tails(t, s, c, a) /\ \A i \in 1..c : t[i] = f[i]
  <2>1. /\ Tails(f \o From(s, a), s, Len(f), a)
        /\ \A i \in 1..Len(f) : (f \o From(s, a))[i] = f[i]
    BY <1>1, <1>7, <1>12, Fronted, ZenonT(60)
  <2> QED
    BY <1>16, <1>17, <2>1, Zenon
<1>9. Stands(t) = Ids(base)
  <2>1. Stands(s) = Stands(r.prefix) \cup Stands(From(s, a))
    <3>1. Stands(s) = Stands(UpTo(s, m)) \cup Stands(From(s, m + 1))
      BY <1>1, <1>12, StandsOfSplit
    <3>2. UpTo(s, m) = r.prefix /\ m + 1 = a
      BY <1>0, <1>3
    <3> QED
      BY <3>1, <3>2, Zenon
  <2>2. From(s, a) \in Seq(Items)
    BY <1>1, <1>12, FromIs
  <2>3. Stands(t) = Stands(f) \cup Stands(From(s, a))
    <3>1. Stands(f \o From(s, a)) = Stands(f) \cup Stands(From(s, a))
      BY <1>7, <2>2, StandsOfConcat
    <3>2. t = f \o From(s, a)
      BY <1>0
    <3> QED
      BY <3>1, <3>2, Zenon
  <2>4. Stands(<<r.marker>>) = r.marker.stands
    BY <1>2, StandsOfOne DEF Mark
  <2>5. CASE r.keep = 0
    <3>1. f = <<r.marker>>
      BY <1>0, <1>2, <2>5
    <3>2. Stands(f) = Stands(r.prefix)
      BY <2>4, <2>5, <3>1 DEF CutOK
    <3> QED
      BY <2>1, <2>3, <3>2
  <2>6. CASE r.keep # 0
    <3>1. s[r.keep] \in Items /\ ~Mark(s[r.keep]) /\ r.keep \in DOMAIN s
      BY <1>1, <1>4, <1>5, <2>6, SMTT(30) DEF Mark
    <3>2. s[r.keep].stands = {}
      BY <3>1, ShownMessages DEF Raw
    <3>3. Stands(<<s[r.keep]>>) = {s[r.keep].id}
      BY <1>5, <2>6, <3>2, StandsOfOne
    <3>4. Stands(f) = r.marker.stands \cup {s[r.keep].id}
      <4>1. <<r.marker>> \in Seq(Items) /\ <<s[r.keep]>> \in Seq(Items)
        BY <1>2, <3>1
      <4>2. Stands(<<r.marker>> \o <<s[r.keep]>>) = Stands(<<r.marker>>) \cup Stands(<<s[r.keep]>>)
        BY <4>1, StandsOfConcat
      <4>3. f = <<r.marker>> \o <<s[r.keep]>>
        BY <1>0, <2>6
      <4> QED
        BY <2>4, <3>3, <4>2, <4>3
    <3>5. Stands(f) = Stands(r.prefix)
      BY <1>4, <1>5, <2>6, <3>4 DEF CutOK
    <3> QED
      BY <2>1, <2>3, <3>5
  <2> QED
    BY <2>5, <2>6
<1>10. CASE m < j
  <2>1. m = 1 /\ j = 2
    BY <1>1, <1>3, <1>10
  <2>2. Mark(s[1])
    BY <2>1 DEF Presents, Shown
  <2>3. r.keep = 0
    <3>1. r.keep # 0 => r.keep = 1
      BY <1>5, <2>1
    <3> QED
      BY <1>5, <2>2, <3>1 DEF Mark
  <2>4. c = 1 /\ a = 2
    BY <1>0, <1>7, <1>16, <2>1, <2>3
  <2>5. Tails(t, s, 1, 2) /\ Mark(t[1])
    BY <1>2, <1>7, <1>8, <2>4
  <2>6. Shown(t, base, u, 2, k) /\ k \in 1..Len(base) + 1
    BY <2>1, <2>5, Swapped
  <2>7. 2 \in 0..2
    OBVIOUS
  <2> QED
    BY <1>9, <2>6, <2>7, Zenon DEF Showing
<1>11. CASE m >= j
  <2>1. ASSUME NEW l \in DOMAIN base, l >= k, l < h
        PROVE  \E i \in 1..m : i = l - k + 1 + j /\ s[i] = base[l]
    <3>1. l < k + m - j
      BY <1>0, <1>1, <1>3, <2>1, PresentsTypes
    <3> QED
      BY <1>3, <1>11, <2>1, <3>1, AmongFirst
  <2>2. u < h => Place(u, j, k) \in 1..m
    <3>1. CASE u < k
      <4>1. j = 2
        BY <3>1 DEF Presents, Shown
      <4> QED
        BY <1>11, <1>3, <3>1, <4>1 DEF Place
    <3>2. CASE ~(u < k) /\ u < h
      <4>2. u >= k
        BY <1>1, <3>2
      <4>1. \E i \in 1..m : i = u - k + 1 + j
        BY <1>1, <2>1, <3>2, <4>2
      <4> QED
        BY <3>2, <4>1 DEF Place
    <3> QED
      BY <3>1, <3>2
  <2>3. u < h => r.keep # 0 /\ s[r.keep] = base[u]
    <3>1. SUFFICES ASSUME u < h PROVE r.keep # 0 /\ s[r.keep] = base[u]
      OBVIOUS
    <3> DEFINE p == Place(u, j, k)
    <3>2. /\ p \in 1..m /\ s[p] = base[u] /\ p \in DOMAIN s
          /\ \A i \in DOMAIN s : i > p => s[i].role # "user"
      BY <2>2, <3>1, QuestionPlace
    <3> HIDE DEF p
    <3>3. base[u].role = "user" /\ base[u].id # 0
      BY <1>1, SMTT(30) DEF Presents, Asks, Log, Raw
    <3>4. base[u].id \in Ids(r.prefix)
      BY <1>3, <1>4, <3>2, <3>3, MemberOfIds
    <3>5. r.keep # 0
      BY <3>4 DEF Spares
    <3>6. p <= r.keep /\ r.keep <= p
      BY <1>4, <1>5, <3>2, <3>3, <3>5
    <3>7. p = r.keep
      BY <1>5, <3>2, <3>5, <3>6
    <3> QED
      BY <3>2, <3>5, <3>7
  <2>4. ASSUME NEW i \in DOMAIN base, IsStep(base, u, i) PROVE i >= h
    <3>1. SUFFICES ASSUME i < h PROVE FALSE
      <4>1. i \in Nat
        BY PresentsTypes, SMTT(30)
      <4> QED
        BY <4>1
    <3>2. i >= k
      BY <2>4 DEF Presents, Shown
    <3>3. PICK x \in 1..m : s[x] = base[i]
      BY <2>1, <3>1, <3>2
    <3>4. base[i].id # 0
      BY DEF Presents, Asks, Log, Raw
    <3>5. base[i].id \in Ids(r.prefix)
      BY <1>3, <1>4, <3>3, <3>4, MemberOfIds, SMTT(30)
    <3> QED
      BY <2>4, <3>5 DEF Spares
  <2>5. r.keep # 0 => \E q \in 1..h - 1 : s[r.keep] = base[q] /\ base[q].role = "user"
    <3>1. SUFFICES ASSUME r.keep # 0
                   PROVE  \E q \in 1..h - 1 : s[r.keep] = base[q] /\ base[q].role = "user"
      OBVIOUS
    <3> DEFINE x == r.keep
    <3>2. x \in 1..m /\ x \in DOMAIN s /\ s[x].role = "user" /\ s[x].id # 0 /\ ~Mark(s[x]) /\ x \in Nat
      BY <1>4, <1>5, <3>1 DEF Mark
    <3> HIDE DEF x
    <3>3. CASE x > j
      <4>1. PICK q \in DOMAIN base : q = x - j + k - 1 /\ s[x] = base[q]
        BY <3>2, <3>3, LaterAt
      <4>2. q \in Nat /\ q >= 1
        BY PresentsTypes, SMTT(30)
      <4>3. q <= h - 1 /\ h - 1 \in Nat
        BY <1>0, <1>1, <1>3, <1>11, <3>2, <4>1, <4>2, SMTT(30)
      <4>4. q \in 1..h - 1
        BY <4>2, <4>3
      <4> QED
        BY <3>2, <4>1, <4>4 DEF x
    <3>4. CASE x <= j
      <4>1. PICK q \in DOMAIN base : q < k /\ s[x] = base[q]
        BY <3>2, <3>4, EarlierAt
      <4>2. q \in Nat /\ q >= 1
        BY PresentsTypes, SMTT(30)
      <4>5. h >= k
        BY <1>0, <1>1, <1>3, <1>11
      <4>3. q <= h - 1 /\ h - 1 \in Nat
        BY <1>1, <4>1, <4>2, <4>5
      <4>4. q \in 1..h - 1
        BY <4>2, <4>3
      <4> QED
        BY <3>2, <4>1, <4>4 DEF x
    <3>5. x > j \/ x <= j
      BY <1>1, <3>2
    <3> QED
      BY <3>3, <3>4, <3>5
  <2>6. /\ c \in {1, 2} /\ (c = 2 <=> r.keep # 0) /\ Mark(t[1]) /\ (c = 2 => t[2] = s[r.keep])
    BY <1>2, <1>7, <1>8, <1>16
  <2>7. Behind(s, j, k, a, h)
    BY <1>0, <1>1, <1>3, <1>6, <1>11, <1>12 DEF Behind
  <2>8. Heads(t, base, u, c, h)
    <3>1. c = 2 => \E q \in 1..h - 1 : t[2] = base[q] /\ base[q].role = "user"
      BY <2>5, <2>6
    <3>2. u < h => c = 2 /\ t[2] = base[u]
      BY <2>3, <2>6
    <3> QED
      BY <2>4, <2>6, <3>1, <3>2 DEF Heads
  <2>9. Shown(t, base, u, c, h) /\ h \in 1..Len(base) + 1
    BY <1>8, <2>7, <2>8, Cutting
  <2>10. c \in 0..2
    BY <2>6
  <2> QED
    BY <1>9, <2>9, <2>10, Zenon DEF Showing
<1> QED
  BY <1>1, <1>3, <1>10, <1>11, SMTT(30)
\* Where a message of the chat is shown, if it is.
LEMMA IdPlace ==
  ASSUME NEW base, NEW u, NEW n, NEW calls, NEW s, NEW j, NEW k,
         Presents(base, u, n, calls, s, j, k),
         NEW i \in DOMAIN s, NEW x \in DOMAIN base, s[i].id = base[x].id
  PROVE  i = Place(x, j, k) /\ (x < k => base[x].role = "user")
<1>1. i \in Nat /\ j \in Nat /\ k \in Nat /\ x \in Nat
  BY PresentsTypes
<1>2. base[x].id # 0
  BY DEF Presents, Asks, Log, Raw
<1>3. \A l \in DOMAIN base : base[l].id = base[x].id => l = x
  BY LogIds DEF Presents, Asks
<1>4. CASE i > j
  <2>1. PICK l \in DOMAIN base : l = i - j + k - 1 /\ l >= k /\ s[i] = base[l]
    BY <1>4, LaterAt
  <2>2. l = x
    BY <1>3, <2>1
  <2> QED
    BY <1>1, <2>1, <2>2 DEF Place
<1>5. CASE i <= j
  <2>1. ~Mark(s[i])
    BY <1>2 DEF Mark
  <2>2. PICK l \in DOMAIN base : i = 2 /\ l < k /\ s[i] = base[l] /\ base[l].role = "user"
    BY <1>5, <2>1, EarlierAt
  <2>3. l = x
    BY <1>3, <2>2
  <2> QED
    BY <2>2, <2>3 DEF Place
<1> QED
  BY <1>1, <1>4, <1>5

\* The later messages of a turn are shown behind its question.
LEMMA LaterPlace ==
  ASSUME NEW base, NEW u, NEW n, NEW calls, NEW s, NEW j, NEW k,
         Presents(base, u, n, calls, s, j, k), NEW x \in DOMAIN base, x > u, x >= k
  PROVE  Place(x, j, k) > Place(u, j, k) /\ Place(x, j, k) \in Nat /\ Place(u, j, k) \in Nat
<1>1. /\ u \in Nat /\ x \in Nat /\ j \in Nat /\ k \in Nat
  BY PresentsTypes
<1>2. u < k => j = 2
  BY QuestionPlace
<1> QED
  BY <1>1, <1>2 DEF Place

\* The first messages of a request, without the one at p.
LEMMA StandsWithout ==
  ASSUME NEW s \in Seq(Items), NEW m \in 1..Len(s), NEW p \in 1..m
  PROVE  LET rest == UpTo(s, p - 1) \o SubSeq(s, p + 1, m)
         IN /\ rest \in Seq(Items)
            /\ \A i \in DOMAIN rest : \E x \in DOMAIN s : rest[i] = s[x]
            /\ Stands(UpTo(s, m)) = Stands(rest) \cup Stands(<<s[p]>>)
<1> DEFINE f == UpTo(s, p - 1)
           g == SubSeq(s, p + 1, m)
           e == UpTo(s, m)
<1>1. Len(s) \in Nat /\ m \in Nat /\ p \in Nat /\ p <= m /\ m <= Len(s) /\ p > 0
  OBVIOUS
<1>2. /\ f \in Seq(Items) /\ Len(f) = p - 1 /\ DOMAIN f = 1..p - 1
      /\ \A i \in 1..p - 1 : f[i] = s[i]
  <2>1. p - 1 \in 0..Len(s)
    BY <1>1
  <2> QED
    BY <2>1, UpToIs
<1>3. /\ e \in Seq(Items) /\ Len(e) = m /\ DOMAIN e = 1..m
      /\ \A i \in 1..m : e[i] = s[i]
  <2>1. m \in 0..Len(s)
    BY <1>1
  <2> QED
    BY <2>1, UpToIs
<1>4. /\ g \in Seq(Items) /\ Len(g) = m - p /\ DOMAIN g = 1..m - p
      /\ \A i \in 1..m - p : g[i] = s[p + i]
  BY <1>1
<1> HIDE DEF f, g, e
<1>5. /\ f \o g \in Seq(Items) /\ Len(f \o g) = Len(f) + Len(g)
      /\ DOMAIN (f \o g) = 1..Len(f) + Len(g)
      /\ \A i \in 1..Len(f) : (f \o g)[i] = f[i]
      /\ \A i \in 1..Len(g) : (f \o g)[Len(f) + i] = g[i]
  BY <1>2, <1>4, ConcatIs
<1>6. Stands(f \o g) = Stands(f) \cup Stands(g)
  BY <1>2, <1>4, StandsOfConcat
<1>7. ASSUME NEW i \in DOMAIN (f \o g) PROVE \E x \in DOMAIN s : (f \o g)[i] = s[x]
  <2>1. i \in Nat /\ i > 0 /\ i <= (p - 1) + (m - p)
    BY <1>1, <1>2, <1>4, <1>5
  <2>2. CASE i <= p - 1
    <3>1. i \in 1..p - 1 /\ i \in 1..Len(s)
      BY <1>1, <2>1, <2>2
    <3>2. (f \o g)[i] = s[i]
      BY <1>2, <1>5, <3>1
    <3> QED
      BY <3>1, <3>2
  <2>3. CASE i > p - 1
    <3>1. PICK d \in Nat : i = (p - 1) + d
      <4>1. i - (p - 1) \in Nat /\ i = (p - 1) + (i - (p - 1))
        BY <1>1, <2>1, <2>3
      <4> QED
        BY <4>1
    <3>2. d \in 1..m - p /\ p + d \in 1..Len(s)
      BY <1>1, <2>1, <2>3, <3>1
    <3>3. (f \o g)[i] = s[p + d]
      BY <1>2, <1>4, <1>5, <3>1, <3>2
    <3> QED
      BY <3>2, <3>3
  <2> QED
    BY <1>1, <2>1, <2>2, <2>3
<1>8. ASSUME NEW y PROVE y \in Stands(e) <=> y \in Stands(f) \/ y \in Stands(g) \/ y \in Stands(<<s[p]>>)
  <2> DEFINE Has(x) == (y # 0 /\ x.id = y) \/ y \in x.stands
  <2>1. y \in Stands(e) <=> \E i \in 1..m : Has(s[i])
    BY <1>3, MemberOfStands
  <2>2. y \in Stands(f) <=> \E i \in 1..p - 1 : Has(s[i])
    BY <1>2, MemberOfStands
  <2>9. y \in Stands(g) <=> \E i \in DOMAIN g : Has(g[i])
    BY MemberOfStands
  <2>4. y \in Stands(<<s[p]>>) <=> Has(s[p])
    BY StandsOfOne
  <2> HIDE DEF Has
  <2>3. y \in Stands(g) <=> \E i \in 1..m - p : Has(s[p + i])
    BY <1>4, <2>9
  <2>5. ASSUME NEW i \in 1..m
        PROVE  i \in 1..p - 1 \/ i = p \/ \E d \in 1..m - p : i = p + d
    <3>1. i > p => i - p \in 1..m - p /\ i = p + (i - p)
      BY <1>1
    <3> QED
      BY <1>1, <3>1
  <2>6. \A i \in 1..p - 1 : i \in 1..m
    BY <1>1
  <2>7. \A i \in 1..m - p : p + i \in 1..m
    BY <1>1
  <2>8. p \in 1..m
    BY <1>1
  <2> QED
    BY <2>1, <2>2, <2>3, <2>4, <2>5, <2>6, <2>7, <2>8
<1>9. Stands(e) = Stands(f \o g) \cup Stands(<<s[p]>>)
  BY <1>6, <1>8
<1> QED
  BY <1>5, <1>7, <1>9 DEF f, g, e

\* A cut behind message m, which is not between a call and its result.
EndsAt(s, m) == m \in 1..Len(s) /\ (m + 1 \in DOMAIN s => s[m + 1].role # "tool")

\* The first messages of a request, and what of the chat is among them.
Prefix(base, n, calls, s, j, k, m) ==
  /\ UpTo(s, m) \in Seq(Items) /\ UpTo(s, m) # <<>> /\ DOMAIN UpTo(s, m) = 1..m
  /\ \A i \in 1..m : UpTo(s, m)[i] = s[i] /\ i \in DOMAIN s
  /\ Whole(UpTo(s, m), calls)
  /\ \A i \in 1..m : UpTo(s, m)[i].id <= n
  /\ Ids(UpTo(s, m)) \subseteq Ids(base)
  /\ \A x \in DOMAIN base :
       base[x].id \in Ids(UpTo(s, m)) => Place(x, j, k) \in 1..m

\* What a checkpoint of the first m messages of a request would replace.
LEMMA CutOf ==
  ASSUME NEW base, NEW u, NEW n, NEW calls, NEW s, NEW j, NEW k,
         Presents(base, u, n, calls, s, j, k), calls \subseteq 1..n,
         NEW m, EndsAt(s, m)
  PROVE  Prefix(base, n, calls, s, j, k, m)
<1>1. s \in Seq(Items) /\ Len(s) \in Nat /\ DOMAIN s = 1..Len(s) /\ m \in 0..Len(s) /\ m \in Nat /\ m > 0
  BY PresentsTypes DEF EndsAt
<1>2. /\ UpTo(s, m) \in Seq(Items) /\ Len(UpTo(s, m)) = m /\ DOMAIN UpTo(s, m) = 1..m
      /\ \A i \in 1..m : UpTo(s, m)[i] = s[i]
  BY <1>1, UpToIs
<1>3. \A i \in 1..m : i \in DOMAIN s
  BY <1>1
<1>4. UpTo(s, m) # <<>>
  BY <1>1, <1>2
<1>5. Whole(UpTo(s, m), calls)
  <2>1. Whole(s, calls)
    BY ShownWhole
  <2> QED
    BY <1>1, <2>1, WholeUpTo DEF EndsAt
<1>6. /\ \A i \in DOMAIN s : s[i].id <= n
      /\ Ids(s) \subseteq Ids(base)
  BY ShownMessages
<1>7. \A y \in Ids(UpTo(s, m)) : \E i \in 1..m : s[i].id = y /\ y # 0
  BY <1>2, MemberOfIds
<1>8. Ids(UpTo(s, m)) \subseteq Ids(s)
  BY <1>3, <1>7, MemberOfIds
<1>9. ASSUME NEW x \in DOMAIN base, base[x].id \in Ids(UpTo(s, m)) PROVE Place(x, j, k) \in 1..m
  <2>1. PICK i \in 1..m : s[i].id = base[x].id
    BY <1>7, <1>9
  <2>2. i = Place(x, j, k)
    BY <1>3, <2>1, IdPlace
  <2> QED
    BY <2>2
<1> QED
  BY <1>2, <1>3, <1>4, <1>5, <1>6, <1>8, <1>9 DEF Prefix
\* splitRequest(), which cuts a request before the question of its turn.
LEMMA CutBefore ==
  ASSUME NEW base, NEW u, NEW n, NEW calls, NEW s, NEW j, NEW k,
         Presents(base, u, n, calls, s, j, k), calls \subseteq 1..n, Stands(s) = Ids(base),
         NEW p, p = Place(u, j, k), p > 1,
         NEW marker, Mark(marker), marker.stands = Stands(UpTo(s, p - 1))
  PROVE  LET r == [prefix |-> UpTo(s, p - 1), marker |-> marker, keep |-> 0]
         IN /\ Showing(<<marker>> \o From(s, p), base, u)
            /\ CutOK(r, n, calls) /\ Spares(r, base, u)
            /\ Ids(UpTo(s, p - 1)) \subseteq Ids(base)
<1> DEFINE r == [prefix |-> UpTo(s, p - 1), marker |-> marker, keep |-> 0]
<1>1. /\ u \in Nat /\ u > 0 /\ j \in Nat /\ j <= 2 /\ k \in Nat /\ k > 0 /\ Len(s) \in Nat
      /\ Len(base) \in Nat /\ Len(s) = j + Len(base) + 1 - k /\ u <= Len(base) /\ u \in DOMAIN base
      /\ s \in Seq(Items) /\ DOMAIN s = 1..Len(s)
  BY PresentsTypes
<1>2. /\ p \in DOMAIN s /\ s[p] = base[u] /\ (u < k => j = 2)
      /\ \A i \in DOMAIN s : i > p => s[i].role # "user"
  BY QuestionPlace
<1>3. /\ base[u].role = "user" /\ \A i \in DOMAIN base : base[i].id # 0
  BY DEF Presents, Asks, Log, Raw
<1>4. p \in Nat /\ p <= Len(s) /\ p - 1 \in 1..Len(s) /\ p - 1 + 1 = p /\ p - 1 \in 0..Len(s) /\ p \in 1..Len(s) + 1
  BY <1>1, <1>2
<1>5. /\ UpTo(s, p - 1) \in Seq(Items) /\ UpTo(s, p - 1) # <<>> /\ DOMAIN UpTo(s, p - 1) = 1..p - 1
      /\ Whole(UpTo(s, p - 1), calls)
      /\ \A i \in 1..p - 1 : UpTo(s, p - 1)[i].id <= n
      /\ Ids(UpTo(s, p - 1)) \subseteq Ids(base)
      /\ \A x \in DOMAIN base :
           base[x].id \in Ids(UpTo(s, p - 1)) => Place(x, j, k) \in 1..p - 1
  <2>1. EndsAt(s, p - 1)
    BY <1>2, <1>3, <1>4 DEF EndsAt
  <2> QED
    <3>1. Prefix(base, n, calls, s, j, k, p - 1)
      BY <2>1, CutOf
    <3> QED
      BY <3>1 DEF Prefix
<1>6. CutOK(r, n, calls)
  <2>1. 0 \in 0..Len(UpTo(s, p - 1))
    BY <1>5
  <2> QED
    BY <1>5, <2>1 DEF CutOK
<1>7. Spares(r, base, u)
  <2>1. p \notin 1..p - 1
    BY <1>4
  <2>2. base[u].id \notin Ids(UpTo(s, p - 1))
    BY <1>1, <1>5, <2>1
  <2>3. ASSUME NEW i \in DOMAIN base, IsStep(base, u, i) PROVE base[i].id \notin Ids(UpTo(s, p - 1))
    <3>1. i > u /\ i >= k
      BY <2>3 DEF IsStep, Presents, Shown
    <3>2. Place(i, j, k) > p /\ Place(i, j, k) \in Nat
      BY <3>1, LaterPlace
    <3>3. Place(i, j, k) \notin 1..p - 1
      BY <1>4, <3>2
    <3> QED
      BY <1>5, <3>3
  <2> QED
    BY <2>2, <2>3 DEF Spares
<1>8. /\ <<marker>> \in Seq(Items) /\ Len(<<marker>>) = 1 /\ <<marker>>[1] = marker
  BY DEF Mark
<1>9. From(s, p) \in Seq(Items)
  BY <1>1, <1>4, FromIs
<1> DEFINE t == <<marker>> \o From(s, p)
<1>10. Tails(t, s, 1, p) /\ t[1] = marker
  <2>1. /\ Tails(<<marker>> \o From(s, p), s, Len(<<marker>>), p)
        /\ \A i \in 1..Len(<<marker>>) : (<<marker>> \o From(s, p))[i] = <<marker>>[i]
    BY <1>1, <1>4, <1>8, Fronted
  <2>2. 1 \in 1..Len(<<marker>>)
    BY <1>8
  <2> QED
    BY <1>8, <2>1, <2>2, Zenon
<1>11. Stands(t) = Ids(base)
  <2>1. Stands(s) = Stands(UpTo(s, p - 1)) \cup Stands(From(s, p - 1 + 1))
    BY <1>1, <1>4, StandsOfSplit
  <2>2. Stands(<<marker>>) = marker.stands
    BY StandsOfOne DEF Mark
  <2>3. Stands(t) = Stands(<<marker>>) \cup Stands(From(s, p))
    BY <1>8, <1>9, StandsOfConcat
  <2> QED
    BY <1>4, <2>1, <2>2, <2>3
<1> HIDE DEF t
<1>12. \E c \in 0..2, h \in 1..Len(base) + 1 : Shown(t, base, u, c, h)
  <2>1. CASE u < k
    <3>1. p = 2 /\ j = 2
      BY <1>2, <2>1 DEF Place
    <3>2. Shown(t, base, u, 2, k) /\ k \in 1..Len(base) + 1
      BY <1>10, <3>1, Swapped
    <3>3. 2 \in 0..2
      OBVIOUS
    <3> QED
      BY <3>2, <3>3, Zenon
  <2>2. CASE ~(u < k)
    <3>1. p = u - k + 1 + j
      BY <2>2 DEF Place
    <3>2. p > j /\ u = k + p - 1 - j
      BY <1>1, <2>2, <3>1
    <3>3. Behind(s, j, k, p, u)
      BY <1>2, <1>3, <1>4, <3>2 DEF Behind
    <3>4. Heads(t, base, u, 1, u)
      <4>1. \A i \in DOMAIN base : IsStep(base, u, i) => i >= u
        <5>1. \A i \in DOMAIN base : i \in Nat
          BY PresentsTypes
        <5> QED
          BY <1>1, <5>1 DEF IsStep
      <4>2. ~(u < u)
        BY <1>1
      <4>3. 1 \in {1, 2} /\ 1 # 2
        OBVIOUS
      <4> QED
        BY <1>10, <4>1, <4>2, <4>3 DEF Heads
    <3>5. Shown(t, base, u, 1, u) /\ u \in 1..Len(base) + 1
      BY <1>10, <3>3, <3>4, Cutting
    <3>6. 1 \in 0..2
      OBVIOUS
    <3> QED
      BY <3>5, <3>6, Zenon
  <2> QED
    BY <2>1, <2>2
<1>13. Showing(t, base, u)
  BY <1>11, <1>12 DEF Showing
<1> QED
  BY <1>5, <1>6, <1>7, <1>13 DEF t

\* splitRequest(), which keeps the question, and cuts before the latest step.
LEMMA CutBetween ==
  ASSUME NEW base, NEW u, NEW n, NEW calls, NEW s, NEW j, NEW k,
         Presents(base, u, n, calls, s, j, k), calls \subseteq 1..n, Stands(s) = Ids(base),
         NEW p, p = Place(u, j, k), NEW a, a = LatestStep(s), a > p,
         NEW marker, Mark(marker),
         marker.stands = Stands(UpTo(s, p - 1) \o SubSeq(s, p + 1, a - 1))
  PROVE  LET r == [prefix |-> UpTo(s, a - 1), marker |-> marker, keep |-> p]
         IN /\ Showing(<<marker>> \o (<<s[p]>> \o From(s, a)), base, u)
            /\ CutOK(r, n, calls) /\ Spares(r, base, u)
            /\ Ids(UpTo(s, a - 1)) \subseteq Ids(base)
<1> DEFINE r == [prefix |-> UpTo(s, a - 1), marker |-> marker, keep |-> p]
<1>1. /\ u \in Nat /\ u > 0 /\ j \in Nat /\ j <= 2 /\ k \in Nat /\ k > 0 /\ Len(s) \in Nat
      /\ Len(base) \in Nat /\ Len(s) = j + Len(base) + 1 - k /\ u <= Len(base) /\ u \in DOMAIN base
      /\ s \in Seq(Items) /\ DOMAIN s = 1..Len(s)
  BY PresentsTypes
<1>2. /\ p \in DOMAIN s /\ s[p] = base[u] /\ p > 0
      /\ \A i \in DOMAIN s : i > p => s[i].role # "user"
  BY QuestionPlace
<1>3. /\ base[u].role = "user" /\ \A i \in DOMAIN base : base[i].id # 0
      /\ base[u].stands = {} /\ base[u] \in Items
  BY <1>1 DEF Presents, Asks, Log, Raw
<1>4. PICK l \in DOMAIN base :
        /\ IsStep(base, u, l) /\ l >= k /\ a = l - k + 1 + j
        /\ a \in DOMAIN s /\ s[a] = base[l]
  BY StepPlace
<1>5. l \in Nat /\ l > u /\ base[l].role = "assistant"
  <2>1. l \in Nat
    BY PresentsTypes
  <2> QED
    BY <1>4, <2>1 DEF IsStep
<1>22. \A i \in DOMAIN base : IsStep(base, u, i) => i = l
  <2>1. \A i \in DOMAIN base : i \in Nat
    BY PresentsTypes
  <2> QED
    BY <1>4, <1>5, <2>1 DEF IsStep
<1>23. a \in Nat /\ p \in Nat /\ a <= Len(s) /\ p > 0 /\ a > p
  BY <1>1, <1>2, <1>4, SMTT(30)
<1>24. PICK m \in Nat : m = a - 1
  <2>1. a - 1 \in Nat
    BY <1>23
  <2> QED
    BY <2>1
<1>6. m = a - 1 /\ m > 0 /\ a = m + 1 /\ p \in 1..m /\ m \in 1..Len(s)
  <2>1. m = a - 1 /\ a \in Nat /\ p \in Nat /\ Len(s) \in Nat /\ a <= Len(s) /\ p > 0 /\ p < a
    BY <1>1, <1>23, <1>24
  <2>2. a = m + 1
    BY <2>1
  <2>3. m > 0 /\ p <= m /\ m <= Len(s)
    BY <2>1, <2>2
  <2> QED
    BY <2>1, <2>2, <2>3
<1>7. /\ UpTo(s, m) \in Seq(Items) /\ UpTo(s, m) # <<>> /\ DOMAIN UpTo(s, m) = 1..m
      /\ \A i \in 1..m : UpTo(s, m)[i] = s[i] /\ i \in DOMAIN s
      /\ Whole(UpTo(s, m), calls)
      /\ \A i \in 1..m : UpTo(s, m)[i].id <= n
      /\ Ids(UpTo(s, m)) \subseteq Ids(base)
      /\ \A x \in DOMAIN base :
           base[x].id \in Ids(UpTo(s, m)) => Place(x, j, k) \in 1..m
  <2>1. s[m + 1].role # "tool"
    BY <1>4, <1>5, <1>6
  <2> QED
    <3>1. EndsAt(s, m)
      BY <1>6, <2>1 DEF EndsAt
    <3>2. Prefix(base, n, calls, s, j, k, m)
      BY <3>1, CutOf
    <3> QED
      BY <3>2 DEF Prefix
<1>8. Stands(UpTo(s, m)) = marker.stands \cup {s[p].id}
  <2>1. Stands(UpTo(s, m)) = Stands(UpTo(s, p - 1) \o SubSeq(s, p + 1, m)) \cup Stands(<<s[p]>>)
    BY <1>1, <1>6, StandsWithout
  <2>2. marker.stands = Stands(UpTo(s, p - 1) \o SubSeq(s, p + 1, m))
    BY <1>6
  <2>3. Stands(<<s[p]>>) = {s[p].id}
    BY <1>1, <1>2, <1>3, StandsOfOne
  <2> QED
    BY <2>1, <2>2, <2>3, Zenon
<1>9. CutOK(r, n, calls)
  <2> DEFINE q == [prefix |-> UpTo(s, m), marker |-> marker, keep |-> p]
  <2>1. r = q
    BY <1>6
  <2>2. UpTo(s, m)[p] = base[u]
    BY <1>2, <1>6, <1>7
  <2>3. p \in 0..Len(UpTo(s, m)) /\ p # 0
    <3>1. Len(UpTo(s, m)) = m
      BY <1>7
    <3> QED
      BY <1>6, <3>1
  <2>4. \A i \in 1..m : i > p => UpTo(s, m)[i].role # "user"
    BY <1>2, <1>7
  <2>5. CutOK(q, n, calls)
    BY <1>1, <1>2, <1>3, <1>7, <1>8, <2>2, <2>3, <2>4 DEF CutOK
  <2> QED
    BY <2>1, <2>5
<1>10. Spares(r, base, u)
  <2>1. ASSUME NEW i \in DOMAIN base, IsStep(base, u, i) PROVE base[i].id \notin Ids(UpTo(s, m))
    <3>1. i = l
      BY <1>22, <2>1
    <3>2. Place(l, j, k) = a
      BY <1>1, <1>4, <1>5 DEF Place
    <3>3. a \notin 1..m
      BY <1>6
    <3> QED
      BY <1>7, <3>1, <3>2, <3>3
  <2>2. p # 0 /\ m = a - 1
    BY <1>2, <1>6
  <2> QED
    BY <2>1, <2>2 DEF Spares
<1> DEFINE f == <<marker>> \o <<s[p]>>
           t == f \o From(s, a)
<1>11. <<marker>> \in Seq(Items) /\ <<s[p]>> \in Seq(Items) /\ a \in 1..Len(s) + 1
  BY <1>1, <1>2, <1>3, <1>4 DEF Mark
<1>12. f \in Seq(Items) /\ Len(f) = 2 /\ f[1] = marker /\ f[2] = s[p]
  BY <1>11
<1>13. From(s, a) \in Seq(Items)
  BY <1>1, <1>11, FromIs
<1>14. t = <<marker>> \o (<<s[p]>> \o From(s, a))
  <2>1. \A x, y, z \in Seq(Items) : (x \o y) \o z = x \o (y \o z)
    OBVIOUS
  <2> QED
    BY <1>11, <1>13, <2>1
<1>15. Stands(t) = Ids(base)
  <2>1. Stands(s) = Stands(UpTo(s, m)) \cup Stands(From(s, m + 1))
    <3>1. m \in 0..Len(s)
      BY <1>1, <1>6
    <3> QED
      BY <1>1, <3>1, StandsOfSplit
  <2>2. Stands(<<marker>>) = marker.stands
    BY StandsOfOne DEF Mark
  <2>3. Stands(<<s[p]>>) = {s[p].id}
    BY <1>1, <1>2, <1>3, StandsOfOne
  <2>4. Stands(f) = Stands(<<marker>>) \cup Stands(<<s[p]>>)
    BY <1>11, StandsOfConcat
  <2>5. From(s, m + 1) = From(s, a)
    BY <1>6
  <2> HIDE DEF f
  <2>6. Stands(t) = Stands(f) \cup Stands(From(s, a))
    BY <1>12, <1>13, StandsOfConcat
  <2> QED
    BY <1>8, <2>1, <2>2, <2>3, <2>4, <2>5, <2>6
<1> HIDE DEF f
<1>16. Tails(t, s, 2, a) /\ t[1] = marker /\ t[2] = s[p]
  <2>1. /\ Tails(f \o From(s, a), s, Len(f), a)
        /\ \A i \in 1..Len(f) : (f \o From(s, a))[i] = f[i]
    <3>1. s \in Seq(Items) /\ f \in Seq(Items) /\ a \in 1..Len(s) + 1
      BY <1>1, <1>11, <1>12
    <3> QED
      BY <3>1, Fronted
  <2>2. 1 \in 1..Len(f) /\ 2 \in 1..Len(f)
    BY <1>12
  <2> QED
    BY <1>12, <2>1, <2>2, Zenon
<1> HIDE DEF t
<1>17. Behind(s, j, k, a, l)
  <2>1. a \in Nat /\ a > j /\ a <= Len(s) + 1 /\ l = k + a - 1 - j
    <3>1. a = l - k + 1 + j /\ l >= k /\ l \in Nat /\ k \in Nat /\ j \in Nat /\ a <= Len(s)
      BY <1>1, <1>4, <1>5
    <3>2. l - k + 1 + j \in Nat /\ l - k + 1 + j > j /\ l = k + (l - k + 1 + j) - 1 - j
      BY <3>1
    <3> QED
      BY <1>1, <3>1, <3>2
  <2> QED
    BY <1>4, <1>5, <2>1 DEF Behind
<1>18. Heads(t, base, u, 2, l)
  <2>1. u \in 1..l - 1
    BY <1>1, <1>5
  <2>2. \A i \in DOMAIN base : IsStep(base, u, i) => i >= l
    BY <1>5, <1>22
  <2> QED
    BY <1>2, <1>3, <1>16, <2>1, <2>2 DEF Heads
<1>19. Shown(t, base, u, 2, l) /\ l \in 1..Len(base) + 1
  BY <1>16, <1>17, <1>18, Cutting
<1>20. Showing(t, base, u)
  <2>1. 2 \in 0..2
    OBVIOUS
  <2> QED
    BY <1>15, <1>19, <2>1, Zenon DEF Showing
<1>21. Ids(UpTo(s, a - 1)) \subseteq Ids(base)
  BY <1>6, <1>7
<1> QED
  BY <1>9, <1>10, <1>14, <1>20, <1>21
\* The latest step of a request has a place, or 0.
LEMMA LatestStepIs ==
  ASSUME NEW s \in Seq(Items)
  PROVE  LatestStep(s) \in Nat
<1> DEFINE S == Roles(s, "assistant")
<1>1. S \subseteq Nat /\ Len(s) \in Nat /\ \A i \in S : i <= Len(s)
  BY DEF Roles
<1>2. CASE S = {}
  BY <1>2 DEF LatestStep, Last0
<1>3. CASE S # {}
  <2> HIDE DEF S
  <2>1. PICK i \in S : \A l \in S : l <= i
    BY <1>1, <1>3, GreatestNat
  <2>2. Last0(S) = i
    BY <1>1, <2>1, Last0Of
  <2>3. Last0(S) \in Nat
    BY <1>1, <2>2
  <2> QED
    BY <2>3 DEF LatestStep, S
<1> QED
  BY <1>2, <1>3

\* What splitRequest() returns, with the question at p and the latest step at a.
KeepsTurn(split, s, p) ==
  /\ split.older = UpTo(s, p - 1) /\ split.recent = From(s, p)
  /\ split.count = p - 1 /\ split.keep = 0
KeepsStep(split, s, p, a) ==
  /\ split.older = UpTo(s, p - 1) \o SubSeq(s, p + 1, a - 1)
  /\ split.recent = <<s[p]>> \o From(s, a)
  /\ split.count = a - 1 /\ split.keep = p

\* splitRequest() keeps the turn, or the question and the latest step of it.
LEMMA SplitIs ==
  ASSUME NEW base, NEW u, NEW n, NEW calls, NEW s, NEW j, NEW k,
         Presents(base, u, n, calls, s, j, k), NEW allowance,
         NEW split, split = SplitRequest(s, allowance)
  PROVE  \/ KeepsTurn(split, s, Place(u, j, k))
         \/ LatestStep(s) > Place(u, j, k) /\ KeepsStep(split, s, Place(u, j, k), LatestStep(s))
<1> DEFINE p == Place(u, j, k)
           a == LatestStep(s)
           one == [older |-> UpTo(s, p - 1), recent |-> From(s, p), count |-> p - 1, keep |-> 0]
           two == [older |-> UpTo(s, p - 1) \o SubSeq(s, p + 1, a - 1),
                   recent |-> <<s[p]>> \o From(s, a), count |-> a - 1, keep |-> p]
<1>1. Last0(Roles(s, "user")) = p /\ p \in DOMAIN s
  BY QuestionPlace
<1>2. p \in Nat /\ a \in Nat
  BY <1>1, PresentsTypes, LatestStepIs
<1>3. a <= p \/ a > p
  BY <1>2
<1>4. split = one \/ (a > p /\ split = two)
  <2> DEFINE C == Total[From(s, p)] + Slack < allowance \/ a <= p
  <2>1. split = IF C THEN one ELSE two
    BY <1>1, Zenon DEF SplitRequest
  <2>2. ~C => a > p
    BY <1>3
  <2> HIDE DEF C, one, two
  <2>3. CASE C
    BY <2>1, <2>3
  <2>4. CASE ~C
    BY <2>1, <2>2, <2>4
  <2> QED
    BY <2>3, <2>4
<1>5. KeepsTurn(one, s, p) /\ KeepsStep(two, s, p, a)
  BY DEF KeepsTurn, KeepsStep
<1> HIDE DEF one, two
<1> QED
  BY <1>4, <1>5, Zenon

\* The parts of a split are messages of the request.
LEMMA SplitTypes ==
  ASSUME NEW base, NEW u, NEW n, NEW calls, NEW s, NEW j, NEW k,
         Presents(base, u, n, calls, s, j, k), NEW allowance,
         NEW split, split = SplitRequest(s, allowance)
  PROVE  /\ split.older \in Seq(Items) /\ split.recent \in Seq(Items)
         /\ \A i \in DOMAIN split.older : \E x \in DOMAIN s : split.older[i] = s[x]
         /\ split.count \in 0..Len(s) /\ split.keep \in Nat
         /\ UpTo(s, split.count) \in Seq(Items)
<1> DEFINE p == Place(u, j, k)
           a == LatestStep(s)
<1>1. s \in Seq(Items) /\ Len(s) \in Nat /\ DOMAIN s = 1..Len(s)
  BY PresentsTypes
<1>2. p \in DOMAIN s /\ p \in Nat /\ p > 0 /\ p <= Len(s) /\ p = Place(u, j, k) /\ a = LatestStep(s)
  BY <1>1, QuestionPlace
<1>5. KeepsTurn(split, s, p) \/ (a > p /\ KeepsStep(split, s, p, a))
  BY SplitIs
<1> HIDE DEF p, a
<1>3. CASE KeepsTurn(split, s, p)
  <2>1. p - 1 \in 0..Len(s) /\ p \in 1..Len(s) + 1
    BY <1>1, <1>2
  <2>2. /\ UpTo(s, p - 1) \in Seq(Items) /\ DOMAIN UpTo(s, p - 1) = 1..p - 1
        /\ \A i \in 1..p - 1 : UpTo(s, p - 1)[i] = s[i]
    BY <1>1, <2>1, UpToIs
  <2>3. From(s, p) \in Seq(Items)
    BY <1>1, <2>1, FromIs
  <2>4. \A i \in 1..p - 1 : i \in DOMAIN s
    BY <1>1, <1>2
  <2>5. split.older = UpTo(s, p - 1) /\ split.recent = From(s, p) /\ split.count = p - 1 /\ split.keep = 0
    BY <1>3 DEF KeepsTurn
  <2>6. \A i \in DOMAIN split.older : \E x \in DOMAIN s : split.older[i] = s[x]
    BY <2>2, <2>4, <2>5
  <2>7. UpTo(s, split.count) \in Seq(Items)
    BY <2>2, <2>5
  <2>8. split.older \in Seq(Items) /\ split.recent \in Seq(Items)
    BY <2>2, <2>3, <2>5
  <2>9. split.count \in 0..Len(s) /\ split.keep \in Nat
    BY <2>1, <2>5
  <2> QED
    BY <2>6, <2>7, <2>8, <2>9
<1>4. CASE a > p /\ KeepsStep(split, s, p, a)
  <2>1. a \in DOMAIN s
    BY <1>2, <1>4, StepPlace
  <2>2. PICK m \in Nat : m = a - 1 /\ m \in 1..Len(s) /\ p \in 1..m /\ m \in 0..Len(s)
    <3>1. a \in Nat /\ a > p /\ a <= Len(s)
      BY <1>1, <1>4, <2>1
    <3>2. a - 1 \in Nat /\ a - 1 \in 1..Len(s) /\ p \in 1..a - 1 /\ a - 1 \in 0..Len(s)
      BY <1>1, <1>2, <3>1
    <3> QED
      BY <3>2
  <2>3. /\ UpTo(s, p - 1) \o SubSeq(s, p + 1, m) \in Seq(Items)
        /\ \A i \in DOMAIN (UpTo(s, p - 1) \o SubSeq(s, p + 1, m)) :
             \E x \in DOMAIN s : (UpTo(s, p - 1) \o SubSeq(s, p + 1, m))[i] = s[x]
    BY <1>1, <2>2, StandsWithout
  <2>4. From(s, a) \in Seq(Items)
    <3>1. a \in 1..Len(s) + 1
      BY <1>1, <2>1
    <3> QED
      BY <1>1, <3>1, FromIs
  <2>5. <<s[p]>> \o From(s, a) \in Seq(Items)
    <3>1. <<s[p]>> \in Seq(Items)
      BY <1>1, <1>2
    <3> QED
      BY <2>4, <3>1, ConcatIs
  <2>6. UpTo(s, m) \in Seq(Items)
    BY <1>1, <2>2, UpToIs
  <2>7. /\ split.older = UpTo(s, p - 1) \o SubSeq(s, p + 1, m)
        /\ split.recent = <<s[p]>> \o From(s, a) /\ split.count = m /\ split.keep = p
    BY <1>4, <2>2 DEF KeepsStep
  <2>8. p \in Nat
    BY <1>2
  <2>9. /\ split.older \in Seq(Items)
        /\ \A i \in DOMAIN split.older : \E x \in DOMAIN s : split.older[i] = s[x]
    <3>1. PICK o : o = UpTo(s, p - 1) \o SubSeq(s, p + 1, m)
      OBVIOUS
    <3>2. o \in Seq(Items) /\ \A i \in DOMAIN o : \E x \in DOMAIN s : o[i] = s[x]
      BY <2>3, <3>1, Zenon
    <3>3. split.older = o
      BY <2>7, <3>1
    <3> QED
      BY <3>2, <3>3, Zenon
  <2>10. /\ split.recent \in Seq(Items) /\ split.count \in 0..Len(s) /\ split.keep \in Nat
         /\ UpTo(s, split.count) \in Seq(Items)
    BY <2>8, <2>2, <2>5, <2>6, <2>7
  <2> QED
    BY <2>9, <2>10
<1> QED
  BY <1>3, <1>4, <1>5

\* The request s is split, and its older messages replaced by a marker: a checkpoint r.
Compacting(s, split, marker, r) ==
  /\ \E allowance : split = SplitRequest(s, allowance)
  /\ split.older # <<>> /\ Mark(marker) /\ marker.stands = Stands(split.older)
  /\ r = [prefix |-> UpTo(s, split.count), marker |-> marker, keep |-> split.keep]

\* compactRequest(): the request that results, and the record of it.
LEMMA CompactShows ==
  ASSUME NEW base, NEW u, NEW n, NEW calls, NEW s, NEW j, NEW k,
         Presents(base, u, n, calls, s, j, k), calls \subseteq 1..n, Stands(s) = Ids(base),
         NEW split, NEW marker, NEW r, Compacting(s, split, marker, r)
  PROVE  /\ Showing(<<marker>> \o split.recent, base, u)
         /\ CutOK(r, n, calls) /\ Spares(r, base, u) /\ Ids(r.prefix) \subseteq Ids(base)
<1> DEFINE p == Place(u, j, k)
           a == LatestStep(s)
<1>0. /\ split.older # <<>> /\ Mark(marker) /\ marker.stands = Stands(split.older)
      /\ r = [prefix |-> UpTo(s, split.count), marker |-> marker, keep |-> split.keep]
  BY DEF Compacting
<1>6. PICK allowance : split = SplitRequest(s, allowance)
  BY DEF Compacting
<1>1. s \in Seq(Items) /\ Len(s) \in Nat /\ DOMAIN s = 1..Len(s)
  BY PresentsTypes
<1>2. p \in DOMAIN s /\ p \in Nat /\ p > 0 /\ p = Place(u, j, k) /\ a = LatestStep(s)
  BY <1>1, QuestionPlace
<1>5. KeepsTurn(split, s, p) \/ (a > p /\ KeepsStep(split, s, p, a))
  BY <1>6, SplitIs
<1> HIDE DEF p, a
<1>3. CASE KeepsTurn(split, s, p)
  <2>1. /\ split.older = UpTo(s, p - 1) /\ split.recent = From(s, p)
        /\ r = [prefix |-> UpTo(s, p - 1), marker |-> marker, keep |-> 0]
    BY <1>0, <1>3 DEF KeepsTurn
  <2>2. p > 1
    <3>1. p # 1
      <4>1. ASSUME p = 1 PROVE UpTo(s, p - 1) = <<>>
        <5>1. 0 \in 0..Len(s) /\ p - 1 = 0
          BY <1>1, <4>1
        <5>2. UpTo(s, 0) \in Seq(Items) /\ Len(UpTo(s, 0)) = 0
          BY <1>1, <5>1, UpToIs
        <5> QED
          BY <5>1, <5>2
      <4> QED
        BY <1>0, <2>1, <4>1
    <3> QED
      BY <1>2, <3>1
  <2>3. marker.stands = Stands(UpTo(s, p - 1))
    BY <1>0, <2>1
  <2>4. /\ Showing(<<marker>> \o From(s, p), base, u)
        /\ CutOK([prefix |-> UpTo(s, p - 1), marker |-> marker, keep |-> 0], n, calls)
        /\ Spares([prefix |-> UpTo(s, p - 1), marker |-> marker, keep |-> 0], base, u)
        /\ Ids(UpTo(s, p - 1)) \subseteq Ids(base)
    BY <1>0, <1>2, <2>2, <2>3, CutBefore
  <2>5. r.prefix = UpTo(s, p - 1)
    BY <2>1
  <2> QED
    BY <2>1, <2>4, <2>5, Zenon
<1>4. CASE a > p /\ KeepsStep(split, s, p, a)
  <2>1. /\ split.older = UpTo(s, p - 1) \o SubSeq(s, p + 1, a - 1)
        /\ split.recent = <<s[p]>> \o From(s, a)
        /\ r = [prefix |-> UpTo(s, a - 1), marker |-> marker, keep |-> p]
    BY <1>0, <1>4 DEF KeepsStep
  <2>2. marker.stands = Stands(UpTo(s, p - 1) \o SubSeq(s, p + 1, a - 1))
    BY <1>0, <2>1
  <2>4. /\ Showing(<<marker>> \o (<<s[p]>> \o From(s, a)), base, u)
        /\ CutOK([prefix |-> UpTo(s, a - 1), marker |-> marker, keep |-> p], n, calls)
        /\ Spares([prefix |-> UpTo(s, a - 1), marker |-> marker, keep |-> p], base, u)
        /\ Ids(UpTo(s, a - 1)) \subseteq Ids(base)
    BY <1>0, <1>2, <1>4, <2>2, CutBetween
  <2>5. r.prefix = UpTo(s, a - 1)
    BY <2>1
  <2> QED
    BY <2>1, <2>4, <2>5, Zenon
<1> QED
  BY <1>3, <1>4, <1>5
-----------------------------------------------------------------------------
(* The history of a turn                                                   *)

\* Markers stand for, and name, messages only.
LEMMA StandsType ==
  ASSUME NEW s \in Seq(Items)
  PROVE  Stands(s) \subseteq Nat /\ Readable(s) \subseteq Nat /\ FilesIn(s) \subseteq Nat
<1>1. \A i \in DOMAIN s : s[i].id \in Nat /\ s[i].stands \subseteq Nat /\ s[i].text \subseteq Nat
  <2>1. \A i \in DOMAIN s : s[i] \in Items
    OBVIOUS
  <2> QED
    BY <2>1 DEF Items
<1>2. Stands(s) \subseteq Nat
  BY <1>1, MemberOfStands
<1>3. Readable(s) \subseteq Nat
  BY <1>1, MemberOfReadable
<1>4. FilesIn(s) \subseteq Nat
  BY <1>1 DEF FilesIn
<1> QED
  BY <1>2, <1>3, <1>4

\* A marker whose text has what it replaces.
LEMMA MarkerIs ==
  ASSUME NEW size \in Nat, NEW stands, stands \subseteq Nat, NEW text, text \subseteq Nat,
         "archive" \notin Windows => stands \subseteq text
  PROVE  LET m == Marker(size, stands, text)
         IN Mark(m) /\ m \in Items /\ m.stands = stands /\ m.size = size
BY DEF Marker, Mark, Items

\* A chat shows itself.
LEMMA ShowsItself ==
  ASSUME NEW base, NEW u, NEW n \in Nat, NEW calls, Asks(base, u, n, calls)
  PROVE  Presents(base, u, n, calls, base, 0, 1) /\ Stands(base) = Ids(base)
<1>1. /\ base \in Seq(Items) /\ Len(base) \in Nat /\ DOMAIN base = 1..Len(base)
      /\ u \in DOMAIN base /\ u \in Nat /\ u > 0
  BY DEF Asks, Log
<1>2. 1 \in DOMAIN base => base[1].role # "tool"
  <2>1. 1 \in DOMAIN base /\ base[1].role = "tool" => 1 > 1
    BY DEF Asks, Log, Whole
  <2> QED
    BY <2>1
<1>3. \A i \in DOMAIN base : i > 0 => base[i] = base[i - 0 + 1 - 1]
  BY <1>1
<1>4. \A i \in DOMAIN base : i >= 1
  BY <1>1
<1>5. 0 \in 0..2 /\ 1 \in 1..Len(base) + 1 /\ Len(base) = 0 + Len(base) + 1 - 1 /\ ~(u < 1)
  BY <1>1
<1>6. Shown(base, base, u, 0, 1)
  BY <1>1, <1>2, <1>3, <1>4, <1>5 DEF Shown
<1>7. Stands(base) = Ids(base)
  BY LogIds DEF Asks
<1> QED
  BY <1>6, <1>7 DEF Presents

\* compactHistory(): a history that begins with the prefix of a checkpoint.
LEMMA LoadShows ==
  ASSUME NEW base, NEW u, NEW n \in Nat, NEW calls, Asks(base, u, n, calls), Len(base) = u,
         NEW r \in [prefix : Seq(Items), marker : Items], FoldOK(r, n, calls),
         Matches(base, r.prefix), base[u].id \notin Ids(r.prefix)
  PROVE  LET s == <<r.marker>> \o From(base, Len(r.prefix) + 1)
         IN /\ Shown(s, base, u, 1, Len(r.prefix) + 1) /\ Stands(s) = Ids(base)
            /\ s[1].stands = Ids(UpTo(base, Len(r.prefix)))
            /\ Len(r.prefix) \in Nat /\ Len(r.prefix) # 0
<1> DEFINE t == <<r.marker>> \o From(base, Len(r.prefix) + 1)
<1>1. /\ Presents(base, u, n, calls, base, 0, 1) /\ Stands(base) = Ids(base)
  BY ShowsItself
<1>2. base \in Seq(Items) /\ Len(base) \in Nat /\ DOMAIN base = 1..Len(base) /\ u \in DOMAIN base /\ u \in Nat
  BY <1>1, PresentsTypes
<1>3. PICK m \in Nat, a \in Nat : m = Len(r.prefix) /\ a = m + 1
  OBVIOUS
<1>4. /\ r.prefix # <<>> /\ Mark(r.marker) /\ r.marker.stands = Ids(r.prefix) /\ r.marker \in Items
      /\ Whole(r.prefix, calls) /\ r.prefix \in Seq(Items)
  BY DEF FoldOK
<1>5. m > 0 /\ m <= Len(base) /\ UpTo(base, m) = r.prefix /\ DOMAIN r.prefix = 1..m
  BY <1>3, <1>4 DEF Matches
<1>6. \A i \in 1..m : r.prefix[i] = base[i]
  <2>1. m \in 0..Len(base)
    BY <1>2, <1>5
  <2> QED
    <3>1. base \in Seq(Items)
      BY <1>2
    <3>2. \A i \in 1..m : UpTo(base, m)[i] = base[i]
      BY <2>1, <3>1, UpToIs
    <3> QED
      BY <1>5, <3>2
<1>7. base[u].id # 0 /\ base[u].role = "user"
  BY <1>2 DEF Asks, Log, Raw
<1>8. m < u
  <2>1. m # u
    <3>1. ASSUME m = u PROVE base[u].id \in Ids(r.prefix)
      <4>1. u \in 1..m
        BY <1>5, <3>1
      <4> QED
        BY <1>5, <1>6, <1>7, <4>1, MemberOfIds
    <3> QED
      BY <3>1
  <2> QED
    BY <1>2, <1>5, <2>1
<1>9. a \in DOMAIN base => base[a].role # "tool"
  <2>1. SUFFICES ASSUME a \in DOMAIN base, base[a].role = "tool" PROVE FALSE
    OBVIOUS
  <2>2. base[a - 1].id \in calls
    BY <2>1 DEF Asks, Log, Whole
  <2>3. a - 1 = m /\ m \in 1..m
    BY <1>3, <1>5
  <2>4. r.prefix[m].id \in calls /\ m \in DOMAIN r.prefix
    BY <1>5, <1>6, <2>2, <2>3
  <2>5. m + 1 \in 1..m
    BY <1>4, <1>5, <2>4 DEF Whole
  <2> QED
    BY <2>5
<1>10. <<r.marker>> \in Seq(Items) /\ Len(<<r.marker>>) = 1 /\ <<r.marker>>[1] = r.marker
  BY <1>4
<1>11. a \in 1..Len(base) + 1 /\ m \in 0..Len(base)
  BY <1>2, <1>3, <1>5
<1>12. t = <<r.marker>> \o From(base, a)
  BY <1>3
<1> HIDE DEF t
<1>13. Tails(t, base, 1, a) /\ t[1] = r.marker
  <2>1. /\ Tails(<<r.marker>> \o From(base, a), base, Len(<<r.marker>>), a)
        /\ \A i \in 1..Len(<<r.marker>>) : (<<r.marker>> \o From(base, a))[i] = <<r.marker>>[i]
    <3>1. base \in Seq(Items) /\ <<r.marker>> \in Seq(Items) /\ a \in 1..Len(base) + 1
      BY <1>2, <1>10, <1>11
    <3> QED
      BY <3>1, Fronted, ZenonT(60)
  <2>2. 1 \in 1..Len(<<r.marker>>)
    BY <1>10
  <2> QED
    BY <1>10, <1>12, <2>1, <2>2, Zenon
<1>14. Behind(base, 0, 1, a, a)
  <2>1. a > 0 /\ a <= Len(base) + 1 /\ a = 1 + a - 1 - 0
    BY <1>3, <1>11
  <2> QED
    BY <1>9, <2>1 DEF Behind
<1>15. Heads(t, base, u, 1, a)
  <2>1. \A i \in DOMAIN base : ~IsStep(base, u, i)
    <3>1. \A i \in DOMAIN base : ~(i > u)
      BY <1>2
    <3> QED
      BY <3>1 DEF IsStep
  <2>2. ~(u < a)
    BY <1>2, <1>3, <1>8
  <2>3. 1 \in {1, 2} /\ 1 # 2
    OBVIOUS
  <2> QED
    BY <1>4, <1>13, <2>1, <2>2, <2>3 DEF Heads
<1>16. Shown(t, base, u, 1, a)
  BY <1>1, <1>13, <1>14, <1>15, Cutting
<1>17. Stands(t) = Ids(base)
  <2>1. Stands(base) = Stands(UpTo(base, m)) \cup Stands(From(base, m + 1))
    BY <1>2, <1>11, StandsOfSplit
  <2>2. Stands(<<r.marker>>) = r.marker.stands
    BY <1>4, StandsOfOne DEF Mark
  <2>3. From(base, a) \in Seq(Items)
    BY <1>2, <1>11, FromIs
  <2>4. Stands(<<r.marker>> \o From(base, a)) = Stands(<<r.marker>>) \cup Stands(From(base, a))
    BY <1>10, <2>3, StandsOfConcat
  <2>5. Stands(r.prefix) = Ids(r.prefix)
    <3>1. \A i \in 1..m : i \in DOMAIN base
      BY <1>2, <1>5
    <3>2. \A i \in DOMAIN base : base[i].stands = {}
      BY DEF Asks, Log, Raw
    <3>3. \A i \in DOMAIN r.prefix : r.prefix[i].stands = {}
      BY <1>5, <1>6, <3>1, <3>2
    <3> QED
      BY <3>3, RawStands
  <2>6. m + 1 = a
    BY <1>3
  <2> QED
    BY <1>1, <1>4, <1>5, <1>12, <2>1, <2>2, <2>4, <2>5, <2>6, Zenon
<1>18. t[1].stands = Ids(UpTo(base, m))
  BY <1>4, <1>5, <1>13
<1> QED
  BY <1>3, <1>5, <1>16, <1>17, <1>18 DEF t

\* The history s of a chat, of which a checkpoint replaced count messages, is cut before
\* its message start, by a compaction that replaces m of the chat.
Folding(base, u, s, j, k, count, start, m) ==
  /\ Len(base) = u /\ Stands(s) = Ids(base)
  /\ count \in Nat /\ k = count + 1 /\ j = (IF count = 0 THEN 0 ELSE 1)
  /\ count # 0 => s[1].stands = Ids(UpTo(base, count))
  /\ start = RecentStart(s) /\ UpTo(s, start - 1) # <<>>
  /\ m = Len(UpTo(s, start - 1)) + Minus(count, 1)

\* fitHistory(): the history it makes, and the checkpoint of it.
LEMMA FoldShows ==
  ASSUME NEW base, NEW u, NEW n, NEW calls, NEW s, NEW j, NEW k,
         Presents(base, u, n, calls, s, j, k),
         NEW count, NEW start, NEW m, Folding(base, u, s, j, k, count, start, m),
         NEW marker, Mark(marker), marker.stands = Stands(UpTo(s, start - 1))
  PROVE  /\ Showing(<<marker>> \o From(s, start), base, u)
         /\ FoldOK([prefix |-> UpTo(base, m), marker |-> marker], n, calls)
         /\ UpTo(base, m) \in Seq(Items) /\ Ids(UpTo(base, m)) \subseteq Ids(base)
         /\ \A i \in DOMAIN base : base[i].id \in Ids(UpTo(base, m)) => i < u
<1>1. /\ s \in Seq(Items) /\ Len(s) \in Nat /\ DOMAIN s = 1..Len(s) /\ n \in Nat
      /\ base \in Seq(Items) /\ Len(base) \in Nat /\ DOMAIN base = 1..Len(base)
      /\ u \in DOMAIN base /\ u \in Nat /\ u > 0 /\ Len(s) = j + Len(base) + 1 - k
      /\ j \in Nat /\ k \in Nat
  BY PresentsTypes
<1>0. /\ Len(base) = u /\ count \in Nat /\ k = count + 1 /\ j = (IF count = 0 THEN 0 ELSE 1)
      /\ count # 0 => s[1].stands = Ids(UpTo(base, count))
  BY DEF Folding
<1>2. start \in Roles(s, "user") /\ start \in 1..Len(s) /\ start > 1
  <2>1. start \in {1} \cup Roles(s, "user")
    BY <1>1, RecentStartIs DEF Folding
  <2>2. start # 1
    <3>1. ASSUME start = 1 PROVE UpTo(s, start - 1) = <<>>
      <4>1. 0 \in 0..Len(s) /\ start - 1 = 0
        BY <1>1, <3>1
      <4>2. UpTo(s, 0) \in Seq(Items) /\ Len(UpTo(s, 0)) = 0
        BY <1>1, <4>1, UpToIs
      <4> QED
        BY <4>1, <4>2
    <3> QED
      BY <3>1 DEF Folding
  <2>3. start \in Roles(s, "user")
    BY <2>1, <2>2
  <2> QED
    BY <1>1, <2>2, <2>3 DEF Roles
<1>3. PICK e \in Nat : e = start - 1 /\ e > 0 /\ start = e + 1 /\ e <= Len(s) /\ start \in Nat
  <2>1. start \in Nat /\ start > 1 /\ start <= Len(s)
    BY <1>1, <1>2
  <2>2. start - 1 \in Nat /\ start - 1 > 0 /\ start = (start - 1) + 1 /\ start - 1 <= Len(s)
    BY <1>1, <2>1
  <2> QED
    BY <2>1, <2>2
<1>4. /\ UpTo(s, e) \in Seq(Items) /\ Len(UpTo(s, e)) = e /\ DOMAIN UpTo(s, e) = 1..e
      /\ \A i \in 1..e : UpTo(s, e)[i] = s[i]
  <2>1. e \in 0..Len(s)
    BY <1>1, <1>3
  <2> QED
    BY <1>1, <2>1, UpToIs
<1>5. m = e + Minus(count, 1) /\ m \in Nat /\ m + 1 = e + k - j /\ m > 0 /\ count <= m
      /\ j <= 1 /\ (j = 0 <=> count = 0)
  <2>1. m = e + Minus(count, 1)
    BY <1>3, <1>4 DEF Folding
  <2>2. CASE count = 0
    <3>1. Minus(count, 1) = 0 /\ j = 0 /\ k = 1
      BY <1>0, <2>2 DEF Minus
    <3> QED
      BY <1>3, <2>1, <2>2, <3>1
  <2>3. CASE count # 0
    <3>1. Minus(count, 1) = count - 1 /\ j = 1 /\ k = count + 1 /\ count > 0 /\ count \in Nat
      BY <1>0, <2>3 DEF Minus
    <3>2. m = e + (count - 1)
      BY <2>1, <3>1
    <3>3. m \in Nat /\ m + 1 = e + (count + 1) - 1 /\ m > 0 /\ count <= m
      BY <1>3, <3>1, <3>2
    <3> QED
      BY <2>1, <2>3, <3>1, <3>3
  <2> QED
    BY <1>0, <2>2, <2>3
<1>6. PICK h \in Nat : h = m + 1 /\ h = k + start - 1 - j
  <2>1. \A x, y, z \in Nat : x + y - z = y + (x + 1) - 1 - z
    OBVIOUS
  <2>2. m + 1 = e + k - j /\ start = e + 1 /\ j \in Nat /\ k \in Nat /\ m + 1 \in Nat
    BY <1>1, <1>3, <1>5, SMTT(30)
  <2>3. m + 1 = k + start - 1 - j
    BY <2>1, <2>2
  <2> QED
    BY <2>2, <2>3
<1>7. start > j /\ start \in DOMAIN s /\ s[start].role = "user"
  BY <1>1, <1>2, <1>5 DEF Roles
<1>8. h \in DOMAIN base /\ base[h].role = "user" /\ h <= u /\ m < u /\ m <= Len(base)
  <2>1. PICK l \in DOMAIN base : l = start - j + k - 1 /\ s[start] = base[l]
    BY <1>7, LaterAt
  <2>2. l = h
    <3>1. \A x, y, z \in Nat : x - z + y - 1 = y + x - 1 - z
      OBVIOUS
    <3>2. j \in Nat /\ k \in Nat /\ start \in Nat /\ h = k + start - 1 - j
      BY <1>1, <1>3, <1>6
    <3> QED
      BY <2>1, <3>1, <3>2
  <2>3. h \in DOMAIN base /\ base[h].role = "user"
    BY <1>7, <2>1, <2>2
  <2>4. h <= u
    BY <1>0, <1>1, <2>3
  <2>5. m < u /\ m <= Len(base)
    BY <1>0, <1>1, <1>5, <1>6, <2>4, SMTT(30)
  <2> QED
    BY <2>3, <2>4, <2>5
<1> DEFINE t == <<marker>> \o From(s, start)
<1>9. /\ <<marker>> \in Seq(Items) /\ Len(<<marker>>) = 1 /\ <<marker>>[1] = marker
  BY DEF Mark
<1>10. start \in 1..Len(s) + 1
  BY <1>1, <1>2
<1>11. Tails(t, s, 1, start) /\ t[1] = marker
  <2>1. /\ Tails(<<marker>> \o From(s, start), s, Len(<<marker>>), start)
        /\ \A i \in 1..Len(<<marker>>) : (<<marker>> \o From(s, start))[i] = <<marker>>[i]
    <3>1. s \in Seq(Items) /\ <<marker>> \in Seq(Items) /\ start \in 1..Len(s) + 1
      BY <1>1, <1>9, <1>10
    <3> QED
      BY <3>1, Fronted
  <2>2. 1 \in 1..Len(<<marker>>)
    BY <1>9
  <2> QED
    BY <1>9, <2>1, <2>2, Zenon
<1>12. Stands(t) = Ids(base)
  <2>1. Stands(s) = Stands(UpTo(s, e)) \cup Stands(From(s, e + 1))
    <3>1. e \in 0..Len(s)
      BY <1>1, <1>3
    <3> QED
      BY <1>1, <3>1, StandsOfSplit
  <2>2. Stands(<<marker>>) = marker.stands
    BY StandsOfOne DEF Mark
  <2>3. From(s, start) \in Seq(Items)
    BY <1>1, <1>10, FromIs
  <2>4. Stands(t) = Stands(<<marker>>) \cup Stands(From(s, start))
    BY <1>9, <2>3, StandsOfConcat
  <2>5. e = start - 1 /\ e + 1 = start
    BY <1>3
  <2> QED
    BY <2>1, <2>2, <2>4, <2>5 DEF Folding
<1> HIDE DEF t
<1>13. Showing(t, base, u)
  <2>1. Behind(s, j, k, start, h)
    <3>1. j \in Nat /\ k \in Nat /\ start \in Nat /\ h = k + start - 1 - j
      BY <1>1, <1>3, <1>6
    <3> QED
      BY <1>7, <1>10, <3>1 DEF Behind
  <2>2. Heads(t, base, u, 1, h)
    <3>1. \A i \in DOMAIN base : ~IsStep(base, u, i)
      <4>1. \A i \in DOMAIN base : ~(i > u)
        BY <1>0, <1>1
      <4> QED
        BY <4>1 DEF IsStep
    <3>2. ~(u < h)
      BY <1>1, <1>8
    <3>3. 1 \in {1, 2} /\ 1 # 2
      OBVIOUS
    <3> QED
      BY <1>11, <3>1, <3>2, <3>3 DEF Heads
  <2>3. Shown(t, base, u, 1, h) /\ h \in 1..Len(base) + 1
    BY <1>11, <2>1, <2>2, Cutting
  <2>4. 1 \in 0..2
    OBVIOUS
  <2> QED
    BY <1>12, <2>3, <2>4, Zenon DEF Showing
<1> DEFINE q == UpTo(base, m)
<1>14. /\ q \in Seq(Items) /\ Len(q) = m /\ DOMAIN q = 1..m /\ \A i \in 1..m : q[i] = base[i]
  <2>1. m \in 0..Len(base)
    BY <1>1, <1>5, <1>8
  <2> QED
    BY <1>1, <2>1, UpToIs
<1>15. Log(q, n, calls)
  <2>1. m \in 0..Len(base) /\ (m + 1 \in DOMAIN base => base[m + 1].role # "tool")
    BY <1>1, <1>5, <1>6, <1>8, SMTT(30)
  <2>2. Log(base, n, calls)
    BY DEF Presents, Asks
  <2> QED
    BY <1>1, <2>1, <2>2, LogUpTo
<1> HIDE DEF q
<1>16. q = UpTo(base, m)
  BY DEF q
<1>17. \A i \in 1..m : i \in DOMAIN base
  <2>1. m \in Nat /\ m <= Len(base) /\ Len(base) \in Nat /\ DOMAIN base = 1..Len(base)
    BY <1>1, <1>5, <1>8
  <2> QED
    BY <2>1
<1>18. \A i \in DOMAIN base : base[i].id \in Nat \ {0} /\ base[i].stands = {}
  BY DEF Presents, Asks, Log, Raw
<1>19. ASSUME NEW i \in DOMAIN base, base[i].id \in Ids(q) PROVE i \in 1..m
  <2>1. PICK x \in 1..m : base[x].id = base[i].id
    BY <1>14, <1>19, MemberOfIds
  <2>2. x = i
    BY <1>17, <2>1, LogIds DEF Presents, Asks
  <2> QED
    BY <2>2
<1>20. ASSUME NEW y \in Stands(UpTo(s, e)) PROVE y \in Ids(q)
  <2>1. PICK i \in 1..e : (y # 0 /\ s[i].id = y) \/ y \in s[i].stands
    BY <1>4, MemberOfStands
  <2>2. i \in DOMAIN s /\ i \in Nat /\ i <= e
    BY <1>1, <1>3
  <2>3. CASE i > j
    <3>1. PICK l \in DOMAIN base : l = i - j + k - 1 /\ s[i] = base[l]
      BY <2>2, <2>3, LaterAt
    <3>2. l \in Nat /\ l > 0
      BY <1>1
    <3>3. l <= m
      BY <1>1, <1>5, <2>2, <3>1, <3>2
    <3>4. l \in 1..m
      BY <1>5, <3>2, <3>3
    <3>5. y = q[l].id /\ y # 0
      BY <1>14, <1>18, <2>1, <3>1, <3>4
    <3> QED
      BY <1>14, <3>4, <3>5, MemberOfIds
  <2>4. CASE i <= j
    <3>1. i = 1 /\ count # 0
      BY <1>1, <1>5, <2>2, <2>4, SMTT(30)
    <3>2. Mark(s[1])
      BY <2>2, <2>4, <3>1, EarlierAt
    <3>3. y \in Ids(UpTo(base, count))
      BY <1>0, <2>1, <3>1, <3>2 DEF Mark
    <3>4. count \in 0..Len(base)
      BY <1>0, <1>1, <1>5, <1>8
    <3>5. /\ DOMAIN UpTo(base, count) = 1..count
          /\ \A x \in 1..count : UpTo(base, count)[x] = base[x]
      BY <1>1, <3>4, UpToIs
    <3>6. PICK x \in 1..count : base[x].id = y /\ y # 0
      <4>1. y # 0 /\ \E x \in DOMAIN UpTo(base, count) : UpTo(base, count)[x].id = y
        BY <3>3, MemberOfIds
      <4>2. PICK x \in DOMAIN UpTo(base, count) : UpTo(base, count)[x].id = y
        BY <4>1
      <4>3. x \in 1..count /\ base[x].id = y
        BY <3>5, <4>2
      <4> QED
        BY <4>1, <4>3
    <3>7. x \in 1..m
      BY <1>0, <1>5
    <3> QED
      BY <1>14, <3>6, <3>7, MemberOfIds
  <2>5. i > j \/ i <= j
    BY <1>1, <2>2
  <2> QED
    BY <2>3, <2>4, <2>5
<1>21. ASSUME NEW y \in Ids(q) PROVE y \in Stands(UpTo(s, e))
  <2>1. PICK l \in 1..m : base[l].id = y /\ y # 0
    BY <1>14, MemberOfIds
  <2>2. l \in DOMAIN base /\ l \in Nat /\ l <= m /\ l > 0
    BY <1>17
  <2>3. CASE l >= k
    <3>1. PICK i \in DOMAIN s : i = l - k + 1 + j /\ s[i] = base[l]
      BY <2>2, <2>3, PlaceOf
    <3>2. i \in Nat /\ i > 0
      BY <1>1
    <3>3. i <= e
      BY <1>1, <1>5, <2>2, <3>1, <3>2
    <3>4. i \in 1..e
      BY <1>3, <3>2, <3>3
    <3> QED
      BY <1>4, <2>1, <3>1, <3>4, MemberOfStands
  <2>4. CASE l < k
    <3>1. l \in 1..count /\ count # 0
      BY <1>0, <1>1, <2>2, <2>4
    <3>4. count \in 0..Len(base)
      BY <1>0, <1>1, <1>5, <1>8
    <3>5. /\ DOMAIN UpTo(base, count) = 1..count
          /\ \A x \in 1..count : UpTo(base, count)[x] = base[x]
      BY <1>1, <3>4, UpToIs
    <3>6. y \in Ids(UpTo(base, count))
      BY <2>1, <3>1, <3>5, MemberOfIds
    <3>7. 1 \in 1..e /\ y \in s[1].stands
      BY <1>0, <1>3, <3>1, <3>6
    <3> QED
      BY <1>4, <3>7, MemberOfStands
  <2> QED
    BY <1>1, <2>2, <2>3, <2>4
<1>22. marker.stands = Ids(q)
  BY <1>3, <1>20, <1>21
<1>23. FoldOK([prefix |-> q, marker |-> marker], n, calls)
  <2>1. q # <<>>
    BY <1>5, <1>14
  <2>2. Whole(q, calls) /\ \A i \in DOMAIN q : q[i].id <= n
    BY <1>1, <1>15 DEF Log, Raw
  <2> QED
    BY <1>22, <2>1, <2>2 DEF FoldOK
<1>24. \A i \in DOMAIN base : base[i].id \in Ids(q) => i < u
  BY <1>1, <1>5, <1>8, <1>19, SMTT(30)
<1>25. Ids(q) \subseteq Ids(base)
  BY <1>14, <1>17, MemberOfIds
<1> QED
  BY <1>13, <1>14, <1>16, <1>23, <1>24, <1>25 DEF t

-----------------------------------------------------------------------------
(* A step of the model                                                     *)

\* The last messages of a sequence that got two more.
LEMMA TwoMore ==
  ASSUME NEW s \in Seq(Items), NEW x \in Items, NEW y \in Items
  PROVE  LET t == s \o <<x, y>>
         IN /\ t \in Seq(Items) /\ Len(t) = Len(s) + 2 /\ DOMAIN t = 1..Len(s) + 2
            /\ \A i \in DOMAIN s : t[i] = s[i]
            /\ t[Len(s) + 1] = x /\ t[Len(s) + 2] = y
            /\ \A i \in DOMAIN t : i \notin DOMAIN s => i = Len(s) + 1 \/ i = Len(s) + 2
<1> DEFINE t == s \o <<x, y>>
<1>1. /\ <<x, y>> \in Seq(Items) /\ Len(<<x, y>>) = 2 /\ <<x, y>>[1] = x /\ <<x, y>>[2] = y
      /\ 1 \in 1..2 /\ 2 \in 1..2 /\ Len(s) \in Nat /\ DOMAIN s = 1..Len(s)
  OBVIOUS
<1>2. /\ t \in Seq(Items) /\ Len(t) = Len(s) + 2 /\ DOMAIN t = 1..Len(s) + 2
      /\ \A i \in 1..Len(s) : t[i] = s[i]
      /\ \A i \in 1..2 : t[Len(s) + i] = <<x, y>>[i]
  BY <1>1, ConcatIs
<1>3. t[Len(s) + 1] = x /\ t[Len(s) + 2] = y
  BY <1>1, <1>2
<1>4. \A i \in 1..Len(s) + 2 : i \notin 1..Len(s) => i = Len(s) + 1 \/ i = Len(s) + 2
  BY <1>1
<1> QED
  BY <1>1, <1>2, <1>3, <1>4

\* The two messages of a step: a call and its result.
IsCall(x, y, n) ==
  /\ Raw(x, n + 2) /\ x.id = n + 1 /\ x.role = "assistant"
  /\ Raw(y, n + 2) /\ y.id = n + 2 /\ y.role = "tool"

\* The question stays the latest one.
LEMMA AsksStep ==
  ASSUME NEW base, NEW u, NEW n \in Nat, NEW calls, Asks(base, u, n, calls), calls \subseteq 1..n,
         NEW x, NEW y, IsCall(x, y, n)
  PROVE  Asks(base \o <<x, y>>, u, n + 2, calls \cup {n + 1})
<1>1. Log(base \o <<x, y>>, n + 2, calls \cup {n + 1})
  BY LogStep DEF IsCall, Asks
<1>2. base \in Seq(Items) /\ x \in Items /\ y \in Items
  BY DEF IsCall, Raw, Asks, Log
<1> DEFINE t == base \o <<x, y>>
<1>3. /\ DOMAIN t = 1..Len(base) + 2 /\ DOMAIN base = 1..Len(base) /\ Len(base) \in Nat
      /\ \A i \in DOMAIN base : t[i] = base[i]
      /\ t[Len(base) + 1] = x /\ t[Len(base) + 2] = y
      /\ \A i \in DOMAIN t : i \notin DOMAIN base => i = Len(base) + 1 \/ i = Len(base) + 2
  BY <1>2, TwoMore
<1>4. t = base \o <<x, y>>
  OBVIOUS
<1> HIDE DEF t
<1>5. u \in DOMAIN t /\ t[u].role = "user"
  BY <1>3 DEF Asks
<1>6. \A i \in DOMAIN t : i > u => t[i].role # "user"
  BY <1>3 DEF Asks, IsCall
<1> QED
  BY <1>1, <1>4, <1>5, <1>6 DEF Asks

\* A step is shown whole.
LEMMA StepShows ==
  ASSUME NEW base, NEW u, NEW n, NEW calls, NEW s, NEW j, NEW k,
         Presents(base, u, n, calls, s, j, k), calls \subseteq 1..n, Stands(s) = Ids(base),
         NEW x, NEW y, IsCall(x, y, n)
  PROVE  Showing(s \o <<x, y>>, base \o <<x, y>>, u)
<1> DEFINE t == s \o <<x, y>>
           b == base \o <<x, y>>
<1>1. /\ s \in Seq(Items) /\ DOMAIN s = 1..Len(s) /\ Len(s) \in Nat
      /\ base \in Seq(Items) /\ DOMAIN base = 1..Len(base) /\ Len(base) \in Nat
      /\ u \in DOMAIN base /\ u \in Nat /\ n \in Nat
      /\ j \in Nat /\ j <= 2 /\ k \in Nat /\ k > 0 /\ k <= Len(base) + 1
      /\ Len(s) = j + Len(base) + 1 - k
  BY PresentsTypes
<1>2. /\ x \in Items /\ y \in Items /\ x.stands = {} /\ y.stands = {}
      /\ x.role = "assistant" /\ y.role = "tool"
  BY DEF IsCall, Raw
<1>3. /\ t \in Seq(Items) /\ Len(t) = Len(s) + 2 /\ DOMAIN t = 1..Len(s) + 2
      /\ \A i \in DOMAIN s : t[i] = s[i]
      /\ t[Len(s) + 1] = x /\ t[Len(s) + 2] = y
      /\ \A i \in DOMAIN t : i \notin DOMAIN s => i = Len(s) + 1 \/ i = Len(s) + 2
  BY <1>1, <1>2, TwoMore
<1>4. /\ b \in Seq(Items) /\ Len(b) = Len(base) + 2 /\ DOMAIN b = 1..Len(base) + 2
      /\ \A i \in DOMAIN base : b[i] = base[i]
      /\ b[Len(base) + 1] = x /\ b[Len(base) + 2] = y
      /\ \A i \in DOMAIN b : i \notin DOMAIN base => i = Len(base) + 1 \/ i = Len(base) + 2
  BY <1>1, <1>2, TwoMore
<1>5. Stands(t) = Ids(b)
  <2>1. <<x, y>> \in Seq(Items)
    BY <1>2
  <2>2. Stands(t) = Stands(s) \cup Stands(<<x, y>>) /\ Stands(b) = Stands(base) \cup Stands(<<x, y>>)
    BY <1>1, <2>1, StandsOfConcat
  <2>3. \A i \in DOMAIN base : base[i].stands = {}
    BY DEF Presents, Asks, Log, Raw
  <2>4. Stands(base) = Ids(base)
    BY <2>3, RawStands
  <2>5. ASSUME NEW i \in DOMAIN b PROVE b[i].stands = {}
    <3>1. CASE i \in DOMAIN base
      BY <1>4, <2>3, <3>1
    <3>2. CASE i \notin DOMAIN base
      BY <1>2, <1>4, <3>2
    <3> QED
      BY <3>1, <3>2
  <2>6. Stands(b) = Ids(b)
    BY <2>5, RawStands
  <2> QED
    BY <2>2, <2>4, <2>6
<1>6. t = s \o <<x, y>> /\ b = base \o <<x, y>>
  OBVIOUS
<1> HIDE DEF t, b
<1>7. Shown(s, base, u, j, k)
  BY DEF Presents
<1>8. j \in 0..2 /\ k \in 1..Len(b) + 1 /\ Len(t) = j + Len(b) + 1 - k
  BY <1>1, <1>3, <1>4, SMTT(30)
<1>9. ASSUME NEW i \in DOMAIN t, i > j PROVE t[i] = b[i - j + k - 1]
  <2>1. CASE i \in DOMAIN s
    <3>1. PICK l \in DOMAIN base : l = i - j + k - 1 /\ s[i] = base[l]
      BY <1>9, <2>1, LaterAt
    <3> QED
      BY <1>3, <1>4, <2>1, <3>1
  <2>2. CASE i = Len(s) + 1
    <3>1. i - j + k - 1 = Len(base) + 1
      BY <1>1, <2>2
    <3> QED
      BY <1>3, <1>4, <2>2, <3>1
  <2>3. CASE i = Len(s) + 2
    <3>1. i - j + k - 1 = Len(base) + 2
      BY <1>1, <2>3
    <3> QED
      BY <1>3, <1>4, <2>3, <3>1
  <2> QED
    BY <1>3, <2>1, <2>2, <2>3
<1>10. k \in DOMAIN b => b[k].role # "tool"
  <2>1. CASE k \in DOMAIN base
    BY <1>4, <1>7, <2>1 DEF Shown
  <2>2. CASE k \notin DOMAIN base
    <3>1. k = Len(base) + 1
      BY <1>1, <2>2
    <3> QED
      BY <1>2, <1>4, <3>1
  <2> QED
    BY <2>1, <2>2
<1>11. ASSUME j # 0 PROVE 1 \in DOMAIN s /\ t[1] = s[1]
  <2>1. 1 \in DOMAIN s
    BY <1>1, <1>11
  <2> QED
    BY <1>3, <2>1
<1>12. IF j = 0 THEN k = 1 ELSE Mark(t[1])
  BY <1>7, <1>11 DEF Shown
<1>13. ASSUME j = 2
       PROVE  t[2] = s[2] /\ \E i \in 1..k - 1 : t[2] = b[i] /\ b[i].role = "user"
  <2>1. PICK i \in 1..k - 1 : s[2] = base[i] /\ base[i].role = "user"
    BY <1>7, <1>13 DEF Shown
  <2>2. i \in DOMAIN base /\ 2 \in DOMAIN s
    BY <1>1, <1>13
  <2> QED
    BY <1>3, <1>4, <2>1, <2>2
<1>14. u < k => j = 2 /\ t[2] = b[u]
  BY <1>1, <1>4, <1>7, <1>13 DEF Shown
<1>15. ASSUME NEW i \in DOMAIN b, IsStep(b, u, i) PROVE i >= k
  <2>1. Len(base) + 1 \in DOMAIN b /\ b[Len(base) + 1].role = "assistant"
    BY <1>1, <1>2, <1>4
  <2>2. ~(Len(base) + 1 > i) /\ i \in Nat
    BY <1>4, <1>15, <2>1 DEF IsStep
  <2> QED
    BY <1>1, <2>2
<1>16. Shown(t, b, u, j, k)
  BY <1>3, <1>8, <1>9, <1>10, <1>12, <1>13, <1>14, <1>15, Zenon DEF Shown
<1> QED
  BY <1>5, <1>6, <1>8, <1>16, Zenon DEF Showing

-----------------------------------------------------------------------------
(* Markers, and sizes of requests                                          *)

\* The marker of compactRequest().
LEMMA CutMarker ==
  ASSUME NEW base, NEW u, NEW n, NEW calls, NEW s, NEW j, NEW k,
         Presents(base, u, n, calls, s, j, k), NEW allowance,
         NEW split, split = SplitRequest(s, allowance), NEW size \in Nat,
         NEW marker, marker = Marker(size, Stands(split.older), Readable(split.older))
  PROVE  Mark(marker) /\ marker \in Items /\ marker.stands = Stands(split.older)
         /\ marker.size = size
<1>1. /\ split.older \in Seq(Items) /\ n \in Nat
      /\ \A i \in DOMAIN split.older : \E x \in DOMAIN s : split.older[i] = s[x]
  BY SplitTypes, PresentsTypes
<1>2. \A i \in DOMAIN s : Raw(s[i], n) \/ Mark(s[i])
  BY ShownMessages
<1>3. \A i \in DOMAIN split.older : Raw(split.older[i], n) \/ Mark(split.older[i])
  BY <1>1, <1>2
<1>4. "archive" \notin Windows => Stands(split.older) \subseteq Readable(split.older)
  BY <1>1, <1>3, StandsAreReadable
<1>5. Stands(split.older) \subseteq Nat /\ Readable(split.older) \subseteq Nat
  BY <1>1, StandsType
<1> QED
  BY <1>4, <1>5, MarkerIs

\* The marker of fitHistory().
LEMMA FoldMarker ==
  ASSUME NEW base, NEW u, NEW n, NEW calls, NEW s, NEW j, NEW k,
         Presents(base, u, n, calls, s, j, k), NEW start \in 1..Len(s) + 1,
         NEW archived \in BOOLEAN, archived \/ "archive" \in Windows, NEW size \in Nat,
         NEW text, text = FilesIn(UpTo(s, start - 1))
                     \cup (IF archived THEN Readable(Archived(s, start)) ELSE {}),
         NEW marker, marker = Marker(size, Stands(UpTo(s, start - 1)), text)
  PROVE  Mark(marker) /\ marker \in Items /\ marker.stands = Stands(UpTo(s, start - 1))
<1> DEFINE older == UpTo(s, start - 1)
<1>1. s \in Seq(Items) /\ n \in Nat /\ Len(s) \in Nat /\ DOMAIN s = 1..Len(s)
  BY PresentsTypes
<1>2. start - 1 \in 0..Len(s)
  BY <1>1
<1>3. /\ older \in Seq(Items) /\ DOMAIN older = 1..start - 1
      /\ \A i \in 1..start - 1 : older[i] = s[i]
  BY <1>1, <1>2, UpToIs
<1>4. Archived(s, start) = older
  BY DEF Archived
<1> HIDE DEF older
<1>5. \A i \in 1..start - 1 : i \in DOMAIN s
  BY <1>1, <1>2
<1>6. \A i \in DOMAIN older : Raw(older[i], n) \/ Mark(older[i])
  BY <1>3, <1>5, ShownMessages
<1>7. "archive" \notin Windows => Stands(older) \subseteq Readable(older)
  BY <1>1, <1>6, StandsAreReadable
<1>8. Stands(older) \subseteq Nat /\ Readable(older) \subseteq Nat /\ FilesIn(older) \subseteq Nat
  BY <1>3, StandsType
<1>9. /\ text \subseteq Nat
      /\ "archive" \notin Windows => Stands(older) \subseteq text
  BY <1>4, <1>7, <1>8 DEF older
<1> QED
  BY <1>8, <1>9, MarkerIs DEF older

\* No request is empty.
LEMMA RequestIsPositive ==
  ASSUME NEW base, NEW u, NEW n, NEW calls, NEW s, NEW j, NEW k,
         Presents(base, u, n, calls, s, j, k)
  PROVE  Total[s] \in Nat /\ Total[s] > 0
<1>1. /\ s \in Seq(Items) /\ DOMAIN s = 1..Len(s) /\ Len(s) \in Nat
      /\ DOMAIN base = 1..Len(base) /\ Len(base) \in Nat
      /\ u \in Nat /\ u <= Len(base) /\ u > 0
      /\ j \in Nat /\ j <= 2 /\ k \in Nat /\ k > 0 /\ k <= Len(base) + 1
      /\ Len(s) = j + Len(base) + 1 - k
  BY PresentsTypes
<1>2. Total[s] \in Nat
  BY <1>1, TotalType
<1>3. ASSUME NEW t \in Seq(Items), t # <<>>
      PROVE  /\ Total[t] = t[1].size + Total[Tail(t)] /\ t[1].size \in Nat
             /\ Tail(t) \in Seq(Items) /\ Total[Tail(t)] \in Nat
  <2>1. Tail(t) \in Seq(Items) /\ Head(t).size \in Nat /\ Head(t) = t[1]
    BY <1>3, TailShort
  <2>2. Total[Tail(t)] \in Nat
    BY <2>1, TotalType
  <2> QED
    BY <1>3, <2>1, <2>2, TotalIs DEF Adds
<1>4. CASE j = 0
  <2>1. k = 1 /\ 1 \in DOMAIN s /\ 1 > j
    <3>1. k = 1
      BY <1>4 DEF Presents, Shown
    <3> QED
      BY <1>1, <1>4, <3>1
  <2>2. Raw(s[1], n)
    BY <2>1, LaterAt
  <2>3. s[1].size > 0
    BY <2>2 DEF Raw
  <2>4. s # <<>>
    BY <1>1, <2>1
  <2>5. Total[s] = s[1].size + Total[Tail(s)] /\ s[1].size \in Nat /\ Total[Tail(s)] \in Nat
    BY <1>1, <1>3, <2>4
  <2> QED
    BY <1>2, <2>3, <2>5
<1>5. CASE j # 0
  <2>1. u < k => j = 2
    BY DEF Presents, Shown
  <2>2. Len(s) > 1 /\ 2 \in DOMAIN s /\ s # <<>>
    BY <1>1, <1>5, <2>1
  <2>3. Raw(s[2], n)
    <3>1. CASE j = 1
      BY <2>2, <3>1, LaterAt
    <3>2. CASE j = 2
      BY <2>2, <3>2, EarlierAt
    <3> QED
      BY <1>1, <1>5, <3>1, <3>2
  <2>4. s[2].size > 0
    BY <2>3 DEF Raw
  <2>5. /\ Total[s] = s[1].size + Total[Tail(s)] /\ s[1].size \in Nat
        /\ Tail(s) \in Seq(Items) /\ Total[Tail(s)] \in Nat
    BY <1>1, <1>3, <2>2
  <2>6. Tail(s) # <<>> /\ Tail(s)[1] = s[2]
    <3>1. Len(Tail(s)) = Len(s) - 1
      BY <1>1, <2>2, TailShort
    <3>2. Tail(s) # <<>>
      <4>1. Len(Tail(s)) > 0
        BY <1>1, <2>2, <3>1
      <4> QED
        BY <4>1
    <3>3. s \in Seq(Items) /\ Len(s) > 1
      BY <1>1, <2>2
    <3>4. Tail(s)[1] = s[2]
      BY <3>3
    <3> QED
      BY <3>2, <3>4
  <2>7. /\ Total[Tail(s)] = s[2].size + Total[Tail(Tail(s))] /\ s[2].size \in Nat
        /\ Total[Tail(Tail(s))] \in Nat
    BY <1>3, <2>5, <2>6
  <2> QED
    BY <1>2, <2>4, <2>5, <2>7
<1> QED
  BY <1>4, <1>5

\* compactRequest(): the marker fits the room.
LEMMA CutFits ==
  ASSUME NEW marker \in Items, NEW recent \in Seq(Items), NEW summary \in Summaries,
         NEW target \in Nat, NEW room, room = Minus(target, System + Total[recent]),
         room > Reference, marker.size = MarkerSize(summary, room)
  PROVE  Size(<<marker>> \o recent) <= target
<1>1. Total[recent] \in Nat /\ Total[<<marker>> \o recent] = marker.size + Total[recent]
  BY TotalType, TotalOfMore
<1>2. System \in Nat /\ Reference \in Nat /\ summary \in Nat
  BY ContextSizes
<1>3. room = target - (System + Total[recent]) /\ room \in Int
  BY <1>1, <1>2 DEF Minus
<1>4. marker.size <= room /\ marker.size \in Nat
  BY <1>2, <1>3 DEF MarkerSize
<1> QED
  BY <1>1, <1>2, <1>3, <1>4 DEF Size

\* A smaller request after a rejection.
LEMMA Shrinks ==
  ASSUME NEW system \in Nat, NEW rejected \in Nat, rejected > system, NEW attempt \in 0..2
  PROVE  /\ system + ((rejected - system) * Shrink[attempt + 1]) \div 100 \in Nat
         /\ system + ((rejected - system) * Shrink[attempt + 1]) \div 100 < rejected
<1>1. /\ \A z \in Nat : z > 0 => (z * 70) \div 100 \in Nat /\ (z * 70) \div 100 < z
      /\ \A z \in Nat : z > 0 => (z * 50) \div 100 \in Nat /\ (z * 50) \div 100 < z
      /\ \A z \in Nat : z > 0 => (z * 35) \div 100 \in Nat /\ (z * 35) \div 100 < z
  OBVIOUS
<1>2. PICK z \in Nat : z = rejected - system /\ z > 0 /\ rejected = system + z
  <2>1. rejected - system \in Nat /\ rejected - system > 0
    BY DEF Shrink
  <2> QED
    BY <2>1
<1>3. Shrink[attempt + 1] \in {70, 50, 35}
  BY DEF Shrink
<1>4. PICK p \in {70, 50, 35} : p = Shrink[attempt + 1]
  BY <1>3
<1>5. (z * p) \div 100 \in Nat /\ (z * p) \div 100 < z
  <2>1. CASE p = 70
    BY <1>1, <1>2, <2>1
  <2>2. CASE p = 50
    BY <1>1, <1>2, <2>2
  <2>3. CASE p = 35
    BY <1>1, <1>2, <2>3
  <2> QED
    BY <2>1, <2>2, <2>3
<1>6. \A y \in Nat : y < z => system + y \in Nat /\ system + y < rejected
  BY <1>2
<1> QED
  BY <1>2, <1>4, <1>5, <1>6

-----------------------------------------------------------------------------
(* What a step of one chat leaves as it is                                 *)

\* More messages, of which the earlier ones call what they did.
Later(n, calls, m, more) ==
  /\ n \in Nat /\ m \in Nat /\ n <= m /\ calls \subseteq more /\ more \subseteq 1..m
  /\ more \cap 1..n \subseteq calls

\* What has a place among the first n messages keeps it.
LEMMA PrefixKeeps ==
  ASSUME NEW s, NEW n, NEW calls, NEW m, NEW more, Later(n, calls, m, more),
         Whole(s, calls), \A i \in DOMAIN s : s[i].id <= n
  PROVE  Whole(s, more)
<1>1. /\ calls \subseteq more
      /\ \A i \in DOMAIN s : s[i].id \in more => s[i].id \in calls
  <2>1. /\ n \in Nat /\ m \in Nat /\ more \subseteq 1..m /\ calls \subseteq more
        /\ \A x \in more : x \in 1..n => x \in calls
    BY DEF Later
  <2>2. \A x \in 1..m : x <= n => x \in 1..n
    BY <2>1
  <2> QED
    BY <2>1, <2>2
<1> QED
  BY <1>1, WholeKeeps

\* A conversation checkpoint stays right when more messages are written.
LEMMA FoldKeeps ==
  ASSUME NEW r, NEW n, NEW calls, NEW m, NEW more, Later(n, calls, m, more),
         r.prefix \in Seq(Items), FoldOK(r, n, calls)
  PROVE  FoldOK(r, m, more)
<1>1. n \in Nat /\ m \in Nat /\ n <= m
  BY DEF Later
<1>2. ASSUME NEW i \in DOMAIN r.prefix PROVE r.prefix[i].id <= m
  <2>1. r.prefix[i].id <= n /\ r.prefix[i].id \in Nat
    <3>1. r.prefix[i] \in Items
      OBVIOUS
    <3> QED
      BY <3>1 DEF FoldOK, Items
  <2> QED
    BY <1>1, <2>1
<1>3. Whole(r.prefix, more)
  BY PrefixKeeps DEF FoldOK
<1> QED
  BY <1>2, <1>3 DEF FoldOK

\* And so does one of a request.
LEMMA CutKeeps ==
  ASSUME NEW r, NEW n, NEW calls, NEW m, NEW more, Later(n, calls, m, more),
         r.prefix \in Seq(Items), CutOK(r, n, calls)
  PROVE  CutOK(r, m, more)
<1>1. n \in Nat /\ m \in Nat /\ n <= m
  BY DEF Later
<1>2. ASSUME NEW i \in DOMAIN r.prefix PROVE r.prefix[i].id <= m
  <2>1. r.prefix[i].id <= n /\ r.prefix[i].id \in Nat
    <3>1. r.prefix[i] \in Items
      OBVIOUS
    <3> QED
      BY <3>1 DEF CutOK, Items
  <2> QED
    BY <1>1, <2>1
<1>3. Whole(r.prefix, more)
  BY PrefixKeeps DEF CutOK
<1> QED
  BY <1>2, <1>3, Zenon DEF CutOK

\* And a turn of another chat.
LEMMA TurnKeeps ==
  ASSUME NEW t, NEW u, NEW n, NEW calls, NEW m, NEW more, Later(n, calls, m, more),
         TurnOK(t, u, n, calls)
  PROVE  TurnOK(t, u, m, more)
<1>1. Log(t.base, m, more)
  BY LogKeeps DEF Later, TurnOK, Asks
<1>2. Asks(t.base, u, m, more)
  BY <1>1 DEF TurnOK, Asks
<1> QED
  BY <1>2, Zenon DEF TurnOK

\* The messages of a turn are of the chat, and its question and steps among them.
LEMMA OwnIs ==
  ASSUME NEW base, NEW u, NEW n \in Nat, NEW calls, Asks(base, u, n, calls)
  PROVE  /\ Own(base, u) \subseteq 1..n /\ Own(base, u) \subseteq Ids(base)
         /\ base[u].id \in Own(base, u)
         /\ \A i \in DOMAIN base : IsStep(base, u, i) => base[i].id \in Own(base, u)
<1>1. /\ \A i \in DOMAIN base : base[i].id \in 1..n
      /\ \A i \in DOMAIN base : base[i].id \in Ids(base)
  BY LogIds DEF Asks, Log, Raw
<1>2. u \in DOMAIN base /\ u >= u
  BY DEF Asks, Log
<1>3. \A i \in DOMAIN base : i > u => i >= u
  BY <1>2 DEF Asks, Log
<1> QED
  BY <1>1, <1>2, <1>3 DEF Own, IsStep

\* What holds none of them spares them.
LEMMA SparesApart ==
  ASSUME NEW base, NEW u, NEW n \in Nat, NEW calls, Asks(base, u, n, calls),
         NEW r, Own(base, u) \cap Ids(r.prefix) = {}
  PROVE  Spares(r, base, u)
BY OwnIs DEF Spares

\* The messages that a step of c may bring into the chat.
Known(c) ==
  (Nat \ 1..fresh) \cup Ids(turn[c].base) \cup UNION {Ids(chat[a]) : a \in Chats}

\* A step of c, whose checkpoints are of its own messages.
Moves(c) ==
  /\ \A d \in Chats \ {c} : chat'[d] = chat[d] /\ turn'[d] = turn[d]
  /\ Ids(chat'[c]) \subseteq Known(c) /\ Ids(turn'[c].base) \subseteq Known(c)
  /\ \A r \in folded' : r \in folded \/ Ids(r.prefix) \subseteq Ids(turn[c].base)
  /\ \A r \in cut' : r \in cut \/ Ids(r.prefix) \subseteq Ids(turn[c].base)

\* The others' turns still own their messages.
LEMMA OthersKeep ==
  ASSUME TypeOK, NEW calls, Kept(calls), NEW c \in Chats, Moves(c),
         NEW d \in Chats \ {c}, turn[d].pc # "idle"
  PROVE  OwnOK(d)'
<1> DEFINE own == Own(turn[d].base, Start(d))
<1>1. fresh \in Nat /\ Asks(turn[d].base, Start(d), fresh, calls) /\ OwnOK(d)
  BY DEF Kept, TurnOK, TypeOK
<1>2. own \subseteq 1..fresh
  BY <1>1, OwnIs
<1>3. /\ \A e \in Chats : own \cap Ids(chat[e]) = {}
      /\ \A e \in Chats \ {d} : own \cap Ids(turn[e].base) = {}
      /\ \A r \in folded : own \cap Ids(r.prefix) = {}
      /\ \A r \in cut : Spares(r, turn[d].base, Start(d))
  BY <1>1 DEF OwnOK
<1>4. own \cap Ids(turn[c].base) = {} /\ own \cap Known(c) = {}
  <2>1. own \cap Ids(turn[c].base) = {}
    BY <1>3
  <2>2. own \cap (Nat \ 1..fresh) = {}
    BY <1>2
  <2>3. own \cap UNION {Ids(chat[a]) : a \in Chats} = {}
    <3>1. ASSUME NEW x \in own, x \in UNION {Ids(chat[a]) : a \in Chats} PROVE FALSE
      <4>1. PICK a \in Chats : x \in Ids(chat[a])
        BY <3>1
      <4>2. own \cap Ids(chat[a]) = {}
        BY <1>3
      <4> QED
        BY <4>1, <4>2
    <3> QED
      BY <3>1
  <2> HIDE DEF own
  <2>4. ASSUME NEW x \in own, x \in Known(c) PROVE FALSE
    BY <2>1, <2>2, <2>3, <2>4, Zenon DEF Known
  <2> QED
    BY <2>1, <2>4
<1>5. Own(turn[d].base, Start(d))' = own /\ turn'[d].base = turn[d].base /\ Start(d)' = Start(d)
  BY DEF Moves, Start
<1> HIDE DEF own
<1>6. \A e \in Chats : own \cap Ids(chat'[e]) = {}
  BY <1>3, <1>4 DEF Moves
<1>7. \A e \in Chats \ {d} : own \cap Ids(turn'[e].base) = {}
  BY <1>3, <1>4 DEF Moves
<1>8. \A r \in folded' : own \cap Ids(r.prefix) = {}
  BY <1>3, <1>4 DEF Moves
<1>9. \A r \in cut' : Spares(r, turn[d].base, Start(d))
  <2>1. \A r : own \cap Ids(r.prefix) = {} => Spares(r, turn[d].base, Start(d))
    BY <1>1, SparesApart DEF own
  <2> QED
    BY <1>3, <1>4, <2>1 DEF Moves
<1> QED
  BY <1>5, <1>6, <1>7, <1>8, <1>9 DEF OwnOK

\* Its own turn does when it keeps its messages and holds none in a new checkpoint.
LEMMA OwnKeeps ==
  ASSUME TypeOK, NEW c \in Chats, OwnOK(c), chat' = chat,
         \A d \in Chats \ {c} : turn'[d] = turn[d],
         DOMAIN turn'[c].base = DOMAIN turn[c].base,
         \A i \in DOMAIN turn[c].base : /\ turn'[c].base[i].id = turn[c].base[i].id
                                         /\ turn'[c].base[i].role = turn[c].base[i].role,
         Start(c) \in DOMAIN turn[c].base,
         \A r \in folded' : r \in folded \/ Own(turn[c].base, Start(c)) \cap Ids(r.prefix) = {},
         \A r \in cut' : r \in cut \/ Spares(r, turn[c].base, Start(c))
  PROVE  OwnOK(c)'
<1> DEFINE own == Own(turn[c].base, Start(c))
<1>1. Start(c)' = Start(c)
  BY DEF Start
<1>2. Own(turn[c].base, Start(c))' = own
  BY <1>1 DEF Own
<1>3. ASSUME NEW r, Spares(r, turn[c].base, Start(c)) PROVE Spares(r, turn'[c].base, Start(c))
  <2>1. \A i \in DOMAIN turn[c].base :
          IsStep(turn'[c].base, Start(c), i) => IsStep(turn[c].base, Start(c), i)
    BY DEF IsStep
  <2> QED
    BY <1>3, <2>1 DEF Spares
<1>4. /\ \A e \in Chats : own \cap Ids(chat[e]) = {}
      /\ \A e \in Chats \ {c} : own \cap Ids(turn[e].base) = {}
      /\ \A r \in folded : own \cap Ids(r.prefix) = {}
      /\ \A r \in cut : Spares(r, turn[c].base, Start(c))
  BY DEF OwnOK
<1> HIDE DEF own
<1>5. /\ \A e \in Chats : own \cap Ids(chat'[e]) = {}
      /\ \A e \in Chats \ {c} : own \cap Ids(turn'[e].base) = {}
  BY <1>4
<1>6. \A r \in folded' : own \cap Ids(r.prefix) = {}
  BY <1>4 DEF own
<1>7. \A r \in cut' : Spares(r, turn'[c].base, Start(c))
  BY <1>3, <1>4
<1> QED
  BY <1>1, <1>2, <1>5, <1>6, <1>7 DEF OwnOK

\* A step of c keeps the invariant when it does for c.
LEMMA KeptBy ==
  ASSUME TypeOK, NEW calls, Kept(calls), NEW c \in Chats, Moves(c),
         NEW more, Later(fresh, calls, fresh', more),
         Log(chat'[c], fresh', more),
         \A r \in folded' : r \in folded \/ FoldOK(r, fresh', more),
         \A r \in cut' : r \in cut \/ CutOK(r, fresh', more),
         IF turn'[c].pc = "idle" THEN turn'[c] = Idle
         ELSE TurnOK(turn'[c], Start(c)', fresh', more) /\ OwnOK(c)'
  PROVE  Kept(more)'
<1>1. more \subseteq 1..fresh'
  BY DEF Later
<1>2. ASSUME NEW d \in Chats PROVE Log(chat'[d], fresh', more)
  <2>1. CASE d = c
    BY <2>1
  <2>2. CASE d # c
    <3>1. chat'[d] = chat[d] /\ Log(chat[d], fresh, calls)
      BY <2>2 DEF Moves, Kept
    <3> QED
      BY <3>1, LogKeeps DEF Later
  <2> QED
    BY <2>1, <2>2
<1>3. ASSUME NEW r \in folded' PROVE FoldOK(r, fresh', more)
  <2>1. ASSUME r \in folded PROVE FoldOK(r, fresh', more)
    <3>1. FoldOK(r, fresh, calls) /\ r.prefix \in Seq(Items)
      BY <2>1 DEF Kept, TypeOK
    <3> QED
      BY <3>1, FoldKeeps
  <2> QED
    BY <2>1
<1>4. ASSUME NEW r \in cut' PROVE CutOK(r, fresh', more)
  <2>1. ASSUME r \in cut PROVE CutOK(r, fresh', more)
    <3>1. CutOK(r, fresh, calls) /\ r.prefix \in Seq(Items)
      BY <2>1 DEF Kept, TypeOK
    <3> QED
      BY <3>1, CutKeeps
  <2> QED
    BY <2>1
<1>5. ASSUME NEW d \in Chats
      PROVE  IF turn'[d].pc = "idle" THEN turn'[d] = Idle
             ELSE TurnOK(turn'[d], Start(d)', fresh', more) /\ OwnOK(d)'
  <2>1. CASE d = c
    BY <2>1
  <2>2. CASE d # c
    <3>1. turn'[d] = turn[d] /\ Start(d)' = Start(d)
      BY <2>2 DEF Moves, Start
    <3>2. CASE turn[d].pc = "idle"
      BY <3>1, <3>2 DEF Kept
    <3>3. CASE turn[d].pc # "idle"
      <4>1. TurnOK(turn[d], Start(d), fresh, calls)
        BY <3>3 DEF Kept
      <4>2. TurnOK(turn[d], Start(d), fresh', more)
        BY <4>1, TurnKeeps
      <4>3. OwnOK(d)'
        BY <2>2, <3>3, OthersKeep
      <4> QED
        BY <3>1, <3>3, <4>2, <4>3
    <3> QED
      BY <3>2, <3>3
  <2> QED
    BY <2>1, <2>2
<1> QED
  BY <1>1, <1>2, <1>3, <1>4, <1>5 DEF Kept

-----------------------------------------------------------------------------
(* The steps of a chat                                                     *)

\* What is known of a chat that is in a turn.
LEMMA Busy ==
  ASSUME TypeOK, NEW calls, Kept(calls), NEW c \in Chats, turn[c].pc # "idle"
  PROVE  /\ TurnOK(turn[c], Start(c), fresh, calls) /\ OwnOK(c)
         /\ Asks(turn[c].base, Start(c), fresh, calls) /\ Log(turn[c].base, fresh, calls)
         /\ fresh \in Nat /\ calls \subseteq 1..fresh /\ turn[c] \in Turns
         /\ Later(fresh, calls, fresh, calls)
<1>1. TurnOK(turn[c], Start(c), fresh, calls) /\ OwnOK(c) /\ calls \subseteq 1..fresh
  BY DEF Kept
<1>2. fresh \in Nat /\ turn[c] \in Turns
  BY DEF TypeOK
<1>3. Later(fresh, calls, fresh, calls)
  BY <1>1, <1>2 DEF Later
<1> QED
  BY <1>1, <1>2, <1>3 DEF TurnOK, Asks

\* A bound that is spent stays one.
LEMMA SpendType ==
  ASSUME limit \in Bounds, NEW what \in {"messages", "edits", "branches", "stops", "faults"},
         Spend(what)
  PROVE  limit' \in Bounds
BY DEF Spend, Bounds

\* A chat without a turn.
LEMMA IdleType == Idle \in Turns /\ Idle.pc = "idle" /\ Idle.base = <<>>
BY DEF Idle, Turns

\* No messages.
LEMMA NoIds == Ids(<<>>) = {}
BY DEF Ids, IdsAt

\* A turn that ends leaves the messages of the chat.
LEMMA EndKeeps ==
  ASSUME TypeOK, NEW calls, Kept(calls), NEW c \in Chats, NEW base, End(c, base),
         Log(base, fresh', calls), Ids(base) \subseteq Known(c),
         folded' = folded, cut' = cut, fresh' \in Nat, fresh <= fresh', limit' \in Bounds
  PROVE  TypeOK' /\ Kept(calls)'
<1>1. /\ chat \in [Chats -> Seq(Items)] /\ turn \in [Chats -> Turns] /\ fresh \in Nat
      /\ calls \subseteq 1..fresh
  BY DEF TypeOK, Kept
<1>2. /\ chat'[c] = base /\ turn'[c] = Idle
      /\ \A d \in Chats \ {c} : chat'[d] = chat[d] /\ turn'[d] = turn[d]
  BY <1>1 DEF End
<1>3. base \in Seq(Items)
  BY DEF Log
<1>4. chat' \in [Chats -> Seq(Items)] /\ turn' \in [Chats -> Turns]
  BY <1>1, <1>3, IdleType DEF End
<1>5. TypeOK'
  BY <1>4 DEF TypeOK
<1>6. Moves(c)
  BY <1>2, NoIds, IdleType DEF Moves
<1>7. Later(fresh, calls, fresh', calls)
  <2>1. calls \subseteq 1..fresh'
    BY <1>1
  <2> QED
    BY <1>1, <2>1 DEF Later
<1>8. Kept(calls)'
  BY <1>2, <1>6, <1>7, IdleType, KeptBy
<1> QED
  BY <1>5, <1>8

\* A stop or a crash keeps what the turn had finished.
LEMMA StopKeeps ==
  ASSUME TypeOK, NEW calls, Kept(calls), NEW c \in Chats, Stop(c)
  PROVE  TypeOK' /\ Kept(calls)'
<1>1. /\ turn[c].pc # "idle" /\ End(c, turn[c].base) /\ Spend("stops")
      /\ folded' = folded /\ cut' = cut /\ fresh' = fresh
  BY DEF Stop
<1>2. Log(turn[c].base, fresh, calls) /\ fresh \in Nat
  BY <1>1, Busy
<1>3. limit' \in Bounds
  BY <1>1, SpendType DEF TypeOK
<1>4. Ids(turn[c].base) \subseteq Known(c)
  BY DEF Known
<1> QED
  BY <1>1, <1>2, <1>3, <1>4, EndKeeps

\* So does a request that cannot be made small enough.
LEMMA TooLargeKeeps ==
  ASSUME TypeOK, NEW calls, Kept(calls), NEW c \in Chats, TooLarge(c)
  PROVE  TypeOK' /\ Kept(calls)'
<1>1. /\ turn[c].pc # "idle" /\ End(c, turn[c].base) /\ limit' = limit
      /\ folded' = folded /\ cut' = cut /\ fresh' = fresh
  BY DEF TooLarge
<1>2. Log(turn[c].base, fresh, calls) /\ fresh \in Nat
  BY <1>1, Busy
<1>3. limit' \in Bounds
  BY <1>1 DEF TypeOK
<1>4. Ids(turn[c].base) \subseteq Known(c)
  BY DEF Known
<1> QED
  BY <1>1, <1>2, <1>3, <1>4, EndKeeps

\* A new message.
LEMMA MessageIs ==
  ASSUME NEW role \in {"user", "assistant", "tool"}, NEW n \in Nat, NEW id \in 1..n,
         NEW size \in Nat \ {0}
  PROVE  LET x == Message(role, id, size) IN Raw(x, n) /\ x.id = id /\ x.role = role
BY DEF Message, Raw, Items

\* The messages of a chat and one more.
LEMMA AppendedIds ==
  ASSUME NEW s \in Seq(Items), NEW x
  PROVE  \A y \in Ids(Append(s, x)) : y \in Ids(s) \/ y = x.id
<1> DEFINE t == Append(s, x)
<1>1. ASSUME NEW y \in Ids(t) PROVE y \in Ids(s) \/ y = x.id
  <2>1. PICK i \in DOMAIN t : t[i].id = y /\ y # 0
    BY <1>1, MemberOfIds
  <2>2. CASE i \in DOMAIN s
    <3>1. s[i].id = y
      BY <2>1, <2>2
    <3> QED
      BY <2>1, <2>2, <3>1, MemberOfIds
  <2>3. CASE i \notin DOMAIN s
    <3>1. t[i] = x
      BY <2>1, <2>3
    <3> QED
      BY <2>1, <3>1
  <2> QED
    BY <2>2, <2>3
<1> QED
  BY <1>1

\* The answer ends the turn.
LEMMA AnswerKeeps ==
  ASSUME TypeOK, NEW calls, Kept(calls), NEW c \in Chats, Answer(c)
  PROVE  TypeOK' /\ Kept(calls)'
<1>1. PICK size \in Sizes : End(c, Append(turn[c].base, Message("assistant", fresh + 1, size)))
  BY DEF Answer
<1> DEFINE x == Message("assistant", fresh + 1, size)
<1>2. /\ turn[c].pc # "idle" /\ limit' = limit
      /\ folded' = folded /\ cut' = cut /\ fresh' = fresh + 1
  BY DEF Answer
<1>3. /\ Log(turn[c].base, fresh, calls) /\ fresh \in Nat /\ calls \subseteq 1..fresh
      /\ turn[c].base \in Seq(Items)
  BY <1>2, Busy DEF Log
<1>4. Raw(x, fresh + 1) /\ x.id = fresh + 1 /\ x.role = "assistant"
  <2>1. size \in Nat \ {0}
    BY ContextSizes
  <2>2. fresh + 1 \in Nat /\ fresh + 1 \in 1..fresh + 1
    BY <1>3
  <2> QED
    BY <2>1, <2>2, MessageIs
<1> HIDE DEF x
<1>5. Log(Append(turn[c].base, x), fresh + 1, calls)
  BY <1>3, <1>4, LogAppend
<1>6. limit' \in Bounds
  BY <1>2 DEF TypeOK
<1>7. Ids(Append(turn[c].base, x)) \subseteq Known(c)
  <2>1. fresh + 1 \in Nat \ 1..fresh
    BY <1>3
  <2> QED
    BY <1>3, <1>4, <2>1, AppendedIds DEF Known
<1>8. fresh + 1 \in Nat /\ fresh <= fresh + 1
  BY <1>3
<1>9. End(c, Append(turn[c].base, x))
  BY <1>1 DEF x
<1> QED
  BY <1>2, <1>5, <1>6, <1>7, <1>8, <1>9, EndKeeps

\* The chat of an idle turn takes back or copies messages.
LEMMA CutKeepsChat ==
  ASSUME TypeOK, NEW calls, Kept(calls), NEW c \in Chats, NEW s, Log(s, fresh, calls),
         NEW d \in Chats, Ids(s) \subseteq Ids(chat[d]), turn[c].pc = "idle",
         chat' = [chat EXCEPT ![c] = s], turn' = turn, folded' = folded, cut' = cut,
         fresh' = fresh, limit' \in Bounds
  PROVE  TypeOK' /\ Kept(calls)'
<1>1. /\ chat \in [Chats -> Seq(Items)] /\ turn \in [Chats -> Turns] /\ fresh \in Nat
      /\ calls \subseteq 1..fresh /\ turn[c] = Idle
  BY DEF TypeOK, Kept
<1>2. chat'[c] = s /\ \A e \in Chats \ {c} : chat'[e] = chat[e] /\ turn'[e] = turn[e]
  BY <1>1
<1>3. TypeOK'
  <2>1. chat' \in [Chats -> Seq(Items)]
    BY <1>1 DEF Log
  <2> QED
    BY <2>1 DEF TypeOK
<1>4. Ids(s) \subseteq Known(c)
  BY DEF Known
<1>5. Ids(turn'[c].base) \subseteq Known(c)
  BY <1>1, IdleType, NoIds
<1>6. Moves(c)
  BY <1>2, <1>4, <1>5 DEF Moves
<1>7. Later(fresh, calls, fresh', calls)
  BY <1>1 DEF Later
<1>8. Kept(calls)'
  BY <1>1, <1>2, <1>6, <1>7, IdleType, KeptBy
<1> QED
  BY <1>3, <1>8

\* An edit takes back a question and what follows it.
LEMMA EditKeeps ==
  ASSUME TypeOK, NEW calls, Kept(calls), NEW c \in Chats, Edit(c)
  PROVE  TypeOK' /\ Kept(calls)'
<1>1. PICK i \in Roles(chat[c], "user") : chat' = [chat EXCEPT ![c] = UpTo(@, i - 1)]
  BY DEF Edit
<1>2. /\ turn[c].pc = "idle" /\ Spend("edits")
      /\ turn' = turn /\ folded' = folded /\ cut' = cut /\ fresh' = fresh
  BY DEF Edit
<1>3. limit' \in Bounds
  BY <1>2, SpendType DEF TypeOK
<1>4. /\ Log(chat[c], fresh, calls) /\ fresh \in Nat /\ chat[c] \in Seq(Items)
      /\ chat \in [Chats -> Seq(Items)]
  BY DEF Kept, TypeOK
<1>5. i - 1 \in 0..Len(chat[c]) /\ i - 1 + 1 = i /\ chat[c][i].role = "user"
  BY <1>4 DEF Roles
<1>6. Log(UpTo(chat[c], i - 1), fresh, calls)
  BY <1>4, <1>5, LogUpTo
<1>7. Ids(UpTo(chat[c], i - 1)) \subseteq Ids(chat[c])
  BY <1>4, <1>5, UpToIds
<1>8. chat' = [chat EXCEPT ![c] = UpTo(chat[c], i - 1)]
  BY <1>1
<1> QED
  BY <1>2, <1>3, <1>6, <1>7, <1>8, CutKeepsChat

\* A branch copies whole turns.
LEMMA BranchKeeps ==
  ASSUME TypeOK, NEW calls, Kept(calls), NEW c \in Chats, NEW d \in Chats, Branch(c, d)
  PROVE  TypeOK' /\ Kept(calls)'
<1>1. PICK i \in DOMAIN chat[c] :
        /\ i + 1 \in DOMAIN chat[c] => chat[c][i + 1].role = "user"
        /\ chat' = [chat EXCEPT ![d] = UpTo(chat[c], i)]
  BY DEF Branch
<1>2. /\ turn[d].pc = "idle" /\ Spend("branches")
      /\ turn' = turn /\ folded' = folded /\ cut' = cut /\ fresh' = fresh
  BY DEF Branch
<1>3. limit' \in Bounds
  BY <1>2, SpendType DEF TypeOK
<1>4. Log(chat[c], fresh, calls) /\ fresh \in Nat /\ chat[c] \in Seq(Items)
  BY DEF Kept, TypeOK
<1>5. i \in 0..Len(chat[c]) /\ (i + 1 \in DOMAIN chat[c] => chat[c][i + 1].role # "tool")
  BY <1>1, <1>4
<1>6. Log(UpTo(chat[c], i), fresh, calls)
  BY <1>4, <1>5, LogUpTo
<1>7. Ids(UpTo(chat[c], i)) \subseteq Ids(chat[c])
  BY <1>4, <1>5, UpToIds
<1> QED
  BY <1>1, <1>2, <1>3, <1>6, <1>7, CutKeepsChat

\* The turn of c becomes t.
LEMMA Turned ==
  ASSUME TypeOK, NEW c \in Chats, NEW t \in Turns, turn' = [turn EXCEPT ![c] = t]
  PROVE  /\ turn' \in [Chats -> Turns] /\ turn'[c] = t
         /\ \A d \in Chats \ {c} : turn'[d] = turn[d]
BY DEF TypeOK

\* A question is the one thing its turn owns.
LEMMA OwnOfQuestion ==
  ASSUME NEW s \in Seq(Items), NEW x
  PROVE  Own(Append(s, x), Len(s) + 1) = {x.id}
<1> DEFINE t == Append(s, x)
<1>1. DOMAIN t = 1..Len(s) + 1 /\ Len(s) \in Nat /\ t[Len(s) + 1] = x
  OBVIOUS
<1> HIDE DEF t
<1>2. {l \in DOMAIN t : l >= Len(s) + 1} = {Len(s) + 1}
  BY <1>1
<1>3. Own(t, Len(s) + 1) = {x.id}
  BY <1>1, <1>2 DEF Own
<1> QED
  BY <1>3 DEF t

\* Nothing holds a message that is new.
LEMMA NewIsOwn ==
  ASSUME TypeOK, NEW calls, Kept(calls), NEW x \in Nat, x > fresh
  PROVE  /\ \A d \in Chats : x \notin Ids(chat[d]) /\ x \notin Ids(turn[d].base)
         /\ \A r \in folded : x \notin Ids(r.prefix)
         /\ \A r \in cut : x \notin Ids(r.prefix)
<1>1. fresh \in Nat /\ x \notin 1..fresh
  BY DEF TypeOK
<1>2. ASSUME NEW d \in Chats PROVE x \notin Ids(chat[d]) /\ x \notin Ids(turn[d].base)
  <2>1. Log(chat[d], fresh, calls)
    BY DEF Kept
  <2>2. CASE turn[d].pc = "idle"
    <3>1. Ids(turn[d].base) = {}
      BY <2>2, IdleType, NoIds DEF Kept
    <3> QED
      BY <1>1, <2>1, <3>1, LogIds
  <2>3. CASE turn[d].pc # "idle"
    <3>1. Log(turn[d].base, fresh, calls)
      BY <2>3, Busy
    <3> QED
      BY <1>1, <2>1, <3>1, LogIds
  <2> QED
    BY <2>2, <2>3
<1>3. ASSUME NEW s \in Seq(Items), \A i \in DOMAIN s : s[i].id <= fresh PROVE x \notin Ids(s)
  <2>1. ASSUME NEW i \in DOMAIN s, s[i].id = x PROVE FALSE
    BY <1>1, <1>3, <2>1
  <2> QED
    BY <2>1, MemberOfIds
<1>4. \A r \in folded : r.prefix \in Seq(Items) /\ \A i \in DOMAIN r.prefix : r.prefix[i].id <= fresh
  BY DEF Kept, FoldOK, TypeOK
<1>5. \A r \in cut : r.prefix \in Seq(Items) /\ \A i \in DOMAIN r.prefix : r.prefix[i].id <= fresh
  BY DEF Kept, CutOK, TypeOK
<1> QED
  BY <1>2, <1>3, <1>4, <1>5

\* A question begins a turn, and no checkpoint can know of it.
LEMMA AskKeeps ==
  ASSUME TypeOK, NEW calls, Kept(calls), NEW c \in Chats, Ask(c)
  PROVE  TypeOK' /\ Kept(calls)'
<1>1. PICK size \in Sizes :
        turn' = [turn EXCEPT ![c] = [Idle EXCEPT !.pc = "history",
                   !.base = Append(chat[c], Message("user", fresh + 1, size))]]
  BY DEF Ask
<1> DEFINE x == Message("user", fresh + 1, size)
           b == Append(chat[c], x)
           t == [Idle EXCEPT !.pc = "history", !.base = b]
<1>2. /\ turn[c].pc = "idle" /\ limit' = limit /\ chat' = chat
      /\ folded' = folded /\ cut' = cut /\ fresh' = fresh + 1
  BY DEF Ask
<1>3. /\ Log(chat[c], fresh, calls) /\ fresh \in Nat /\ calls \subseteq 1..fresh
      /\ chat[c] \in Seq(Items) /\ DOMAIN chat[c] = 1..Len(chat[c]) /\ Len(chat[c]) \in Nat
  BY DEF Kept, TypeOK
<1>4. Raw(x, fresh + 1) /\ x.id = fresh + 1 /\ x.role = "user" /\ x \in Items
  <2>1. size \in Nat \ {0}
    BY ContextSizes
  <2>2. fresh + 1 \in Nat /\ fresh + 1 \in 1..fresh + 1
    BY <1>3
  <2>3. Raw(x, fresh + 1) /\ x.id = fresh + 1 /\ x.role = "user"
    BY <2>1, <2>2, MessageIs
  <2> QED
    BY <2>3 DEF Raw
<1> HIDE DEF x
<1>5. Log(b, fresh + 1, calls)
  BY <1>3, <1>4, LogAppend
<1>6. /\ b \in Seq(Items) /\ DOMAIN b = 1..Len(chat[c]) + 1 /\ Len(b) = Len(chat[c]) + 1
      /\ b[Len(chat[c]) + 1] = x
  BY <1>3, <1>4
<1>7. Own(b, Start(c)) = {fresh + 1}
  BY <1>3, <1>4, OwnOfQuestion DEF Start
<1>8. \A y \in Ids(b) : y \in Ids(chat[c]) \/ y = fresh + 1
  BY <1>3, <1>4, AppendedIds
<1> HIDE DEF b
<1>9. /\ t \in Turns /\ t.pc = "history" /\ t.base = b /\ t.count = 0
  <2>1. t \in Turns
    BY <1>6, IdleType DEF Turns
  <2>2. t.pc = "history" /\ t.base = b
    BY IdleType DEF Turns
  <2>3. t.count = 0
    BY DEF Idle
  <2> QED
    BY <2>1, <2>2, <2>3
<1>10. turn' = [turn EXCEPT ![c] = t]
  BY <1>1 DEF b, x
<1> HIDE DEF t
<1>11. /\ turn' \in [Chats -> Turns] /\ turn'[c] = t
       /\ \A d \in Chats \ {c} : turn'[d] = turn[d]
  BY <1>9, <1>10, Turned
<1>12. TypeOK'
  BY <1>2, <1>3, <1>11 DEF TypeOK
<1>13. fresh + 1 \in Nat /\ fresh + 1 > fresh /\ fresh + 1 \in Nat \ 1..fresh
  BY <1>3
<1>14. Moves(c)
  <2>1. Ids(b) \subseteq Known(c) /\ Ids(chat[c]) \subseteq Known(c)
    BY <1>8, <1>13 DEF Known
  <2> QED
    BY <1>2, <1>9, <1>11, <2>1 DEF Moves
<1>15. Later(fresh, calls, fresh', calls)
  BY <1>2, <1>3 DEF Later
<1>16. Start(c)' = Start(c) /\ Start(c) = Len(b) /\ Start(c) \in DOMAIN b /\ b[Start(c)] = x
  BY <1>2, <1>3, <1>6 DEF Start
<1>17. TurnOK(t, Start(c), fresh + 1, calls)
  <2>1. \A i \in DOMAIN b : ~(i > Start(c))
    BY <1>3, <1>6 DEF Start
  <2>2. Asks(b, Start(c), fresh + 1, calls)
    BY <1>4, <1>5, <1>16, <2>1 DEF Asks
  <2> QED
    BY <1>9, <1>16, <2>2 DEF TurnOK
<1>18. OwnOK(c)'
  <2> DEFINE own == {fresh + 1}
  <2>1. Own(turn[c].base, Start(c))' = own
    BY <1>7, <1>9, <1>11, <1>16
  <2>2. /\ \A d \in Chats : own \cap Ids(chat'[d]) = {}
        /\ \A d \in Chats \ {c} : own \cap Ids(turn'[d].base) = {}
        /\ \A r \in folded' : own \cap Ids(r.prefix) = {}
        /\ \A r \in cut' : own \cap Ids(r.prefix) = {}
    BY <1>2, <1>11, <1>13, NewIsOwn
  <2>3. \A r \in cut' : Spares(r, turn'[c].base, Start(c)')
    <3>1. Asks(b, Start(c), fresh + 1, calls) /\ Own(b, Start(c)) = own
      BY <1>7, <1>9, <1>17 DEF TurnOK
    <3> QED
      BY <1>9, <1>11, <1>13, <1>16, <2>2, <3>1, SparesApart
  <2> HIDE DEF own
  <2> QED
    BY <2>1, <2>2, <2>3 DEF OwnOK
<1>19. turn'[c].pc # "idle"
  BY <1>9, <1>11
<1>20. Kept(calls)'
  <2>1. Log(chat'[c], fresh', calls)
    BY <1>2, <1>3, <1>15, LogKeeps DEF Later
  <2>2. TurnOK(turn'[c], Start(c)', fresh', calls)
    BY <1>2, <1>11, <1>16, <1>17
  <2>3. folded' = folded /\ cut' = cut
    BY <1>2
  <2> QED
    BY <1>14, <1>15, <1>18, <1>19, <2>1, <2>2, <2>3, KeptBy
<1> QED
  BY <1>12, <1>20

\* A turn goes on with the messages it has, and may keep a checkpoint of some.
LEMMA TurnStep ==
  ASSUME TypeOK, NEW calls, Kept(calls), NEW c \in Chats, turn[c].pc # "idle",
         NEW t \in Turns, turn' = [turn EXCEPT ![c] = t], t.pc # "idle",
         chat' = chat, fresh' = fresh, limit' \in Bounds,
         DOMAIN t.base = DOMAIN turn[c].base,
         \A i \in DOMAIN turn[c].base : /\ t.base[i].id = turn[c].base[i].id
                                         /\ t.base[i].role = turn[c].base[i].role,
         TurnOK(t, Start(c), fresh, calls),
         folded' \subseteq [prefix : Seq(Items), marker : Items],
         \A r \in folded' : r \in folded \/ /\ FoldOK(r, fresh, calls)
                                            /\ Ids(r.prefix) \subseteq Ids(turn[c].base)
                                            /\ Own(turn[c].base, Start(c)) \cap Ids(r.prefix) = {},
         cut' \subseteq [prefix : Seq(Items), marker : Items, keep : Nat],
         \A r \in cut' : r \in cut \/ /\ CutOK(r, fresh, calls)
                                      /\ Ids(r.prefix) \subseteq Ids(turn[c].base)
                                      /\ Spares(r, turn[c].base, Start(c))
  PROVE  TypeOK' /\ Kept(calls)'
<1>1. /\ turn' \in [Chats -> Turns] /\ turn'[c] = t
      /\ \A d \in Chats \ {c} : turn'[d] = turn[d]
  BY Turned
<1>2. TypeOK'
  BY <1>1 DEF TypeOK
<1>3. /\ OwnOK(c) /\ Asks(turn[c].base, Start(c), fresh, calls)
      /\ fresh \in Nat /\ Later(fresh, calls, fresh, calls)
  BY Busy
<1>4. Start(c) \in DOMAIN turn[c].base
  BY <1>3 DEF Asks
<1>5. OwnOK(c)'
  BY <1>1, <1>3, <1>4, OwnKeeps
<1>6. Ids(t.base) = Ids(turn[c].base)
  BY SameIds
<1>7. Moves(c)
  <2>1. Ids(chat[c]) \subseteq Known(c) /\ Ids(turn[c].base) \subseteq Known(c)
    BY DEF Known
  <2> QED
    BY <1>1, <1>6, <2>1 DEF Moves
<1>8. Start(c)' = Start(c) /\ Log(chat[c], fresh, calls)
  BY DEF Start, Kept
<1>9. Kept(calls)'
  <2>1. /\ TurnOK(turn'[c], Start(c)', fresh', calls) /\ turn'[c].pc # "idle"
        /\ Later(fresh, calls, fresh', calls) /\ Log(chat'[c], fresh', calls)
        /\ \A r \in folded' : r \in folded \/ FoldOK(r, fresh', calls)
        /\ \A r \in cut' : r \in cut \/ CutOK(r, fresh', calls)
    BY <1>1, <1>3, <1>8
  <2> QED
    BY <1>5, <1>7, <2>1, KeptBy
<1> QED
  BY <1>2, <1>9

\* The same, with the checkpoints as they are.
LEMMA PlainStep ==
  ASSUME TypeOK, NEW calls, Kept(calls), NEW c \in Chats, turn[c].pc # "idle",
         NEW t \in Turns, turn' = [turn EXCEPT ![c] = t], t.pc # "idle", t.base = turn[c].base,
         TurnOK(t, Start(c), fresh, calls),
         UNCHANGED <<chat, folded, cut, fresh, limit>>
  PROVE  TypeOK' /\ Kept(calls)'
<1>1. /\ limit' \in Bounds
      /\ folded' \subseteq [prefix : Seq(Items), marker : Items]
      /\ cut' \subseteq [prefix : Seq(Items), marker : Items, keep : Nat]
  BY DEF TypeOK
<1>2. /\ DOMAIN t.base = DOMAIN turn[c].base
      /\ \A i \in DOMAIN turn[c].base : /\ t.base[i].id = turn[c].base[i].id
                                         /\ t.base[i].role = turn[c].base[i].role
      /\ \A r \in folded' : r \in folded
      /\ \A r \in cut' : r \in cut
      /\ chat' = chat /\ fresh' = fresh
  OBVIOUS
<1> QED
  BY <1>1, <1>2, TurnStep

\* A history that fits is shown as it is.
LEMMA HistoryFitsKeeps ==
  ASSUME TypeOK, NEW calls, Kept(calls), NEW c \in Chats, HistoryFits(c)
  PROVE  TypeOK' /\ Kept(calls)'
<1> DEFINE t == [turn[c] EXCEPT !.pc = "restore", !.request = turn[c].input]
<1>1. /\ turn[c].pc = "fit" /\ turn' = [turn EXCEPT ![c] = t]
      /\ UNCHANGED <<chat, folded, cut, fresh, limit>>
  BY DEF HistoryFits, TypeOK
<1>2. turn[c] \in Turns /\ TurnOK(turn[c], Start(c), fresh, calls)
  BY <1>1, Busy
<1>3. /\ t \in Turns /\ t.pc = "restore" /\ t.base = turn[c].base
      /\ t.input = turn[c].input /\ t.request = turn[c].input
  BY <1>2 DEF Turns
<1> HIDE DEF t
<1>4. Showing(turn[c].input, turn[c].base, Start(c))
  <2> DEFINE j == IF turn[c].count = 0 THEN 0 ELSE 1
             k == turn[c].count + 1
  <2>1. /\ Shown(turn[c].input, turn[c].base, Start(c), j, k)
        /\ Stands(turn[c].input) = Ids(turn[c].base)
    BY <1>1, <1>2 DEF TurnOK
  <2> HIDE DEF j, k
  <2>2. j \in 0..2 /\ k \in 1..Len(turn[c].base) + 1
    BY <2>1 DEF Shown
  <2> QED
    BY <2>1, <2>2 DEF Showing
<1>5. TurnOK(t, Start(c), fresh, calls)
  BY <1>2, <1>3, <1>4 DEF TurnOK
<1> QED
  BY <1>1, <1>3, <1>5, PlainStep

\* A request that fits is sent as it is.
LEMMA SendKeeps ==
  ASSUME TypeOK, NEW calls, Kept(calls), NEW c \in Chats, Send(c)
  PROVE  TypeOK' /\ Kept(calls)'
<1> DEFINE t == [turn[c] EXCEPT !.pc = "call"]
<1>1. /\ turn[c].pc = "budget" /\ turn' = [turn EXCEPT ![c] = t]
      /\ Size(turn[c].request) <= turn[c].target
      /\ UNCHANGED <<chat, folded, cut, fresh, limit>>
  BY DEF Send, TypeOK
<1>2. turn[c] \in Turns /\ TurnOK(turn[c], Start(c), fresh, calls)
  BY <1>1, Busy
<1>3. /\ t \in Turns /\ t.pc = "call" /\ t.base = turn[c].base
      /\ t.input = turn[c].input /\ t.request = turn[c].request
      /\ t.target = turn[c].target /\ t.attempt = turn[c].attempt /\ t.rejected = turn[c].rejected
  BY <1>2 DEF Turns
<1> HIDE DEF t
<1>4. TurnOK(t, Start(c), fresh, calls)
  BY <1>1, <1>2, <1>3 DEF TurnOK
<1> QED
  BY <1>1, <1>3, <1>4, PlainStep

\* What a turn shows.
LEMMA TurnPresents ==
  ASSUME TypeOK, NEW calls, Kept(calls), NEW c \in Chats,
         turn[c].pc \in {"restore", "budget", "call"}
  PROVE  /\ \E j, k : Presents(turn[c].base, Start(c), fresh, calls, turn[c].request, j, k)
         /\ \E j, k : Presents(turn[c].base, Start(c), fresh, calls, turn[c].input, j, k)
         /\ Stands(turn[c].request) = Ids(turn[c].base)
         /\ Stands(turn[c].input) = Ids(turn[c].base)
<1>1. /\ TurnOK(turn[c], Start(c), fresh, calls) /\ fresh \in Nat
      /\ Asks(turn[c].base, Start(c), fresh, calls)
  BY Busy
<1>2. /\ Showing(turn[c].input, turn[c].base, Start(c))
      /\ Showing(turn[c].request, turn[c].base, Start(c))
  BY <1>1 DEF TurnOK
<1> QED
  BY <1>1, <1>2 DEF Showing, Presents

\* A rejected request is tried smaller, or ends its turn.
LEMMA OverflowKeeps ==
  ASSUME TypeOK, NEW calls, Kept(calls), NEW c \in Chats, Overflow(c)
  PROVE  TypeOK' /\ Kept(calls)'
<1> DEFINE rejected == IF turn[c].rejected = 0 THEN Size(turn[c].request) ELSE turn[c].rejected
           smaller == System + ((rejected - System) * Shrink[turn[c].attempt + 1]) \div 100
           target == IF smaller < Ceiling THEN smaller ELSE Ceiling
           t == [turn[c] EXCEPT !.pc = "budget", !.attempt = Attempted(turn[c]),
                                !.rejected = rejected, !.target = target]
<1>1. turn[c].pc = "call" /\ UNCHANGED <<folded, cut, fresh, limit>>
  BY DEF Overflow
<1>2. /\ turn[c] \in Turns /\ TurnOK(turn[c], Start(c), fresh, calls)
      /\ Log(turn[c].base, fresh, calls) /\ fresh \in Nat
  BY <1>1, Busy
<1>3. CASE turn[c].attempt >= Len(Shrink)
  <2>1. End(c, turn[c].base)
    BY <1>3 DEF Overflow
  <2>2. limit' \in Bounds
    BY <1>1 DEF TypeOK
  <2>3. Ids(turn[c].base) \subseteq Known(c)
    BY DEF Known
  <2> QED
    BY <1>1, <1>2, <2>1, <2>2, <2>3, EndKeeps
<1>4. CASE ~(turn[c].attempt >= Len(Shrink))
  <2>1. turn' = [turn EXCEPT ![c] = t] /\ chat' = chat
    BY <1>4 DEF Overflow, TypeOK
  <2>2. turn[c].attempt \in 0..2
    <3>1. turn[c].attempt \in 0..3 /\ Len(Shrink) = 3
      BY <1>2 DEF Turns, Shrink
    <3> QED
      BY <1>4, <3>1
  <2>3. /\ turn[c].target \in Nat /\ turn[c].rejected \in Nat /\ turn[c].target <= Ceiling
        /\ IF turn[c].attempt = 0 THEN turn[c].rejected = 0
           ELSE turn[c].target < turn[c].rejected
        /\ Size(turn[c].request) <= turn[c].target
    BY <1>1, <1>2 DEF TurnOK, Turns
  <2>4. Size(turn[c].request) \in Nat /\ Size(turn[c].request) > System /\ System \in Nat
        /\ Ceiling \in Nat
    <3>1. Total[turn[c].request] \in Nat /\ Total[turn[c].request] > 0
      BY <1>1, TurnPresents, RequestIsPositive
    <3>2. System \in Nat /\ Ceiling \in Nat
      BY ContextSizes
    <3> QED
      BY <3>1, <3>2 DEF Size
  <2>5. rejected \in Nat /\ rejected > System
    BY <2>2, <2>3, <2>4
  <2> HIDE DEF rejected
  <2>6. smaller \in Nat /\ smaller < rejected
    BY <2>2, <2>4, <2>5, Shrinks
  <2> HIDE DEF smaller
  <2>7. target \in Nat /\ target <= Ceiling /\ target < rejected
    BY <2>4, <2>5, <2>6
  <2> HIDE DEF target
  <2>8. Attempted(turn[c]) = turn[c].attempt + 1 /\ Attempted(turn[c]) \in 1..3
    BY <2>2 DEF Attempted
  <2>9. /\ t \in Turns /\ t.pc = "budget" /\ t.base = turn[c].base
        /\ t.input = turn[c].input /\ t.request = turn[c].request
        /\ t.target = target /\ t.attempt # 0 /\ t.rejected = rejected
    <3>1. Attempted(turn[c]) \in 0..3 /\ Attempted(turn[c]) # 0
      BY <2>8
    <3> QED
      BY <1>2, <2>5, <2>7, <3>1 DEF Turns
  <2> HIDE DEF t
  <2>10. TurnOK(t, Start(c), fresh, calls)
    BY <1>1, <1>2, <2>7, <2>9 DEF TurnOK
  <2> QED
    BY <1>1, <2>1, <2>9, <2>10, PlainStep
<1> QED
  BY <1>3, <1>4

\* A request with the checkpoint of any chat shows its own.
LEMMA RestoreKeeps ==
  ASSUME TypeOK, NEW calls, Kept(calls), NEW c \in Chats, Restore(c)
  PROVE  TypeOK' /\ Kept(calls)'
<1> DEFINE request == turn[c].request
           base == turn[c].base
           found == {r \in Longest(cut, request) : r.prefix \notin turn[c].used}
<1>1. turn[c].pc = "restore" /\ UNCHANGED <<chat, folded, cut, fresh, limit>>
  BY DEF Restore
<1>2. /\ turn[c] \in Turns /\ TurnOK(turn[c], Start(c), fresh, calls) /\ OwnOK(c)
      /\ calls \subseteq 1..fresh
  BY <1>1, Busy
<1>3. CASE /\ found = {}
           /\ turn' = [turn EXCEPT ![c] = [@ EXCEPT !.pc = "budget", !.used = {}, !.attempt = 0,
                                           !.target = Ceiling, !.rejected = 0]]
  <2> DEFINE t == [turn[c] EXCEPT !.pc = "budget", !.used = {}, !.attempt = 0,
                                  !.target = Ceiling, !.rejected = 0]
  <2>1. turn' = [turn EXCEPT ![c] = t]
    BY <1>3
  <2>2. /\ t.pc = "budget" /\ t.base = turn[c].base
        /\ t.input = turn[c].input /\ t.request = turn[c].request
        /\ t.target = Ceiling /\ t.attempt = 0 /\ t.rejected = 0
    BY <1>2 DEF Turns
  <2>3. Ceiling \in Nat
    BY ContextSizes
  <2>4. t \in Turns
    <3>1. {} \in SUBSET Seq(Items) /\ 0 \in 0..3 /\ 0 \in Nat
      OBVIOUS
    <3> QED
      BY <1>2, <2>3, <3>1 DEF Turns
  <2> HIDE DEF t
  <2>5. Ceiling <= Ceiling
    BY <2>3
  <2>6. TurnOK(t, Start(c), fresh, calls)
    BY <1>1, <1>2, <2>2, <2>5 DEF TurnOK
  <2> QED
    BY <1>1, <2>1, <2>2, <2>4, <2>6, PlainStep
<1>4. ASSUME NEW r \in found,
             turn' = [turn EXCEPT
               ![c].used = @ \cup {r.prefix},
               ![c].request = <<r.marker>> \o (IF r.keep = 0 THEN <<>> ELSE <<request[r.keep]>>)
                                \o From(request, Len(r.prefix) + 1)]
      PROVE  TypeOK' /\ Kept(calls)'
  <2> DEFINE next == <<r.marker>> \o (IF r.keep = 0 THEN <<>> ELSE <<request[r.keep]>>)
                       \o From(request, Len(r.prefix) + 1)
             used == turn[c].used \cup {r.prefix}
             t == [turn[c] EXCEPT !.used = used, !.request = next]
  <2>1. turn' = [turn EXCEPT ![c] = t]
    BY <1>4 DEF TypeOK
  <2>2. r \in cut /\ Matches(request, r.prefix)
    BY DEF Longest
  <2>3. r \in [prefix : Seq(Items), marker : Items, keep : Nat] /\ r.prefix \in Seq(Items)
    BY <2>2 DEF TypeOK
  <2>4. CutOK(r, fresh, calls) /\ Spares(r, base, Start(c))
    BY <1>2, <2>2 DEF Kept, OwnOK
  <2>5. PICK j, k : Presents(base, Start(c), fresh, calls, request, j, k)
    BY <1>1, TurnPresents
  <2>6. Stands(request) = Ids(base)
    BY <1>1, TurnPresents
  <2> HIDE DEF request, base
  <2>7. Showing(next, base, Start(c))
    BY <1>2, <2>2, <2>3, <2>4, <2>5, <2>6, RestoreShows
  <2>8. next \in Seq(Items)
    BY <2>7 DEF Showing, Shown
  <2> HIDE DEF next
  <2>9. used \subseteq Seq(Items)
    BY <1>2, <2>3 DEF Turns
  <2> HIDE DEF used
  <2>10. /\ t \in Turns /\ t.pc = "restore" /\ t.base = turn[c].base
         /\ t.input = turn[c].input /\ t.request = next
    BY <1>1, <1>2, <2>8, <2>9 DEF Turns
  <2> HIDE DEF t
  <2>11. TurnOK(t, Start(c), fresh, calls)
    BY <1>1, <1>2, <2>7, <2>10 DEF TurnOK, base
  <2> QED
    BY <1>1, <2>1, <2>10, <2>11, PlainStep
<1> QED
  BY <1>3, <1>4 DEF Restore

\* A checkpoint that is saved.
LEMMA SavedIs ==
  ASSUME NEW records, NEW record, NEW ok
  PROVE  \A r \in Saved(records, record, ok) : r \in records \/ r = record
BY DEF Saved

\* A request that is compacted shows its chat, and so does its checkpoint.
LEMMA CompactRequestKeeps ==
  ASSUME TypeOK, NEW calls, Kept(calls), NEW c \in Chats, CompactRequest(c)
  PROVE  TypeOK' /\ Kept(calls)'
<1> DEFINE s == turn[c].request
           base == turn[c].base
           target == turn[c].target
           split == Split(turn[c])
           room == Room(split, target)
<1>1. turn[c].pc = "budget" /\ UNCHANGED <<chat, folded, fresh>>
  BY DEF CompactRequest
<1>2. split.older # <<>> /\ room > Reference
  BY DEF CompactRequest, Compactable
<1>3. PICK summary \in Summaries, saved \in BOOLEAN :
        LET marker == Marker(MarkerSize(summary, room), Stands(split.older), Readable(split.older))
            record == [prefix |-> UpTo(s, split.count), marker |-> marker, keep |-> split.keep]
        IN /\ IF saved THEN UNCHANGED limit ELSE Spend("faults")
           /\ cut' = Saved(cut, record, saved)
           /\ turn' = [turn EXCEPT ![c].pc = "call", ![c].request = <<marker>> \o split.recent]
  BY DEF CompactRequest
<1> DEFINE marker == Marker(MarkerSize(summary, room), Stands(split.older), Readable(split.older))
           record == [prefix |-> UpTo(s, split.count), marker |-> marker, keep |-> split.keep]
           next == <<marker>> \o split.recent
           t == [turn[c] EXCEPT !.pc = "call", !.request = next]
<1>4. /\ IF saved THEN UNCHANGED limit ELSE Spend("faults")
      /\ cut' = Saved(cut, record, saved)
      /\ turn' = [turn EXCEPT ![c] = t]
  BY <1>3 DEF TypeOK
<1>5. limit' \in Bounds
  BY <1>4, SpendType DEF TypeOK
<1>6. /\ turn[c] \in Turns /\ TurnOK(turn[c], Start(c), fresh, calls) /\ OwnOK(c)
      /\ calls \subseteq 1..fresh
  BY <1>1, Busy
<1>7. PICK j, k : Presents(base, Start(c), fresh, calls, s, j, k)
  BY <1>1, TurnPresents
<1>8. Stands(s) = Ids(base)
  BY <1>1, TurnPresents
<1>9. PICK allowance : split = SplitRequest(s, allowance)
  BY DEF Split
<1>10. target \in Nat /\ room = Minus(target, System + Total[split.recent])
  BY <1>6 DEF Turns, Room
<1>11. t.base = base
  BY <1>6 DEF Turns
<1> HIDE DEF split, room
<1>12. MarkerSize(summary, room) \in Nat
  BY ContextSizes DEF MarkerSize
<1> HIDE DEF s, base, target
<1>13. /\ Mark(marker) /\ marker \in Items /\ marker.stands = Stands(split.older)
       /\ marker.size = MarkerSize(summary, room)
  BY <1>7, <1>9, <1>12, CutMarker
<1> HIDE DEF marker
<1>14. /\ split.recent \in Seq(Items) /\ split.keep \in Nat
       /\ UpTo(s, split.count) \in Seq(Items)
  BY <1>7, <1>9, SplitTypes
<1>16. record \in [prefix : Seq(Items), marker : Items, keep : Nat]
  BY <1>13, <1>14
<1>24. record = [prefix |-> UpTo(s, split.count), marker |-> marker, keep |-> split.keep]
  OBVIOUS
<1> HIDE DEF record
<1>15. /\ Showing(next, base, Start(c))
       /\ CutOK(record, fresh, calls) /\ Spares(record, base, Start(c))
       /\ Ids(record.prefix) \subseteq Ids(base)
  <2>1. Compacting(s, split, marker, record)
    BY <1>2, <1>9, <1>13, <1>24 DEF Compacting
  <2>2. /\ Showing(<<marker>> \o split.recent, base, Start(c))
        /\ CutOK(record, fresh, calls) /\ Spares(record, base, Start(c))
        /\ Ids(record.prefix) \subseteq Ids(base)
    BY <1>6, <1>7, <1>8, <2>1, CompactShows
  <2> QED
    BY <2>2 DEF next
<1>17. Size(next) <= target
  BY <1>2, <1>10, <1>13, <1>14, CutFits
<1>18. next \in Seq(Items)
  BY <1>15 DEF Showing, Shown
<1> HIDE DEF next
<1>19. /\ t \in Turns /\ t.pc = "call" /\ t.input = turn[c].input /\ t.request = next
       /\ t.target = target /\ t.attempt = turn[c].attempt /\ t.rejected = turn[c].rejected
  BY <1>6, <1>18 DEF Turns, target
<1> HIDE DEF t
<1>20. TurnOK(t, Start(c), fresh, calls)
  BY <1>1, <1>6, <1>11, <1>15, <1>17, <1>19 DEF TurnOK, base, target
<1>21. /\ cut' \subseteq [prefix : Seq(Items), marker : Items, keep : Nat]
       /\ \A r \in cut' : r \in cut \/ /\ CutOK(r, fresh, calls)
                                       /\ Ids(r.prefix) \subseteq Ids(base)
                                       /\ Spares(r, base, Start(c))
  <2>1. \A r \in cut' : r \in cut \/ r = record
    BY <1>4, SavedIs
  <2>2. cut \subseteq [prefix : Seq(Items), marker : Items, keep : Nat]
    BY DEF TypeOK
  <2> QED
    BY <1>15, <1>16, <2>1, <2>2
<1>22. folded' \subseteq [prefix : Seq(Items), marker : Items] /\ \A r \in folded' : r \in folded
  BY <1>1 DEF TypeOK
<1>23. chat' = chat /\ fresh' = fresh /\ turn[c].pc # "idle" /\ t.pc # "idle" /\ t.base = turn[c].base
  BY <1>1, <1>11, <1>19 DEF base
<1> QED
  BY <1>4, <1>5, <1>19, <1>20, <1>21, <1>22, <1>23, TurnStep DEF base

\* A history with a checkpoint of any chat shows its own.
LEMMA LoadHistoryKeeps ==
  ASSUME TypeOK, NEW calls, Kept(calls), NEW c \in Chats, LoadHistory(c)
  PROVE  TypeOK' /\ Kept(calls)'
<1> DEFINE old == turn[c].base
           base == Externalized(turn[c].base)
           u == Start(c)
<1>1. turn[c].pc = "history" /\ UNCHANGED <<chat, folded, cut, fresh, limit>>
  BY DEF LoadHistory
<1>2. /\ turn[c] \in Turns /\ TurnOK(turn[c], u, fresh, calls) /\ OwnOK(c)
      /\ Asks(old, u, fresh, calls) /\ Log(old, fresh, calls) /\ fresh \in Nat
  BY <1>1, Busy
<1>3. /\ Log(base, fresh, calls) /\ DOMAIN base = DOMAIN old /\ Len(base) = Len(old)
      /\ \A i \in DOMAIN old : base[i].id = old[i].id /\ base[i].role = old[i].role
  BY <1>2, ExternalizedIs
<1>4. Len(old) = u /\ turn[c].count = 0
  BY <1>1, <1>2 DEF TurnOK
<1>5. base \in Seq(Items)
  BY <1>3 DEF Log
<1> HIDE DEF u
<1>6. Asks(base, u, fresh, calls)
  BY <1>2, <1>3 DEF Asks
<1>7. limit' \in Bounds /\ folded' \subseteq [prefix : Seq(Items), marker : Items]
      /\ cut' \subseteq [prefix : Seq(Items), marker : Items, keep : Nat]
      /\ chat' = chat /\ fresh' = fresh /\ folded' = folded /\ cut' = cut
  BY <1>1 DEF TypeOK
<1>8. ASSUME NEW t \in Turns, t.pc = "fit", t.base = base, turn' = [turn EXCEPT ![c] = t],
             Shown(t.input, base, u, IF t.count = 0 THEN 0 ELSE 1, t.count + 1),
             t.count # 0 => t.input[1].stands = Ids(UpTo(base, t.count)),
             Stands(t.input) = Ids(base)
      PROVE  TypeOK' /\ Kept(calls)'
  <2>1. TurnOK(t, u, fresh, calls)
    BY <1>3, <1>4, <1>6, <1>8 DEF TurnOK
  <2>2. /\ DOMAIN t.base = DOMAIN turn[c].base
        /\ \A i \in DOMAIN turn[c].base : /\ t.base[i].id = turn[c].base[i].id
                                           /\ t.base[i].role = turn[c].base[i].role
    BY <1>3, <1>8
  <2>3. t.pc # "idle" /\ turn[c].pc # "idle"
    BY <1>1, <1>8
  <2> HIDE DEF base, old
  <2> QED
    BY <1>7, <1>8, <2>1, <2>2, <2>3, TurnStep DEF u
<1>9. CASE turn' = [turn EXCEPT ![c] = [@ EXCEPT !.pc = "fit", !.base = base, !.input = base]]
  <2> DEFINE t == [turn[c] EXCEPT !.pc = "fit", !.base = base, !.input = base]
  <2>1. turn' = [turn EXCEPT ![c] = t]
    BY <1>9
  <2> HIDE DEF base
  <2>2. t \in Turns /\ t.pc = "fit" /\ t.base = base /\ t.input = base /\ t.count = 0
    BY <1>2, <1>4, <1>5 DEF Turns
  <2> HIDE DEF t
  <2>3. Shown(base, base, u, 0, 1) /\ Stands(base) = Ids(base)
    BY <1>2, <1>6, ShowsItself DEF Presents
  <2>4. (IF t.count = 0 THEN 0 ELSE 1) = 0 /\ t.count + 1 = 1
    BY <2>2
  <2>5. Shown(t.input, base, u, IF t.count = 0 THEN 0 ELSE 1, t.count + 1)
    BY <2>2, <2>3, <2>4, Zenon
  <2> QED
    BY <1>8, <2>1, <2>2, <2>3, <2>5
<1>10. ASSUME NEW r \in Longest(folded, base),
              turn' = [turn EXCEPT ![c] = [@ EXCEPT !.pc = "fit", !.base = base,
                         !.count = Len(r.prefix),
                         !.input = <<r.marker>> \o From(base, Len(r.prefix) + 1)]]
       PROVE  TypeOK' /\ Kept(calls)'
  <2> DEFINE input == <<r.marker>> \o From(base, Len(r.prefix) + 1)
             count == Len(r.prefix)
             t == [turn[c] EXCEPT !.pc = "fit", !.base = base, !.count = count, !.input = input]
  <2>1. turn' = [turn EXCEPT ![c] = t]
    BY <1>10
  <2>2. r \in folded /\ Matches(base, r.prefix)
    BY DEF Longest
  <2>3. r \in [prefix : Seq(Items), marker : Items] /\ FoldOK(r, fresh, calls)
    BY <2>2 DEF TypeOK, Kept
  <2>4. base[u].id \notin Ids(r.prefix)
    <3>1. Own(old, u) \cap Ids(r.prefix) = {}
      BY <1>2, <2>2 DEF OwnOK, u
    <3>2. old[u].id \in Own(old, u) /\ u \in DOMAIN old
      BY <1>2, OwnIs DEF Asks
    <3> QED
      BY <1>3, <3>1, <3>2
  <2> HIDE DEF base
  <2>5. /\ Shown(input, base, u, 1, count + 1) /\ Stands(input) = Ids(base)
        /\ input[1].stands = Ids(UpTo(base, count)) /\ count \in Nat /\ count # 0
    BY <1>2, <1>3, <1>4, <1>6, <2>2, <2>3, <2>4, LoadShows, ZenonT(60)
  <2> HIDE DEF input, count
  <2>6. input \in Seq(Items)
    BY <2>5 DEF Shown
  <2>7. t \in Turns /\ t.pc = "fit" /\ t.base = base /\ t.input = input /\ t.count = count
    BY <1>2, <1>5, <2>5, <2>6 DEF Turns
  <2> HIDE DEF t
  <2>8. (IF t.count = 0 THEN 0 ELSE 1) = 1 /\ t.count + 1 = count + 1
    BY <2>5, <2>7
  <2>9. Shown(t.input, base, u, IF t.count = 0 THEN 0 ELSE 1, t.count + 1)
    BY <2>5, <2>7, <2>8, Zenon
  <2> QED
    BY <1>8, <2>1, <2>5, <2>7, <2>9
<1> QED
  BY <1>9, <1>10 DEF LoadHistory

\* A history that is summarized shows its chat, and so does its checkpoint.
LEMMA FoldHistoryKeeps ==
  ASSUME TypeOK, NEW calls, Kept(calls), NEW c \in Chats, FoldHistory(c)
  PROVE  TypeOK' /\ Kept(calls)'
<1>1. turn[c].pc = "fit" /\ UNCHANGED <<chat, cut, fresh>>
  BY DEF FoldHistory
<1>2. PICK start \in {RecentStart(turn[c].input)}, summary \in Summarized,
           archived \in BOOLEAN, saved \in BOOLEAN :
        LET input == turn[c].input
            older == UpTo(input, start - 1)
            recent == From(input, start)
            text == FilesIn(older) \cup (IF archived THEN Readable(Archived(input, start)) ELSE {})
            size == IF Reference + summary + Total[recent] <= HistoryBudget
                    THEN Reference + summary ELSE Reference
            marker == Marker(size, Stands(older), text)
            count == Len(older) + Minus(turn[c].count, 1)
        IN /\ older # <<>>
           /\ archived \/ "archive" \in Windows
           /\ summary > 0 \/ text # {}
           /\ IF saved THEN UNCHANGED limit ELSE Spend("faults")
           /\ folded' = Saved(folded, [prefix |-> UpTo(turn[c].base, count), marker |-> marker],
                              saved /\ text # {})
           /\ turn' = [turn EXCEPT ![c].pc = "restore", ![c].input = <<marker>> \o recent,
                                   ![c].request = <<marker>> \o recent]
  BY DEF FoldHistory
<1> DEFINE s == turn[c].input
           base == turn[c].base
           u == Start(c)
           older == UpTo(s, start - 1)
           recent == From(s, start)
           m == Len(older) + Minus(turn[c].count, 1)
<1> DEFINE text == FilesIn(older) \cup (IF archived THEN Readable(Archived(s, start)) ELSE {})
           size == IF Reference + summary + Total[recent] <= HistoryBudget
                   THEN Reference + summary ELSE Reference
           marker == Marker(size, Stands(older), text)
           record == [prefix |-> UpTo(base, m), marker |-> marker]
           next == <<marker>> \o recent
           t == [turn[c] EXCEPT !.pc = "restore", !.input = next, !.request = next]
<1>3. /\ older # <<>> /\ (archived \/ "archive" \in Windows)
      /\ IF saved THEN UNCHANGED limit ELSE Spend("faults")
      /\ folded' = Saved(folded, record, saved /\ text # {})
      /\ turn' = [turn EXCEPT ![c] = t]
  BY <1>2 DEF TypeOK
<1>4. limit' \in Bounds
  BY <1>3, SpendType DEF TypeOK
<1>5. /\ turn[c] \in Turns /\ TurnOK(turn[c], u, fresh, calls)
      /\ Asks(base, u, fresh, calls) /\ fresh \in Nat /\ turn[c].count \in Nat
  BY <1>1, Busy DEF Turns
<1>6. PICK j, k : /\ Presents(base, u, fresh, calls, s, j, k)
                  /\ k = turn[c].count + 1 /\ j = (IF turn[c].count = 0 THEN 0 ELSE 1)
  BY <1>1, <1>5 DEF TurnOK, Presents
<1>28. Presents(base, u, fresh, calls, s, j, k)
  BY <1>6
<1>7. Folding(base, u, s, j, k, turn[c].count, start, m)
  BY <1>1, <1>2, <1>3, <1>5, <1>6 DEF TurnOK, Folding
<1>8. s \in Seq(Items) /\ DOMAIN s = 1..Len(s) /\ Len(s) \in Nat
  BY <1>28, PresentsTypes
<1>9. start \in 1..Len(s) + 1 /\ recent \in Seq(Items)
  <2>1. start \in {1} \cup Roles(s, "user")
    BY <1>2, <1>8, RecentStartIs
  <2> HIDE DEF s
  <2>2. start \in 1..Len(s) + 1
    BY <1>8, <2>1 DEF Roles
  <2> QED
    BY <1>8, <2>2, FromIs
<1>10. size \in Nat
  BY ContextSizes DEF Summarized
<1>11. t.base = base
  BY <1>5 DEF Turns
<1>12. m = Len(UpTo(s, start - 1)) + Minus(turn[c].count, 1)
  OBVIOUS
<1> HIDE DEF s, base, u, size, m
<1>13. Mark(marker) /\ marker \in Items /\ marker.stands = Stands(UpTo(s, start - 1))
  BY <1>3, <1>9, <1>10, <1>28, FoldMarker
<1> HIDE DEF marker, text
<1>14. /\ Showing(<<marker>> \o From(s, start), base, u)
       /\ FoldOK([prefix |-> UpTo(base, m), marker |-> marker], fresh, calls)
       /\ UpTo(base, m) \in Seq(Items) /\ Ids(UpTo(base, m)) \subseteq Ids(base)
       /\ \A i \in DOMAIN base : base[i].id \in Ids(UpTo(base, m)) => i < u
  BY <1>7, <1>13, <1>28, FoldShows
<1>15. record \in [prefix : Seq(Items), marker : Items] /\ record.prefix = UpTo(base, m)
  BY <1>13, <1>14
<1>16. FoldOK(record, fresh, calls)
  BY <1>14
<1>17. Own(base, u) \cap Ids(record.prefix) = {}
  <2>1. ASSUME NEW y \in Own(base, u), y \in Ids(UpTo(base, m)) PROVE FALSE
    <3>1. PICK i \in DOMAIN base : i >= u /\ base[i].id = y
      BY DEF Own
    <3>2. i < u /\ i \in Nat /\ u \in Nat
      BY <1>14, <1>28, <2>1, <3>1, PresentsTypes
    <3> QED
      BY <3>1, <3>2
  <2> QED
    BY <1>15, <2>1
<1>18. Ids(record.prefix) \subseteq Ids(base)
  BY <1>14, <1>15
<1> HIDE DEF record
<1>19. Showing(next, base, u)
  BY <1>14
<1>20. next \in Seq(Items)
  BY <1>19 DEF Showing, Shown
<1> HIDE DEF next
<1>21. t \in Turns /\ t.pc = "restore" /\ t.input = next /\ t.request = next
  BY <1>5, <1>20 DEF Turns
<1> HIDE DEF t
<1>22. TurnOK(t, u, fresh, calls)
  BY <1>1, <1>5, <1>11, <1>19, <1>21 DEF TurnOK
<1>23. \A r \in folded' : r \in folded \/ r = record
  BY <1>3, SavedIs
<1>24. folded' \subseteq [prefix : Seq(Items), marker : Items]
  BY <1>15, <1>23 DEF TypeOK
<1>25. \A r \in folded' : r \in folded \/ /\ FoldOK(r, fresh, calls)
                                          /\ Ids(r.prefix) \subseteq Ids(base)
                                          /\ Own(base, u) \cap Ids(r.prefix) = {}
  BY <1>16, <1>17, <1>18, <1>23
<1>26. /\ cut' \subseteq [prefix : Seq(Items), marker : Items, keep : Nat]
       /\ \A r \in cut' : r \in cut
  BY <1>1 DEF TypeOK
<1>27. chat' = chat /\ fresh' = fresh /\ turn[c].pc # "idle" /\ t.pc # "idle" /\ t.base = turn[c].base
  BY <1>1, <1>11, <1>21 DEF base
<1> QED
  BY <1>3, <1>4, <1>21, <1>22, <1>24, <1>25, <1>26, <1>27, TurnStep DEF base, u

\* The messages of a sequence that got two more.
LEMMA TwoMoreIds ==
  ASSUME NEW s \in Seq(Items), NEW x \in Items, NEW y \in Items
  PROVE  \A z \in Ids(s \o <<x, y>>) : z \in Ids(s) \/ z = x.id \/ z = y.id
<1> DEFINE t == s \o <<x, y>>
<1>1. /\ \A i \in DOMAIN s : t[i] = s[i]
      /\ t[Len(s) + 1] = x /\ t[Len(s) + 2] = y
      /\ \A i \in DOMAIN t : i \notin DOMAIN s => i = Len(s) + 1 \/ i = Len(s) + 2
  BY TwoMore
<1> HIDE DEF t
<1>2. ASSUME NEW z \in Ids(t) PROVE z \in Ids(s) \/ z = x.id \/ z = y.id
  <2>1. PICK i \in DOMAIN t : t[i].id = z /\ z # 0
    BY <1>2, MemberOfIds
  <2>2. CASE i \in DOMAIN s
    <3>1. s[i].id = z
      BY <1>1, <2>1, <2>2
    <3> QED
      BY <2>1, <2>2, <3>1, MemberOfIds
  <2>3. CASE i \notin DOMAIN s
    BY <1>1, <2>1, <2>3
  <2> QED
    BY <2>2, <2>3
<1> QED
  BY <1>2 DEF t

\* What a turn owns after a step, of messages that no cut holds.
LEMMA OwnStep ==
  ASSUME NEW base, NEW u, NEW n \in Nat, NEW calls, Asks(base, u, n, calls),
         NEW x, NEW y, IsCall(x, y, n)
  PROVE  /\ \A z \in Own(base \o <<x, y>>, u) : z \in Own(base, u) \/ z = n + 1 \/ z = n + 2
         /\ \A r : Spares(r, base, u) /\ n + 1 \notin Ids(r.prefix)
                     => Spares(r, base \o <<x, y>>, u)
<1> DEFINE t == base \o <<x, y>>
<1>1. /\ base \in Seq(Items) /\ x \in Items /\ y \in Items /\ u \in DOMAIN base
      /\ x.id = n + 1 /\ y.id = n + 2 /\ x.role = "assistant" /\ y.role = "tool"
      /\ DOMAIN base = 1..Len(base) /\ Len(base) \in Nat
  BY DEF Asks, Log, IsCall, Raw
<1>2. /\ DOMAIN t = 1..Len(base) + 2 /\ \A i \in DOMAIN base : t[i] = base[i]
      /\ t[Len(base) + 1] = x /\ t[Len(base) + 2] = y
      /\ \A i \in DOMAIN t : i \notin DOMAIN base => i = Len(base) + 1 \/ i = Len(base) + 2
  BY <1>1, TwoMore
<1> HIDE DEF t
<1>3. ASSUME NEW z \in Own(t, u) PROVE z \in Own(base, u) \/ z = n + 1 \/ z = n + 2
  <2>1. PICK i \in DOMAIN t : i >= u /\ z = t[i].id
    BY DEF Own
  <2>2. CASE i \in DOMAIN base
    <3>1. z = base[i].id
      BY <1>2, <2>1, <2>2
    <3> QED
      BY <2>1, <2>2, <3>1 DEF Own
  <2>3. CASE i \notin DOMAIN base
    BY <1>1, <1>2, <2>1, <2>3
  <2> QED
    BY <2>2, <2>3
<1>4. ASSUME NEW r, Spares(r, base, u), n + 1 \notin Ids(r.prefix) PROVE Spares(r, t, u)
  <2>1. r.keep = 0 => t[u].id \notin Ids(r.prefix)
    BY <1>1, <1>2, <1>4 DEF Spares
  <2>2. ASSUME NEW i \in DOMAIN t, IsStep(t, u, i) PROVE t[i].id \notin Ids(r.prefix)
    <3>1. Len(base) + 1 \in DOMAIN t /\ t[Len(base) + 1].role = "assistant"
      BY <1>1, <1>2
    <3>2. ~(Len(base) + 1 > i) /\ t[i].role = "assistant"
      BY <2>2, <3>1 DEF IsStep
    <3>3. i = Len(base) + 1 \/ i = Len(base) + 2
      BY <1>1, <1>2, <3>2
    <3>4. t[i] = x
      BY <1>1, <1>2, <3>2, <3>3
    <3> QED
      BY <1>1, <1>4, <3>4
  <2> QED
    BY <2>1, <2>2 DEF Spares
<1> QED
  BY <1>3, <1>4 DEF t

\* A call and its result are shown by what comes next.
LEMMA CallToolKeeps ==
  ASSUME TypeOK, NEW calls, Kept(calls), NEW c \in Chats, CallTool(c)
  PROVE  TypeOK' /\ \E more \in SUBSET Nat : Kept(more)'
<1> DEFINE x == Message("assistant", fresh + 1, 1)
           base == turn[c].base
           u == Start(c)
<1>23. PICK more : more = calls \cup {fresh + 1}
  OBVIOUS
<1>1. turn[c].pc = "call" /\ fresh' = fresh + 2 /\ UNCHANGED <<chat, folded, cut>>
  BY DEF CallTool
<1>24. PICK size \in Sizes, spilled \in BOOLEAN :
         \E y \in {IF spilled THEN Presented(Message("tool", fresh + 2, size))
                              ELSE Message("tool", fresh + 2, size)} :
           /\ IF spilled THEN UNCHANGED limit ELSE size >= Large /\ Spend("faults")
           /\ turn' = [turn EXCEPT ![c] = [turn[c] EXCEPT !.pc = "restore", !.base = @ \o <<x, y>>,
                         !.input = @ \o <<x, y>>, !.request = turn[c].input \o <<x, y>>]]
  BY DEF CallTool
<1>2. PICK y : /\ y = IF spilled THEN Presented(Message("tool", fresh + 2, size))
                                 ELSE Message("tool", fresh + 2, size)
               /\ IF spilled THEN UNCHANGED limit ELSE size >= Large /\ Spend("faults")
               /\ turn' = [turn EXCEPT ![c] = [turn[c] EXCEPT !.pc = "restore", !.base = @ \o <<x, y>>,
                             !.input = @ \o <<x, y>>, !.request = turn[c].input \o <<x, y>>]]
  BY <1>24
<1> DEFINE raw == Message("tool", fresh + 2, size)
           after == turn[c].base \o <<x, y>>
           shown == turn[c].input \o <<x, y>>
           t == [turn[c] EXCEPT !.pc = "restore", !.base = after, !.input = shown,
                                !.request = shown]
<1>3. /\ IF spilled THEN UNCHANGED limit ELSE Spend("faults")
      /\ turn' = [turn EXCEPT ![c] = t]
  <2> HIDE DEF x
  <2>1. IF spilled THEN UNCHANGED limit ELSE Spend("faults")
    <3>1. CASE spilled
      BY <1>2, <3>1
    <3>2. CASE ~spilled
      BY <1>2, <3>2
    <3> QED
      BY <3>1, <3>2
  <2>2. turn' = [turn EXCEPT ![c] = t]
    BY <1>2
  <2> QED
    BY <2>1, <2>2
<1>4. limit' \in Bounds
  BY <1>3, SpendType DEF TypeOK
<1>5. /\ turn[c] \in Turns /\ TurnOK(turn[c], u, fresh, calls) /\ OwnOK(c)
      /\ Asks(base, u, fresh, calls) /\ fresh \in Nat /\ calls \subseteq 1..fresh
      /\ base \in Seq(Items) /\ turn[c].input \in Seq(Items)
  BY <1>1, Busy DEF Turns
<1>6. IsCall(x, y, fresh)
  <2>1. /\ fresh + 2 \in Nat /\ fresh + 1 \in 1..fresh + 2 /\ fresh + 2 \in 1..fresh + 2
        /\ 1 \in Nat \ {0} /\ size \in Nat \ {0}
    BY <1>5, ContextSizes
  <2>2. /\ Raw(x, fresh + 2) /\ x.id = fresh + 1 /\ x.role = "assistant"
        /\ Raw(raw, fresh + 2) /\ raw.id = fresh + 2 /\ raw.role = "tool"
    BY <2>1, MessageIs
  <2> HIDE DEF x, raw
  <2>3. Raw(y, fresh + 2) /\ y.id = fresh + 2 /\ y.role = "tool"
    <3>1. CASE spilled
      BY <1>2, <2>1, <2>2, <3>1, PresentedIs DEF raw
    <3>2. CASE ~spilled
      BY <1>2, <2>2, <3>2 DEF raw
    <3> QED
      BY <3>1, <3>2
  <2> QED
    BY <2>2, <2>3 DEF IsCall
<1> HIDE DEF x
<1>7. x \in Items /\ y \in Items /\ x.id = fresh + 1 /\ y.id = fresh + 2
  BY <1>6 DEF IsCall, Raw
<1>8. Asks(after, u, fresh + 2, more)
  BY <1>5, <1>6, <1>23, AsksStep
<1>9. Showing(shown, after, u)
  <2>1. PICK j, k : Presents(base, u, fresh, calls, turn[c].input, j, k)
    BY <1>1, TurnPresents
  <2>2. Stands(turn[c].input) = Ids(base)
    BY <1>1, TurnPresents
  <2> QED
    BY <1>5, <1>6, <2>1, <2>2, StepShows
<1>10. after \in Seq(Items) /\ shown \in Seq(Items)
  BY <1>5, <1>7, TwoMore
<1>11. \A z \in Ids(after) : z \in Ids(base) \/ z = fresh + 1 \/ z = fresh + 2
  BY <1>5, <1>7, TwoMoreIds
<1>12. /\ \A z \in Own(after, u) : z \in Own(base, u) \/ z = fresh + 1 \/ z = fresh + 2
       /\ \A r : Spares(r, base, u) /\ fresh + 1 \notin Ids(r.prefix) => Spares(r, after, u)
  BY <1>5, <1>6, OwnStep
<1> HIDE DEF after, shown
<1>13. /\ t \in Turns /\ t.pc = "restore" /\ t.base = after
       /\ t.input = shown /\ t.request = shown
  BY <1>5, <1>10 DEF Turns
<1> HIDE DEF t
<1>14. /\ turn' \in [Chats -> Turns] /\ turn'[c] = t
       /\ \A d \in Chats \ {c} : turn'[d] = turn[d]
  BY <1>3, <1>13, Turned
<1>15. TypeOK'
  BY <1>1, <1>4, <1>5, <1>14 DEF TypeOK
<1>16. /\ fresh + 1 \in Nat /\ fresh + 2 \in Nat /\ fresh + 1 > fresh /\ fresh + 2 > fresh
       /\ fresh + 1 \in Nat \ 1..fresh /\ fresh + 2 \in Nat \ 1..fresh
  BY <1>5
<1>17. Moves(c)
  <2>1. Ids(after) \subseteq Known(c) /\ Ids(chat[c]) \subseteq Known(c)
    BY <1>11, <1>16 DEF Known
  <2> QED
    BY <1>1, <1>13, <1>14, <2>1 DEF Moves
<1>18. Later(fresh, calls, fresh', more)
  <2>1. /\ fresh + 2 \in Nat /\ fresh <= fresh + 2 /\ fresh + 1 \in 1..fresh + 2
        /\ 1..fresh \subseteq 1..fresh + 2 /\ fresh + 1 \notin 1..fresh
    BY <1>5
  <2>2. /\ calls \subseteq more /\ more \subseteq 1..fresh + 2 /\ more \cap 1..fresh \subseteq calls
    BY <1>5, <1>23, <2>1
  <2> QED
    BY <1>1, <1>5, <2>1, <2>2 DEF Later
<1>19. Start(c)' = u
  BY <1>1 DEF Start
<1> HIDE DEF base, u
<1>20. TurnOK(turn'[c], u, fresh', more)
  BY <1>1, <1>8, <1>9, <1>13, <1>14 DEF TurnOK
<1>21. OwnOK(c)'
  <2> DEFINE own == Own(after, u)
             old == Own(base, u)
  <2>1. Own(turn[c].base, Start(c))' = own
    BY <1>13, <1>14, <1>19
  <2>2. /\ \A d \in Chats : old \cap Ids(chat[d]) = {}
        /\ \A d \in Chats \ {c} : old \cap Ids(turn[d].base) = {}
        /\ \A r \in folded : old \cap Ids(r.prefix) = {}
        /\ \A r \in cut : Spares(r, base, u)
    BY <1>5 DEF OwnOK, base, u
  <2>3. \A z \in {fresh + 1, fresh + 2} :
          /\ \A d \in Chats : z \notin Ids(chat[d]) /\ z \notin Ids(turn[d].base)
          /\ \A r \in folded : z \notin Ids(r.prefix)
          /\ \A r \in cut : z \notin Ids(r.prefix)
    BY <1>16, NewIsOwn
  <2>4. \A z \in own : z \in old \/ z \in {fresh + 1, fresh + 2}
    BY <1>12
  <2> HIDE DEF own, old
  <2>5. \A d \in Chats : own \cap Ids(chat'[d]) = {}
    <3>1. \A d \in Chats : own \cap Ids(chat[d]) = {}
      BY <2>2, <2>3, <2>4
    <3> QED
      BY <1>1, <3>1
  <2>6. \A d \in Chats \ {c} : own \cap Ids(turn'[d].base) = {}
    <3>1. \A d \in Chats \ {c} : own \cap Ids(turn[d].base) = {}
      BY <2>2, <2>3, <2>4
    <3> QED
      BY <1>14, <3>1
  <2>7. \A r \in folded' : own \cap Ids(r.prefix) = {}
    <3>1. \A r \in folded : own \cap Ids(r.prefix) = {}
      BY <2>2, <2>3, <2>4
    <3> QED
      BY <1>1, <3>1
  <2>8. \A r \in cut' : Spares(r, after, u)
    <3>1. \A r \in cut : fresh + 1 \notin Ids(r.prefix)
      BY <2>3
    <3> QED
      BY <1>1, <1>12, <2>2, <3>1
  <2>9. turn'[c].base = after
    BY <1>13, <1>14
  <2> QED
    BY <1>19, <2>1, <2>5, <2>6, <2>7, <2>8, <2>9 DEF OwnOK
<1>22. Kept(more)'
  <2>1. Log(chat'[c], fresh', more)
    <3>1. Log(chat[c], fresh, calls)
      BY DEF Kept
    <3> QED
      BY <1>1, <1>18, <3>1, LogKeeps DEF Later
  <2>2. folded' = folded /\ cut' = cut /\ turn'[c].pc # "idle"
    BY <1>1, <1>13, <1>14
  <2> QED
    <3>1. /\ TurnOK(turn'[c], Start(c)', fresh', more)
          /\ \A r \in folded' : r \in folded \/ FoldOK(r, fresh', more)
          /\ \A r \in cut' : r \in cut \/ CutOK(r, fresh', more)
      BY <1>19, <1>20, <2>2
    <3> QED
      BY <1>17, <1>18, <1>21, <2>1, <2>2, <3>1, KeptBy
<1> QED
  BY <1>5, <1>15, <1>22, <1>23

-----------------------------------------------------------------------------
(* Theorems                                                                *)

\* There are no chats at first.
LEMMA InitKeeps == Init => TypeOK /\ Kept({})
<1> SUFFICES ASSUME Init PROVE TypeOK /\ Kept({})
  OBVIOUS
<1>1. /\ <<>> \in Seq(Items) /\ DOMAIN <<>> = {} /\ \A c \in Chats : chat[c] = <<>>
      /\ \A c \in Chats : turn[c] = Idle /\ fresh = 0 /\ folded = {} /\ cut = {}
  BY DEF Init
<1>2. TypeOK
  <2>1. limit \in Bounds
    BY ContextLimits DEF Init
  <2>2. Idle \in Turns
    BY IdleType
  <2> QED
    BY <2>1, <2>2 DEF Init, TypeOK
<1>3. \A c \in Chats : Log(chat[c], fresh, {})
  BY <1>1 DEF Log, Whole
<1>4. Kept({})
  BY <1>1, <1>3, IdleType DEF Kept, Init
<1> QED
  BY <1>2, <1>4

\* Nothing changes when nothing does.
LEMMA StutterKeeps ==
  ASSUME TypeOK, NEW calls, Kept(calls), UNCHANGED vars
  PROVE  TypeOK' /\ Kept(calls)'
<1>1. chat' = chat /\ turn' = turn /\ folded' = folded /\ cut' = cut /\ fresh' = fresh /\ limit' = limit
  BY DEF vars
<1>2. TypeOK'
  BY <1>1 DEF TypeOK
<1>3. \A c \in Chats : Start(c)' = Start(c) /\ (OwnOK(c) => OwnOK(c)')
  BY <1>1 DEF Start, OwnOK
<1> QED
  BY <1>1, <1>2, <1>3 DEF Kept

\* The invariant is inductive.
LEMMA NextKeeps == IInv /\ [Next]_vars => IInv'
<1> SUFFICES ASSUME TypeOK, NEW calls \in SUBSET Nat, Kept(calls), [Next]_vars PROVE IInv'
  BY DEF IInv
<1>1. ASSUME TypeOK' /\ Kept(calls)' PROVE IInv'
  BY <1>1 DEF IInv
<1>2. CASE UNCHANGED vars
  BY <1>1, <1>2, StutterKeeps
<1>3. ASSUME NEW c \in Chats, Ask(c) \/ Edit(c) \/ Stop(c) PROVE IInv'
  BY <1>1, <1>3, AskKeeps, EditKeeps, StopKeeps
<1>4. ASSUME NEW c \in Chats, NEW d \in Chats, Branch(c, d) PROVE IInv'
  BY <1>1, <1>4, BranchKeeps
<1>5. ASSUME NEW c \in Chats, Step(c) PROVE IInv'
  <2>1. CASE LoadHistory(c)
    BY <1>1, <2>1, LoadHistoryKeeps
  <2>2. CASE HistoryFits(c)
    BY <1>1, <2>2, HistoryFitsKeeps
  <2>3. CASE FoldHistory(c)
    BY <1>1, <2>3, FoldHistoryKeeps
  <2>4. CASE Restore(c)
    BY <1>1, <2>4, RestoreKeeps
  <2>5. CASE Send(c)
    BY <1>1, <2>5, SendKeeps
  <2>6. CASE CompactRequest(c)
    BY <1>1, <2>6, CompactRequestKeeps
  <2>7. CASE TooLarge(c)
    BY <1>1, <2>7, TooLargeKeeps
  <2>8. CASE Overflow(c)
    BY <1>1, <2>8, OverflowKeeps
  <2>9. CASE CallTool(c)
    BY <2>9, CallToolKeeps DEF IInv
  <2>10. CASE Answer(c)
    BY <1>1, <2>10, AnswerKeeps
  <2> QED
    BY <1>5, <2>1, <2>2, <2>3, <2>4, <2>5, <2>6, <2>7, <2>8, <2>9, <2>10 DEF Step
<1> QED
  BY <1>2, <1>3, <1>4, <1>5 DEF Next

\* It holds in every state.
LEMMA Invariant == Spec => []IInv
<1>1. Init => IInv
  BY InitKeeps DEF IInv
<1> QED
  BY <1>1, NextKeeps, PTL DEF Spec

\* The messages, turns and checkpoints of every chat are of their types: what a
\* checkpoint puts in the place of messages (restore(), load()) is there to be put.
THEOREM TypeCorrect == Spec => []TypeOK
<1>1. IInv => TypeOK
  BY DEF IInv
<1> QED
  BY <1>1, Invariant, PTL

\* What the model is shown stands for the chat as it is, and for nothing else, however
\* its chats are edited, branched and stopped, and whichever chat's checkpoints are
\* found (compactHistory(), RequestCheckpoints.restore(), compactRequest()).
THEOREM RequestsShowTheirChat == Spec => []ShowsThisChat
<1>1. IInv => ShowsThisChat
  <2> SUFFICES ASSUME TypeOK, NEW calls, Kept(calls), NEW c \in Chats, Calling(c)
               PROVE  Stands(turn[c].request) = Ids(turn[c].base)
    BY DEF IInv, ShowsThisChat
  <2> QED
    BY TurnPresents DEF Calling
<1> QED
  BY <1>1, Invariant, PTL

\* No compaction loses text while history files can be written: a message of the chat is
\* in the request, or in a file that it leads to (fitHistory(), compactRequest()).
THEOREM TextRemains ==
  ASSUME "archive" \notin Windows
  PROVE  Spec => []EvidenceRemains
<1>1. IInv => EvidenceRemains
  <2> SUFFICES ASSUME TypeOK, NEW calls, Kept(calls), NEW c \in Chats, Calling(c)
               PROVE  Ids(turn[c].base) \subseteq Readable(turn[c].request)
    BY DEF IInv, EvidenceRemains
  <2>1. PICK j, k : Presents(turn[c].base, Start(c), fresh, calls, turn[c].request, j, k)
    BY TurnPresents DEF Calling
  <2>2. Stands(turn[c].request) = Ids(turn[c].base)
    BY TurnPresents DEF Calling
  <2>3. \A i \in DOMAIN turn[c].request :
          Raw(turn[c].request[i], fresh) \/ Mark(turn[c].request[i])
    BY <2>1, ShownMessages
  <2>4. fresh \in Nat
    BY DEF TypeOK
  <2>5. Stands(turn[c].request) \subseteq Readable(turn[c].request)
    BY <2>3, <2>4, StandsAreReadable
  <2> QED
    BY <2>2, <2>5
<1> QED
  BY <1>1, Invariant, PTL

\* A message that is no question is shown when it is not before what is shown whole.
LEMMA ShownWhen ==
  ASSUME NEW base, NEW u, NEW n, NEW calls, NEW s, NEW j, NEW k,
         Presents(base, u, n, calls, s, j, k), NEW i \in DOMAIN base, base[i].role # "user"
  PROVE  base[i].id \in Ids(s) <=> i >= k
<1>1. base[i].id # 0 /\ i \in Nat /\ k \in Nat
  <2>1. Raw(base[i], n)
    BY DEF Presents, Asks, Log
  <2>2. base[i].id # 0
    BY <2>1 DEF Raw
  <2>3. i \in Nat /\ k \in Nat
    BY PresentsTypes
  <2> QED
    BY <2>2, <2>3
<1>2. ASSUME i >= k PROVE base[i].id \in Ids(s)
  <2>1. PICK x \in DOMAIN s : s[x] = base[i]
    BY <1>2, PlaceOf
  <2> QED
    BY <1>1, <2>1, MemberOfIds
<1>3. ASSUME base[i].id \in Ids(s) PROVE i >= k
  <2>1. PICK x \in DOMAIN s : s[x].id = base[i].id
    BY <1>3, MemberOfIds
  <2>2. i < k => base[i].role = "user"
    BY <2>1, IdPlace
  <2> QED
    BY <1>1, <2>2
<1> QED
  BY <1>2, <1>3

\* The latest message of a role.
LEMMA LatestIs ==
  ASSUME NEW s \in Seq(Items), NEW role
  PROVE  LET l == Last0(Roles(s, role))
         IN /\ l \in Nat
            /\ l > 0 => l \in Roles(s, role) /\ \A i \in Roles(s, role) : i <= l
<1> DEFINE S == Roles(s, role)
<1>1. S \subseteq 1..Len(s) /\ S \subseteq Nat /\ Len(s) \in Nat /\ \A i \in S : i <= Len(s)
  BY DEF Roles
<1> HIDE DEF S
<1>2. CASE S = {}
  BY <1>2 DEF Last0, S
<1>3. CASE S # {}
  <2>1. PICK m \in S : \A i \in S : i <= m
    BY <1>1, <1>3, GreatestNat
  <2>2. Last0(S) = m
    BY <1>1, <2>1, Last0Of
  <2> QED
    BY <1>1, <2>1, <2>2 DEF S
<1> QED
  BY <1>2, <1>3

\* The question is in the request with the latest step, a result with its call, and the
\* request within what its model takes, and smaller than what was rejected
\* (splitRequest(), recentHistoryStart(), restore(), fitWithRetry()).
THEOREM ExchangesStayWhole == Spec => []ExchangesAreWhole
<1>1. IInv => ExchangesAreWhole
  <2> SUFFICES ASSUME TypeOK, NEW calls, Kept(calls), NEW c \in Chats, Calling(c)
               PROVE  LET base == turn[c].base
                          shown == Ids(turn[c].request)
                          user == Last0(Roles(base, "user"))
                          step == Last0(Roles(base, "assistant"))
                      IN /\ base[user].id \in shown
                         /\ step > user => base[step].id \in shown
                         /\ \A i \in Roles(base, "tool") :
                              base[i].id \in shown <=> base[i - 1].id \in shown
                         /\ Size(turn[c].request) <= Ceiling
                         /\ turn[c].attempt > 0 => Size(turn[c].request) < turn[c].rejected
    BY DEF IInv, ExchangesAreWhole
  <2> DEFINE base == turn[c].base
             s == turn[c].request
             u == Start(c)
             step == Last0(Roles(base, "assistant"))
  <2>1. turn[c].pc = "call"
    BY DEF Calling
  <2>2. TurnOK(turn[c], u, fresh, calls) /\ turn[c] \in Turns
    BY <2>1, Busy
  <2>3. PICK j, k : Presents(base, u, fresh, calls, s, j, k)
    BY <2>1, TurnPresents
  <2>4. /\ Size(s) <= turn[c].target /\ turn[c].target <= Ceiling
        /\ turn[c].attempt # 0 => turn[c].target < turn[c].rejected
    BY <2>1, <2>2 DEF TurnOK
  <2>5. turn[c].target \in Nat /\ turn[c].rejected \in Nat /\ turn[c].attempt \in 0..3
    BY <2>2 DEF Turns
  <2>6. Size(s) \in Nat /\ Ceiling \in Nat
    <3>1. Total[s] \in Nat
      BY <2>3, RequestIsPositive
    <3> QED
      BY <3>1, ContextSizes DEF Size
  <2>7. Size(s) <= Ceiling /\ (turn[c].attempt > 0 => Size(s) < turn[c].rejected)
    BY <2>4, <2>5, <2>6
  <2> HIDE DEF base, s, u
  <2>8. /\ base \in Seq(Items) /\ DOMAIN base = 1..Len(base) /\ Len(base) \in Nat
        /\ u \in DOMAIN base /\ u \in Nat /\ k \in Nat
        /\ base[u].role = "user" /\ \A i \in DOMAIN base : i > u => base[i].role # "user"
        /\ Whole(base, calls) /\ \A i \in DOMAIN base : base[i].id # 0
    <3>1. /\ base \in Seq(Items) /\ DOMAIN base = 1..Len(base) /\ Len(base) \in Nat
          /\ u \in DOMAIN base /\ u \in Nat /\ k \in Nat
      BY <2>3, PresentsTypes
    <3>2. Asks(base, u, fresh, calls)
      BY <2>3 DEF Presents
    <3>3. \A i \in DOMAIN base : Raw(base[i], fresh)
      BY <3>2 DEF Asks, Log
    <3>4. \A i \in DOMAIN base : base[i].id # 0
      BY <3>3 DEF Raw
    <3> QED
      BY <3>1, <3>2, <3>4 DEF Asks, Log
  <2>9. Last0(Roles(base, "user")) = u
    <3> DEFINE S == Roles(base, "user")
    <3>1. S \subseteq Nat /\ u \in S /\ \A i \in S : i <= u
      BY <2>8 DEF Roles
    <3> HIDE DEF S
    <3>2. Last0(S) = u
      BY <3>1, Last0Of
    <3> QED
      BY <3>2 DEF S
  <2>10. base[u].id \in Ids(s)
    <3>1. Place(u, j, k) \in DOMAIN s /\ s[Place(u, j, k)] = base[u]
      BY <2>3, QuestionPlace
    <3> QED
      BY <2>8, <3>1, MemberOfIds
  <2>11. ASSUME step > u PROVE base[step].id \in Ids(s)
    <3>1. /\ step \in Nat
          /\ step > 0 => step \in Roles(base, "assistant")
                         /\ \A i \in Roles(base, "assistant") : i <= step
      BY <2>8, LatestIs
    <3> HIDE DEF step
    <3>2. /\ step \in DOMAIN base /\ base[step].role = "assistant"
          /\ \A i \in Roles(base, "assistant") : i <= step
      BY <2>8, <2>11, <3>1 DEF Roles
    <3>3. \A i \in DOMAIN base : i > step => base[i].role # "assistant"
      BY <2>8, <3>1, <3>2 DEF Roles
    <3>4. IsStep(base, u, step)
      BY <2>11, <3>2, <3>3 DEF IsStep
    <3>5. step >= k
      BY <2>3, <3>2, <3>4 DEF Presents, Shown
    <3> QED
      BY <2>3, <3>2, <3>5, ShownWhen
  <2>12. ASSUME NEW i \in Roles(base, "tool")
         PROVE  base[i].id \in Ids(s) <=> base[i - 1].id \in Ids(s)
    <3>1. i \in DOMAIN base /\ base[i].role = "tool"
      BY DEF Roles
    <3>2. i > 1 /\ base[i - 1].id \in calls
      BY <2>8, <3>1 DEF Whole
    <3>3. PICK l \in DOMAIN base : l = i - 1
      BY <2>8, <3>1, <3>2
    <3>4. base[l].role = "assistant" /\ base[l].id \in calls
      BY <2>8, <3>2, <3>3 DEF Whole
    <3>5. /\ base[i].id \in Ids(s) <=> i >= k
          /\ base[l].id \in Ids(s) <=> l >= k
      BY <2>3, <3>1, <3>4, ShownWhen
    <3>6. i # k
      BY <2>3, <3>1 DEF Presents, Shown
    <3>7. i >= k <=> l >= k
      BY <2>8, <3>1, <3>3, <3>6
    <3> QED
      BY <3>3, <3>5, <3>7
  <2> QED
    BY <2>7, <2>9, <2>10, <2>11, <2>12 DEF base, s, u
<1> QED
  BY <1>1, Invariant, PTL
=============================================================================
